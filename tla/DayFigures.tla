------------------------------ MODULE DayFigures ------------------------------
(***************************************************************************)
(* What the web client makes of the clock: which class comes first, what   *)
(* phase a class is in, how long there is left.  Times are minutes of a    *)
(* day of DayLength of them, days Monday = 0 to Sunday = 6.                *)
(***************************************************************************)
EXTENDS Integers, Sequences, FiniteSets

Clamp(x, low, high) == IF x < low THEN low ELSE IF x > high THEN high ELSE x

(* The earliest of a list by a pair of numbers, the first of equals: the   *)
(* head of a stable sort.                                                  *)
Before(p, q) == p[1] < q[1] \/ (p[1] = q[1] /\ p[2] < q[2])
HeadBy(list, Key(_)) ==
    list[CHOOSE i \in DOMAIN list :
            \A j \in DOMAIN list :
                /\ ~Before(Key(list[j]), Key(list[i]))
                /\ j < i => Before(Key(list[i]), Key(list[j]))]

-----------------------------------------------------------------------------
(* The class a teacher's page opens on. *)

Today(list, now) == SelectSeq(list, LAMBDA s : s.day = now.day)
Live(s, now) == s.start <= now.time /\ s.end >= now.time

PickFeatured(list, now) ==
    LET today == Today(list, now)
        live == SelectSeq(today, LAMBDA s : Live(s, now))
        next == SelectSeq(today, LAMBDA s : s.start > now.time)
        Start(s) == <<s.start, 0>>
        Wheel(s) == LET away == (s.day - now.day + 7) % 7
                    IN  <<IF away = 0 THEN 7 ELSE away, s.start>>
    IN  IF live # << >> THEN HeadBy(live, Start)
        ELSE IF next # << >> THEN HeadBy(next, Start)
        ELSE HeadBy(list, Wheel)

(* The start page of the office: the week as a wheel that begins today.    *)
FirstOfWeek(list, now) ==
    HeadBy(list, LAMBDA s : <<(s.day - now.day + 7) % 7, s.start>>)

DayLength == 5
Slots == {s \in [day : {0, 2, 6}, start : 0..3, end : 1..4] : s.start < s.end}
Nows == [day : {0, 2, 5}, time : 0..4]

(* How long until a class is under way, from now: nothing if it is. *)
Wait(s, now) ==
    IF s.day = now.day /\ Live(s, now) THEN 0
    ELSE LET ahead == ((s.day - now.day + 7) % 7) * DayLength + s.start - now.time
         IN  IF ahead > 0 THEN ahead ELSE ahead + 7 * DayLength

(* Nothing else of the timetable comes sooner than what the page opens on, *)
(* round the end of the day and of the week.                               *)
ASSUME FeaturedIsNext ==
    \A a \in Slots : \A b \in Slots : \A now \in Nows :
        LET first == PickFeatured(<<a, b>>, now)
        IN  Wait(first, now) <= Wait(a, now) /\ Wait(first, now) <= Wait(b, now)

(* The list of the office says the same, unless a class of today began     *)
(* already: that one it keeps at the head until midnight.                  *)
ASSUME WeekOpensAlike ==
    \A a \in Slots : \A b \in Slots : \A now \in Nows :
        LET first == FirstOfWeek(<<a, b>>, now)
        IN  Wait(first, now) = Wait(PickFeatured(<<a, b>>, now), now)
            \/ (first.day = now.day /\ first.start <= now.time)

-----------------------------------------------------------------------------
(* A class within its day: lib/agenda.ts. *)

PhaseOf(entry, now) ==
    IF entry.cancelled \/ entry.register_closed THEN "done"
    ELSE IF now >= entry.start /\ now <= entry.end THEN "live"
    ELSE IF now > entry.end THEN "open" ELSE "next"

(* In hundredths, of the minutes gone by. *)
ElapsedPct(entry, now) ==
    IF entry.end <= entry.start THEN 0
    ELSE Clamp((100 * (now - entry.start)) \div (entry.end - entry.start), 0, 100)

Entries == {e \in [start : 0..4, end : 0..4, cancelled : BOOLEAN, register_closed : BOOLEAN] :
                e.start < e.end}
PhaseOrder == [next |-> 0, live |-> 1, open |-> 2]

(* As time goes by a class with its register open goes through its phases  *)
(* in order, its bar starts empty, ends full and never goes back.          *)
ASSUME PhasesInOrder ==
    \A e \in Entries : \A t \in 0..5 :
        ~(e.cancelled \/ e.register_closed) =>
            /\ PhaseOrder[PhaseOf(e, t)] <= PhaseOrder[PhaseOf(e, t + 1)]
            /\ ElapsedPct(e, t) <= ElapsedPct(e, t + 1)
            /\ PhaseOf(e, t) = "next" => ElapsedPct(e, t) = 0
            /\ PhaseOf(e, t) = "open" => ElapsedPct(e, t) = 100

(* Hours between two classes, rounded half up; too short a gap has none.   *)
GapHours(minutes) ==
    IF minutes < 45 THEN 0
    ELSE LET hours == (minutes + 30) \div 60 IN IF hours <= 1 THEN 1 ELSE hours

(* The hours named are never more than half an hour off. *)
ASSUME GapsAreClose ==
    \A minutes \in 45..600 : 60 * GapHours(minutes) - minutes \in -29..30

(* The length of a class as its form shows it; nothing for one that ends before it begins. *)
DurationText(start, end) ==
    IF end <= start THEN << >> ELSE <<(end - start) \div 60, (end - start) % 60>>

-----------------------------------------------------------------------------
(* The week plans a course may be given: lib/jornadas.ts. *)

Preset(category, hours, days, start, end) ==
    [category |-> category, durationHours |-> hours,
     slots |-> {[day |-> d, start |-> start, end |-> end] : d \in days}]

JornadaPresets ==
    {Preset("semana", 1, 0..4, h, h + 1) : h \in {8, 10, 14, 18}}
    \cup UNION {{Preset("sabado", 4, {5}, 8, 12), Preset("sabado", 6, {5}, 8, 14),
                 Preset("sabado", 4, {5}, 13, 17), Preset("sabado", 6, {5}, 13, 19)},
                {Preset("domingo", 4, {6}, 8, 12), Preset("domingo", 6, {6}, 8, 14),
                 Preset("domingo", 4, {6}, 13, 17), Preset("domingo", 6, {6}, 13, 19)}}

(* Every class of a plan lasts what the plan says, and a plan never asks   *)
(* a group to be in two classes at a time.                                 *)
ASSUME PlansFit ==
    \A p \in JornadaPresets : \A s \in p.slots : \A r \in p.slots :
        s.end - s.start = p.durationHours /\ (s # r => s.day # r.day)

-----------------------------------------------------------------------------
(* How near a task's end is, in hours: the badge of AssignmentsPanel. *)

DeadlineBadge(hours) ==
    CASE hours < 0 -> <<"late", 0>>
      [] hours >= 0 /\ hours <= 24 -> <<"today", 1>>
      [] hours > 24 /\ hours <= 72 -> <<"days", (hours + 23) \div 24>>
      [] hours > 72 -> <<"in time", 4>>

(* As the end draws near the badge only ever gets more pressing, and the   *)
(* days it names are enough.                                               *)
ASSUME BadgesPress ==
    \A h \in -5..100 :
        /\ DeadlineBadge(h)[2] <= DeadlineBadge(h + 1)[2]
        /\ DeadlineBadge(h)[1] = "days" => 24 * DeadlineBadge(h)[2] >= h

(* The first line of the student's page: under way, in minutes, or a day.  *)
(* Minutes to the start, and the time of day it is.                        *)
Midnights(start, now) == (start \div 1440) - (now \div 1440)
NextClassLine(start, now) ==
    IF start <= now THEN <<"live", 0>>
    ELSE IF start - now < 60 THEN <<"minutes", start - now>>
    ELSE LET days == Midnights(start, now)
         IN  CASE days <= 0 -> <<"today", 0>>
               [] days = 1 -> <<"tomorrow", 1>>
               [] days \in 2..6 -> <<"weekday", days>>
               [] days > 6 -> <<"date", days>>

(* A day of the week is named only when it cannot be mistaken for the same *)
(* day of the week after.                                                  *)
ASSUME DaysAreUnambiguous ==
    \A now \in {0, 600, 1439} : \A q \in 1..200 :
        LET start == now + 60 * q
            line == NextClassLine(start, now)
        IN  line[1] = "weekday" =>
              /\ (start \div 1440) % 7 # (now \div 1440) % 7
              /\ start \div 1440 - now \div 1440 < 7
=============================================================================
