------------------------------ MODULE Classroom -----------------------------
(***************************************************************************)
(* Class sessions, their attendance registers, and the passes with which a *)
(* student recovers an excused absence in a class of another group.        *)
(*                                                                         *)
(* A handler reads without locks, and writes, when it commits, only the    *)
(* columns whose value it changed: what it read and leaves alone keeps     *)
(* whatever was committed meanwhile.  Two rows are locked before a check:  *)
(* a mark, by the INSERT ... ON CONFLICT that writes it, and a session,    *)
(* by the SELECT FOR UPDATE of a booking.                                  *)
(***************************************************************************)
EXTENDS Naturals, Sequences, FiniteSets

CONSTANTS
    Matriculas,    \* matriculas that hold a seat, all of one level and academy
    Home,          \* Home[m]: the course of matricula m
    Sessions,      \* class sessions that ever exist
    Timetabled,    \* those that exist from the start
    CourseAt,      \* CourseAt[x]: the course of session x
    Date,          \* Date[x]: the day of session x
    LastDay,       \* bound: the last day of the calendar
    MaxStudents,   \* MaxStudents[c]: capacity of course c
    Passes,        \* make-up credits that are ever issued
    Validity,      \* days that a pass is valid
    Patched,       \* bound: the statuses that a PATCH of a session sets
    BatchSize,     \* bound: items of one bulk request
    Requests,      \* concurrent requests
    Endpoints,     \* the endpoints in play
    Nobody         \* no request, session, pass or matricula

Courses == DOMAIN MaxStudents

ASSUME ClassroomAssumption ==
    /\ Home \in [Matriculas -> Courses]
    /\ Timetabled \subseteq Sessions
    /\ CourseAt \in [Sessions -> Courses]
    /\ Date \in [Sessions -> Nat]
    /\ Patched \subseteq {"scheduled", "held", "cancelled"}
    /\ LastDay \in Nat /\ Validity \in Nat /\ BatchSize \in Nat
    /\ MaxStudents \in [Courses -> Nat]
    /\ IsFiniteSet(Matriculas) /\ IsFiniteSet(Passes)
    /\ Nobody \notin Matriculas \cup Sessions \cup Passes \cup Requests

VARIABLES
    session,       \* session[x]: committed status of x, and whether its register is closed
    mark,          \* mark[x][m]: committed mark of m in x, "none" when there is no row
    pass,          \* pass[p]: committed row of pass p
    today,         \* the academy's calendar
    markLock,      \* markLock[x][m]: the request whose upsert holds that mark
    sessionLock,   \* sessionLock[x]: the request that holds FOR UPDATE on x
    tx,            \* tx[r]: the request in flight in slot r
    contested      \* passes that two requests have handled at the same time

tables == <<session, mark, pass>>
locks == <<markLock, sessionLock>>
vars == <<tables, today, locks, tx, contested>>

SessionStatus == {"scheduled", "held", "cancelled"}
MakeUpStatus == {"available", "booked", "attended", "expired", "cancelled"}
Marks == {"present", "excused"}    \* "absent" and "late" are as "present" here

SessionRows == [status : SessionStatus \cup {"unborn"}, closed : BOOLEAN]

PassRows == [status : MakeUpStatus \cup {"unborn"}, of : Matriculas \cup {Nobody},
             origin : Sessions \cup {Nobody}, target : Sessions \cup {Nobody}, expires : Nat,
             by : {"none", "mark", "bulk", "hand"}]

NoPass == [status |-> "unborn", of |-> Nobody, origin |-> Nobody, target |-> Nobody,
           expires |-> 0, by |-> "none"]

NoMarks == [m \in Matriculas |-> "none"]

MarkRows == [Matriculas -> Marks \cup {"none"}]

\* `seen` and `was` are the status and the class read; `to` and `aim` those to be
\* written; `known` the marks read, `writes` those to be written, `issues` the
\* passes that come with them and their last day; `due` the passes that a list
\* found out of date, with the class read.
Work == {"none", "session", "marks", "bulk", "unmark", "pass", "list"}
Points == {"idle", "items", "lock", "commit"}
Statuses == SessionStatus \cup MakeUpStatus \cup {"none"}
Items == Seq(Matriculas \X Marks)
Issues == SUBSET (Passes \X Matriculas \X Nat)
DuePasses == SUBSET (Passes \X (Sessions \cup {Nobody}))

Transactions ==
    [op : Work, at : Points, x : Sessions \cup {Nobody}, p : Passes \cup {Nobody},
     moved : Sessions \cup {Nobody}, seen : Statuses, to : Statuses,
     was : Sessions \cup {Nobody}, aim : Sessions \cup {Nobody},
     register : {"keep", "close", "reopen"},
     items : Items, known : MarkRows, writes : MarkRows, issues : Issues, due : DuePasses]

NoTx == [op |-> "none", at |-> "idle", x |-> Nobody, p |-> Nobody, moved |-> Nobody,
         seen |-> "none", to |-> "none", was |-> Nobody, aim |-> Nobody, register |-> "keep",
         items |-> <<>>, known |-> NoMarks, writes |-> NoMarks, issues |-> {}, due |-> {}]

-----------------------------------------------------------------------------
(* What the handlers read.                                                 *)

Exists(x) == session[x].status # "unborn"

Enrolled(c) == {m \in Matriculas : Home[m] = c}

Issued(p) == pass[p].status # "unborn"

\* A pass whose number no request has drawn.
Fresh(p) == ~Issued(p) /\ \A r \in Requests : \A issue \in tx[r].issues : issue[1] # p

Booked(x) == {p \in Passes : pass[p].status = "booked" /\ pass[p].target = x}

Due(p) == pass[p].status \in {"available", "booked"} /\ pass[p].expires < today

\* An attribute that was assigned the value it had is not part of the UPDATE.
Column(read, new, current) == IF new = read THEN current ELSE new

\* Mutant: the class is given the status of a visitor.
HeldAsVisited(status) == IF status = "scheduled" THEN "attended" ELSE status

\* mark_held(): a class in which somebody was marked took place.
Held(status) == IF status = "scheduled" THEN "held" ELSE status

\* A register that takes marks.
TakesMarks(x) == session[x].status \in {"scheduled", "held"} /\ ~session[x].closed

\* roster_coverage(): everybody who holds a seat has a mark.
Covered(x) == \A m \in Enrolled(CourseAt[x]) : mark[x][m] # "none"

-----------------------------------------------------------------------------
(* Requests and their transactions.                                        *)

Free(lock, r) == lock \in {Nobody, r}

Begin(r, endpoint, t) ==
    /\ tx[r] = NoTx
    /\ endpoint \in Endpoints
    /\ tx' = [tx EXCEPT ![r] = t]
    /\ UNCHANGED <<tables, today, locks>>

End(r) ==
    /\ tx' = [tx EXCEPT ![r] = NoTx]
    /\ markLock' = [x \in Sessions |-> [m \in Matriculas |->
                        IF markLock[x][m] = r THEN Nobody ELSE markLock[x][m]]]
    /\ sessionLock' = [x \in Sessions |-> IF sessionLock[x] = r THEN Nobody ELSE sessionLock[x]]

Rollback(r) == End(r) /\ UNCHANGED <<tables, today>>

Fail(r) == tx[r] # NoTx /\ Rollback(r)

-----------------------------------------------------------------------------
(* Sessions.                                                               *)

ensure_session(x) ==
    /\ "ensure_session" \in Endpoints
    /\ ~Exists(x)
    /\ session' = [session EXCEPT ![x].status = "scheduled"]
    /\ UNCHANGED <<mark, pass, today, locks, tx>>

\* What a handler starts from when it has read session x and gives it a status.
Setting(x, to) == [NoTx EXCEPT !.op = "session", !.at = "commit", !.x = x,
                               !.seen = session[x].status, !.to = to]

cancel(r) == \E x \in Sessions : Exists(x) /\ Begin(r, "cancel", Setting(x, "cancelled"))

reschedule(r) ==
    \E x, new \in Sessions :
        /\ Exists(x)
        /\ ~Exists(new) /\ CourseAt[new] = CourseAt[x] /\ today <= Date[new]
        /\ Begin(r, "reschedule", [Setting(x, "cancelled") EXCEPT !.moved = new])

update_session(r) ==
    \E x \in Sessions, to \in Patched :
        Exists(x) /\ Begin(r, "update_session", Setting(x, to))

close_register(r) ==
    \E x \in Sessions, force \in BOOLEAN :
        /\ session[x].status \in {"scheduled", "held"}
        /\ force \/ Covered(x)
        /\ Begin(r, "close_register",
                 [Setting(x, Held(session[x].status)) EXCEPT !.register = "close"])

reopen_register(r) ==
    \E x \in Sessions :
        /\ Exists(x)
        /\ session[x].closed
        /\ Begin(r, "reopen_register",
                 [Setting(x, session[x].status) EXCEPT !.register = "reopen"])

\* An UPDATE of the session's row waits for the booking that holds it.
WaitsForRow(t) == t.seen # t.to \/ t.register # "keep"

\* A class moved to a day that was taken meanwhile meets the unique constraint.
CommitSession(r) ==
    LET t == tx[r]
        written == [session EXCEPT ![t.x] =
                      [status |-> Column(t.seen, t.to, @.status),
                       closed |-> IF t.register = "keep" THEN @.closed ELSE t.register = "close"]]
    IN
    /\ t.op = "session"
    /\ WaitsForRow(t) => Free(sessionLock[t.x], r)
    /\ \/ /\ t.moved = Nobody
          /\ session' = written
       \/ /\ t.moved # Nobody /\ ~Exists(t.moved)
          /\ session' = [written EXCEPT ![t.moved] = [status |-> "scheduled", closed |-> FALSE]]
    /\ End(r)
    /\ UNCHANGED <<mark, pass, today>>

-----------------------------------------------------------------------------
(* Marks.                                                                  *)

\* What a handler starts from when it takes the marks of session x.
Taking(op, x, items) == [NoTx EXCEPT !.op = op, !.at = "items", !.x = x, !.items = items,
                                     !.seen = session[x].status, !.to = Held(session[x].status)]

\* Mutant: taking attendance says nothing of the class.
NeverHeld(r) ==
    \E x \in Sessions, m \in Matriculas, to \in Marks :
        /\ TakesMarks(x)
        /\ Home[m] = CourseAt[x]
        /\ Begin(r, "create_attendance",
                 [Taking("marks", x, <<<<m, to>>>>) EXCEPT !.to = session[x].status])

create_attendance(r) ==
    \E x \in Sessions, m \in Matriculas, to \in Marks :
        /\ TakesMarks(x)
        /\ Home[m] = CourseAt[x]
        /\ Begin(r, "create_attendance", Taking("marks", x, <<<<m, to>>>>))

\* The items may name a matricula twice.
bulk_attendance(r) ==
    \E x \in Sessions, n \in 1..BatchSize :
      \E items \in [1..n -> Enrolled(CourseAt[x]) \X Marks] :
        /\ TakesMarks(x)
        /\ Begin(r, "bulk_attendance", [Taking("bulk", x, items) EXCEPT !.known = mark[x]])

\* The upsert takes its row and keeps it to the commit; a mark that bulk_attendance
\* knew of waits in the session instead, and nothing is locked.
TakesRow(r, m) == tx[r].known[m] = "none"

\* An excused absence without a committed pass gets one.
NeedsPass(m, x) == \A p \in Passes : ~(Issued(p) /\ pass[p].of = m /\ pass[p].origin = x)

\* Mutant: the pass is looked for before the mark is written.
AnyRow(lock, r) == TRUE

RowFree(lock, r) == Free(lock, r)

MarkItem(r) ==
    LET t == tx[r]
        m == Head(t.items)[1]
        to == Head(t.items)[2]
        done == [t EXCEPT !.items = Tail(@), !.writes[m] = to]
    IN
    /\ t.at = "items"
    /\ t.items # <<>>
    /\ \/ ~TakesRow(r, m) /\ UNCHANGED markLock
       \/ TakesRow(r, m) /\ RowFree(markLock[t.x][m], r) /\ markLock' = [markLock EXCEPT ![t.x][m] = r]
    /\ \/ /\ to = "excused" /\ NeedsPass(m, t.x)
          /\ \E p \in Passes :
                /\ Fresh(p)
                /\ tx' = [tx EXCEPT ![r] = [done EXCEPT !.issues = @ \cup {<<p, m, today + Validity>>}]]
       \/ /\ ~(to = "excused" /\ NeedsPass(m, t.x))
          /\ tx' = [tx EXCEPT ![r] = done]
    /\ UNCHANGED <<tables, today, sessionLock>>

\* The register may be closed: only new marks ask.
update_attendance(r) ==
    \E x \in Sessions, m \in Matriculas, to \in Marks :
        /\ mark[x][m] # "none"
        /\ Begin(r, "update_attendance", [NoTx EXCEPT !.op = "marks", !.at = "items", !.x = x,
                                 !.known = [NoMarks EXCEPT ![m] = mark[x][m]],
                                 !.writes = [NoMarks EXCEPT ![m] = to]])

\* The marks that the UPDATE statements of the commit touch.
Rewritten(t) == {m \in Matriculas : /\ t.writes[m] # "none" /\ t.known[m] # "none"
                                    /\ t.writes[m] # t.known[m]}

\* An UPDATE of a mark that was deleted fails the request.
CommitMarks(r) ==
    LET t == tx[r]
        upserted == {m \in Matriculas : t.writes[m] # "none" /\ t.known[m] = "none"}
        by == IF t.op = "bulk" THEN "bulk" ELSE "mark"
    IN
    /\ t.at = "items"
    /\ t.items = <<>>
    /\ \A m \in Rewritten(t) : Free(markLock[t.x][m], r) /\ mark[t.x][m] # "none"
    /\ WaitsForRow(t) => Free(sessionLock[t.x], r)
    /\ mark' = [mark EXCEPT ![t.x] = [m \in Matriculas |->
                    IF m \in upserted \cup Rewritten(t) THEN t.writes[m] ELSE @[m]]]
    /\ session' = [session EXCEPT ![t.x].status = Column(t.seen, t.to, @)]
    /\ pass' = [p \in Passes |->
                  IF \E issue \in t.issues : issue[1] = p
                  THEN LET issue == CHOOSE i \in t.issues : i[1] = p IN
                       [status |-> "available", target |-> Nobody, expires |-> issue[3],
                        of |-> issue[2], origin |-> t.x, by |-> by]
                  ELSE pass[p]]
    /\ End(r)
    /\ UNCHANGED today

delete_attendance(r) ==
    \E x \in Sessions, m \in Matriculas :
        /\ mark[x][m] # "none"
        /\ Begin(r, "delete_attendance", [NoTx EXCEPT !.op = "unmark", !.at = "commit", !.x = x,
                                 !.known = [NoMarks EXCEPT ![m] = mark[x][m]]])

CommitDeleteMark(r) ==
    LET gone == {m \in Matriculas : tx[r].known[m] # "none"} IN
    /\ tx[r].op = "unmark"
    /\ \A m \in gone : Free(markLock[tx[r].x][m], r)
    /\ mark' = [mark EXCEPT ![tx[r].x] = [m \in Matriculas |-> IF m \in gone THEN "none" ELSE @[m]]]
    /\ End(r)
    /\ UNCHANGED <<session, pass, today>>

-----------------------------------------------------------------------------
(* Passes.                                                                 *)

\* By hand, with or without the class that was missed, valid for as long as wanted.
create_makeup_credit ==
    \E p \in Passes, m \in Matriculas, origin \in Sessions \cup {Nobody}, d \in 0..Validity :
        /\ "create_makeup_credit" \in Endpoints
        /\ Fresh(p)
        /\ origin # Nobody => Exists(origin) /\ CourseAt[origin] = Home[m]
        /\ pass' = [pass EXCEPT ![p] = [status |-> "available", of |-> m, origin |-> origin,
                                        target |-> Nobody, expires |-> today + d, by |-> "hand"]]
        /\ UNCHANGED <<session, mark, today, locks, tx>>

\* What a handler starts from when it has read pass p.
Reading(p) == [NoTx EXCEPT !.op = "pass", !.at = "commit", !.p = p,
                           !.seen = pass[p].status, !.was = pass[p].target]

\* A pass found out of date is saved as such, and the booking refused.
book_candidate_session(r) ==
    \E p \in Passes, x \in Sessions :
        /\ pass[p].status \in {"available", "booked"}
        /\ \/ /\ Due(p)
              /\ Begin(r, "book_candidate_session", [Reading(p) EXCEPT !.to = "expired"])
           \/ /\ ~Due(p)
              /\ Begin(r, "book_candidate_session", [Reading(p) EXCEPT
                             !.at = "lock", !.x = x, !.to = "booked", !.aim = x])

\* Mutant: the class is read without FOR UPDATE.
Shared(lock, r) == TRUE

LockFree(lock, r) == Free(lock, r)

Takes(x) == session[x].status \notin {"unborn", "cancelled"}

\* Mutant: the last day of the pass is forgotten.
NotPast(x, p) == today <= Date[x]

InDate(x, p) == today <= Date[x] /\ Date[x] <= pass[p].expires

\* _seat_counts(), less the place that this very pass was seen to hold here.
Occupied(t) ==
    LET own == IF t.seen = "booked" /\ t.was = t.x THEN 1 ELSE 0 IN
    (Cardinality(Enrolled(CourseAt[t.x])) + Cardinality(Booked(t.x))) - own

LockTarget(r) ==
    LET t == tx[r] IN
    /\ t.at = "lock"
    /\ LockFree(sessionLock[t.x], r)
    /\ \/ /\ Takes(t.x)
          /\ InDate(t.x, t.p)
          /\ Occupied(t) < MaxStudents[CourseAt[t.x]]
          /\ sessionLock' = [sessionLock EXCEPT ![t.x] = r]
          /\ tx' = [tx EXCEPT ![r].at = "commit"]
          /\ UNCHANGED <<tables, today, markLock>>
       \/ /\ ~(Takes(t.x) /\ InDate(t.x, t.p) /\ Occupied(t) < MaxStudents[CourseAt[t.x]])
          /\ Rollback(r)

\* Mutant: whatever the status of the pass.
AnyRelease(r) ==
    \E p \in Passes :
        /\ Issued(p)
        /\ Begin(r, "cancel_makeup_booking", [Reading(p) EXCEPT
                       !.to = IF pass[p].expires < today THEN "expired" ELSE "available"])

cancel_makeup_booking(r) ==
    \E p \in Passes :
        /\ pass[p].status = "booked"
        /\ Begin(r, "cancel_makeup_booking", [Reading(p) EXCEPT
                       !.to = IF pass[p].expires < today THEN "expired" ELSE "available"])

\* The class may have been cancelled, and the mark may be corrected.
mark_makeup_visitor(r) ==
    \E p \in Passes, to \in {"attended", "cancelled"} :
        /\ pass[p].target # Nobody
        /\ ~session[pass[p].target].closed
        /\ pass[p].status \in {"booked", "attended"}
        /\ Begin(r, "mark_makeup_visitor", [Reading(p) EXCEPT !.to = to, !.aim = pass[p].target])

\* list_makeups() of the passes that the caller may see, get_candidate_sessions()
\* of one, and the daily expire-makeups of all.
list_makeups(r) ==
    \E P \in SUBSET {p \in Passes : Due(p)} :
        /\ P # {}
        /\ Begin(r, "list_makeups", [NoTx EXCEPT !.op = "list", !.at = "commit",
                                 !.due = {<<p, pass[p].target>> : p \in P}])

CommitPass(r) ==
    LET t == tx[r] IN
    /\ t.op = "pass"
    /\ t.at = "commit"
    /\ pass' = [pass EXCEPT ![t.p].status = Column(t.seen, t.to, @),
                            ![t.p].target = Column(t.was, t.aim, @)]
    /\ End(r)
    /\ UNCHANGED <<session, mark, today>>

CommitExpiry(r) ==
    LET read(p) == {was \in Sessions \cup {Nobody} : <<p, was>> \in tx[r].due} IN
    /\ tx[r].op = "list"
    /\ pass' = [p \in Passes |->
                  IF read(p) = {} THEN pass[p]
                  ELSE [pass[p] EXCEPT !.status = "expired",
                                       !.target = IF read(p) = {Nobody} THEN @ ELSE Nobody]]
    /\ End(r)
    /\ UNCHANGED <<session, mark, today>>

-----------------------------------------------------------------------------
(* The system.                                                             *)

Tick ==
    /\ today < LastDay
    /\ today' = today + 1
    /\ UNCHANGED <<tables, locks, tx>>

Init ==
    /\ session = [x \in Sessions |-> [status |-> IF x \in Timetabled THEN "scheduled" ELSE "unborn",
                                      closed |-> FALSE]]
    /\ mark = [x \in Sessions |-> NoMarks]
    /\ pass = [p \in Passes |-> NoPass]
    /\ today = 0
    /\ markLock = [x \in Sessions |-> [m \in Matriculas |-> Nobody]]
    /\ sessionLock = [x \in Sessions |-> Nobody]
    /\ tx = [r \in Requests |-> NoTx]
    /\ contested = {}

SessionStep(r) ==
    \/ cancel(r)
    \/ reschedule(r)
    \/ update_session(r)
    \/ close_register(r)
    \/ reopen_register(r)
    \/ CommitSession(r)

MarkStep(r) ==
    \/ create_attendance(r)
    \/ bulk_attendance(r)
    \/ MarkItem(r)
    \/ update_attendance(r)
    \/ CommitMarks(r)
    \/ delete_attendance(r)
    \/ CommitDeleteMark(r)

PassStep(r) ==
    \/ book_candidate_session(r)
    \/ LockTarget(r)
    \/ cancel_makeup_booking(r)
    \/ mark_makeup_visitor(r)
    \/ list_makeups(r)
    \/ CommitPass(r)
    \/ CommitExpiry(r)

Step ==
    \/ \E x \in Sessions : ensure_session(x)
    \/ create_makeup_credit
    \/ Tick
    \/ \E r \in Requests : SessionStep(r) \/ MarkStep(r) \/ PassStep(r) \/ Fail(r)

Handles(t) == {p \in Passes : t.p = p \/ \E d \in t.due : d[1] = p}

\* Bookkeeping of the model, not of the code: it says which passes the promise leaves out.
Watch == contested' = contested \cup {p \in Passes : \E r, q \in Requests :
                                        r # q /\ p \in Handles(tx'[r]) /\ p \in Handles(tx'[q])}

Next == Step /\ Watch

Spec == Init /\ [][Next]_vars

-----------------------------------------------------------------------------
(* Properties.                                                             *)

\* The tables hold rows, the locks name requests, the requests carry what they read.
TypeOK ==
    /\ session \in [Sessions -> SessionRows]
    /\ mark \in [Sessions -> MarkRows]
    /\ pass \in [Passes -> PassRows]
    /\ today \in 0..LastDay
    /\ markLock \in [Sessions -> [Matriculas -> Requests \cup {Nobody}]]
    /\ sessionLock \in [Sessions -> Requests \cup {Nobody}]
    /\ tx \in [Requests -> Transactions]
    /\ contested \subseteq Passes

\* create_attendance() looks for the pass only once it holds the mark's row: taps
\* that race, repeat or correct each other, and marks deleted and taken again, never
\* issue two passes for one absence.  (bulk_attendance() and the hand may.)
OneCreditPerAbsence ==
    \A p, q \in Passes :
        /\ pass[p].by = "mark" /\ pass[q].by = "mark"
        /\ pass[p].of = pass[q].of /\ pass[p].origin = pass[q].origin
        => p = q

\* A register that is closed, or that holds a mark, is that of a class that took
\* place or was called off: no order of taps, closings, reopenings and cancellations
\* leaves it "scheduled".  (PATCH /sessions/{id} may set any status.)
HappenedIsRegistered ==
    \A x \in Sessions :
        (session[x].closed \/ \E m \in Matriculas : mark[x][m] # "none")
            => session[x].status \in {"held", "cancelled"}

\* Bookings that race for the last place of a class do not both get in, whatever
\* is released, moved, consumed or expired meanwhile.  A pass that two requests
\* handle at once may: one of them writes "booked", the other the class.
NotOverbooked ==
    \A x \in Sessions :
        Booked(x) \ contested # {} =>
            Cardinality(Enrolled(CourseAt[x])) + Cardinality(Booked(x) \ contested)
                <= MaxStudents[CourseAt[x]]

\* A booked pass only expires once its class is over, even when the expiry was
\* decided before the booking was saved.
ExpiredAfterClass ==
    [][\A p \in Passes :
         (pass[p].status = "booked" /\ pass[p].target # Nobody /\ pass'[p].status = "expired")
            => Date[pass[p].target] < today]_vars

Promise == INSTANCE PassPromise WITH
    Classes <- Sessions,
    NoClass <- Nobody,
    life <- [p \in Passes |-> IF p \in contested THEN "contended" ELSE pass[p].status],
    class <- [p \in Passes |-> IF p \in contested THEN Nobody ELSE pass[p].target]

\* A pass that one request handles at a time lives as its owner was told: what was
\* used or has expired stays so, and only a booking gives it a class.
KeepsPassPromise == Promise!Spec

=============================================================================
