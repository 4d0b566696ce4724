------------------------------ MODULE RosterSheet ------------------------------
(***************************************************************************)
(* The register of one class on the teacher's page: marks by button, by    *)
(* key and for all that have none yet, over one list kept in the cache.    *)
(*                                                                         *)
(* A tap is shown at once and taken back by putting the whole list as it   *)
(* was before it, while other taps and a reading of the list may be under  *)
(* way.  The buttons of a row wait for their own answer; the keys do not,  *)
(* nor do they wait for each other.                                        *)
(***************************************************************************)
EXTENDS Naturals, Sequences

CONSTANTS Students, MaxCalls, MaxFaults

VARIABLES
    marks,      \* on the server
    list,       \* in the cache, under the key all the pages share
    loaded,     \* has it ever been read
    fetch,      \* the reading under way
    missed,     \* the last one failed, or may hold the marks of before
    calls,      \* the marks sent, in order
    faults

vars == <<marks, list, loaded, fetch, missed, calls, faults>>

Blank == "none"
Status == {"present", "absent"}
NoOne == [s \in Students |-> Blank]
Quiet == [stage |-> "idle", data |-> NoOne, late |-> FALSE]
Asked == [stage |-> "asked", data |-> NoOne, late |-> FALSE]

Stages == {"sent", "done", "refused", "lost", "heard"}
Heard == [by |-> "nobody", sets |-> NoOne, prev |-> NoOne, had |-> FALSE, stage |-> "heard"]
InFlight(call) == call.stage # "heard"
Over(old, new) == [s \in Students |-> IF new[s] # Blank THEN new[s] ELSE old[s]]

Init ==
    /\ marks \in [Students -> {Blank, "absent"}]
    /\ list = NoOne /\ loaded = FALSE
    /\ fetch = Asked /\ missed = FALSE
    /\ calls = << >>
    /\ faults = 0

(* Until the list is read nobody has a mark, as far as the page can see. *)
Unmarked == {s \in Students : ~loaded \/ list[s] = Blank}

Send(by, sets) ==
    /\ Len(calls) < MaxCalls
    /\ calls' = Append(calls, [by |-> by, sets |-> sets, prev |-> list, had |-> loaded,
                               stage |-> "sent"])

(* onMutate: stops the reading, remembers the list, shows the mark. *)
Tap(by, who, status) ==
    LET sets == [NoOne EXCEPT ![who] = status]
    IN  /\ by = "button" =>
              ~\E i \in DOMAIN calls :
                    InFlight(calls[i]) /\ calls[i].by = "button" /\ calls[i].sets[who] # Blank
        /\ Send(by, sets)
        /\ fetch' = Quiet
        /\ list' = IF loaded THEN Over(list, sets) ELSE list
        /\ UNCHANGED <<marks, loaded, missed, faults>>

(* "All present", "the rest present", "the pending as absent". *)
MarkTheRest(status) ==
    /\ Unmarked # {}
    /\ ~\E i \in DOMAIN calls : InFlight(calls[i]) /\ calls[i].by = "rest"
    /\ Send("rest", [s \in Students |-> IF s \in Unmarked THEN status ELSE Blank])
    /\ UNCHANGED <<marks, list, loaded, fetch, missed, faults>>

(* create_attendance and bulk_attendance write over what there was. *)
Serve(i) ==
    /\ calls[i].stage = "sent"
    /\ marks' = Over(marks, calls[i].sets)
    /\ calls' = [calls EXCEPT ![i].stage = "done"]
    /\ UNCHANGED <<list, loaded, fetch, missed, faults>>

Refuse(i) ==
    /\ calls[i].stage = "sent"
    /\ calls' = [calls EXCEPT ![i].stage = "refused"]
    /\ UNCHANGED <<marks, list, loaded, fetch, missed, faults>>

Lose(i) ==
    /\ calls[i].stage \in {"sent", "done"}
    /\ faults < MaxFaults
    /\ faults' = faults + 1
    /\ calls' = [calls EXCEPT ![i].stage = "lost"]
    /\ UNCHANGED <<marks, list, loaded, fetch, missed>>

(* A slip: whatever is under way will do. *)
RereadOnce == IF fetch.stage = "idle" THEN Asked ELSE fetch

(* invalidateQueries: a reading under way is given up for a new one, but   *)
(* the first of all goes on and counts as fresh whenever it was made.      *)
Reread ==
    IF loaded \/ fetch.stage = "idle" THEN Asked ELSE [fetch EXCEPT !.late = TRUE]

(* onError puts the whole list back; onSettled reads it again. *)
Answer(i) ==
    /\ calls[i].stage \in {"done", "refused", "lost"}
    /\ calls' = [calls EXCEPT ![i] = Heard]
    /\ list' = IF calls[i].stage # "done" /\ calls[i].by # "rest" /\ calls[i].had
               THEN calls[i].prev ELSE list
    /\ fetch' = Reread
    /\ UNCHANGED <<marks, loaded, missed, faults>>

Read ==
    /\ fetch.stage = "asked"
    /\ fetch' = [fetch EXCEPT !.stage = "read", !.data = marks]
    /\ UNCHANGED <<marks, list, loaded, missed, calls, faults>>

Arrive ==
    /\ fetch.stage = "read"
    /\ list' = fetch.data /\ loaded' = TRUE
    /\ fetch' = Quiet /\ missed' = fetch.late
    /\ UNCHANGED <<marks, calls, faults>>

Miss ==
    /\ fetch.stage # "idle"
    /\ faults < MaxFaults
    /\ faults' = faults + 1
    /\ fetch' = Quiet /\ missed' = TRUE
    /\ UNCHANGED <<marks, list, loaded, calls>>

(* The network is back, and a list no longer fresh is read again. *)
BackOnline ==
    /\ fetch.stage = "idle"
    /\ fetch' = Asked
    /\ UNCHANGED <<marks, list, loaded, missed, calls, faults>>

Next ==
    \/ \E who \in Students : \E status \in Status :
          Tap("button", who, status) \/ Tap("key", who, status)
    \/ \E status \in Status : MarkTheRest(status)
    \/ \E i \in DOMAIN calls : Serve(i) \/ Refuse(i) \/ Lose(i) \/ Answer(i)
    \/ Read \/ Arrive \/ Miss \/ BackOnline

Spec == Init /\ [][Next]_vars

-----------------------------------------------------------------------------
Marks == [Students -> {Blank} \cup Status]

TypeOK ==
    /\ marks \in Marks /\ list \in Marks /\ loaded \in BOOLEAN /\ missed \in BOOLEAN
    /\ fetch \in [stage : {"idle", "asked", "read"}, data : Marks, late : BOOLEAN]
    /\ calls \in Seq([by : {"button", "key", "rest", "nobody"}, sets : Marks, prev : Marks,
                      had : BOOLEAN, stage : Stages])

AllHeard == \A i \in DOMAIN calls : ~InFlight(calls[i])

(* What is read once the last answer is in is what is there: unless it was *)
(* the first reading, begun before.                                        *)
ReadsTheMarks == AllHeard /\ fetch.stage = "read" /\ ~fetch.late => fetch.data = marks

ShownIsRead == AllHeard /\ fetch.stage = "idle" /\ ~missed => loaded /\ list = marks

SheetInv == TypeOK /\ ReadsTheMarks /\ ShownIsRead

(* Once every answer is in and nothing is being read, the page shows the   *)
(* marks there are: however taps crossed, were refused and were taken back *)
(* by an older list, none is left on the screen that is not on the server. *)
(* Marking all before the first reading has come is the exception.         *)
ShowsTheMarks ==
    ((\A i \in DOMAIN calls : ~InFlight(calls[i])) /\ fetch.stage = "idle" /\ ~missed)
    => loaded /\ list = marks
===============================================================================
