----------------------------- MODULE ClassMode ------------------------------
(***************************************************************************)
(* Taking the register of one class from a phone with a bad connection     *)
(* (pages/ClassMode.tsx, lib/attendanceQueue.ts): each tap is kept in      *)
(* memory and in localStorage, sent in batches, and forgotten when the     *)
(* server has taken or refused it.  Closing and reopening the register go  *)
(* through the same page.  The server, other people's corrections and the  *)
(* network are at the end.                                                 *)
(***************************************************************************)
EXTENDS Naturals

CONSTANTS
    Students,  \* the enrolments on the class board
    Marks,     \* attendance statuses
    Present,   \* the one "Los demas, presentes" gives
    NoMark,
    MaxTaps,   \* bound: taps of the teacher
    MaxOthers  \* bound: corrections by other people, withdrawals, closings,
               \* reopenings and page losses

ASSUME RegisterAssumption ==
    /\ Present \in Marks /\ NoMark \notin Marks
    /\ MaxTaps \in Nat /\ MaxOthers \in Nat

VARIABLES
    board,    \* useClassBoard: who has a mark and the closed flag, last fetched
    stale,    \* whether that query has been invalidated
    page,     \* "open" or "away"
    pending,  \* taps not yet confirmed, as useAttendanceQueue keeps them
    stored,   \* the same in localStorage
    timer,    \* "none", "debounce" or "retry"
    backoff,  \* attempt.current > 0: the last attempt failed on the network
    flight,   \* the batch being sent and what the server did with it
    close,    \* the request to close the register
    confirm,  \* "Faltan n alumnos por marcar" is on screen
    register, \* the server's marks of this class
    closed,   \* class_sessions.register_closed
    live,     \* the enrolments that still accept marks
    late,     \* a batch the page stopped waiting for and that may yet arrive
              \* (bound: one at a time)
    taps, others,
    last      \* history: the last tap on each student that nothing has undone

pageVars == <<page, pending, stored, timer, backoff, flight>>
closeVars == <<close, confirm>>
boardVars == <<board, stale>>
serverVars == <<register, closed, live>>
vars == <<boardVars, pageVars, closeVars, serverVars, late, taps, others, last>>

MaybeMark == Marks \cup {NoMark}
Batch == [Students -> MaybeMark]
Nothing == [s \in Students |-> NoMark]
Idle == [stage |-> "none", batch |-> Nothing]

\* The variables hold values of their types.
TypeOK ==
    /\ board \in [marked : SUBSET Students, closed : BOOLEAN] /\ stale \in BOOLEAN
    /\ page \in {"open", "away"}
    /\ pending \in Batch /\ stored \in Batch
    /\ timer \in {"none", "debounce", "retry"} /\ backoff \in BOOLEAN
    /\ flight \in [stage : {"none", "sent", "taken", "refused"}, batch : Batch]
    /\ close \in {"none", "asked", "forced"} /\ confirm \in BOOLEAN
    /\ register \in Batch /\ closed \in BOOLEAN /\ live \subseteq Students
    /\ late \subseteq Batch
    /\ taps \in 0..MaxTaps /\ others \in 0..MaxOthers
    /\ last \in Batch

Init ==
    /\ board = [marked |-> {}, closed |-> FALSE] /\ stale = FALSE
    /\ page = "open" /\ pending = Nothing /\ stored = Nothing
    /\ timer = "none" /\ backoff = FALSE /\ flight = Idle
    /\ close = "none" /\ confirm = FALSE
    /\ register = Nothing /\ closed = FALSE /\ live = Students
    /\ late = {} /\ taps = 0 /\ others = 0 /\ last = Nothing

-----------------------------------------------------------------------------
Sending == flight.stage # "none"

(* The rows that show no mark: neither a tap, confirmed or not, nor the    *)
(* board's.                                                                *)
Missing == {s \in Students : pending[s] = NoMark /\ s \notin board.marked}

(* A slip: whatever was sent is dropped, tapped again or not. *)
WithoutKeys(current, sent) ==
    [s \in Students |-> IF sent[s] # NoMark THEN NoMark ELSE current[s]]

(* withoutSent: the batch goes, save what was tapped again meanwhile. *)
WithoutSent(current, sent) ==
    [s \in Students |-> IF current[s] = sent[s] THEN NoMark ELSE current[s]]

(* A slip: the effect depends on the queue alone, and a change of it while *)
(* a request was under way is not looked at again.                         *)
ArmWhenTapped(p, sending, failing) ==
    IF p = Nothing \/ sending \/ failing \/ p = pending THEN timer ELSE "debounce"

(* The effect that runs when the queue or `sending` changes: a pause, then *)
(* send; not while a request is under way or a retry is waiting.           *)
Arm(p, sending, failing) ==
    IF p = Nothing THEN (IF timer = "debounce" THEN "none" ELSE timer)
    ELSE IF sending \/ failing THEN timer ELSE "debounce"

(* setPending, and the effect that saves the queue in the phone. *)
SetPending(p) == pending' = p /\ stored' = p

-----------------------------------------------------------------------------
(* Marking. *)

MayMark == page = "open" /\ ~board.closed /\ taps < MaxTaps

markStudent(s, m) ==
    /\ MayMark
    /\ SetPending([pending EXCEPT ![s] = m])
    /\ timer' = Arm(pending', Sending, backoff)
    /\ taps' = taps + 1
    /\ last' = [last EXCEPT ![s] = m]
    /\ UNCHANGED <<boardVars, page, backoff, flight, closeVars, serverVars, late, others>>

(* "Los demas, presentes" *)
markEveryoneLeft ==
    /\ MayMark /\ Missing # {}
    /\ SetPending([s \in Students |-> IF s \in Missing THEN Present ELSE pending[s]])
    /\ timer' = Arm(pending', Sending, backoff)
    /\ taps' = taps + 1
    /\ last' = [s \in Students |-> IF s \in Missing THEN Present ELSE last[s]]
    /\ UNCHANGED <<boardVars, page, backoff, flight, closeVars, serverVars, late, others>>

-----------------------------------------------------------------------------
(* Sending. *)

(* flush: one request at a time, with a copy of the queue. *)
flush ==
    /\ timer' = "none"
    /\ flight' = IF Sending \/ pending = Nothing THEN flight
                 ELSE [stage |-> "sent", batch |-> pending]

TimerFires ==
    /\ page = "open" /\ timer # "none"
    /\ flush
    /\ UNCHANGED <<boardVars, page, pending, stored, backoff, closeVars, serverVars, late,
                   taps, others, last>>

(* The "online" event: do not wait for the next retry. *)
onOnline ==
    /\ page = "open" /\ backoff
    /\ flush
    /\ backoff' = FALSE
    /\ UNCHANGED <<boardVars, page, pending, stored, closeVars, serverVars, late,
                   taps, others, last>>

(* The batch was taken: what was not tapped again leaves the queue, and    *)
(* the board is fetched anew.  A tap that repeats what was sent goes too,  *)
(* even if somebody corrected the mark while the answer was travelling.    *)
Confirmed ==
    /\ page = "open" /\ flight.stage = "taken"
    /\ SetPending(WithoutSent(pending, flight.batch))
    /\ timer' = Arm(pending', FALSE, FALSE)
    /\ backoff' = FALSE /\ flight' = Idle /\ stale' = TRUE
    /\ last' = [s \in Students |-> IF /\ pending[s] = flight.batch[s]
                                      /\ pending[s] \notin {NoMark, register[s]}
                                   THEN NoMark ELSE last[s]]
    /\ UNCHANGED <<board, page, closeVars, serverVars, late, taps, others>>

(* The server refused it (register closed, enrolment withdrawn, session or *)
(* permission gone): the whole batch is dropped and the teacher is told.   *)
Rejected ==
    /\ page = "open" /\ flight.stage = "refused"
    /\ SetPending(WithoutSent(pending, flight.batch))
    /\ timer' = Arm(pending', FALSE, FALSE)
    /\ backoff' = FALSE /\ flight' = Idle /\ stale' = TRUE
    /\ last' = WithoutSent(last, flight.batch)
    /\ UNCHANGED <<board, page, closeVars, serverVars, late, taps, others>>

(* No answer, a 5xx, a 408 or a 429: try again later.  The request may     *)
(* never have arrived, have been served, or still be on its way.           *)
Transient ==
    /\ page = "open" /\ Sending
    /\ late' \in {late, IF flight.stage = "sent" /\ late = {} THEN {flight.batch} ELSE late}
    /\ flight' = Idle
    /\ timer' = "retry" /\ backoff' = TRUE
    /\ UNCHANGED <<boardVars, page, pending, stored, closeVars, serverVars, taps, others, last>>

-----------------------------------------------------------------------------
(* Closing. *)

(* The button waits for the queue to empty: "con marcas todavia en el      *)
(* telefono, cerrar dejaria fuera justo las que no han llegado".           *)
CloseRegister ==
    /\ page = "open" /\ ~board.closed /\ close = "none" /\ others < MaxOthers
    /\ Students # {} /\ pending = Nothing
    /\ close' = "asked" /\ others' = others + 1
    /\ UNCHANGED <<boardVars, pageVars, confirm, serverVars, late, taps, last>>

(* "Cerrar asi", in the notice that some students are unmarked. *)
CloseAnyway ==
    /\ page = "open" /\ confirm /\ ~board.closed /\ close = "none" /\ others < MaxOthers
    /\ close' = "forced" /\ others' = others + 1
    /\ UNCHANGED <<boardVars, pageVars, confirm, serverVars, late, taps, last>>

KeepMarking ==
    /\ page = "open" /\ confirm
    /\ confirm' = FALSE
    /\ UNCHANGED <<boardVars, pageVars, close, serverVars, late, taps, others, last>>

(* close_register: refused while somebody on the roster has no mark,       *)
(* unless forced.                                                          *)
CloseAnswered ==
    /\ close # "none"
    /\ close' = "none"
    /\ \/ /\ close = "forced" \/ \A s \in live : register[s] # NoMark
          /\ closed' = TRUE /\ confirm' = FALSE /\ stale' = TRUE
       \/ /\ close = "asked" /\ \E s \in live : register[s] = NoMark
          /\ confirm' = (page = "open")
          /\ UNCHANGED <<closed, stale>>
       \/ UNCHANGED <<closed, confirm, stale>>
    /\ UNCHANGED <<board, pageVars, register, live, late, taps, others, last>>

Reopen ==
    /\ page = "open" /\ board.closed /\ others < MaxOthers
    /\ others' = others + 1
    /\ closed' = FALSE /\ stale' = TRUE
    /\ UNCHANGED <<board, pageVars, closeVars, register, live, late, taps, last>>

-----------------------------------------------------------------------------
(* The page and the board. *)

FetchBoard ==
    /\ page = "open" /\ stale
    /\ board' = [marked |-> {s \in live : register[s] # NoMark}, closed |-> closed]
    /\ stale' = FALSE
    /\ UNCHANGED <<pageVars, closeVars, serverVars, late, taps, others, last>>

(* The tab is closed, reloaded or killed, or the teacher leaves the page:  *)
(* the phone keeps what is stored, the request under way may still arrive. *)
Leave ==
    /\ page = "open" /\ others < MaxOthers
    /\ others' = others + 1
    /\ page' = "away" /\ pending' = Nothing /\ timer' = "none" /\ backoff' = FALSE
    /\ late' \in {late, IF flight.stage = "sent" /\ late = {} THEN {flight.batch} ELSE late}
    /\ flight' = Idle /\ confirm' = FALSE
    /\ UNCHANGED <<boardVars, stored, close, serverVars, taps, last>>

(* loadPending: a queue of more than twelve hours ago is thrown away. *)
Open ==
    /\ page = "away"
    /\ page' = "open" /\ stale' = TRUE
    /\ \/ SetPending(stored) /\ UNCHANGED last
       \/ SetPending(Nothing) /\ last' = WithoutSent(last, stored)
    /\ timer' = Arm(pending', FALSE, FALSE)
    /\ UNCHANGED <<board, backoff, flight, closeVars, serverVars, late, taps, others>>

-----------------------------------------------------------------------------
(* The server and everybody else. *)

(* bulk_attendance: all the marks or none. *)
Takes(batch) == ~closed /\ \A s \in Students : batch[s] # NoMark => s \in live

After(batch) == [s \in Students |-> IF batch[s] # NoMark THEN batch[s] ELSE register[s]]

(* It is refused also, whatever it holds, to a session that has run out    *)
(* and to a teacher who may not mark that class.                           *)
ServeBatch ==
    /\ flight.stage = "sent"
    /\ \/ /\ Takes(flight.batch)
          /\ register' = After(flight.batch) /\ flight' = [flight EXCEPT !.stage = "taken"]
       \/ flight' = [flight EXCEPT !.stage = "refused"] /\ UNCHANGED register
    /\ UNCHANGED <<boardVars, page, pending, stored, timer, backoff, closeVars, closed, live,
                   late, taps, others, last>>

(* A batch nobody waits for arrives at last and overwrites what came       *)
(* after it.                                                               *)
ServeLate(batch) ==
    /\ batch \in late
    /\ late' = late \ {batch}
    /\ \/ /\ Takes(batch)
          /\ register' = After(batch)
          /\ last' = [s \in Students |-> IF batch[s] \notin {NoMark, last[s]}
                                         THEN NoMark ELSE last[s]]
       \/ UNCHANGED <<register, last>>
    /\ UNCHANGED <<boardVars, pageVars, closeVars, closed, live, taps, others>>

(* Somebody else corrects a mark, or a student leaves the course. *)
Correct(s, m) ==
    /\ others < MaxOthers /\ m # register[s]
    /\ others' = others + 1
    /\ register' = [register EXCEPT ![s] = m]
    /\ last' = [last EXCEPT ![s] = NoMark]
    /\ UNCHANGED <<boardVars, pageVars, closeVars, closed, live, late, taps>>

Withdraw(s) ==
    /\ others < MaxOthers /\ s \in live
    /\ others' = others + 1
    /\ live' = live \ {s}
    /\ UNCHANGED <<boardVars, pageVars, closeVars, register, closed, late, taps, last>>

-----------------------------------------------------------------------------
Teacher ==
    \/ \E s \in Students, m \in Marks : markStudent(s, m)
    \/ markEveryoneLeft \/ CloseRegister \/ CloseAnyway \/ KeepMarking \/ Reopen
    \/ Leave \/ Open

Browser == TimerFires \/ onOnline \/ Confirmed \/ Rejected \/ Transient \/ FetchBoard

Server ==
    \/ CloseAnswered \/ ServeBatch
    \/ \E batch \in late : ServeLate(batch)
    \/ \E s \in Students : Withdraw(s) \/ \E m \in Marks : Correct(s, m)

Next == Teacher \/ Browser \/ Server

Spec == Init /\ [][Next]_vars

(* The page is opened again, timers fire, the server serves what reaches   *)
(* it, and an attempt repeated for ever is answered some time.             *)
FairSpec ==
    /\ Spec
    /\ WF_vars(Open) /\ WF_vars(TimerFires) /\ WF_vars(FetchBoard)
    /\ SF_vars(ServeBatch) /\ SF_vars(Confirmed) /\ SF_vars(Rejected)

-----------------------------------------------------------------------------
(* With nothing left to send, the server holds the last tap on every       *)
(* student: a tap is only given up when the server refused its batch, when *)
(* it grew old in the phone, when somebody corrected it afterwards, or     *)
(* when a request that had timed out arrived after a newer one             *)
(* (lib/attendanceQueue.ts:69-76, 101-141).                                *)
LastTapStands ==
    page = "open" /\ pending = Nothing /\ ~Sending =>
        \A s \in Students : last[s] # NoMark => register[s] = last[s]

(* What is on screen or in the phone is either waiting to be sent, being   *)
(* sent, or waiting for a retry: no tap is left lying with no timer.       *)
NothingStuck ==
    page = "open" /\ pending # Nothing => timer # "none" \/ Sending

(* Every tap is settled: sent and taken, or refused and dropped. *)
TapsSettle ==
    \A s \in Students : pending[s] # NoMark ~> pending[s] = NoMark

(* A register is only closed when the phone holds no marks that have not   *)
(* arrived (pages/ClassMode.tsx:408-410).                                  *)
ClosesEmptyHanded == [][close = "none" /\ close' # "none" => pending = Nothing]_vars
=============================================================================
