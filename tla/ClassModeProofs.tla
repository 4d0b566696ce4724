-------------------------- MODULE ClassModeProofs ---------------------------
(***************************************************************************)
(* Proofs about the register on the phone, for every class, every set of   *)
(* marks and any number of taps: no tap is lost without a reason, and none *)
(* is left lying.                                                          *)
(***************************************************************************)
EXTENDS ClassMode, TLAPS

-----------------------------------------------------------------------------
(* Why: what is shown is what is stored; nothing leaves the queue while a  *)
(* batch travels; and whoever put the timer off left a retry behind.       *)

\* The screen and the phone agree, and a page that is away runs nothing.
SameQueue ==
    /\ page = "open" => stored = pending
    /\ page = "away" => pending = Nothing /\ timer = "none" /\ ~backoff /\ flight = Idle

\* What travels is still in the queue, perhaps with another mark by now.
StillQueued ==
    Sending => /\ flight.batch # Nothing
               /\ \A s \in Students : flight.batch[s] # NoMark => pending[s] # NoMark

\* A tap that stands is in the phone, or it has left it and the server has it.
TapsHeld ==
    \A s \in Students : last[s] # NoMark =>
        stored[s] = last[s] \/ (stored[s] = NoMark /\ register[s] = last[s])

\* While the network fails, there is something to send and a retry to send it.
RetryWaits == backoff => pending # Nothing /\ (Sending \/ timer = "retry")

PhoneInv == TypeOK /\ SameQueue /\ StillQueued /\ TapsHeld /\ RetryWaits /\ NothingStuck

-----------------------------------------------------------------------------
(* The queue. *)

LEMMA NothingIsBatch == Nothing \in Batch
BY DEF Nothing, Batch, MaybeMark

LEMMA WithoutSentType ==
  ASSUME NEW current \in Batch, NEW batch \in Batch
  PROVE  /\ WithoutSent(current, batch) \in Batch
         /\ \A s \in Students : WithoutSent(current, batch)[s] \in {NoMark, current[s]}
BY DEF WithoutSent, Batch, MaybeMark

LEMMA AfterType ==
  ASSUME NEW batch \in Batch, register \in Batch
  PROVE  /\ After(batch) \in Batch
         /\ \A s \in Students : After(batch)[s] \in {batch[s], register[s]}
BY DEF After, Batch, MaybeMark

LEMMA ArmType ==
  ASSUME TypeOK, NEW p, NEW sending \in BOOLEAN, NEW failing \in BOOLEAN
  PROVE  /\ Arm(p, sending, failing) \in {"none", "debounce", "retry"}
         /\ p # Nothing /\ ~sending /\ ~failing => Arm(p, sending, failing) # "none"
         /\ failing /\ timer = "retry" => Arm(p, sending, failing) = "retry"
BY DEF TypeOK, Arm

\* A queue with a mark in it is not empty.
LEMMA MarkedIsSomething ==
  ASSUME NEW p \in Batch, NEW s \in Students, p[s] # NoMark
  PROVE  p # Nothing
BY DEF Nothing

LEMMA SomethingIsMarked ==
  ASSUME NEW p \in Batch, p # Nothing
  PROVE  \E s \in Students : p[s] # NoMark
BY DEF Nothing, Batch

-----------------------------------------------------------------------------
(* Types. *)

LEMMA ClassModeTypeInit == Init => TypeOK
<1> SUFFICES ASSUME Init PROVE TypeOK
  OBVIOUS
<1>1. flight \in [stage : {"none", "sent", "taken", "refused"}, batch : Batch]
  BY NothingIsBatch DEF Init, Idle
<1>2. board \in [marked : SUBSET Students, closed : BOOLEAN]
  BY DEF Init
<1>3. QED
  <2>1. /\ pending \in Batch /\ stored \in Batch /\ register \in Batch /\ last \in Batch
        /\ late \subseteq Batch /\ live \subseteq Students
    BY NothingIsBatch DEF Init
  <2>2. taps \in 0..MaxTaps /\ others \in 0..MaxOthers
    BY RegisterAssumption DEF Init
  <2>3. /\ page \in {"open", "away"} /\ timer \in {"none", "debounce", "retry"}
        /\ close \in {"none", "asked", "forced"}
        /\ stale \in BOOLEAN /\ backoff \in BOOLEAN /\ confirm \in BOOLEAN /\ closed \in BOOLEAN
    BY DEF Init
  <2>4. QED
    BY <1>1, <1>2, <2>1, <2>2, <2>3 DEF TypeOK

LEMMA ClassModeTypeStep == TypeOK /\ [Next]_vars => TypeOK'
<1> SUFFICES ASSUME TypeOK, [Next]_vars PROVE TypeOK'
  OBVIOUS
<1> USE RegisterAssumption, NothingIsBatch
<1>1. ASSUME NEW s \in Students, NEW m \in Marks, markStudent(s, m) PROVE TypeOK'
  <2>1. pending' \in Batch /\ last' \in Batch
    BY <1>1 DEF markStudent, SetPending, TypeOK, Batch, MaybeMark
  <2>2. timer' \in {"none", "debounce", "retry"}
    BY <1>1, ArmType DEF markStudent, TypeOK, Sending
  <2>3. QED
    BY <1>1, <2>1, <2>2 DEF markStudent, MayMark, SetPending, TypeOK, boardVars, closeVars, serverVars
<1>2. ASSUME markEveryoneLeft PROVE TypeOK'
  <2>1. pending' \in Batch /\ last' \in Batch
    BY <1>2 DEF markEveryoneLeft, SetPending, TypeOK, Batch, MaybeMark
  <2>2. timer' \in {"none", "debounce", "retry"}
    BY <1>2, ArmType DEF markEveryoneLeft, TypeOK, Sending
  <2>3. QED
    BY <1>2, <2>1, <2>2
    DEF markEveryoneLeft, MayMark, SetPending, TypeOK, boardVars, closeVars, serverVars
<1>3. ASSUME TimerFires PROVE TypeOK'
  BY <1>3 DEF TimerFires, flush, TypeOK, boardVars, closeVars, serverVars
<1>4. ASSUME onOnline PROVE TypeOK'
  BY <1>4 DEF onOnline, flush, TypeOK, boardVars, closeVars, serverVars
<1>5. ASSUME Confirmed PROVE TypeOK'
  <2>1. last' \in Batch
    BY <1>5 DEF Confirmed, TypeOK, Batch, MaybeMark
  <2>2. pending' \in Batch /\ timer' \in {"none", "debounce", "retry"}
    BY <1>5, ArmType, WithoutSentType DEF Confirmed, SetPending, TypeOK
  <2>3. QED
    BY <1>5, <2>1, <2>2 DEF Confirmed, SetPending, TypeOK, Idle, closeVars, serverVars
<1>6. ASSUME Rejected PROVE TypeOK'
  <2>1. last' \in Batch /\ pending' \in Batch /\ timer' \in {"none", "debounce", "retry"}
    BY <1>6, ArmType, WithoutSentType DEF Rejected, SetPending, TypeOK
  <2>2. QED
    BY <1>6, <2>1 DEF Rejected, SetPending, TypeOK, Idle, closeVars, serverVars
<1>7. ASSUME Transient PROVE TypeOK'
  <2>1. late' \subseteq Batch
    BY <1>7 DEF Transient, TypeOK
  <2>2. flight' \in [stage : {"none", "sent", "taken", "refused"}, batch : Batch]
    BY <1>7 DEF Transient, Idle
  <2>3. QED
    BY <1>7, <2>1, <2>2 DEF Transient, TypeOK, boardVars, closeVars, serverVars
<1>8. ASSUME CloseRegister \/ CloseAnyway \/ KeepMarking \/ CloseAnswered \/ Reopen PROVE TypeOK'
  <2>1. /\ UNCHANGED <<board, page, pending, stored, timer, backoff, flight>>
        /\ UNCHANGED <<register, live, late, taps, last>>
    BY <1>8
    DEF CloseRegister, CloseAnyway, KeepMarking, CloseAnswered, Reopen, pageVars, boardVars, serverVars
  <2>2. close' \in {"none", "asked", "forced"} /\ confirm' \in BOOLEAN
    BY <1>8
    DEF CloseRegister, CloseAnyway, KeepMarking, CloseAnswered, Reopen, TypeOK, closeVars
  <2>3. closed' \in BOOLEAN /\ stale' \in BOOLEAN
    BY <1>8
    DEF CloseRegister, CloseAnyway, KeepMarking, CloseAnswered, Reopen, TypeOK, boardVars, serverVars
  <2>4. others' \in 0..MaxOthers
    BY <1>8 DEF CloseRegister, CloseAnyway, KeepMarking, CloseAnswered, Reopen, TypeOK
  <2>5. QED
    BY <2>1, <2>2, <2>3, <2>4 DEF TypeOK
<1>9. ASSUME FetchBoard PROVE TypeOK'
  BY <1>9 DEF FetchBoard, TypeOK, pageVars, closeVars, serverVars
<1>10. ASSUME Leave PROVE TypeOK'
  <2>1. late' \subseteq Batch
    BY <1>10 DEF Leave, TypeOK
  <2>2. flight' \in [stage : {"none", "sent", "taken", "refused"}, batch : Batch]
    BY <1>10 DEF Leave, Idle
  <2>3. /\ pending' = Nothing /\ timer' = "none" /\ page' = "away"
        /\ backoff' = FALSE /\ confirm' = FALSE
        /\ others < MaxOthers /\ others' = others + 1
    BY <1>10 DEF Leave
  <2>4. UNCHANGED <<board, stale, stored, close, register, closed, live, taps, last>>
    BY <1>10 DEF Leave, boardVars, serverVars
  <2>5. others' \in 0..MaxOthers /\ pending' \in Batch
    BY <2>3 DEF TypeOK
  <2>6. /\ page' \in {"open", "away"} /\ timer' \in {"none", "debounce", "retry"}
        /\ backoff' \in BOOLEAN /\ confirm' \in BOOLEAN
    BY <2>3
  <2>7. QED
    BY <2>1, <2>2, <2>4, <2>5, <2>6 DEF TypeOK
<1>11. ASSUME Open PROVE TypeOK'
  <2>1. last' \in Batch /\ pending' \in Batch /\ timer' \in {"none", "debounce", "retry"}
    BY <1>11, ArmType, WithoutSentType DEF Open, SetPending, TypeOK
  <2>2. QED
    BY <1>11, <2>1 DEF Open, SetPending, TypeOK, closeVars, serverVars
<1>12. ASSUME ServeBatch PROVE TypeOK'
  BY <1>12, AfterType DEF ServeBatch, TypeOK, boardVars, closeVars
<1>13. ASSUME NEW batch \in late, ServeLate(batch) PROVE TypeOK'
  <2>1. batch \in Batch /\ late' \subseteq Batch
    BY <1>13 DEF ServeLate, TypeOK
  <2>2. register' \in Batch
    BY <1>13, <2>1, AfterType DEF ServeLate, TypeOK
  <2>3. last' \in Batch
    BY <1>13 DEF ServeLate, TypeOK, Batch, MaybeMark
  <2>4. QED
    BY <1>13, <2>1, <2>2, <2>3 DEF ServeLate, TypeOK, pageVars, boardVars, closeVars
<1>14. ASSUME NEW s \in Students, NEW m \in Marks, Correct(s, m) PROVE TypeOK'
  <2>1. register' \in Batch /\ last' \in Batch
    BY <1>14 DEF Correct, TypeOK, Batch, MaybeMark
  <2>2. QED
    BY <1>14, <2>1 DEF Correct, TypeOK, pageVars, boardVars, closeVars
<1>15. ASSUME NEW s \in Students, Withdraw(s) PROVE TypeOK'
  BY <1>15 DEF Withdraw, TypeOK, pageVars, boardVars, closeVars
<1>16. ASSUME UNCHANGED vars PROVE TypeOK'
  BY <1>16 DEF vars, TypeOK, pageVars, boardVars, closeVars, serverVars
<1>17. QED
  BY <1>1, <1>2, <1>3, <1>4, <1>5, <1>6, <1>7, <1>8, <1>9, <1>10, <1>11, <1>12, <1>13, <1>14,
     <1>15, <1>16 DEF Next, Teacher, Browser, Server

(* The queue, the phone, the board and the server keep well-typed marks,   *)
(* whatever is tapped, lost or late.                                       *)
THEOREM ClassModeTypeCorrect == Spec => []TypeOK
BY ClassModeTypeInit, ClassModeTypeStep, PTL DEF Spec

-----------------------------------------------------------------------------
(* The steps that leave the queue, the phone, the flight and the marks     *)
(* alone, and those of the server.                                         *)

LEMMA QuietSteps ==
  ASSUME CloseRegister \/ CloseAnyway \/ KeepMarking \/ CloseAnswered \/ Reopen \/ FetchBoard
         \/ (\E s \in Students : Withdraw(s)) \/ UNCHANGED vars
  PROVE  /\ UNCHANGED <<page, pending, stored, timer, backoff, flight>>
         /\ UNCHANGED <<register, last>>
BY DEF CloseRegister, CloseAnyway, KeepMarking, CloseAnswered, Reopen, FetchBoard, Withdraw, vars,
       pageVars, serverVars

LEMMA SendingSteps ==
  ASSUME PhoneInv, TimerFires \/ onOnline
  PROVE  /\ UNCHANGED <<page, pending, stored, register, last>>
         /\ page = "open" /\ timer' = "none" /\ backoff' \in {backoff, FALSE}
         /\ \/ (Sending \/ pending = Nothing) /\ flight' = flight
            \/ ~Sending /\ pending # Nothing /\ flight' = [stage |-> "sent", batch |-> pending]
<1>1. CASE TimerFires
  BY <1>1 DEF TimerFires, flush, serverVars
<1>2. CASE onOnline
  BY <1>2 DEF onOnline, flush, serverVars
<1>3. QED
  BY <1>1, <1>2

LEMMA ServingSteps ==
  ASSUME PhoneInv, \/ \E batch \in late : ServeLate(batch)
                   \/ \E s \in Students, m \in Marks : Correct(s, m)
  PROVE  UNCHANGED <<page, pending, stored, timer, backoff, flight>>
BY DEF ServeLate, Correct, pageVars

LEMMA ServedSteps ==
  ASSUME PhoneInv, ServeBatch
  PROVE  /\ UNCHANGED <<page, pending, stored, timer, backoff, last>>
         /\ Sending /\ Sending' /\ flight'.batch = flight.batch
BY DEF ServeBatch, Sending, PhoneInv, TypeOK

\* The answer of a batch ends its flight and takes from the queue what it held.
LEMMA AnsweredSteps ==
  ASSUME PhoneInv, Confirmed \/ Rejected
  PROVE  /\ page = "open" /\ page' = "open" /\ Sending /\ flight' = Idle /\ ~Sending'
         /\ pending' = WithoutSent(pending, flight.batch) /\ stored' = pending'
         /\ ~backoff' /\ timer' = Arm(pending', FALSE, FALSE)
         /\ UNCHANGED register
<1>1. CASE Confirmed
  BY <1>1 DEF Confirmed, SetPending, Sending, serverVars, Idle
<1>2. CASE Rejected
  BY <1>2 DEF Rejected, SetPending, Sending, serverVars, Idle
<1>3. QED
  BY <1>1, <1>2

\* A tap puts a mark on some rows and takes none away.
LEMMA TappingSteps ==
  ASSUME PhoneInv,
         \/ \E s \in Students, m \in Marks : markStudent(s, m)
         \/ markEveryoneLeft
  PROVE  /\ page = "open" /\ UNCHANGED <<page, backoff, flight, register>>
         /\ stored' = pending' /\ pending' # Nothing
         /\ timer' = Arm(pending', Sending, backoff)
         /\ \A s \in Students :
              \/ pending'[s] = pending[s] /\ last'[s] = last[s]
              \/ pending'[s] \in Marks /\ last'[s] = pending'[s]
<1>1. ASSUME NEW s \in Students, NEW m \in Marks, markStudent(s, m)
      PROVE  /\ pending' = [pending EXCEPT ![s] = m] /\ pending'[s] = m /\ m # NoMark
             /\ last' = [last EXCEPT ![s] = m]
  BY <1>1, RegisterAssumption DEF markStudent, SetPending, PhoneInv, TypeOK, Batch, MaybeMark
<1>2. CASE \E s \in Students, m \in Marks : markStudent(s, m)
  <2> PICK s \in Students, m \in Marks : markStudent(s, m)
    BY <1>2
  <2>1. pending' # Nothing
    BY <1>1 DEF Nothing
  <2>2. \A t \in Students : \/ pending'[t] = pending[t] /\ last'[t] = last[t]
                            \/ pending'[t] \in Marks /\ last'[t] = pending'[t]
    BY <1>1 DEF PhoneInv, TypeOK, Batch
  <2>3. QED
    BY <2>1, <2>2 DEF markStudent, MayMark, SetPending, serverVars
<1>3. CASE markEveryoneLeft
  <2>1. PICK s \in Missing : TRUE
    BY <1>3 DEF markEveryoneLeft
  <2>2. s \in Students /\ pending'[s] = Present /\ Present # NoMark
    BY <1>3, <2>1, RegisterAssumption DEF markEveryoneLeft, SetPending, Missing
  <2>3. pending' # Nothing
    BY <2>2 DEF Nothing
  <2>4. \A t \in Students : \/ pending'[t] = pending[t] /\ last'[t] = last[t]
                            \/ pending'[t] \in Marks /\ last'[t] = pending'[t]
    BY <1>3, RegisterAssumption DEF markEveryoneLeft, SetPending
  <2>5. QED
    BY <1>3, <2>3, <2>4 DEF markEveryoneLeft, MayMark, SetPending, serverVars
<1>4. QED
  BY <1>2, <1>3

LEMMA PageSteps ==
  ASSUME PhoneInv
  PROVE  /\ Leave => /\ page = "open" /\ page' = "away" /\ pending' = Nothing /\ timer' = "none"
                     /\ ~backoff' /\ flight' = Idle /\ UNCHANGED <<stored, register, last>>
         /\ Open => /\ page = "away" /\ page' = "open" /\ stored' = pending'
                    /\ timer' = Arm(pending', FALSE, FALSE)
                    /\ UNCHANGED <<backoff, flight, register>>
                    /\ \/ pending' = stored /\ UNCHANGED last
                       \/ pending' = Nothing /\ last' = WithoutSent(last, stored)
         /\ Transient => /\ page = "open" /\ Sending /\ timer' = "retry" /\ backoff' /\ flight' = Idle
                         /\ UNCHANGED <<page, pending, stored, register, last>>
BY DEF Leave, Open, SetPending, Transient, serverVars

-----------------------------------------------------------------------------
(* The inductive invariant, part by part. *)

\* One step of Next, by what it does to the queue.
LEMMA StepsOfThePage ==
  ASSUME [Next]_vars
  PROVE  \/ \/ CloseRegister \/ CloseAnyway \/ KeepMarking \/ CloseAnswered \/ Reopen \/ FetchBoard
            \/ (\E s \in Students : Withdraw(s)) \/ UNCHANGED vars
         \/ TimerFires \/ onOnline
         \/ \/ \E batch \in late : ServeLate(batch)
            \/ \E s \in Students, m \in Marks : Correct(s, m)
         \/ ServeBatch
         \/ Confirmed \/ Rejected
         \/ \/ \E s \in Students, m \in Marks : markStudent(s, m)
            \/ markEveryoneLeft
         \/ Leave \/ Open \/ Transient
BY DEF Next, Teacher, Browser, Server

LEMMA SameQueueStep ==
  ASSUME PhoneInv, [Next]_vars
  PROVE  SameQueue'
<1>1. SameQueue /\ page \in {"open", "away"}
  BY DEF PhoneInv, TypeOK
<1>2. CASE UNCHANGED <<page, pending, stored, timer, backoff, flight>>
  BY <1>1, <1>2 DEF SameQueue
<1>3. CASE TimerFires \/ onOnline
  BY <1>1, <1>3, SendingSteps DEF SameQueue
<1>4. CASE ServeBatch
  BY <1>1, <1>4, ServedSteps DEF SameQueue, Sending, Idle
<1>5. CASE Confirmed \/ Rejected
  BY <1>1, <1>5, AnsweredSteps DEF SameQueue
<1>6. CASE (\E s \in Students, m \in Marks : markStudent(s, m)) \/ markEveryoneLeft
  BY <1>1, <1>6, TappingSteps DEF SameQueue
<1>7. CASE Leave \/ Open \/ Transient
  BY <1>1, <1>7, PageSteps DEF SameQueue
<1>8. QED
  BY <1>2, <1>3, <1>4, <1>5, <1>6, <1>7, StepsOfThePage, QuietSteps, ServingSteps

LEMMA StillQueuedStep ==
  ASSUME PhoneInv, [Next]_vars
  PROVE  StillQueued'
<1>1. /\ StillQueued /\ TypeOK
      /\ ~Sending <=> flight.stage = "none"
  BY DEF PhoneInv, Sending
<1>2. CASE UNCHANGED <<page, pending, stored, timer, backoff, flight>>
  BY <1>1, <1>2 DEF StillQueued, Sending
<1>3. CASE TimerFires \/ onOnline
  <2>1. CASE flight' = flight
    BY <1>1, <1>3, <2>1, SendingSteps DEF StillQueued, Sending
  <2>2. CASE pending # Nothing /\ flight' = [stage |-> "sent", batch |-> pending]
    BY <1>3, <2>2, SendingSteps DEF StillQueued
  <2>3. QED
    BY <1>3, <2>1, <2>2, SendingSteps
<1>4. CASE ServeBatch
  BY <1>1, <1>4, ServedSteps DEF StillQueued
<1>5. CASE Confirmed \/ Rejected
  BY <1>5, AnsweredSteps DEF StillQueued
<1>6. CASE (\E s \in Students, m \in Marks : markStudent(s, m)) \/ markEveryoneLeft
  BY <1>1, <1>6, TappingSteps, RegisterAssumption DEF StillQueued, Sending
<1>7. CASE Leave \/ Open \/ Transient
  <2>1. CASE Leave \/ Transient
    BY <2>1, PageSteps DEF StillQueued, Sending, Idle
  <2>2. CASE Open
    <3>1. flight' = Idle
      BY <2>2, PageSteps DEF PhoneInv, SameQueue
    <3>2. QED
      BY <3>1 DEF StillQueued, Sending, Idle
  <2>3. QED
    BY <1>7, <2>1, <2>2
<1>8. QED
  BY <1>2, <1>3, <1>4, <1>5, <1>6, <1>7, StepsOfThePage, QuietSteps, ServingSteps

\* A tap leaves the phone with its batch only when the server has it, or not as a tap
\* that stands.
LEMMA AnsweredTaps ==
  ASSUME PhoneInv, Confirmed \/ Rejected
  PROVE  TapsHeld'
<1> SUFFICES ASSUME NEW s \in Students, last'[s] # NoMark
             PROVE  stored'[s] = last'[s] \/ (stored'[s] = NoMark /\ register'[s] = last'[s])
  BY DEF TapsHeld
<1>1. stored = pending
  BY AnsweredSteps DEF PhoneInv, SameQueue
<1>2. last'[s] = last[s]
  BY DEF Confirmed, Rejected, WithoutSent
<1>3. stored[s] = last[s] \/ (stored[s] = NoMark /\ register[s] = last[s])
  BY <1>2 DEF PhoneInv, TapsHeld
<1>4. stored'[s] = IF pending[s] = flight.batch[s] THEN NoMark ELSE pending[s]
  BY AnsweredSteps DEF WithoutSent
<1>5. register'[s] = register[s]
  BY AnsweredSteps
<1>6. CASE Confirmed
  <2>1. pending[s] = flight.batch[s] => pending[s] \in {NoMark, register[s]}
    BY <1>6 DEF Confirmed
  <2>2. QED
    BY <2>1, <1>1, <1>2, <1>3, <1>4, <1>5
<1>7. CASE Rejected
  <2>1. last[s] # flight.batch[s]
    BY <1>7 DEF Rejected, WithoutSent
  <2>2. QED
    BY <2>1, <1>1, <1>2, <1>3, <1>4, <1>5
<1>8. QED
  BY <1>6, <1>7

\* What the server writes is what travels: it does not touch a tap that has left the queue.
LEMMA ServedTaps ==
  ASSUME PhoneInv, ServeBatch
  PROVE  TapsHeld'
<1> SUFFICES ASSUME NEW s \in Students, last'[s] # NoMark
             PROVE  stored'[s] = last'[s] \/ (stored'[s] = NoMark /\ register'[s] = last'[s])
  BY DEF TapsHeld
<1>1. UNCHANGED <<pending, stored, last>> /\ Sending
  BY ServedSteps
<1>2. stored[s] = last[s] \/ (stored[s] = NoMark /\ register[s] = last[s])
  BY <1>1 DEF PhoneInv, TapsHeld
<1>3. stored = pending
  BY <1>1 DEF PhoneInv, SameQueue, TypeOK, Idle, Sending
<1>4. flight.batch[s] # NoMark => pending[s] # NoMark
  BY <1>1 DEF PhoneInv, StillQueued
<1>5. register'[s] = register[s] \/ (flight.batch[s] # NoMark /\ register'[s] = flight.batch[s])
  BY DEF ServeBatch, After
<1>6. QED
  BY <1>1, <1>2, <1>3, <1>4, <1>5

\* A correction, or a batch that comes late, undoes the taps it writes over.
LEMMA OverwrittenTaps ==
  ASSUME PhoneInv, \/ \E batch \in late : ServeLate(batch)
                   \/ \E s \in Students, m \in Marks : Correct(s, m)
  PROVE  TapsHeld'
<1> SUFFICES ASSUME NEW s \in Students, last'[s] # NoMark
             PROVE  stored'[s] = last'[s] \/ (stored'[s] = NoMark /\ register'[s] = last'[s])
  BY DEF TapsHeld
<1>1. stored' = stored
  BY ServingSteps
<1>2. ASSUME NEW batch \in late, ServeLate(batch)
      PROVE  last'[s] = last[s] /\ register'[s] \in {register[s], last[s]}
  <2>1. CASE Takes(batch)
    BY <1>2, <2>1 DEF ServeLate, After
  <2>2. CASE ~Takes(batch)
    BY <1>2, <2>2 DEF ServeLate
  <2>3. QED
    BY <2>1, <2>2
<1>3. ASSUME NEW t \in Students, NEW m \in Marks, Correct(t, m)
      PROVE  last'[s] = last[s] /\ register'[s] \in {register[s], last[s]}
  BY <1>3 DEF Correct, PhoneInv, TypeOK, Batch
<1>4. last'[s] = last[s] /\ register'[s] \in {register[s], last[s]}
  BY <1>2, <1>3
<1>5. QED
  BY <1>1, <1>4 DEF PhoneInv, TapsHeld

LEMMA TapsHeldStep ==
  ASSUME PhoneInv, [Next]_vars
  PROVE  TapsHeld'
<1>1. TapsHeld
  BY DEF PhoneInv
<1>2. CASE UNCHANGED <<stored, register, last>>
  BY <1>1, <1>2 DEF TapsHeld
<1>3. CASE TimerFires \/ onOnline
  BY <1>2, <1>3, SendingSteps
<1>4. CASE (\E s \in Students, m \in Marks : markStudent(s, m)) \/ markEveryoneLeft
  <2>1. stored = pending
    BY <1>4, TappingSteps DEF PhoneInv, SameQueue
  <2>2. QED
    BY <1>1, <1>4, <2>1, TappingSteps DEF TapsHeld
<1>5. CASE Leave \/ Transient
  BY <1>2, <1>5, PageSteps
<1>6. CASE Open
  <2>1. CASE pending' = stored /\ UNCHANGED last
    BY <1>2, <1>6, <2>1, PageSteps
  <2>2. CASE pending' = Nothing /\ last' = WithoutSent(last, stored)
    BY <1>1, <1>6, <2>2, PageSteps DEF TapsHeld, WithoutSent, Nothing
  <2>3. QED
    BY <1>6, <2>1, <2>2, PageSteps
<1>7. QED
  BY <1>2, <1>3, <1>4, <1>5, <1>6, StepsOfThePage, QuietSteps, AnsweredTaps, ServedTaps,
     OverwrittenTaps

LEMMA RetryWaitsStep ==
  ASSUME PhoneInv, [Next]_vars
  PROVE  RetryWaits' /\ NothingStuck'
<1>1. RetryWaits /\ NothingStuck /\ TypeOK /\ StillQueued /\ Sending \in BOOLEAN
  BY DEF PhoneInv, Sending
<1>2. CASE UNCHANGED <<page, pending, stored, timer, backoff, flight>>
  BY <1>1, <1>2 DEF RetryWaits, NothingStuck, Sending
<1>3. CASE TimerFires \/ onOnline
  <2>1. CASE (Sending \/ pending = Nothing) /\ flight' = flight
    <3>1. Sending' = Sending
      BY <2>1 DEF Sending
    <3>2. backoff' => backoff
      BY <1>1, <1>3, SendingSteps DEF TypeOK
    <3>3. QED
      BY <1>1, <1>3, <2>1, <3>1, <3>2, SendingSteps DEF RetryWaits, NothingStuck
  <2>2. CASE pending # Nothing /\ flight' = [stage |-> "sent", batch |-> pending]
    <3>1. Sending'
      BY <2>2 DEF Sending
    <3>2. QED
      BY <1>3, <2>2, <3>1, SendingSteps DEF RetryWaits, NothingStuck
  <2>3. QED
    BY <1>3, <2>1, <2>2, SendingSteps
<1>4. CASE ServeBatch
  BY <1>1, <1>4, ServedSteps DEF RetryWaits, NothingStuck
<1>5. CASE Confirmed \/ Rejected
  BY <1>1, <1>5, AnsweredSteps, ArmType DEF RetryWaits, NothingStuck
<1>6. CASE (\E s \in Students, m \in Marks : markStudent(s, m)) \/ markEveryoneLeft
  <2>1. backoff \in BOOLEAN /\ Sending' = Sending
    BY <1>1, <1>6, TappingSteps DEF TypeOK, Sending
  <2>2. QED
    BY <1>1, <1>6, <2>1, TappingSteps, ArmType DEF RetryWaits, NothingStuck
<1>7. CASE Leave
  BY <1>7, PageSteps DEF RetryWaits, NothingStuck
<1>8. CASE Open
  <2>1. ~backoff'
    BY <1>8, PageSteps DEF PhoneInv, SameQueue
  <2>2. pending' # Nothing => timer' # "none"
    BY <1>1, <1>8, PageSteps, ArmType
  <2>3. QED
    BY <2>1, <2>2 DEF RetryWaits, NothingStuck
<1>9. CASE Transient
  <2>1. pending # Nothing
    <3>1. \E s \in Students : flight.batch[s] # NoMark
      BY <1>1, <1>9, PageSteps, SomethingIsMarked DEF StillQueued, TypeOK
    <3>2. QED
      BY <1>1, <1>9, <3>1, PageSteps DEF StillQueued, Nothing
  <2>2. QED
    BY <1>9, <2>1, PageSteps DEF RetryWaits, NothingStuck
<1>10. QED
  BY <1>2, <1>3, <1>4, <1>5, <1>6, <1>7, <1>8, <1>9, StepsOfThePage, QuietSteps, ServingSteps

LEMMA PhoneInvariant == Spec => []PhoneInv
<1>1. Init => PhoneInv
  BY ClassModeTypeInit
  DEF Init, PhoneInv, SameQueue, StillQueued, TapsHeld, RetryWaits, NothingStuck, Sending, Idle, Nothing
<1>2. PhoneInv /\ [Next]_vars => PhoneInv'
  BY ClassModeTypeStep, SameQueueStep, StillQueuedStep, TapsHeldStep, RetryWaitsStep DEF PhoneInv
<1>3. QED
  BY <1>1, <1>2, PTL DEF Spec

(* When the queue is empty, the server holds the last tap on every student *)
(* of the class, for any class, any marks and any number of taps: what     *)
(* travels stays queued until its answer, and a batch that is confirmed    *)
(* takes from the queue only the marks it carried                          *)
(* (lib/attendanceQueue.ts:69-76, 101-141).                                *)
THEOREM NoTapIsLost == Spec => []LastTapStands
<1>1. PhoneInv => LastTapStands
  BY DEF PhoneInv, LastTapStands, TapsHeld, SameQueue, Nothing
<1>2. QED
  BY <1>1, PhoneInvariant, PTL

(* A queue with something in it always has a timer or a request at work,   *)
(* because a failed attempt leaves a retry behind before the queue can     *)
(* grow again (lib/attendanceQueue.ts:101-160).                            *)
THEOREM NoTapIsStuck == Spec => []NothingStuck
<1>1. PhoneInv => NothingStuck
  BY DEF PhoneInv
<1>2. QED
  BY <1>1, PhoneInvariant, PTL

=============================================================================
