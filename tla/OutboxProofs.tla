---------------------------- MODULE OutboxProofs ----------------------------
(***************************************************************************)
(* Proofs about the notification outbox, for every set of messages and     *)
(* processes, every number of attempts and every schedule of retries.      *)
(***************************************************************************)
EXTENDS Outbox, TLAPS

-----------------------------------------------------------------------------
(* Helpers.                                                                *)

LEMMA IdleJob == Idle \in Jobs /\ ~(Idle.at \in {"expiring", "claiming", "sending", "answered", "sweeping"})
BY OutboxAssumption DEF Idle, Jobs

\* A batch has its whole limit when it starts.
LEMMA PlaceLeft == Limit \in 0..Limit
BY OutboxAssumption

\* Where a batch goes when it has expired its share, and after an attempt.
LEMMA JobWith ==
  ASSUME NEW j \in Jobs, NEW l \in 0..Limit
  PROVE  /\ [j EXCEPT !.at = "claiming", !.left = l] \in Jobs
         /\ [j EXCEPT !.at = "claiming", !.msg = Nobody, !.left = l, !.outcome = "none"] \in Jobs
BY DEF Jobs

\* What leaves the queue stops ageing, and the rest keeps its age.
LEMMA AgeType ==
  ASSUME TypeOK, NEW st \in [Messages -> DeliveryStatus]
  PROVE  AgeInQueue(st) \in [Messages -> 0..(StaleAfter + 1)]
BY OutboxAssumption DEF TypeOK, AgeInQueue

\* notify() writes no status but "pending".
LEMMA NotifyType ==
  ASSUME TypeOK, NEW M \in SUBSET Messages, notify(M)
  PROVE  status' \in [Messages -> DeliveryStatus]
BY DEF TypeOK, notify, DeliveryStatus

\* An attempt settles as one of the statuses, and returns to the queue only
\* while it has attempts left.
LEMMA StatusAfterType ==
  ASSUME NEW o \in {"none", "sent", "retry", "permanent"}, NEW n \in Nat
  PROVE  /\ StatusAfter(o, n) \in {"pending", "sent", "failed"}
         /\ StatusAfter(o, n) = "sent" => o = "sent"
         /\ StatusAfter(o, n) = "pending" => n < MaxAttempts
BY OutboxAssumption DEF StatusAfter, Exhausted

-----------------------------------------------------------------------------
(* Type correctness needs two facts of the invariant: a message in the     *)
(* queue has an attempt left, and an attempt has a message and a place.    *)

LEMMA TypeStep ==
  ASSUME TypeOK, TriesLeft, AttemptsHold, HeldRows, [Next]_vars
  PROVE  TypeOK'
<1> USE OutboxAssumption
<1>1. CASE Request
  <2>1. PICK m \in Messages \ Alerts : notify({m})
    BY <1>1 DEF Request
  <2>2. status' \in [Messages -> DeliveryStatus]
    BY <2>1, NotifyType
  <2>3. QED
    BY <1>1, <2>1, <2>2 DEF Request, TypeOK, notify, sweep, outside
<1>2. CASE unsubscribe
  BY <1>2 DEF unsubscribe, TypeOK, sweep, outside
<1>3. CASE Tick
  BY <1>3 DEF Tick, TypeOK, sweep, outside
<1>4. ASSUME NEW p \in Processes, dispatch_pending(p)
      PROVE  TypeOK'
  <2> DEFINE S == {m \in Messages : Pending(m) /\ age[m] > StaleAfter}
  <2>1. job' = [job EXCEPT ![p] = [job[p] EXCEPT !.at = "expiring", !.stale = S]]
    BY <1>4 DEF dispatch_pending, TypeOK
  <2>2. job[p] \in Jobs /\ S \in SUBSET Messages
    BY DEF TypeOK
  <2> HIDE DEF S
  <2>3. [job[p] EXCEPT !.at = "expiring", !.stale = S] \in Jobs
    BY <2>2 DEF Jobs
  <2>4. job' \in [Processes -> Jobs]
    BY <2>1, <2>3 DEF TypeOK
  <2>5. QED
    BY <1>4, <2>4 DEF dispatch_pending, TypeOK, rows, sweep, outside
<1>5. ASSUME NEW p \in Processes, ExpireStale(p)
      PROVE  TypeOK'
  <2>1. status' \in [Messages -> DeliveryStatus]
    BY <1>5 DEF ExpireStale, TypeOK, DeliveryStatus
  <2>2. age' \in [Messages -> 0..(StaleAfter + 1)]
    BY <1>5, <2>1, AgeType DEF ExpireStale
  <2>3. job' \in [Processes -> Jobs]
    <3>1. job' = [job EXCEPT ![p] = [job[p] EXCEPT !.at = "claiming", !.left = Limit]]
      BY <1>5 DEF ExpireStale, TypeOK
    <3>2. [job[p] EXCEPT !.at = "claiming", !.left = Limit] \in Jobs
      BY PlaceLeft, JobWith DEF TypeOK
    <3>3. QED
      BY <3>1, <3>2 DEF TypeOK
  <2>4. QED
    BY <1>5, <2>1, <2>2, <2>3 DEF ExpireStale, TypeOK, sweep, outside
<1>6. ASSUME NEW p \in Processes, claim_next(p)
      PROVE  TypeOK'
  <2>1. job' \in [Processes -> Jobs]
    <3>1. PICK m \in Messages :
            job' = [job EXCEPT ![p] = [job[p] EXCEPT !.at = "sending", !.msg = m]]
      BY <1>6 DEF claim_next, TypeOK, Claimable
    <3>2. [job[p] EXCEPT !.at = "sending", !.msg = m] \in Jobs
      BY DEF TypeOK, Jobs
    <3>3. QED
      BY <3>1, <3>2 DEF TypeOK
  <2>2. QED
    BY <1>6, <2>1 DEF claim_next, TypeOK, Claimable, sweep, outside
<1>7. ASSUME NEW p \in Processes, send(p)
      PROVE  TypeOK'
  <2>1. job[p].msg \in Messages
    BY <1>7 DEF send, AttemptsHold, Attempting
  <2>2. job' \in [Processes -> Jobs]
    <3>1. PICK o \in {"sent", "retry", "permanent"} :
            job' = [job EXCEPT ![p] = [job[p] EXCEPT !.at = "answered", !.outcome = o]]
      BY <1>7 DEF send, TypeOK
    <3>2. [job[p] EXCEPT !.at = "answered", !.outcome = o] \in Jobs
      BY DEF TypeOK, Jobs
    <3>3. QED
      BY <3>1, <3>2 DEF TypeOK
  <2>3. QED
    BY <1>7, <2>1, <2>2 DEF send, TypeOK, rows, sweep
<1>8. ASSUME NEW p \in Processes, settle(p)
      PROVE  TypeOK'
  <2> DEFINE m == job[p].msg
             n == attempts[m] + 1
             st == StatusAfter(job[p].outcome, n)
  <2>1. /\ m \in Messages
        /\ lock[m] = p
        /\ job[p].left > 0
        /\ attempts[m] < MaxAttempts
    BY <1>8 DEF settle, AttemptsHold, Attempting, HeldRows, TriesLeft, Pending
  <2>2. n \in 1..MaxAttempts
    BY <2>1 DEF TypeOK
  <2>3. /\ st \in {"pending", "sent", "failed"}
        /\ st = "pending" => n \in 1..(MaxAttempts - 1)
    <3>1. job[p].outcome \in {"none", "sent", "retry", "permanent"}
      BY DEF TypeOK, Jobs
    <3>2. QED
      BY <2>2, <3>1, StatusAfterType
  <2>4. /\ status' = [status EXCEPT ![m] = st]
        /\ attempts' = [attempts EXCEPT ![m] = n]
        /\ wait' = [wait EXCEPT ![m] = IF st = "pending" THEN RetryDelay[n] ELSE @]
        /\ age' = AgeInQueue(status')
        /\ lock' = [lock EXCEPT ![m] = Nobody]
        /\ job' = [job EXCEPT ![p].at = "claiming", ![p].msg = Nobody, ![p].left = @ - 1,
                              ![p].outcome = "none"]
        /\ subs' \subseteq subs
        /\ UNCHANGED <<swept, sweeper, taken, excused>>
    BY <1>8 DEF settle, sweep, outside
  <2> HIDE DEF m, n, st
  <2>5. status' \in [Messages -> DeliveryStatus]
    BY <2>3, <2>4 DEF TypeOK, DeliveryStatus
  <2>6. age' \in [Messages -> 0..(StaleAfter + 1)]
    BY <2>4, <2>5, AgeType
  <2>7. job' \in [Processes -> Jobs]
    <3>1. job[p].left - 1 \in 0..Limit
      BY <2>1 DEF TypeOK, Jobs
    <3> DEFINE j == [job[p] EXCEPT !.at = "claiming", !.msg = Nobody, !.left = @ - 1,
                                   !.outcome = "none"]
    <3>2. job' = [job EXCEPT ![p] = j]
      BY <2>4 DEF TypeOK
    <3>3. j \in Jobs
      BY <3>1, JobWith DEF TypeOK
    <3>4. QED
      BY <3>2, <3>3 DEF TypeOK
  <2>8. wait' \in [Messages -> Nat]
    BY <2>3, <2>4 DEF TypeOK
  <2>9. attempts' \in [Messages -> 0..MaxAttempts]
    <3>1. n \in 0..MaxAttempts
      BY <2>2
    <3>2. QED
      BY <2>4, <3>1 DEF TypeOK
  <2>10. QED
    BY <2>4, <2>5, <2>6, <2>7, <2>8, <2>9 DEF TypeOK
<1>9. ASSUME NEW p \in Processes, BatchDone(p)
      PROVE  TypeOK'
  BY <1>9, IdleJob DEF BatchDone, TypeOK, rows, sweep, outside
<1>10. ASSUME NEW p \in Processes, sweep_academy(p)
       PROVE  TypeOK'
  <2>1. job' = [job EXCEPT ![p] = [job[p] EXCEPT !.at = "sweeping"]]
    BY <1>10 DEF sweep_academy, TypeOK
  <2>2. [job[p] EXCEPT !.at = "sweeping"] \in Jobs
    BY DEF TypeOK, Jobs
  <2>3. QED
    BY <1>10, <2>1, <2>2 DEF sweep_academy, TypeOK, rows, outside
<1>11. ASSUME NEW p \in Processes, SweepCommit(p)
       PROVE  TypeOK'
  <2>1. PICK M \in SUBSET {m \in Alerts : status[m] = "none"} : notify(M)
    BY <1>11 DEF SweepCommit
  <2>2. status' \in [Messages -> DeliveryStatus]
    BY <2>1, NotifyType
  <2>3. QED
    BY <1>11, <2>1, <2>2, IdleJob DEF SweepCommit, TypeOK, notify, outside
<1>12. ASSUME NEW p \in Processes, Crash(p)
       PROVE  TypeOK'
  <2>1. job[p].at = "answered" => job[p].msg \in Messages
    BY DEF AttemptsHold, Attempting
  <2>2. QED
    BY <1>12, <2>1, IdleJob DEF Crash, TypeOK
<1>13. CASE UNCHANGED vars
  BY <1>13 DEF vars, rows, sweep, outside, TypeOK
<1>14. QED
  BY <1>1, <1>2, <1>3, <1>4, <1>5, <1>6, <1>7, <1>8, <1>9, <1>10, <1>11, <1>12, <1>13
     DEF Next, GoOn

-----------------------------------------------------------------------------
(* The invariant, one conjunct at a time.                                  *)

\* A process that attempts nothing holds no row.
LEMMA FreeOfIdle ==
  ASSUME HeldRows, NEW p \in Processes, ~Attempting(p), NEW m \in Messages
  PROVE  lock[m] # p
BY OutboxAssumption DEF HeldRows

\* What was taken once stays accounted for while nothing more is taken.
LEMMA TakenKept ==
  ASSUME TakenOnce, taken' = taken, excused \subseteq excused',
         \A m \in Messages : status[m] = "sent" => status'[m] = "sent",
         \A m \in Messages, q \in Processes :
            job[q].at = "answered" /\ job[q].msg = m /\ job[q].outcome = "sent" /\ m \notin excused'
              => \/ status'[m] = "sent"
                 \/ job'[q].at = "answered" /\ job'[q].msg = m /\ job'[q].outcome = "sent"
  PROVE  TakenOnce'
<1> SUFFICES ASSUME NEW m \in Messages, m \notin excused'
             PROVE  /\ taken[m] <= 1
                    /\ taken[m] = 1 => \/ status'[m] = "sent"
                                       \/ \E p \in Processes : /\ job'[p].at = "answered"
                                                               /\ job'[p].msg = m
                                                               /\ job'[p].outcome = "sent"
  BY DEF TakenOnce
<1>1. m \notin excused
  OBVIOUS
<1>2. taken[m] <= 1
  BY <1>1 DEF TakenOnce
<1>3. CASE status[m] = "sent"
  BY <1>2, <1>3
<1>4. CASE \E p \in Processes : /\ job[p].at = "answered" /\ job[p].msg = m
                                /\ job[p].outcome = "sent"
  BY <1>2, <1>4
<1>5. CASE taken[m] # 1
  BY <1>2, <1>5
<1>6. QED
  BY <1>1, <1>3, <1>4, <1>5 DEF TakenOnce

\* The end of an attempt: what is settled, and that the rest stays.
LEMMA Settled ==
  ASSUME TypeOK, HeldRows, AttemptsHold, NEW p \in Processes, settle(p)
  PROVE  /\ job[p].msg \in Messages
         /\ lock[job[p].msg] = p
         /\ status[job[p].msg] = "pending"
         /\ status'[job[p].msg] \in {"pending", "sent", "failed"}
         /\ job[p].outcome = "sent" => status'[job[p].msg] = "sent"
         /\ status'[job[p].msg] = "pending" => attempts'[job[p].msg] < MaxAttempts
         /\ \A m \in Messages \ {job[p].msg} :
                status'[m] = status[m] /\ attempts'[m] = attempts[m]
<1>1. /\ job[p].msg \in Messages
      /\ lock[job[p].msg] = p
      /\ status[job[p].msg] = "pending"
  BY OutboxAssumption DEF settle, AttemptsHold, Attempting, HeldRows, Pending
<1>2. job[p].outcome \in {"none", "sent", "retry", "permanent"}
  BY DEF TypeOK, Jobs
<1>3. attempts[job[p].msg] + 1 \in Nat
  BY <1>1, OutboxAssumption DEF TypeOK
<1>4. /\ status'[job[p].msg] = StatusAfter(job[p].outcome, attempts[job[p].msg] + 1)
      /\ attempts'[job[p].msg] = attempts[job[p].msg] + 1
      /\ \A m \in Messages \ {job[p].msg} :
                status'[m] = status[m] /\ attempts'[m] = attempts[m]
  BY <1>1 DEF settle, TypeOK
<1>5. job[p].outcome = "sent" => status'[job[p].msg] = "sent"
  BY <1>4 DEF StatusAfter
<1>6. QED
  BY <1>1, <1>2, <1>3, <1>4, <1>5, StatusAfterType

\* A row stays with the one process that attempts it.
LEMMA HeldRowsStep ==
  ASSUME TypeOK, HeldRows, AttemptsHold, [Next]_vars
  PROVE  HeldRows'
<1> USE OutboxAssumption
<1>1. CASE Request
  BY <1>1 DEF Request, notify, TypeOK, HeldRows, Attempting, Pending, sweep, outside
<1>2. CASE unsubscribe
  BY <1>2 DEF unsubscribe, HeldRows, Attempting, Pending, sweep, outside
<1>3. CASE Tick
  BY <1>3 DEF Tick, HeldRows, Attempting, Pending, sweep, outside
<1>4. ASSUME NEW p \in Processes, dispatch_pending(p)
      PROVE  HeldRows'
  BY <1>4, IdleJob DEF dispatch_pending, TypeOK, HeldRows, Attempting, Pending, rows, sweep, outside
<1>5. ASSUME NEW p \in Processes, ExpireStale(p)
      PROVE  HeldRows'
  BY <1>5 DEF ExpireStale, TypeOK, HeldRows, Attempting, Pending, rows, sweep, outside
<1>6. ASSUME NEW p \in Processes, claim_next(p)
      PROVE  HeldRows'
  BY <1>6 DEF claim_next, Claimable, TypeOK, HeldRows, Attempting, Pending, rows, sweep, outside
<1>7. ASSUME NEW p \in Processes, send(p)
      PROVE  HeldRows'
  BY <1>7 DEF send, TypeOK, HeldRows, Attempting, Pending, rows, sweep, outside
<1>8. ASSUME NEW p \in Processes, settle(p)
      PROVE  HeldRows'
  BY <1>8 DEF settle, TypeOK, AttemptsHold, HeldRows, Attempting, Pending, rows, sweep, outside
<1>9. ASSUME NEW p \in Processes, BatchDone(p)
      PROVE  HeldRows'
  <2>1. \A m \in Messages : lock[m] # p
    BY <1>9, FreeOfIdle DEF BatchDone, Attempting
  <2>2. QED
    BY <1>9, <2>1 DEF BatchDone, TypeOK, HeldRows, Attempting, Pending, rows
<1>10. ASSUME NEW p \in Processes, sweep_academy(p)
       PROVE  HeldRows'
  BY <1>10, IdleJob DEF sweep_academy, TypeOK, HeldRows, Attempting, Pending, rows, sweep, outside
<1>11. ASSUME NEW p \in Processes, SweepCommit(p)
       PROVE  HeldRows'
  <2>1. \A m \in Messages : lock[m] # p
    BY <1>11, FreeOfIdle DEF SweepCommit, Attempting
  <2>2. \A m \in Messages : Pending(m) => status'[m] = "pending"
    BY <1>11 DEF SweepCommit, notify, Pending
  <2>3. QED
    BY <1>11, <2>1, <2>2 DEF SweepCommit, notify, TypeOK, HeldRows, Attempting, Pending
<1>12. ASSUME NEW p \in Processes, Crash(p)
       PROVE  HeldRows'
  BY <1>12, IdleJob DEF Crash, TypeOK, HeldRows, Attempting, Pending, rows, sweep, outside
<1>13. CASE UNCHANGED vars
  BY <1>13 DEF vars, HeldRows, Attempting, Pending, rows, sweep, outside
<1>14. QED
  BY <1>1, <1>2, <1>3, <1>4, <1>5, <1>6, <1>7, <1>8, <1>9, <1>10, <1>11, <1>12, <1>13 DEF Next, GoOn

\* A process keeps the row it attempts, and answers "sent" for a taken message.
LEMMA AttemptsHoldStep ==
  ASSUME TypeOK, HeldRows, AttemptsHold, [Next]_vars
  PROVE  AttemptsHold'
<1> USE OutboxAssumption
<1>1. CASE Request
  BY <1>1 DEF Request, notify, TypeOK, AttemptsHold, Attempting, sweep, outside
<1>2. CASE unsubscribe
  BY <1>2 DEF unsubscribe, AttemptsHold, Attempting, sweep, outside
<1>3. CASE Tick
  BY <1>3 DEF Tick, AttemptsHold, Attempting, sweep, outside
<1>4. ASSUME NEW p \in Processes, dispatch_pending(p)
      PROVE  AttemptsHold'
  BY <1>4, IdleJob DEF dispatch_pending, TypeOK, AttemptsHold, Attempting, rows, sweep, outside
<1>5. ASSUME NEW p \in Processes, ExpireStale(p)
      PROVE  AttemptsHold'
  BY <1>5 DEF ExpireStale, TypeOK, AttemptsHold, Attempting, rows, sweep, outside
<1>6. ASSUME NEW p \in Processes, claim_next(p)
      PROVE  AttemptsHold'
  BY <1>6 DEF claim_next, Claimable, TypeOK, AttemptsHold, Attempting, rows, sweep, outside
<1>7. ASSUME NEW p \in Processes, send(p)
      PROVE  AttemptsHold'
  BY <1>7 DEF send, TypeOK, AttemptsHold, Attempting, rows, sweep, outside
<1>8. ASSUME NEW p \in Processes, settle(p)
      PROVE  AttemptsHold'
  BY <1>8 DEF settle, TypeOK, AttemptsHold, Attempting, rows, sweep, outside
<1>9. ASSUME NEW p \in Processes, BatchDone(p)
      PROVE  AttemptsHold'
  BY <1>9, IdleJob DEF BatchDone, TypeOK, AttemptsHold, Attempting, rows, sweep, outside
<1>10. ASSUME NEW p \in Processes, sweep_academy(p)
       PROVE  AttemptsHold'
  BY <1>10, IdleJob DEF sweep_academy, TypeOK, AttemptsHold, Attempting, rows, sweep, outside
<1>11. ASSUME NEW p \in Processes, SweepCommit(p)
       PROVE  AttemptsHold'
  BY <1>11, IdleJob DEF SweepCommit, notify, TypeOK, AttemptsHold, Attempting, rows, sweep, outside
<1>12. ASSUME NEW p \in Processes, Crash(p)
       PROVE  AttemptsHold'
  BY <1>12, IdleJob DEF Crash, TypeOK, AttemptsHold, Attempting, rows, sweep, outside
<1>13. CASE UNCHANGED vars
  BY <1>13 DEF vars, AttemptsHold, Attempting, rows, sweep, outside
<1>14. QED
  BY <1>1, <1>2, <1>3, <1>4, <1>5, <1>6, <1>7, <1>8, <1>9, <1>10, <1>11, <1>12, <1>13 DEF Next, GoOn

\* Only an attempt that leaves another one to try returns to the queue.
LEMMA TriesLeftStep ==
  ASSUME TypeOK, TriesLeft, HeldRows, AttemptsHold, [Next]_vars
  PROVE  TriesLeft'
<1> USE OutboxAssumption
<1>1. CASE Request
  BY <1>1 DEF Request, notify, TypeOK, TriesLeft, Pending, sweep, outside
<1>2. CASE unsubscribe
  BY <1>2 DEF unsubscribe, TriesLeft, Pending, sweep, outside
<1>3. CASE Tick
  BY <1>3 DEF Tick, TriesLeft, Pending, sweep, outside
<1>4. ASSUME NEW p \in Processes, dispatch_pending(p)
      PROVE  TriesLeft'
  BY <1>4, IdleJob DEF dispatch_pending, TypeOK, TriesLeft, Pending, rows, sweep, outside
<1>5. ASSUME NEW p \in Processes, ExpireStale(p)
      PROVE  TriesLeft'
  BY <1>5 DEF ExpireStale, TypeOK, TriesLeft, Pending, rows, sweep, outside
<1>6. ASSUME NEW p \in Processes, claim_next(p)
      PROVE  TriesLeft'
  BY <1>6 DEF claim_next, Claimable, TypeOK, TriesLeft, Pending, rows, sweep, outside
<1>7. ASSUME NEW p \in Processes, send(p)
      PROVE  TriesLeft'
  BY <1>7 DEF send, TypeOK, TriesLeft, Pending, rows, sweep, outside
<1>8. ASSUME NEW p \in Processes, settle(p)
      PROVE  TriesLeft'
  BY <1>8, Settled DEF TriesLeft
<1>9. ASSUME NEW p \in Processes, BatchDone(p)
      PROVE  TriesLeft'
  BY <1>9, IdleJob DEF BatchDone, TypeOK, TriesLeft, Pending, rows, sweep, outside
<1>10. ASSUME NEW p \in Processes, sweep_academy(p)
       PROVE  TriesLeft'
  BY <1>10, IdleJob DEF sweep_academy, TypeOK, TriesLeft, Pending, rows, sweep, outside
<1>11. ASSUME NEW p \in Processes, SweepCommit(p)
       PROVE  TriesLeft'
  BY <1>11, IdleJob DEF SweepCommit, notify, TypeOK, TriesLeft, Pending, rows, sweep, outside
<1>12. ASSUME NEW p \in Processes, Crash(p)
       PROVE  TriesLeft'
  BY <1>12, IdleJob DEF Crash, TypeOK, TriesLeft, Pending, rows, sweep, outside
<1>13. CASE UNCHANGED vars
  BY <1>13 DEF vars, TriesLeft, Pending, rows, sweep, outside
<1>14. QED
  BY <1>1, <1>2, <1>3, <1>4, <1>5, <1>6, <1>7, <1>8, <1>9, <1>10, <1>11, <1>12, <1>13 DEF Next, GoOn

\* What a batch expired, or found gone, does not come back to the queue.
LEMMA StaleLeftQueueStep ==
  ASSUME TypeOK, HeldRows, AttemptsHold, StaleLeftQueue, [Next]_vars
  PROVE  StaleLeftQueue'
<1> USE OutboxAssumption
<1>1. CASE Request
  <2>1. PICK m \in Messages \ Alerts : status[m] = "none" /\ notify({m})
    BY <1>1 DEF Request
  <2>2. \A n \in Messages : status[n] # "none" => status'[n] = status[n]
    BY <2>1 DEF notify
  <2>3. \A q \in Processes : job[q].stale \subseteq Messages
    BY DEF TypeOK, Jobs
  <2>4. job' = job
    BY <1>1 DEF Request
  <2>5. QED
    BY <2>2, <2>3, <2>4 DEF StaleLeftQueue, Pending
<1>2. CASE unsubscribe
  BY <1>2 DEF unsubscribe, StaleLeftQueue, Pending, sweep, outside
<1>3. CASE Tick
  BY <1>3 DEF Tick, StaleLeftQueue, Pending, sweep, outside
<1>4. ASSUME NEW p \in Processes, dispatch_pending(p)
      PROVE  StaleLeftQueue'
  BY <1>4, IdleJob DEF dispatch_pending, TypeOK, StaleLeftQueue, Pending, rows, sweep, outside
<1>5. ASSUME NEW p \in Processes, ExpireStale(p)
      PROVE  StaleLeftQueue'
  <2> SUFFICES ASSUME NEW q \in Processes, NEW m \in job'[q].stale
               PROVE  /\ status'[m] # "none"
                      /\ job'[q].at \in {"claiming", "sending", "answered"} => status'[m] # "pending"
    BY DEF StaleLeftQueue, Pending
  <2>1. job'[q].stale = job[q].stale /\ (q # p => job'[q] = job[q])
    BY <1>5 DEF ExpireStale, TypeOK, Jobs
  <2>2. m \in job[q].stale /\ m \in Messages
    BY <2>1 DEF TypeOK, Jobs
  <2>3. /\ status[m] # "none" => status'[m] # "none"
        /\ status'[m] = "pending" => status[m] = "pending" /\ m \notin job[p].stale
    BY <1>5, <2>2 DEF ExpireStale, Pending
  <2>4. QED
    BY <2>1, <2>2, <2>3 DEF StaleLeftQueue, Pending
<1>6. ASSUME NEW p \in Processes, claim_next(p)
      PROVE  StaleLeftQueue'
  BY <1>6 DEF claim_next, Claimable, TypeOK, StaleLeftQueue, Pending, rows, sweep, outside
<1>7. ASSUME NEW p \in Processes, send(p)
      PROVE  StaleLeftQueue'
  BY <1>7 DEF send, TypeOK, StaleLeftQueue, Pending, rows, sweep, outside
<1>8. ASSUME NEW p \in Processes, settle(p)
      PROVE  StaleLeftQueue'
  <2> SUFFICES ASSUME NEW q \in Processes, NEW m \in job'[q].stale
               PROVE  /\ status'[m] # "none"
                      /\ job'[q].at \in {"claiming", "sending", "answered"} => status'[m] # "pending"
    BY DEF StaleLeftQueue, Pending
  <2>1. /\ job'[q].stale = job[q].stale
        /\ job'[q].at \in {"claiming", "sending", "answered"}
              => job[q].at \in {"claiming", "sending", "answered"}
    BY <1>8 DEF settle, TypeOK, Jobs
  <2>2. m \in job[q].stale /\ m \in Messages
    BY <2>1 DEF TypeOK, Jobs
  <2>3. /\ status[m] # "none" => status'[m] # "none"
        /\ status'[m] = "pending" => status[m] = "pending"
    BY <1>8, <2>2, Settled
  <2>4. QED
    BY <2>1, <2>2, <2>3 DEF StaleLeftQueue, Pending
<1>9. ASSUME NEW p \in Processes, BatchDone(p)
      PROVE  StaleLeftQueue'
  <2>1. Idle.stale = {}
    BY DEF Idle
  <2>2. \A q \in Processes : job'[q] \in {job[q], Idle}
    BY <1>9 DEF BatchDone, TypeOK
  <2>3. QED
    BY <1>9, <2>1, <2>2 DEF BatchDone, rows, StaleLeftQueue, Pending
<1>10. ASSUME NEW p \in Processes, sweep_academy(p)
       PROVE  StaleLeftQueue'
  BY <1>10, IdleJob DEF sweep_academy, TypeOK, StaleLeftQueue, Pending, rows, sweep, outside
<1>11. ASSUME NEW p \in Processes, SweepCommit(p)
       PROVE  StaleLeftQueue'
  <2>1. Idle.stale = {}
    BY DEF Idle
  <2>2. \A q \in Processes : job'[q] \in {job[q], Idle}
    BY <1>11 DEF SweepCommit, TypeOK
  <2>3. \A n \in Messages : status[n] # "none" => status'[n] = status[n]
    BY <1>11, OutboxAssumption DEF SweepCommit, notify
  <2>4. \A q \in Processes : job[q].stale \subseteq Messages
    BY DEF TypeOK, Jobs
  <2>5. QED
    BY <2>1, <2>2, <2>3, <2>4 DEF StaleLeftQueue, Pending
<1>12. ASSUME NEW p \in Processes, Crash(p)
       PROVE  StaleLeftQueue'
  <2>1. Idle.stale = {}
    BY DEF Idle
  <2>2. \A q \in Processes : job'[q] \in {job[q], Idle}
    BY <1>12 DEF Crash, TypeOK
  <2>3. QED
    BY <1>12, <2>1, <2>2 DEF Crash, StaleLeftQueue, Pending
<1>13. CASE UNCHANGED vars
  BY <1>13 DEF vars, StaleLeftQueue, Pending, rows, sweep, outside
<1>14. QED
  BY <1>1, <1>2, <1>3, <1>4, <1>5, <1>6, <1>7, <1>8, <1>9, <1>10, <1>11, <1>12, <1>13 DEF Next, GoOn

\* A second copy has an excuse.
LEMMA TakenOnceStep ==
  ASSUME TypeOK, HeldRows, AttemptsHold, TakenOnce, [Next]_vars
  PROVE  TakenOnce'
<1> USE OutboxAssumption
<1>1. CASE Request
  BY <1>1 DEF Request, notify, TypeOK, TakenOnce, sweep, outside
<1>2. CASE unsubscribe
  BY <1>2 DEF unsubscribe, TakenOnce, sweep, outside
<1>3. CASE Tick
  BY <1>3 DEF Tick, TakenOnce, sweep, outside
<1>4. ASSUME NEW p \in Processes, dispatch_pending(p)
      PROVE  TakenOnce'
  <2>1. \A q \in Processes : job[q].at = "answered" =>
           job'[q].at = "answered" /\ job'[q].msg = job[q].msg /\ job'[q].outcome = job[q].outcome
    BY <1>4, IdleJob DEF dispatch_pending, TypeOK, Jobs
  <2>2. QED
    BY <1>4, <2>1, TakenKept DEF dispatch_pending, rows, outside
<1>5. ASSUME NEW p \in Processes, ExpireStale(p)
      PROVE  TakenOnce'
  <2>1. \A q \in Processes : job[q].at = "answered" =>
           job'[q].at = "answered" /\ job'[q].msg = job[q].msg /\ job'[q].outcome = job[q].outcome
    BY <1>5 DEF ExpireStale, TypeOK, Jobs
  <2>2. \A m \in Messages : status[m] = "sent" => status'[m] = "sent"
    BY <1>5 DEF ExpireStale, Pending
  <2>3. QED
    BY <1>5, <2>1, <2>2, TakenKept DEF ExpireStale, outside
<1>6. ASSUME NEW p \in Processes, claim_next(p)
      PROVE  TakenOnce'
  <2>1. \A q \in Processes : job[q].at = "answered" =>
           job'[q].at = "answered" /\ job'[q].msg = job[q].msg /\ job'[q].outcome = job[q].outcome
    BY <1>6 DEF claim_next, TypeOK, Jobs
  <2>2. QED
    BY <1>6, <2>1, TakenKept DEF claim_next, outside
<1>7. ASSUME NEW p \in Processes, send(p)
      PROVE  TakenOnce'
  <2>1. \A q \in Processes : job[q].at = "answered" =>
           job'[q].at = "answered" /\ job'[q].msg = job[q].msg /\ job'[q].outcome = job[q].outcome
    BY <1>7 DEF send, TypeOK, Jobs
  <2> DEFINE m == job[p].msg
  <2>2. m \in Messages /\ lock[m] = p /\ status[m] = "pending"
    BY <1>7 DEF send, AttemptsHold, Attempting, HeldRows, Pending
  <2>3. m \notin excused => taken[m] = 0
    <3>1. \A q \in Processes : job[q].at = "answered" => job[q].msg # m
      BY <1>7, <2>2 DEF send, AttemptsHold, Attempting
    <3>2. taken[m] \in Nat
      BY <2>2 DEF TypeOK
    <3>3. QED
      BY <2>2, <3>1, <3>2 DEF TakenOnce
  <2>4. PICK outcome \in {"sent", "retry", "permanent"}, accepted \in BOOLEAN :
          /\ job' = [job EXCEPT ![p].at = "answered", ![p].outcome = outcome]
          /\ taken' = [taken EXCEPT ![m] = IF accepted THEN @ + 1 ELSE @]
          /\ excused' = IF accepted /\ outcome # "sent" THEN excused \cup {m} ELSE excused
          /\ status' = status
    BY <1>7 DEF send, rows
  <2>5. job'[p].at = "answered" /\ job'[p].msg = m /\ job'[p].outcome = outcome
    BY <2>4 DEF TypeOK, Jobs
  <2> HIDE DEF m
  <2>6. \A n \in Messages \ {m} : taken'[n] = taken[n]
    BY <2>2, <2>4 DEF TypeOK
  <2>7. m \notin excused' => /\ taken'[m] \in {0, 1}
                             /\ taken'[m] = 1 => outcome = "sent"
    BY <2>2, <2>3, <2>4 DEF TypeOK
  <2>8. excused \subseteq excused'
    BY <2>4
  <2>9. ASSUME NEW n \in Messages, n \notin excused'
        PROVE  /\ taken'[n] <= 1
               /\ taken'[n] = 1 => \/ status'[n] = "sent"
                                    \/ \E q \in Processes : /\ job'[q].at = "answered"
                                                            /\ job'[q].msg = n
                                                            /\ job'[q].outcome = "sent"
    <3>1. CASE n = m
      BY <2>5, <2>7, <2>9, <3>1
    <3>2. CASE n # m
      <4>1. n \notin excused /\ taken'[n] = taken[n] /\ status'[n] = status[n]
        BY <2>4, <2>6, <2>8, <2>9, <3>2
      <4>2. /\ taken[n] <= 1
            /\ taken[n] = 1 => \/ status[n] = "sent"
                               \/ \E q \in Processes : /\ job[q].at = "answered" /\ job[q].msg = n
                                                       /\ job[q].outcome = "sent"
        BY <4>1 DEF TakenOnce
      <4>3. QED
        BY <2>1, <4>1, <4>2
    <3>3. QED
      BY <3>1, <3>2
  <2>10. QED
    BY <2>9 DEF TakenOnce
<1>8. ASSUME NEW p \in Processes, settle(p)
      PROVE  TakenOnce'
  <2>1. \A q \in Processes \ {p} : job'[q] = job[q]
    BY <1>8 DEF settle, TypeOK
  <2>2. taken' = taken /\ excused' = excused
    BY <1>8 DEF settle, outside
  <2>3. \A m \in Messages : status[m] = "sent" => status'[m] = "sent"
    BY <1>8, Settled
  <2>4. \A m \in Messages, q \in Processes :
           job[q].at = "answered" /\ job[q].msg = m /\ job[q].outcome = "sent"
             => \/ status'[m] = "sent"
                \/ job'[q].at = "answered" /\ job'[q].msg = m /\ job'[q].outcome = "sent"
    BY <1>8, <2>1, Settled
  <2>5. QED
    BY <2>2, <2>3, <2>4, TakenKept
<1>9. ASSUME NEW p \in Processes, BatchDone(p)
      PROVE  TakenOnce'
  BY <1>9, IdleJob DEF BatchDone, TypeOK, TakenOnce, rows, sweep, outside
<1>10. ASSUME NEW p \in Processes, sweep_academy(p)
       PROVE  TakenOnce'
  BY <1>10, IdleJob DEF sweep_academy, TypeOK, TakenOnce, rows, sweep, outside
<1>11. ASSUME NEW p \in Processes, SweepCommit(p)
       PROVE  TakenOnce'
  BY <1>11, IdleJob DEF SweepCommit, notify, TypeOK, TakenOnce, rows, sweep, outside
<1>12. ASSUME NEW p \in Processes, Crash(p)
       PROVE  TakenOnce'
  BY <1>12, IdleJob DEF Crash, TypeOK, TakenOnce, rows, sweep, outside
<1>13. CASE UNCHANGED vars
  BY <1>13 DEF vars, TakenOnce, rows, sweep, outside
<1>14. QED
  BY <1>1, <1>2, <1>3, <1>4, <1>5, <1>6, <1>7, <1>8, <1>9, <1>10, <1>11, <1>12, <1>13 DEF Next, GoOn

\* The index keeps a second sweep out until the first one ends.
LEMMA OneSweeperStep ==
  ASSUME TypeOK, OneSweeper, [Next]_vars
  PROVE  OneSweeper'
<1> USE OutboxAssumption
<1>1. CASE Request
  BY <1>1 DEF Request, notify, TypeOK, OneSweeper, sweep, outside
<1>2. CASE unsubscribe
  BY <1>2 DEF unsubscribe, OneSweeper, sweep, outside
<1>3. CASE Tick
  BY <1>3 DEF Tick, OneSweeper, sweep, outside
<1>4. ASSUME NEW p \in Processes, dispatch_pending(p)
      PROVE  OneSweeper'
  BY <1>4, IdleJob DEF dispatch_pending, TypeOK, OneSweeper, rows, sweep, outside
<1>5. ASSUME NEW p \in Processes, ExpireStale(p)
      PROVE  OneSweeper'
  BY <1>5 DEF ExpireStale, TypeOK, OneSweeper, rows, sweep, outside
<1>6. ASSUME NEW p \in Processes, claim_next(p)
      PROVE  OneSweeper'
  BY <1>6 DEF claim_next, Claimable, TypeOK, OneSweeper, rows, sweep, outside
<1>7. ASSUME NEW p \in Processes, send(p)
      PROVE  OneSweeper'
  BY <1>7 DEF send, TypeOK, OneSweeper, rows, sweep, outside
<1>8. ASSUME NEW p \in Processes, settle(p)
      PROVE  OneSweeper'
  BY <1>8 DEF settle, TypeOK, OneSweeper, rows, sweep, outside
<1>9. ASSUME NEW p \in Processes, BatchDone(p)
      PROVE  OneSweeper'
  BY <1>9, IdleJob DEF BatchDone, TypeOK, OneSweeper, rows, sweep, outside
<1>10. ASSUME NEW p \in Processes, sweep_academy(p)
       PROVE  OneSweeper'
  BY <1>10, IdleJob DEF sweep_academy, TypeOK, OneSweeper, rows, sweep, outside
<1>11. ASSUME NEW p \in Processes, SweepCommit(p)
       PROVE  OneSweeper'
  BY <1>11, IdleJob DEF SweepCommit, notify, TypeOK, OneSweeper, rows, sweep, outside
<1>12. ASSUME NEW p \in Processes, Crash(p)
       PROVE  OneSweeper'
  BY <1>12, IdleJob DEF Crash, TypeOK, OneSweeper, rows, sweep, outside
<1>13. CASE UNCHANGED vars
  BY <1>13 DEF vars, OneSweeper, rows, sweep, outside
<1>14. QED
  BY <1>1, <1>2, <1>3, <1>4, <1>5, <1>6, <1>7, <1>8, <1>9, <1>10, <1>11, <1>12, <1>13 DEF Next, GoOn

-----------------------------------------------------------------------------
(* Theorems.                                                               *)

LEMMA InitInvariant == Init => TypeOK /\ OutboxInv
<1> SUFFICES ASSUME Init PROVE TypeOK /\ OutboxInv
  OBVIOUS
<1> USE OutboxAssumption
<1>1. TypeOK
  BY IdleJob DEF Init, TypeOK, DeliveryStatus
<1>2. HeldRows
  BY DEF Init, HeldRows
<1>3. AttemptsHold
  BY DEF Init, AttemptsHold, Attempting, Idle
<1>4. TriesLeft
  BY DEF Init, TriesLeft
<1>5. StaleLeftQueue
  BY DEF Init, StaleLeftQueue, Idle
<1>6. TakenOnce
  BY DEF Init, TakenOnce
<1>7. OneSweeper
  BY DEF Init, OneSweeper, Idle
<1>8. QED
  BY <1>1, <1>2, <1>3, <1>4, <1>5, <1>6, <1>7 DEF OutboxInv

LEMMA Invariant == Spec => [](TypeOK /\ OutboxInv)
<1>1. TypeOK /\ OutboxInv /\ [Next]_vars => (TypeOK /\ OutboxInv)'
  BY TypeStep, HeldRowsStep, AttemptsHoldStep, TriesLeftStep, StaleLeftQueueStep,
     TakenOnceStep, OneSweeperStep DEF OutboxInv
<1>2. QED
  BY <1>1, InitInvariant, PTL DEF Spec

\* Every column keeps its type; in particular no delivery is attempted more
\* than MaxAttempts times (services/delivery.py:164).
THEOREM TypeCorrect == Spec => []TypeOK
BY Invariant, PTL

\* Any number of processes draining the outbox never send a message twice,
\* unless a process died, or an answer was lost, after the provider took it.
THEOREM NeverSentTwice == Spec => []NeverTwice
<1>1. TypeOK /\ OutboxInv => NeverTwice
  <2>1. ASSUME TypeOK, OutboxInv, NEW m \in Messages, taken[m] > 1, m \notin excused
        PROVE  FALSE
    BY <2>1 DEF OutboxInv, TakenOnce, TypeOK
  <2>2. QED
    BY <2>1 DEF NeverTwice
<1>2. QED
  BY <1>1, Invariant, PTL

\* No batch attempts what was already stale when it began.
THEOREM StaleIsNotSent == Spec => []NothingStale
<1>1. TypeOK /\ OutboxInv => NothingStale
  <2>1. ASSUME TypeOK, OutboxInv, NEW p \in Processes, Attempting(p)
        PROVE  job[p].msg \notin job[p].stale
    <3>1. lock[job[p].msg] # Nobody /\ job[p].msg \in Messages
      BY <2>1, OutboxAssumption DEF OutboxInv, AttemptsHold
    <3>2. Pending(job[p].msg)
      BY <3>1, <2>1 DEF OutboxInv, HeldRows
    <3>3. QED
      BY <3>2, <2>1 DEF OutboxInv, StaleLeftQueue, Attempting
  <2>2. QED
    BY <2>1 DEF NothingStale, Attempting
<1>2. QED
  BY <1>1, Invariant, PTL

\* The week's sweep is committed at most once, whatever number of processes
\* find it due.
THEOREM OneSweepAWeek == Spec => []SweptOnce
<1>1. OutboxInv => SweptOnce
  BY DEF OutboxInv, OneSweeper, SweptOnce
<1>2. QED
  BY <1>1, Invariant, PTL

-----------------------------------------------------------------------------
(* The outbox implements its promise.                                      *)

LEMMA StepImplementsPromise ==
  ASSUME TypeOK, OutboxInv, [Next]_vars
  PROVE  [Promise!Next]_(Promise!vars)
<1> USE OutboxAssumption
<1>a. HeldRows /\ AttemptsHold
  BY DEF OutboxInv
<1>b. ASSUME UNCHANGED <<status, lock, taken>>
      PROVE  UNCHANGED Promise!vars
  BY <1>b DEF Promise!vars, InFlight
<1>1. CASE Request
  <2>1. PICK m \in Messages \ Alerts : status[m] = "none" /\ notify({m})
    BY <1>1 DEF Request
  <2>2. Promise!Queue({m})
    BY <1>1, <2>1 DEF Request, notify, outside, Promise!Queue, InFlight
  <2>3. QED
    BY <2>2 DEF Promise!Next
<1>2. CASE unsubscribe
  BY <1>2, <1>b DEF unsubscribe, outside
<1>3. CASE Tick
  BY <1>3, <1>b DEF Tick, outside
<1>4. ASSUME NEW p \in Processes, dispatch_pending(p)
      PROVE  UNCHANGED Promise!vars
  BY <1>4, <1>b DEF dispatch_pending, rows, outside
<1>5. ASSUME NEW p \in Processes, ExpireStale(p)
      PROVE  Promise!Next
  <2> DEFINE M == {m \in Messages : m \in job[p].stale /\ Pending(m)}
  <2>1. Promise!Expire(M)
    BY <1>5 DEF ExpireStale, outside, Promise!Expire, InFlight, Pending
  <2>2. QED
    BY <2>1 DEF Promise!Next
<1>6. ASSUME NEW p \in Processes, claim_next(p)
      PROVE  Promise!Next
  <2>1. PICK m \in Messages : /\ Pending(m) /\ lock[m] = Nobody
                              /\ lock' = [lock EXCEPT ![m] = p]
    BY <1>6 DEF claim_next, Claimable
  <2>2. InFlight' = InFlight \cup {m}
    BY <2>1 DEF InFlight, TypeOK
  <2>3. Promise!Attempt(m)
    BY <1>6, <2>1, <2>2 DEF claim_next, outside, Promise!Attempt, Pending, InFlight
  <2>4. QED
    BY <2>3 DEF Promise!Next
<1>7. ASSUME NEW p \in Processes, send(p)
      PROVE  Promise!Next \/ UNCHANGED Promise!vars
  <2> DEFINE m == job[p].msg
  <2>1. m \in Messages /\ m \in InFlight
    BY <1>7, <1>a DEF send, AttemptsHold, Attempting, InFlight
  <2>2. UNCHANGED <<status, lock>>
    BY <1>7 DEF send, rows
  <2>3. taken' \in {taken, [taken EXCEPT ![m] = @ + 1]}
    BY <1>7, <2>1 DEF send, TypeOK
  <2>4. CASE taken' = taken
    BY <2>2, <2>4, <1>b
  <2>5. CASE taken' = [taken EXCEPT ![m] = @ + 1]
    <3>1. Promise!Take(m)
      BY <2>1, <2>2, <2>5 DEF Promise!Take, InFlight
    <3>2. QED
      BY <2>1, <3>1 DEF Promise!Next
  <2>6. QED
    BY <2>3, <2>4, <2>5
<1>8. ASSUME NEW p \in Processes, settle(p)
      PROVE  Promise!Next
  <2> DEFINE m == job[p].msg
             st == StatusAfter(job[p].outcome, attempts[m] + 1)
  <2>1. m \in Messages /\ lock[m] = p
    BY <1>8, <1>a, Settled
  <2>2. /\ status' = [status EXCEPT ![m] = st]
        /\ lock' = [lock EXCEPT ![m] = Nobody]
        /\ taken' = taken
    BY <1>8 DEF settle, outside
  <2>3. st \in {"pending", "sent", "failed"}
    BY <1>8, <1>a, <2>1, <2>2, Settled DEF TypeOK
  <2>4. st = "sent" => taken[m] > 0
    <3>1. st = "sent" => job[p].outcome = "sent"
      BY DEF StatusAfter
    <3>2. QED
      BY <3>1, <1>8, <1>a DEF settle, AttemptsHold, Attempting
  <2>5. m \in InFlight /\ InFlight' = InFlight \ {m}
    BY <2>1, <2>2 DEF InFlight, TypeOK
  <2> HIDE DEF m, st
  <2>6. Promise!Resolve(m, st)
    BY <2>2, <2>4, <2>5 DEF Promise!Resolve
  <2>7. QED
    BY <2>1, <2>3, <2>6 DEF Promise!Next
<1>9. ASSUME NEW p \in Processes, BatchDone(p)
      PROVE  UNCHANGED Promise!vars
  BY <1>9, <1>b DEF BatchDone, rows, outside
<1>10. ASSUME NEW p \in Processes, sweep_academy(p)
       PROVE  UNCHANGED Promise!vars
  BY <1>10, <1>b DEF sweep_academy, rows, outside
<1>11. ASSUME NEW p \in Processes, SweepCommit(p)
       PROVE  Promise!Next
  <2>1. PICK M \in SUBSET {m \in Alerts : status[m] = "none"} : notify(M)
    BY <1>11 DEF SweepCommit
  <2>2. M \in SUBSET Messages
    OBVIOUS
  <2>3. Promise!Queue(M)
    BY <1>11, <2>1 DEF SweepCommit, notify, outside, Promise!Queue, InFlight
  <2>4. QED
    BY <2>2, <2>3 DEF Promise!Next
<1>12. ASSUME NEW p \in Processes, Crash(p)
       PROVE  Promise!Next \/ UNCHANGED Promise!vars
  <2>1. UNCHANGED <<status, taken>>
    BY <1>12 DEF Crash
  <2>2. CASE Attempting(p)
    <3> DEFINE m == job[p].msg
    <3>1. m \in Messages /\ lock[m] = p /\ Pending(m)
      BY <2>2, <1>a DEF AttemptsHold, HeldRows
    <3>2. \A n \in Messages \ {m} : lock[n] # p
      BY <1>a DEF HeldRows
    <3>3. InFlight' = InFlight \ {m} /\ m \in InFlight
      BY <1>12, <3>1, <3>2 DEF Crash, InFlight, TypeOK
    <3>4. Promise!Resolve(m, "pending")
      BY <2>1, <3>1, <3>3 DEF Promise!Resolve, Pending, TypeOK
    <3>5. QED
      BY <3>1, <3>4 DEF Promise!Next
  <2>3. CASE ~Attempting(p)
    <3>1. lock' = lock
      BY <1>12, <1>a, <2>3, FreeOfIdle DEF Crash, TypeOK
    <3>2. QED
      BY <2>1, <3>1, <1>b
  <2>4. QED
    BY <2>2, <2>3
<1>13. CASE UNCHANGED vars
  BY <1>13, <1>b DEF vars, rows, outside
<1>14. QED
  BY <1>1, <1>2, <1>3, <1>4, <1>5, <1>6, <1>7, <1>8, <1>9, <1>10, <1>11, <1>12, <1>13
     DEF Next, GoOn

\* The outbox, with its clock, retries, row locks and dying processes,
\* implements its promise: one attempt at a time, "sent" only for what a
\* provider took, and no way back from sent, failed or expired.
THEOREM OutboxKeepsPromise == Spec => ImplementsPromise
<1>1. Init => Promise!Init
  BY DEF Init, Promise!Init, InFlight
<1>2. QED
  BY <1>1, StepImplementsPromise, Invariant, PTL DEF Spec, ImplementsPromise, Promise!Spec

=============================================================================
