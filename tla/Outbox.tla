------------------------------- MODULE Outbox -------------------------------
(***************************************************************************)
(* The notification outbox and the background jobs that drain and feed it. *)
(*                                                                         *)
(* Requests write messages in the transaction of the change they report.   *)
(* Each process of the API runs a background loop, and an operator may run *)
(* the same jobs by hand: they expire what is too old, then claim one due  *)
(* message at a time under FOR UPDATE SKIP LOCKED, attempt it, and commit  *)
(* before the next.  A process may die between any two statements: its     *)
(* transaction is rolled back and its row lock freed, but what a provider  *)
(* took stays taken.                                                       *)
(*                                                                         *)
(* Time passes in ticks.  A message in the queue counts the ticks since it *)
(* was queued (up to the first at which it is stale) and the ticks left    *)
(* until its next attempt is due, so no clock has to be bounded.           *)
(***************************************************************************)
EXTENDS Naturals, FiniteSets

CONSTANTS
    Messages,     \* the deliveries: one message through one channel
    Alerts,       \* the deliveries that the weekly at-risk sweep would queue
    Devices,      \* the browser subscriptions
    Device,       \* Device[m]: the subscription that m goes to, if it is a push
    NoDevice,     \* Device[m] of an email or a WhatsApp message
    Processes,    \* the processes that run the jobs
    MaxAttempts,  \* attempts of one delivery
    RetryDelay,   \* RetryDelay[n]: ticks between attempt n and attempt n + 1
    StaleAfter,   \* age at which a message still in the queue expires
    Limit,        \* messages that one batch attempts
    MaxTaken,     \* bound: how often a provider takes the same message
    Nobody        \* the holder of a free row

ASSUME OutboxAssumption ==
    /\ Alerts \subseteq Messages
    /\ Device \in [Messages -> Devices \cup {NoDevice}]
    /\ MaxAttempts \in Nat \ {0}
    /\ RetryDelay \in [1..(MaxAttempts - 1) -> Nat]
    /\ StaleAfter \in Nat
    /\ Limit \in Nat \ {0}
    /\ MaxTaken \in Nat
    /\ Nobody \notin Processes \cup Messages

VARIABLES
    status,      \* status[m]: the committed status of delivery m
    attempts,    \* attempts[m]: its committed attempts
    wait,        \* wait[m]: ticks until next_attempt_at
    age,         \* age[m]: while pending, ticks since created_at, up to StaleAfter + 1
    lock,        \* lock[m]: the process whose transaction holds the row
    subs,        \* the subscriptions that still exist
    swept,       \* how often this week's sweep was committed
    sweeper,     \* the process that has inserted this week's sweep, uncommitted
    job,         \* job[p]: what process p is doing
    taken,       \* taken[m]: how often the provider took m
    excused      \* the messages whose attempt ended with nobody to write it down

rows == <<status, attempts, wait, age, lock, subs>>
sweep == <<swept, sweeper>>
outside == <<taken, excused>>
vars == <<rows, sweep, job, outside>>

DeliveryStatus == {"none", "pending", "sent", "failed", "expired"}

Idle == [at |-> "idle", msg |-> Nobody, left |-> 0, stale |-> {}, outcome |-> "none"]

Jobs ==
    [at : {"idle", "expiring", "claiming", "sending", "answered", "sweeping"},
     msg : Messages \cup {Nobody}, left : 0..Limit, stale : SUBSET Messages,
     outcome : {"none", "sent", "retry", "permanent"}]

Pending(m) == status[m] = "pending"

-----------------------------------------------------------------------------
(* The requests and the world.                                             *)

\* Only what is in the queue ages.
AgeInQueue(st) == [m \in Messages |-> IF st[m] = "pending" THEN age[m] ELSE 0]

\* notify(): the deliveries of a change that is being committed.  A push goes to
\* a device that was subscribed when the request read it, perhaps no longer now.
notify(M) ==
    /\ status' = [m \in Messages |-> IF m \in M THEN "pending" ELSE status[m]]
    /\ UNCHANGED <<attempts, wait, age, lock, subs>>

Request ==
    /\ \E m \in Messages \ Alerts : status[m] = "none" /\ notify({m})
    /\ UNCHANGED <<sweep, job, outside>>

unsubscribe ==
    /\ \E d \in subs : subs' = subs \ {d}
    /\ UNCHANGED <<status, attempts, wait, age, lock, sweep, job, outside>>

Tick ==
    /\ wait' = [m \in Messages |-> IF wait[m] > 0 THEN wait[m] - 1 ELSE 0]
    /\ age' = [m \in Messages |-> IF Pending(m) /\ age[m] <= StaleAfter THEN age[m] + 1 ELSE age[m]]
    /\ <<wait, age>>' # <<wait, age>>
    /\ UNCHANGED <<status, attempts, lock, subs, sweep, job, outside>>

-----------------------------------------------------------------------------
(* dispatch_pending.                                                       *)

\* Mutant: only what was attempted before can expire.
ExpireOnlyTried(p) ==
    /\ job[p] = Idle
    /\ job' = [job EXCEPT ![p].at = "expiring",
                          ![p].stale = {m \in Messages : /\ Pending(m) /\ age[m] > StaleAfter
                                                          /\ attempts[m] > 0}]
    /\ UNCHANGED <<rows, sweep, outside>>

\* The UPDATE that expires begins: the cutoff is fixed here.
dispatch_pending(p) ==
    /\ job[p] = Idle
    /\ job' = [job EXCEPT ![p].at = "expiring",
                          ![p].stale = {m \in Messages : Pending(m) /\ age[m] > StaleAfter}]
    /\ UNCHANGED <<rows, sweep, outside>>

\* Mutant: the rows that another process holds are passed over.
ExpireSkipLocked(p) ==
    /\ job[p].at = "expiring"
    /\ status' = [m \in Messages |-> IF m \in job[p].stale /\ Pending(m) /\ lock[m] = Nobody
                                     THEN "expired" ELSE status[m]]
    /\ age' = AgeInQueue(status')
    /\ job' = [job EXCEPT ![p].at = "claiming", ![p].left = Limit]
    /\ UNCHANGED <<attempts, wait, lock, subs, sweep, outside>>

\* Mutant: the rows that another process holds are expired under it.
ExpireHeld(p) ==
    /\ job[p].at = "expiring"
    /\ status' = [m \in Messages |-> IF m \in job[p].stale /\ Pending(m) THEN "expired" ELSE status[m]]
    /\ age' = AgeInQueue(status')
    /\ job' = [job EXCEPT ![p].at = "claiming", ![p].left = Limit]
    /\ UNCHANGED <<attempts, wait, lock, subs, sweep, outside>>

\* It waits for the rows that another process holds, and looks at them again.
ExpireStale(p) ==
    /\ job[p].at = "expiring"
    /\ \A m \in job[p].stale : lock[m] = Nobody
    /\ status' = [m \in Messages |-> IF m \in job[p].stale /\ Pending(m) THEN "expired" ELSE status[m]]
    /\ age' = AgeInQueue(status')
    /\ job' = [job EXCEPT ![p].at = "claiming", ![p].left = Limit]
    /\ UNCHANGED <<attempts, wait, lock, subs, sweep, outside>>

\* Mutant: SELECT without FOR UPDATE.
AnyDue == {m \in Messages : Pending(m) /\ wait[m] = 0}

\* SKIP LOCKED: a row that another process holds is passed over.
Claimable == {m \in Messages : Pending(m) /\ wait[m] = 0 /\ lock[m] = Nobody}

claim_next(p) ==
    /\ job[p].at = "claiming"
    /\ job[p].left > 0
    /\ \E m \in Claimable :
        /\ lock' = [lock EXCEPT ![m] = p]
        /\ job' = [job EXCEPT ![p].at = "sending", ![p].msg = m]
    /\ UNCHANGED <<status, attempts, wait, age, subs, sweep, outside>>

\* The provider's side of send(): it took the message or not, and the answer
\* that reaches the process may say otherwise.
Reachable(m) == Device[m] = NoDevice \/ Device[m] \in subs

send(p) ==
    LET m == job[p].msg IN
    /\ job[p].at = "sending"
    /\ \E outcome \in {"sent", "retry", "permanent"}, accepted \in BOOLEAN :
        /\ outcome = "sent" => accepted
        /\ accepted => Reachable(m) /\ taken[m] < MaxTaken
        /\ ~Reachable(m) => outcome = "permanent"
        /\ job' = [job EXCEPT ![p].at = "answered", ![p].outcome = outcome]
        /\ taken' = [taken EXCEPT ![m] = IF accepted THEN @ + 1 ELSE @]
        /\ excused' = IF accepted /\ outcome # "sent" THEN excused \cup {m} ELSE excused
    /\ UNCHANGED <<rows, sweep>>

\* Given up after the last attempt.
Exhausted(n) == n >= MaxAttempts

\* Mutant: the answer is stored as it came.
AnswerAsStatus(outcome, n) == outcome

StatusAfter(outcome, n) ==
    IF outcome = "sent" THEN "sent"
    ELSE IF outcome = "permanent" \/ Exhausted(n) THEN "failed" ELSE "pending"

\* The commit of one attempt.  A push service that answers that the browser
\* unsubscribed (SubscriptionGone) takes the subscription with it.
settle(p) ==
    LET m == job[p].msg
        n == attempts[m] + 1
    IN
    /\ job[p].at = "answered"
    /\ attempts' = [attempts EXCEPT ![m] = n]
    /\ status' = [status EXCEPT ![m] = StatusAfter(job[p].outcome, n)]
    /\ wait' = [wait EXCEPT ![m] = IF StatusAfter(job[p].outcome, n) = "pending"
                                   THEN RetryDelay[n] ELSE @]
    /\ age' = AgeInQueue(status')
    /\ lock' = [lock EXCEPT ![m] = Nobody]
    /\ job' = [job EXCEPT ![p].at = "claiming", ![p].msg = Nobody, ![p].left = @ - 1,
                          ![p].outcome = "none"]
    /\ subs' \in {subs, IF job[p].outcome = "permanent" THEN subs \ {Device[m]} ELSE subs}
    /\ UNCHANGED <<sweep, outside>>

BatchDone(p) ==
    /\ job[p].at = "claiming"
    /\ job[p].left = 0 \/ Claimable = {}
    /\ job' = [job EXCEPT ![p] = Idle]
    /\ UNCHANGED <<rows, sweep, outside>>

-----------------------------------------------------------------------------
(* run_due_sweeps, for one academy and one week.  The INSERT of the week's *)
(* row waits for whoever has inserted it and not committed.                *)

\* Mutant: the week's row is looked for, and no index guards it.
SweepUnguarded(p) ==
    /\ job[p] = Idle
    /\ swept = 0
    /\ sweeper' = p
    /\ job' = [job EXCEPT ![p].at = "sweeping"]
    /\ UNCHANGED <<rows, swept, outside>>

sweep_academy(p) ==
    /\ job[p] = Idle
    /\ swept = 0
    /\ sweeper = Nobody
    /\ sweeper' = p
    /\ job' = [job EXCEPT ![p].at = "sweeping"]
    /\ UNCHANGED <<rows, swept, outside>>

\* The claim and its alerts are committed together.
SweepCommit(p) ==
    /\ job[p].at = "sweeping"
    /\ \E M \in SUBSET {m \in Alerts : status[m] = "none"} : notify(M)
    /\ swept' = swept + 1
    /\ sweeper' = Nobody
    /\ job' = [job EXCEPT ![p] = Idle]
    /\ UNCHANGED outside

-----------------------------------------------------------------------------
(* A process dies, or a statement of its job fails: the open transaction   *)
(* is rolled back.                                                         *)

Crash(p) ==
    /\ job[p] # Idle
    /\ lock' = [m \in Messages |-> IF lock[m] = p THEN Nobody ELSE lock[m]]
    /\ sweeper' = IF sweeper = p THEN Nobody ELSE sweeper
    /\ excused' = IF job[p].at = "answered" THEN excused \cup {job[p].msg} ELSE excused
    /\ job' = [job EXCEPT ![p] = Idle]
    /\ UNCHANGED <<status, attempts, wait, age, subs, swept, taken>>

-----------------------------------------------------------------------------

Init ==
    /\ status = [m \in Messages |-> "none"]
    /\ attempts = [m \in Messages |-> 0]
    /\ wait = [m \in Messages |-> 0]
    /\ age = [m \in Messages |-> 0]
    /\ lock = [m \in Messages |-> Nobody]
    /\ subs = Devices
    /\ swept = 0
    /\ sweeper = Nobody
    /\ job = [p \in Processes |-> Idle]
    /\ taken = [m \in Messages |-> 0]
    /\ excused = {}

GoOn(p) == claim_next(p) \/ send(p) \/ settle(p) \/ BatchDone(p) \/ SweepCommit(p)

Next ==
    \/ Request \/ unsubscribe \/ Tick
    \/ \E p \in Processes : \/ dispatch_pending(p) \/ ExpireStale(p) \/ sweep_academy(p)
                            \/ GoOn(p) \/ Crash(p)

Spec == Init /\ [][Next]_vars

\* Time passes, and a job that is not interrupted goes on.  Each turn of the
\* loop starts with a batch, whatever the turns before it did, and the first
\* statement of a batch is not interrupted for ever (SF both).  How often the
\* rest of a batch, or a sweep, is interrupted is not limited.
FairSpec ==
    /\ Spec
    /\ WF_vars(Tick)
    /\ \A p \in Processes :
        /\ SF_vars(dispatch_pending(p))
        /\ SF_vars(ExpireStale(p))
        /\ WF_vars(GoOn(p))

-----------------------------------------------------------------------------
(* Properties.                                                             *)

\* Every column holds a value of its own, and a job names what it works on.
TypeOK ==
    /\ status \in [Messages -> DeliveryStatus]
    /\ attempts \in [Messages -> 0..MaxAttempts]
    /\ wait \in [Messages -> Nat]
    /\ age \in [Messages -> 0..(StaleAfter + 1)]
    /\ lock \in [Messages -> Processes \cup {Nobody}]
    /\ subs \subseteq Devices
    /\ swept \in Nat
    /\ sweeper \in Processes \cup {Nobody}
    /\ job \in [Processes -> Jobs]
    /\ taken \in [Messages -> Nat]
    /\ excused \subseteq Messages

\* "Two processes draining at once never send the same message twice"
\* (services/delivery.py:4-7): a second copy is only ever due to a process that
\* died, or an answer that was lost, between the send and its commit.
NeverTwice == \A m \in Messages : taken[m] > 1 => m \in excused

\* "Anything still queued after STALE_AFTER is expired rather than sent"
\* (services/delivery.py:11): no batch attempts a message that was already
\* stale when the batch began, even if another process held its row then.
NothingStale ==
    \A p \in Processes : job[p].at \in {"sending", "answered"} => job[p].msg \notin job[p].stale

\* The sweep's unique index "keeps it to once a week" (services/background.py:12).
SweptOnce == swept <= 1

\* What the outbox promises, whatever its retries, locks and processes do.
InFlight == {m \in Messages : lock[m] # Nobody}

Promise == INSTANCE DeliveryPromise WITH inFlight <- InFlight

ImplementsPromise == Promise!Spec

\* Every message that is queued leaves the queue, even when the process that
\* attempts it dies every time: after STALE_AFTER it expires.
QueueDrains == \A m \in Messages : Pending(m) ~> ~Pending(m)

-----------------------------------------------------------------------------
(* Why the safety properties hold: what a row lock and a batch stand for.  *)

Attempting(p) == job[p].at \in {"sending", "answered"}

\* A locked row is the pending one that its holder attempts.
HeldRows ==
    \A m \in Messages : lock[m] # Nobody =>
        Attempting(lock[m]) /\ job[lock[m]].msg = m /\ Pending(m)

\* An attempt has its row, a place in its batch, and for "sent" a provider
\* that took the message.
AttemptsHold ==
    \A p \in Processes : Attempting(p) =>
        /\ job[p].msg \in Messages
        /\ lock[job[p].msg] = p
        /\ job[p].left > 0
        /\ job[p].at = "answered" /\ job[p].outcome = "sent" => taken[job[p].msg] > 0

\* A message in the queue has an attempt left.
TriesLeft ==
    \A m \in Messages : status[m] \in {"none", "pending"} => attempts[m] < MaxAttempts

\* What a batch found stale was in the queue, and once the batch has expired
\* its share none of it is in the queue again.
StaleLeftQueue ==
    \A p \in Processes : \A m \in job[p].stale :
        /\ status[m] # "none"
        /\ job[p].at \in {"claiming", "sending", "answered"} => ~Pending(m)

\* A message taken once without an excuse was sent, or is about to be.
TakenOnce ==
    \A m \in Messages \ excused :
        /\ taken[m] <= 1
        /\ taken[m] = 1 => \/ status[m] = "sent"
                           \/ \E p \in Processes : /\ job[p].at = "answered" /\ job[p].msg = m
                                                   /\ job[p].outcome = "sent"

\* Whoever sweeps has inserted the week's row, and then it was not there.
OneSweeper ==
    /\ \A p \in Processes : job[p].at = "sweeping" => sweeper = p
    /\ sweeper # Nobody => swept = 0
    /\ swept <= 1

OutboxInv ==
    HeldRows /\ AttemptsHold /\ TriesLeft /\ StaleLeftQueue /\ TakenOnce /\ OneSweeper

=============================================================================
