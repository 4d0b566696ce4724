---------------------------- MODULE ClientProofs ----------------------------
(***************************************************************************)
(* Proofs about the machines of the web client and the ledger behind them, *)
(* for every value of their parameters.  A behaviour runs one machine in   *)
(* the slots s1, s2, ...; each section names what its machine keeps there, *)
(* and the inductive invariants are with the machines.                     *)
(***************************************************************************)
EXTENDS WebClient, FiniteSetTheorems, SequenceTheorems, TLAPS

slots == <<part, s1, s2, s3, s4, s5, s6, s7, s8, s9, s10, s11, s12>>

\* A behaviour stays with its machine.
LEMMA PartSteps ==
  ASSUME [Next]_slots
  PROVE  /\ part' = part
         /\ \/ UNCHANGED slots
            \/ /\ part = "cell" => Cell!Next
               /\ part = "lobby" => Lobby!Next
               /\ part = "devices" => Devices!Next
               /\ part = "wizard" => Wizard!Next
               /\ part = "form" => Form!Next
               /\ part = "grader" => Grader!Next
               /\ part = "roster" => Roster!Next
               /\ part = "batch" => Batch!Next
               /\ part = "door" => Door!Next
               /\ part = "import" => Import!Next
               /\ part = "money" => Money!Next
               /\ part = "desk" => Desk!Next
               /\ part = "cache" => Cache!Next
               /\ part = "rights" => Rights!Next
BY DEF slots, Next, CacheStep, CellStep, LobbyStep, DevicesStep, WizardStep, RightsStep,
       FormStep, GraderStep, RosterStep, BatchStep, DoorStep, ImportStep, MoneyStep, DeskStep

-----------------------------------------------------------------------------
(* The ledger (module Ledger): s1 the rows, s2 the fee, s3 the status, s4  *)
(* the total invoiced, s5 what each request is at, s6 the doubt.           *)

LEMMA WithType ==
  ASSUME NEW ledger \in [Money!Moves -> Nat], NEW move
  PROVE  /\ Money!With(ledger, move) \in [Money!Moves -> Nat]
         /\ Money!With(ledger, move)["paid"] >= ledger["paid"]
BY DEF Money!With, Money!Moves

LEMMA DeriveType ==
  ASSUME NEW ledger, NEW agreed
  PROVE  Money!Derive(ledger, agreed) \in Money!Statuses
BY DEF Money!Derive, Money!Statuses

LEMMA MoneyInit == Money!Init => Money!LedgerInv
<1> SUFFICES ASSUME Money!Init PROVE Money!LedgerInv
  OBVIOUS
<1>1. s1 \in [Money!Moves -> Nat] /\ s1["paid"] = 0
  <2>1. PICK opened \in {"none", "due", "later", "undated"} :
          s1 = Money!With([m \in Money!Moves |-> 0], opened)
    BY DEF Money!Init
  <2>2. QED
    BY <2>1 DEF Money!With, Money!Moves
<1>2. s2 \in Nat
  BY <1>1 DEF Money!Init, Money!RowsOf, Money!Moves
<1>3. \A r \in Requests : s5[r].stage = "idle"
  BY DEF Money!Init, Money!Idle
<1>4. Money!TypeOK
  BY <1>1, <1>2, DeriveType
  DEF Money!Init, Money!TypeOK, Money!Idle, Money!Works, Money!Statuses
<1>5. Money!OneLock /\ Money!PendingIsPaid /\ Money!AloneIsFresh
  BY <1>3 DEF Money!OneLock, Money!PendingIsPaid, Money!AloneIsFresh
<1>6. Money!InvoicedOnce /\ Money!CacheTells
  BY <1>1 DEF Money!Init, Money!InvoicedOnce, Money!CacheTells
<1>7. QED
  BY <1>4, <1>5, <1>6 DEF Money!LedgerInv

\* One request's work is replaced.
LEMMA WorkType ==
  ASSUME Money!TypeOK, NEW r \in Requests,
         NEW w \in Money!Works,
         s5' = [s5 EXCEPT ![r] = w]
  PROVE  /\ s5' \in [Requests -> Money!Works]
         /\ s5'[r] = w /\ \A q \in Requests \ {r} : s5'[q] = s5[q]
BY DEF Money!TypeOK, Money!Works

\* Overtaking takes from the others that they were alone, and nothing else.
LEMMA OvertakenWork ==
  ASSUME Money!TypeOK, NEW those
  PROVE  /\ Money!Overtaken(those) \in [Requests -> Money!Works]
         /\ \A r \in Requests :
              /\ Money!Overtaken(those)[r].stage = s5[r].stage
              /\ Money!Overtaken(those)[r].does = s5[r].does
              /\ Money!Overtaken(those)[r].saw = s5[r].saw
              /\ Money!Overtaken(those)[r].becomes = s5[r].becomes
              /\ Money!Overtaken(those)[r].pending = s5[r].pending
              /\ s5[r].stage \in those => ~Money!Overtaken(those)[r].alone
              /\ s5[r].stage \notin those => Money!Overtaken(those)[r] = s5[r]
<1> USE DEF Money!TypeOK, Money!Works
<1>1. ASSUME NEW r \in Requests
      PROVE  Money!Overtaken(those)[r] = IF s5[r].stage \in those THEN [s5[r] EXCEPT !.alone = FALSE]
                                         ELSE s5[r]
  BY DEF Money!Overtaken
<1>2. ASSUME NEW r \in Requests
      PROVE  [s5[r] EXCEPT !.alone = FALSE] \in Money!Works
  OBVIOUS
<1>3. QED
  BY <1>1, <1>2 DEF Money!Overtaken

LEMMA IdleType ==
  Money!Idle \in Money!Works
BY DEF Money!Idle, Money!Works, Money!Statuses

\* A request that reads, locks, finishes or dies writes nothing but its own work.
LEMMA MoneyOwnStep ==
  ASSUME Money!LedgerInv, NEW r \in Requests,
         \/ \E does \in Money!Moves \cup {"sweep"} : Money!Load(r, does)
         \/ Money!Refresh(r) \/ Money!LockForInvoice(r) \/ Money!Fail(r)
  PROVE  Money!LedgerInv'
<1> USE DEF Money!LedgerInv
<1>1. UNCHANGED <<s1, s2, s3, s4, s6>>
  BY DEF Money!Load, Money!Refresh, Money!LockForInvoice, Money!Fail
<1>2. PICK w \in Money!Works :
        /\ s5' = [s5 EXCEPT ![r] = w]
        /\ w.stage = "locked" => ~Money!Locked /\ s4 + w.pending <= s1["paid"]
        /\ w.alone =>
             /\ w.stage \in {"read", "derived"} => w.saw = s3
             /\ w.stage = "derived" => w.becomes = Money!Derive(Money!With(s1, w.does), s2)
  <2>1. CASE \E does \in Money!Moves \cup {"sweep"} : Money!Load(r, does)
    <3> PICK does \in Money!Moves \cup {"sweep"} : Money!Load(r, does)
      BY <2>1
    <3> DEFINE w == [Money!Idle EXCEPT !.stage = "read", !.does = does, !.saw = s3]
    <3>1. w \in Money!Works
      BY IdleType DEF Money!Idle, Money!TypeOK, Money!Works
    <3>2. w.stage = "read" /\ w.saw = s3
      BY DEF Money!Idle
    <3>3. s5' = [s5 EXCEPT ![r] = w]
      BY DEF Money!Load
    <3> HIDE DEF w
    <3>4. QED
      BY <3>1, <3>2, <3>3
  <2>2. CASE Money!Refresh(r)
    <3> DEFINE w == [s5[r] EXCEPT !.stage = "derived",
                                  !.becomes = Money!Derive(Money!With(s1, s5[r].does), s2)]
    <3>1. w \in Money!Works
      BY DeriveType DEF Money!TypeOK, Money!Works
    <3>2. /\ w.stage = "derived" /\ w.saw = s5[r].saw /\ w.alone = s5[r].alone
          /\ w.does = s5[r].does /\ w.becomes = Money!Derive(Money!With(s1, s5[r].does), s2)
      BY DEF Money!TypeOK, Money!Works
    <3>3. s5' = [s5 EXCEPT ![r] = w] /\ s5[r].stage = "read"
      BY <2>2 DEF Money!Refresh, Money!TypeOK, Money!Works
    <3>4. s5[r].alone => s5[r].saw = s3
      BY <3>3 DEF Money!AloneIsFresh
    <3> HIDE DEF w
    <3>5. QED
      BY <3>1, <3>2, <3>3, <3>4
  <2>3. CASE Money!LockForInvoice(r)
    <3> DEFINE p == IF s1["paid"] > s4 THEN s1["paid"] - s4 ELSE 0
               w == [Money!Idle EXCEPT !.stage = "locked", !.does = "invoice", !.pending = p]
    <3>1. p \in Nat /\ s4 + p <= s1["paid"]
      BY DEF Money!TypeOK, Money!InvoicedOnce, Money!Moves
    <3>2. s5' = [s5 EXCEPT ![r] = w] /\ ~Money!Locked
      BY <2>3 DEF Money!LockForInvoice
    <3> HIDE DEF p
    <3>3. w \in Money!Works
      BY <3>1, IdleType DEF Money!Idle, Money!Works
    <3>4. w.stage = "locked" /\ w.pending = p
      BY DEF Money!Idle
    <3> HIDE DEF w
    <3>5. QED
      BY <3>1, <3>2, <3>3, <3>4
  <2>4. CASE Money!Fail(r)
    <3>1. Money!Idle.stage = "idle"
      BY DEF Money!Idle
    <3>2. QED
      BY <2>4, <3>1, IdleType DEF Money!Fail
  <2>5. QED
    BY <2>1, <2>2, <2>3, <2>4
<1>3. s5'[r] = w /\ \A q \in Requests \ {r} : s5'[q] = s5[q]
  BY <1>2, WorkType
<1>4. Money!TypeOK'
  BY <1>1, <1>2, WorkType DEF Money!TypeOK
<1>5. Money!OneLock'
  BY <1>2, <1>3 DEF Money!OneLock, Money!Locked
<1>6. Money!PendingIsPaid'
  BY <1>1, <1>2, <1>3 DEF Money!PendingIsPaid
<1>7. Money!AloneIsFresh'
  BY <1>1, <1>2, <1>3 DEF Money!AloneIsFresh
<1>8. Money!InvoicedOnce' /\ Money!CacheTells'
  BY <1>1 DEF Money!InvoicedOnce, Money!CacheTells
<1>9. QED
  BY <1>4, <1>5, <1>6, <1>7, <1>8

\* A movement, or a sweep, is committed.
LEMMA MoneyCommits ==
  ASSUME Money!LedgerInv, NEW r \in Requests, Money!Commit(r)
  PROVE  Money!LedgerInv'
<1> USE DEF Money!LedgerInv
<1> DEFINE O == Money!Overtaken({"read", "derived"})
<1>1. /\ s1' = Money!With(s1, s5[r].does) /\ s1' \in [Money!Moves -> Nat]
      /\ s1'["paid"] >= s1["paid"]
  BY WithType DEF Money!Commit, Money!TypeOK
<1>2. /\ O \in [Requests -> Money!Works]
      /\ \A q \in Requests : O[q].stage = s5[q].stage /\ O[q].pending = s5[q].pending
      /\ \A q \in Requests : O[q].stage \in {"read", "derived"} => ~O[q].alone
  BY OvertakenWork
<1>3. s5' = [O EXCEPT ![r] = Money!Idle] /\ s5[r].stage = "derived"
  BY DEF Money!Commit
<1> HIDE DEF O
<1>4. s5'[r] = Money!Idle /\ \A q \in Requests \ {r} : s5'[q] = O[q]
  BY <1>2, <1>3
<1>5. Money!Idle.stage = "idle"
  BY DEF Money!Idle
<1>6. s3' = IF s5[r].becomes # s5[r].saw THEN s5[r].becomes ELSE s3
  BY DEF Money!Commit
<1>7. UNCHANGED <<s2, s4>> /\ s6' = ~s5[r].alone
  BY DEF Money!Commit
<1>8. Money!TypeOK'
  <2>1. s5' \in [Requests -> Money!Works]
    BY <1>2, <1>3, IdleType
  <2>2. s3' \in Money!Statuses
    BY <1>6 DEF Money!TypeOK, Money!Works
  <2>3. s6' \in BOOLEAN
    BY <1>7
  <2>4. QED
    BY <1>1, <1>7, <2>1, <2>2, <2>3 DEF Money!TypeOK
<1>9. Money!OneLock'
  BY <1>2, <1>4, <1>5 DEF Money!OneLock
<1>10. Money!PendingIsPaid' /\ Money!InvoicedOnce'
  <2>1. s1["paid"] \in Nat /\ s1'["paid"] \in Nat /\ s4 \in Nat
        /\ \A q \in Requests : s5[q].pending \in Nat
    BY <1>1 DEF Money!TypeOK, Money!Works, Money!Moves
  <2>2. QED
    BY <2>1, <1>1, <1>2, <1>4, <1>5, <1>7 DEF Money!PendingIsPaid, Money!InvoicedOnce
<1>11. Money!AloneIsFresh'
  BY <1>2, <1>4, <1>5 DEF Money!AloneIsFresh
<1>12. Money!CacheTells'
  <2>1. SUFFICES ASSUME s5[r].alone PROVE s3' = Money!Derive(s1', s2')
    BY <1>7 DEF Money!CacheTells
  <2>2. s5[r].saw = s3 /\ s5[r].becomes = Money!Derive(Money!With(s1, s5[r].does), s2)
    BY <2>1, <1>3 DEF Money!AloneIsFresh
  <2>3. QED
    BY <2>2, <1>1, <1>6, <1>7
<1>13. QED
  BY <1>8, <1>9, <1>10, <1>11, <1>12

\* The request that holds the lock issues what it read.
LEMMA MoneyIssues ==
  ASSUME Money!LedgerInv, NEW r \in Requests, Money!Issue(r)
  PROVE  Money!LedgerInv'
<1> USE DEF Money!LedgerInv
<1>1. /\ s5[r].stage = "locked" /\ s4' = s4 + s5[r].pending
      /\ s5' = [s5 EXCEPT ![r] = Money!Idle] /\ UNCHANGED <<s1, s2, s3, s6>>
  BY DEF Money!Issue
<1>2. /\ s5' \in [Requests -> Money!Works]
      /\ s5'[r] = Money!Idle /\ \A q \in Requests \ {r} : s5'[q] = s5[q]
  BY <1>1, IdleType, WorkType
<1>3. Money!Idle.stage = "idle"
  BY DEF Money!Idle
<1>4. Money!TypeOK'
  BY <1>1, <1>2 DEF Money!TypeOK, Money!Works
<1>5. \A q \in Requests : s5'[q].stage # "locked"
  BY <1>1, <1>2, <1>3 DEF Money!OneLock
<1>6. Money!OneLock' /\ Money!PendingIsPaid'
  BY <1>5 DEF Money!OneLock, Money!PendingIsPaid
<1>7. Money!AloneIsFresh'
  BY <1>1, <1>2, <1>3 DEF Money!AloneIsFresh
<1>8. Money!InvoicedOnce' /\ Money!CacheTells'
  BY <1>1 DEF Money!PendingIsPaid, Money!InvoicedOnce, Money!CacheTells
<1>9. QED
  BY <1>4, <1>6, <1>7, <1>8

\* The office amends the matricula, or the day turns: whoever read it has been overtaken.
LEMMA MoneyMovesOn ==
  ASSUME Money!LedgerInv, Money!Amend \/ Money!NextDay
  PROVE  Money!LedgerInv'
<1> USE DEF Money!LedgerInv
<1>1. PICK those \in {{"read", "derived"}, {"derived"}} :
        /\ s5' = Money!Overtaken(those)
        /\ "read" \notin those => UNCHANGED s3
  BY DEF Money!Amend, Money!NextDay
<1>2. /\ s1' \in [Money!Moves -> Nat] /\ s1'["paid"] = s1["paid"]
      /\ s2' \in Nat /\ s3' \in Money!Statuses /\ UNCHANGED s4 /\ s6' = TRUE
  BY DEF Money!Amend, Money!NextDay, Money!TypeOK, Money!Moves, Money!Statuses
<1>3. Money!TypeOK'
  BY <1>1, <1>2, OvertakenWork DEF Money!TypeOK
<1>4. Money!OneLock' /\ Money!PendingIsPaid'
  BY <1>1, <1>2, OvertakenWork DEF Money!OneLock, Money!PendingIsPaid
<1>5. Money!AloneIsFresh'
  <2> SUFFICES ASSUME NEW r \in Requests, s5'[r].alone
               PROVE  /\ s5'[r].stage # "derived"
                      /\ s5'[r].stage = "read" => s5'[r].saw = s3'
    BY DEF Money!AloneIsFresh
  <2>1. s5[r].stage \notin those /\ s5'[r] = s5[r] /\ "derived" \in those
    BY <1>1, OvertakenWork
  <2>2. QED
    BY <1>1, <2>1 DEF Money!AloneIsFresh
<1>6. Money!InvoicedOnce' /\ Money!CacheTells'
  BY <1>2 DEF Money!InvoicedOnce, Money!CacheTells
<1>7. QED
  BY <1>3, <1>4, <1>5, <1>6

LEMMA MoneyStill ==
  ASSUME Money!LedgerInv, UNCHANGED <<s1, s2, s3, s4, s5, s6>>
  PROVE  Money!LedgerInv'
BY DEF Money!LedgerInv, Money!TypeOK, Money!OneLock, Money!PendingIsPaid, Money!AloneIsFresh,
       Money!InvoicedOnce, Money!CacheTells

(* However requests, sweeps and invoices overlap at the cash desk, the     *)
(* invoices never add up to more than what was paid, because whoever       *)
(* invoices holds the matricula from the sum to the insert, and the        *)
(* payment status is what the ledger says unless a request was overtaken   *)
(* (routers/payments.py:214, services/finance.py:3).                       *)
THEOREM InvoicesAndStatusAddUp == Spec => []MoneyAddsUp
<1> DEFINE Inv == part = "money" => Money!LedgerInv
<1>1. Init => Inv
  BY MoneyInit DEF Init
<1>2. Inv /\ [Next]_slots => Inv'
  <2> SUFFICES ASSUME Inv, [Next]_slots, part' = "money" PROVE Money!LedgerInv'
    OBVIOUS
  <2>1. Money!LedgerInv /\ (Money!Next \/ UNCHANGED <<s1, s2, s3, s4, s5, s6>>)
    BY PartSteps DEF slots
  <2>2. QED
    BY <2>1, MoneyOwnStep, MoneyCommits, MoneyIssues, MoneyMovesOn, MoneyStill DEF Money!Next
<1>3. Inv => MoneyAddsUp
  BY DEF MoneyAddsUp, Money!LedgerInv
<1>4. QED
  BY <1>1, <1>2, <1>3, PTL DEF Spec, slots

-----------------------------------------------------------------------------
(* The test of the camera (module DeviceTest): s1 whether it is on the     *)
(* page, s2 the run of the page, s3 the runs begun, s4 those that wait for *)
(* permission, s6 the cameras that are on, s7 the one shown.               *)

LEMMA DevicesInit == Devices!Init => Devices!DeviceInv
BY DEF Devices!Init, Devices!DeviceInv

LEMMA DevicesStop ==
  ASSUME Devices!DeviceInv, Devices!Stop
  PROVE  s6' = {} /\ s7' = Devices!NoRun
BY DEF Devices!DeviceInv, Devices!Stop

LEMMA DevicesStepKept ==
  ASSUME Devices!DeviceInv, Devices!Next \/ UNCHANGED <<s1, s2, s3, s4, s5, s6, s7, s8, s9>>
  PROVE  Devices!DeviceInv'
<1>1. CASE Devices!StartTest \/ Devices!AudioFails \/ Devices!Leave
  <2>1. s6' = {} /\ s7' = Devices!NoRun
    BY <1>1, DevicesStop DEF Devices!StartTest, Devices!AudioFails, Devices!Leave
  <2>2. ~s1' => s2' = Devices!NoRun /\ s4' = {}
    BY <1>1 DEF Devices!StartTest, Devices!AudioFails, Devices!Leave, Devices!DeviceInv
  <2>3. QED
    BY <2>1, <2>2 DEF Devices!DeviceInv
<1>2. CASE Devices!Return \/ UNCHANGED <<s1, s2, s3, s4, s5, s6, s7, s8, s9>>
  BY <1>2 DEF Devices!Return, Devices!DeviceInv
<1>3. ASSUME NEW r \in Devices!Runs, Devices!Grant(r)
      PROVE  Devices!DeviceInv'
  <2>1. /\ r # Devices!NoRun /\ r \in s4
        /\ UNCHANGED <<s1, s2>> /\ s4' \subseteq s4
    BY <1>3, ClientAssumption DEF Devices!Grant, Devices!Runs, Devices!NoRun
  <2>2. CASE r = s2
    BY <1>3, <2>1, <2>2 DEF Devices!Grant, Devices!Granted, Devices!DeviceInv
  <2>3. CASE r # s2
    BY <1>3, <2>1, <2>3 DEF Devices!Grant, Devices!Granted, Devices!DeviceInv
  <2>4. QED
    BY <2>2, <2>3
<1>4. ASSUME NEW r \in Devices!Runs, Devices!Deny(r)
      PROVE  Devices!DeviceInv'
  <2>1. s6' = {} /\ s7' = Devices!NoRun
    BY <1>4, DevicesStop DEF Devices!Deny
  <2>2. s2' = Devices!NoRun /\ (~s1' => s4' = {})
    BY <1>4 DEF Devices!Deny, Devices!DeviceInv
  <2>3. QED
    BY <2>1, <2>2 DEF Devices!DeviceInv
<1>5. ASSUME NEW r \in Devices!Runs, Devices!Late(r)
      PROVE  Devices!DeviceInv'
  BY <1>5 DEF Devices!Late, Devices!DeviceInv
<1>6. QED
  BY <1>1, <1>2, <1>3, <1>4, <1>5 DEF Devices!Next

LEMMA DevicesSafe == Devices!DeviceInv => Devices!OnlyTheShownCamera
BY DEF Devices!DeviceInv, Devices!OnlyTheShownCamera

-----------------------------------------------------------------------------
(* The room of a class (module LobbyRoom): s1 the class, s2 the hour, s3   *)
(* whether the student is restricted, s4 who looks, s5 what the page       *)
(* holds.                                                                  *)

LEMMA HourNames ==
  ASSUME s2 \in DOMAIN Lobby!Hours
  PROVE  /\ DOMAIN Lobby!Hours = 1..5 /\ Len(Lobby!Hours) = 5
         /\ s2 \in 1..5
         /\ Lobby!Now = "before" <=> s2 = 1
         /\ Lobby!Now = "grace" <=> s2 = 4
         /\ Lobby!Now = "after" <=> s2 = 5
<1>1. DOMAIN Lobby!Hours = 1..5 /\ Len(Lobby!Hours) = 5
  BY DEF Lobby!Hours
<1>2. s2 \in 1..5
  BY <1>1
<1>3. s2 = 1 \/ s2 = 2 \/ s2 = 3 \/ s2 = 4 \/ s2 = 5
  BY <1>2
<1>4. /\ Lobby!Hours[1] = "before" /\ Lobby!Hours[2] = "early" /\ Lobby!Hours[3] = "under way"
      /\ Lobby!Hours[4] = "grace" /\ Lobby!Hours[5] = "after"
  BY DEF Lobby!Hours
<1>5. QED
  BY <1>1, <1>2, <1>3, <1>4 DEF Lobby!Now

\* What the server tells a student now.
LEMMA InfoInItsHours ==
  ASSUME s2 \in DOMAIN Lobby!Hours, s4 = "student"
  PROVE  /\ Lobby!SessionLobbyInfo.link => s2 >= 2
         /\ Lobby!SessionLobbyInfo.grace => s2 >= 4
<1>1. ~Lobby!IsHost
  BY DEF Lobby!IsHost
<1>2. ~Lobby!NoInfo.link /\ ~Lobby!NoInfo.grace /\ ~Lobby!Refused.link /\ ~Lobby!Refused.grace
  BY DEF Lobby!NoInfo, Lobby!Refused
<1>3. CASE Lobby!SessionLobbyInfo \in {Lobby!NoInfo, Lobby!Refused}
  BY <1>2, <1>3
<1>4. CASE /\ Lobby!SessionLobbyInfo = Lobby!Admitted(s1.link, Lobby!Now = "grace")
           /\ Lobby!Now \notin {"before", "after"}
  <2>1. Lobby!SessionLobbyInfo.grace = (Lobby!Now = "grace")
    BY <1>4 DEF Lobby!Admitted
  <2>2. Lobby!SessionLobbyInfo.grace => Lobby!Now = "grace"
    BY <2>1
  <2>3. s2 >= 2 /\ (Lobby!Now = "grace" => s2 >= 4)
    BY <1>4, HourNames
  <2>4. QED
    BY <2>2, <2>3
<1>5. QED
  BY <1>1, <1>3, <1>4 DEF Lobby!SessionLobbyInfo, Lobby!LobbyAccess

LEMMA LobbyInit == Lobby!Init => Lobby!LobbyInv
BY DEF Lobby!Init, Lobby!LobbyInv, Lobby!Away, Lobby!NoInfo, Lobby!Hours

LEMMA LobbyStepKept ==
  ASSUME Lobby!LobbyInv, Lobby!Next \/ UNCHANGED <<s1, s2, s3, s4, s5, s6, s7>>
  PROVE  Lobby!LobbyInv'
<1> USE DEF Lobby!LobbyInv
<1>1. CASE Lobby!Enter \/ Lobby!Reconnect
  <2>1. /\ UNCHANGED <<s2, s4>>
        /\ s5'.info \in {s5.info, Lobby!SessionLobbyInfo}
        /\ s5' = [open |-> s5'.open, status |-> s5'.status, info |-> s5'.info,
                  restricted |-> s5'.restricted, ready |-> s5'.ready, started |-> s5'.started]
    BY <1>1 DEF Lobby!Enter, Lobby!Reconnect
  <2>2. QED
    BY <2>1, InfoInItsHours
<1>2. CASE Lobby!Leave
  <2>1. /\ UNCHANGED <<s2, s4>> /\ s5'.info = Lobby!NoInfo
        /\ s5' = [open |-> s5'.open, status |-> s5'.status, info |-> s5'.info,
                  restricted |-> s5'.restricted, ready |-> s5'.ready, started |-> s5'.started]
    BY <1>2 DEF Lobby!Leave, Lobby!Away
  <2>2. QED
    BY <2>1 DEF Lobby!NoInfo
<1>3. CASE Lobby!TryDevices \/ Lobby!Start
  <2>1. /\ UNCHANGED <<s2, s4>> /\ s5'.info = s5.info
        /\ s5' = [open |-> s5'.open, status |-> s5'.status, info |-> s5'.info,
                  restricted |-> s5'.restricted, ready |-> s5'.ready, started |-> s5'.started]
    BY <1>3 DEF Lobby!TryDevices, Lobby!Start
  <2>2. QED
    BY <2>1
<1>4. CASE Lobby!Tick
  <2>1. s2 \in 1..5 /\ DOMAIN Lobby!Hours = 1..5 /\ Len(Lobby!Hours) = 5
    BY HourNames
  <2>2. s2 < 5 /\ s2' = s2 + 1 /\ UNCHANGED <<s4, s5>>
    BY <1>4, <2>1 DEF Lobby!Tick
  <2>3. s2' \in DOMAIN Lobby!Hours
    BY <2>1, <2>2
  <2>4. s4' = "student" => (s5'.info.link => s2' >= 2) /\ (s5'.info.grace => s2' >= 4)
    BY <2>1, <2>2
  <2>5. QED
    BY <2>2, <2>3, <2>4
<1>5. CASE Lobby!Cancel \/ Lobby!Publish \/ Lobby!Restrict \/ UNCHANGED <<s1, s2, s3, s4, s5, s6, s7>>
  BY <1>5 DEF Lobby!Cancel, Lobby!Publish, Lobby!Restrict
<1>6. QED
  BY <1>1, <1>2, <1>3, <1>4, <1>5 DEF Lobby!Next

LEMMA LobbySafe == Lobby!LobbyInv => Lobby!LinkInItsHours
<1> SUFFICES ASSUME Lobby!LobbyInv, s4 = "student"
             PROVE  /\ s5.info.link => Lobby!Now # "before"
                    /\ s5.info.grace => Lobby!Now \in {"grace", "after"}
  BY DEF Lobby!LinkInItsHours
<1>1. s2 \in DOMAIN Lobby!Hours /\ (s5.info.link => s2 >= 2) /\ (s5.info.grace => s2 >= 4)
  BY DEF Lobby!LobbyInv
<1>2. QED
  BY <1>1, HourNames

(* No student's page shows the link of a class whose door has not opened,  *)
(* though it asks once and keeps what it was told, and no camera outlives  *)
(* the test it was asked for, whichever permissions come late              *)
(* (pages/Lobby.tsx).                                                      *)
THEOREM LinkAndCameraInTheirTime == Spec => []LobbyKeepsItsWord
<1> DEFINE Inv == /\ part = "lobby" => Lobby!LobbyInv
                  /\ part = "devices" => Devices!DeviceInv
<1>1. Init => Inv
  BY LobbyInit, DevicesInit DEF Init
<1>2. Inv /\ [Next]_slots => Inv'
  BY PartSteps, LobbyStepKept, DevicesStepKept DEF slots
<1>3. Inv => LobbyKeepsItsWord
  BY LobbySafe, DevicesSafe DEF LobbyKeepsItsWord
<1>4. QED
  BY <1>1, <1>2, <1>3, PTL DEF Spec, slots

-----------------------------------------------------------------------------
(* The cash desk (module QuickPay): s1 the dialog, s2 what is listed by    *)
(* now, s3 what was paid.                                                  *)

LEMMA DeskPlaces ==
  /\ Desk!Matriculas = DOMAIN Of /\ IsFiniteSet(Desk!Matriculas) /\ Nobody \notin Desk!Matriculas
  /\ \A m \in Desk!Matriculas : Of[m] \in Desk!Students
BY ClientAssumption DEF Desk!Matriculas, Desk!Students

LEMMA NothingPicked == Desk!Nothing \in Desk!Picks /\ Desk!Nothing.matricula = Nobody
BY DEF Desk!Nothing, Desk!Picks

LEMMA ShutDesk ==
  /\ Desk!Shut \in Desk!Dialogs
  /\ Desk!GivenAsOpened(Desk!Shut) /\ Desk!ChosenInDialog(Desk!Shut)
BY NothingPicked DEF Desk!Shut, Desk!Dialogs, Desk!GivenAsOpened, Desk!ChosenInDialog

LEMMA SameCardinality == \A S : Desk!Cardinality(S) = Cardinality(S)
BY DEF Desk!Cardinality, Cardinality

\* What the two effects do to a dialog in which everything was chosen.
LEMMA SettledIsChosen ==
  ASSUME NEW d \in Desk!Dialogs,
         Desk!GivenAsOpened(d), Desk!ChosenInDialog(d),
         s2' \in [students : SUBSET Desk!Students, matriculas : SUBSET Desk!Matriculas],
         s1' = Desk!Settled(d)
  PROVE  /\ s1' \in Desk!Dialogs
         /\ Desk!GivenAsOpened(s1') /\ Desk!ChosenInDialog(s1')
<1> DEFINE student == IF d.student = Nobody /\ d.given.student \in s2'.students
                      THEN d.given.student ELSE d.student
           mine == {m \in s2'.matriculas : Of[m] = student}
           unasked == d.matricula = Nobody /\ Desk!Only(mine)
           matricula == IF d.given.matricula \in mine THEN d.given.matricula
                        ELSE IF unasked THEN CHOOSE m \in mine : TRUE ELSE d.matricula
           among == IF unasked THEN mine ELSE d.among
<1>1. s1' = [d EXCEPT !.student = student, !.matricula = matricula, !.among = among]
  BY DEF Desk!Settled, Desk!Mine
<1>2. mine \subseteq Desk!Matriculas /\ IsFiniteSet(mine)
  BY DeskPlaces, FS_Subset
<1>3. unasked => mine = {CHOOSE m \in mine : TRUE}
  <2>1. SUFFICES ASSUME unasked PROVE mine = {CHOOSE m \in mine : TRUE}
    OBVIOUS
  <2>2. Cardinality(mine) = 1
    BY <2>1, SameCardinality DEF Desk!Only
  <2> HIDE DEF mine
  <2>3. PICK x : mine = {x}
    BY <1>2, <2>2, FS_Singleton
  <2>4. QED
    BY <2>3
<1>4. student \in Desk!Students \cup {Nobody} /\ matricula \in Desk!Matriculas \cup {Nobody}
      /\ among \in SUBSET Desk!Matriculas
  BY <1>2, <1>3 DEF Desk!Dialogs, Desk!Picks
<1> HIDE DEF student, among
<1>5. /\ s1'.matricula = matricula /\ s1'.among = among /\ s1'.clicked = d.clicked
      /\ s1'.opened = d.opened /\ s1'.given = d.given
  BY <1>1 DEF Desk!Dialogs
<1>6. Desk!ChosenInDialog(s1')
  <2>1. CASE d.given.matricula \in mine
    BY <1>2, <1>5, <2>1, DeskPlaces DEF Desk!Dialogs, Desk!GivenAsOpened, Desk!ChosenInDialog
  <2>2. CASE d.given.matricula \notin mine /\ unasked
    <3>1. matricula \in mine /\ matricula # Nobody /\ among = {matricula} /\ d.clicked = Nobody
      BY <1>2, <1>3, <2>2, DeskPlaces DEF Desk!ChosenInDialog, among
    <3>2. QED
      BY <1>5, <3>1 DEF Desk!ChosenInDialog
  <2>3. CASE d.given.matricula \notin mine /\ ~unasked
    BY <1>5, <2>3 DEF Desk!ChosenInDialog, among
  <2>4. QED
    BY <2>1, <2>2, <2>3
<1>7. Desk!GivenAsOpened(s1')
  BY <1>5 DEF Desk!GivenAsOpened
<1>8. s1' \in Desk!Dialogs
  BY <1>1, <1>4 DEF Desk!Dialogs
<1>9. QED
  BY <1>6, <1>7, <1>8

LEMMA DeskInit == Desk!Init => Desk!DeskInv
BY ShutDesk DEF Desk!Init, Desk!DeskInv, Desk!TypeOK, Desk!PaidAsChosen

\* The dialog is settled again, and nothing is paid.
LEMMA DeskSettles ==
  ASSUME Desk!DeskInv, s3' = s3,
         s2' \in [students : SUBSET Desk!Students, matriculas : SUBSET Desk!Matriculas],
         NEW d \in Desk!Dialogs,
         Desk!GivenAsOpened(d), Desk!ChosenInDialog(d),
         s1' = Desk!Settled(d)
  PROVE  Desk!DeskInv'
BY SettledIsChosen DEF Desk!DeskInv, Desk!TypeOK, Desk!PaidAsChosen

LEMMA DeskStepKept ==
  ASSUME Desk!DeskInv, Desk!Next \/ UNCHANGED <<s1, s2, s3>>
  PROVE  Desk!DeskInv'
<1>1. /\ s1 \in Desk!Dialogs
      /\ s2 \in [students : SUBSET Desk!Students, matriculas : SUBSET Desk!Matriculas]
      /\ Desk!GivenAsOpened(s1) /\ Desk!ChosenInDialog(s1) /\ Desk!PaidAsChosen
  BY DEF Desk!DeskInv, Desk!TypeOK
<1>2. ASSUME NEW given \in Desk!Picks, Desk!Open(given)
      PROVE  Desk!DeskInv'
  <2> DEFINE d == IF s1.shown THEN [s1 EXCEPT !.given = given]
                  ELSE [Desk!Shut EXCEPT !.shown = TRUE, !.opened = given, !.given = given,
                                         !.matricula = given.matricula]
  <2>1. UNCHANGED <<s2, s3>> /\ s1' = Desk!Settled(d) /\ (s1.shown => given = Desk!Nothing)
    BY <1>2 DEF Desk!Open
  <2>2. d \in Desk!Dialogs
    BY <1>1, ShutDesk DEF Desk!Picks, Desk!Dialogs
  <2>3. Desk!GivenAsOpened(d) /\ Desk!ChosenInDialog(d)
    <3>1. CASE s1.shown
      BY <1>1, <2>1, <3>1, NothingPicked DEF Desk!Dialogs, Desk!GivenAsOpened, Desk!ChosenInDialog
    <3>2. CASE ~s1.shown
      BY <3>2 DEF Desk!Dialogs, Desk!GivenAsOpened, Desk!ChosenInDialog, Desk!Shut
    <3>3. QED
      BY <3>1, <3>2
  <2> HIDE DEF d
  <2>4. QED
    BY <1>1, <2>1, <2>2, <2>3, DeskSettles
<1>3. ASSUME NEW student \in Desk!Students \cup {Nobody},
             \/ Desk!SelectStudent(student)
             \/ student = Nobody /\ Desk!ChangeStudent
      PROVE  Desk!DeskInv'
  <2> DEFINE d == [s1 EXCEPT !.student = student, !.matricula = Nobody, !.clicked = Nobody]
  <2>1. UNCHANGED <<s2, s3>> /\ s1' = Desk!Settled(d)
    BY <1>3 DEF Desk!SelectStudent, Desk!ChangeStudent
  <2>2. d \in Desk!Dialogs
    BY <1>1 DEF Desk!Dialogs
  <2>3. Desk!GivenAsOpened(d) /\ Desk!ChosenInDialog(d)
    BY <1>1 DEF Desk!Dialogs, Desk!GivenAsOpened, Desk!ChosenInDialog
  <2> HIDE DEF d
  <2>4. QED
    BY <1>1, <2>1, <2>2, <2>3, DeskSettles
<1>4. ASSUME NEW m \in Desk!Matriculas, Desk!SelectMatricula(m)
      PROVE  Desk!DeskInv'
  <2> DEFINE d == [s1 EXCEPT !.matricula = m, !.clicked = m]
  <2>1. UNCHANGED <<s2, s3>> /\ s1' = Desk!Settled(d)
    BY <1>4 DEF Desk!SelectMatricula
  <2>2. d \in Desk!Dialogs
    BY <1>1 DEF Desk!Dialogs
  <2>3. Desk!GivenAsOpened(d) /\ Desk!ChosenInDialog(d)
    BY <1>1, DeskPlaces DEF Desk!Dialogs, Desk!GivenAsOpened, Desk!ChosenInDialog
  <2> HIDE DEF d
  <2>4. QED
    BY <1>1, <2>1, <2>2, <2>3, DeskSettles
<1>5. ASSUME NEW students \in SUBSET Desk!Students, NEW matriculas \in SUBSET Desk!Matriculas,
             Desk!Listed(students, matriculas)
      PROVE  Desk!DeskInv'
  <2>1. /\ s2' \in [students : SUBSET Desk!Students, matriculas : SUBSET Desk!Matriculas]
        /\ s3' = s3 /\ s1' \in {s1, Desk!Settled(s1)}
    BY <1>1, <1>5 DEF Desk!Listed
  <2>2. CASE s1' = s1
    BY <1>1, <2>1, <2>2 DEF Desk!DeskInv, Desk!TypeOK, Desk!PaidAsChosen
  <2>3. CASE s1' = Desk!Settled(s1)
    BY <1>1, <2>1, <2>3, DeskSettles
  <2>4. QED
    BY <2>1, <2>2, <2>3
<1>6. CASE Desk!Submit
  <2>1. /\ UNCHANGED <<s1, s2>>
        /\ s3' = s3 \cup {[to |-> s1.matricula, clicked |-> s1.clicked,
                           opened |-> s1.opened.matricula, among |-> s1.among]}
    BY <1>6 DEF Desk!Submit
  <2>2. Desk!PaidAsChosen'
    BY <1>1, <2>1 DEF Desk!PaidAsChosen, Desk!ChosenInDialog
  <2>3. QED
    BY <1>1, <2>1, <2>2 DEF Desk!DeskInv, Desk!TypeOK
<1>7. CASE Desk!Close
  BY <1>1, <1>7, ShutDesk DEF Desk!Close, Desk!DeskInv, Desk!TypeOK, Desk!PaidAsChosen
<1>8. CASE UNCHANGED <<s1, s2, s3>>
  BY <1>1, <1>8 DEF Desk!DeskInv, Desk!TypeOK, Desk!PaidAsChosen
<1>9. QED
  <2>1. \A s \in Desk!Students, m \in {Nobody} \cup Desk!Matriculas :
          [student |-> s, matricula |-> m] \in Desk!Picks
    BY DEF Desk!Picks
  <2>2. QED
    BY <1>2, <1>3, <1>4, <1>5, <1>6, <1>7, <1>8, <2>1, NothingPicked DEF Desk!Next

-----------------------------------------------------------------------------
(* The grading of a task (module SpeedGrader): s2 the roster on the        *)
(* screen, s3 the filter, s4 the place in the list, s5 whom the form was   *)
(* filled for, s6 the form, s8 the grades on their way.                    *)

\* Every change of the list ends with the form of whoever is under it.
LEMMA ShowFills ==
  ASSUME Grader!FilledForActive, NEW rows, NEW by, NEW place, Grader!Show(rows, by, place)
  PROVE  Grader!FilledForActive'
<1> DEFINE list == Grader!Filtered(rows, by)
           inside == IF list # << >> /\ place > Len(list) THEN Len(list) ELSE place
           student == Grader!ActiveOf(list, inside)
<1>1. /\ s2' = rows /\ s3' = by /\ s4' = inside /\ s5' = student
      /\ s6' = IF student = Grader!NoOne \/ student = s5 THEN s6
               ELSE [score |-> IF rows[student] \in Grader!Scores THEN rows[student] ELSE "ten",
                     student |-> student]
  BY DEF Grader!Show, Grader!FillsOn
<1>2. Grader!Active' = student
  BY <1>1 DEF Grader!Active
<1> HIDE DEF student
<1>3. student # Grader!NoOne => s6'.student = student
  BY <1>1 DEF Grader!FilledForActive
<1>4. QED
  BY <1>1, <1>2, <1>3 DEF Grader!FilledForActive

LEMMA GraderInit == Grader!Init => Grader!GraderInv
<1> SUFFICES ASSUME Grader!Init PROVE Grader!GraderInv
  OBVIOUS
<1>1. s5 = Grader!Active /\ s6.student = Grader!Active
  BY DEF Grader!Init, Grader!FillsOn, Grader!Active
<1>2. QED
  BY <1>1 DEF Grader!Init, Grader!GraderInv, Grader!FilledForActive, Grader!CallsAsEntered

\* The list and the form are left alone.
LEMMA GraderStays ==
  ASSUME Grader!FilledForActive, UNCHANGED <<s2, s3, s4, s5>>,
         s6' = s6 \/ s6'.student = Grader!Active
  PROVE  Grader!FilledForActive'
BY DEF Grader!FilledForActive, Grader!Active

LEMMA GraderStepKept ==
  ASSUME Grader!GraderInv,
         Grader!Next \/ UNCHANGED <<s1, s2, s3, s4, s5, s6, s7, s8, s9, s10, s11>>
  PROVE  Grader!GraderInv'
<1>1. Grader!FilledForActive /\ Grader!CallsAsEntered
  BY DEF Grader!GraderInv
<1>2. CASE \/ \E by \in {"pending", "graded", "unsubmitted", "all"} : Grader!Filter(by)
           \/ \E place \in Grader!Students : Grader!Select(place)
           \/ Grader!Skip
           \/ \E load \in s9 : Grader!Reload(load, TRUE) \/ Grader!Reload(load, FALSE)
  <2>1. s8' = s8
    BY <1>2 DEF Grader!Filter, Grader!Select, Grader!Skip, Grader!Reload
  <2>2. Grader!FilledForActive'
    BY <1>1, <1>2, ShowFills DEF Grader!Filter, Grader!Select, Grader!Skip, Grader!Reload
  <2>3. QED
    BY <1>1, <2>1, <2>2 DEF Grader!GraderInv, Grader!CallsAsEntered
<1>3. CASE \/ Grader!Type
           \/ \E load \in s9 : Grader!Read(load)
           \/ \E s \in Grader!Students : Grader!Other(s)
           \/ UNCHANGED <<s1, s2, s3, s4, s5, s6, s7, s8, s9, s10, s11>>
  <2>1. /\ UNCHANGED <<s2, s3, s4, s5, s8>>
        /\ s6' = s6 \/ s6'.student = Grader!Active
    <3>1. CASE Grader!Type
      BY <3>1 DEF Grader!Type
    <3>2. CASE ~Grader!Type
      BY <1>3, <3>2 DEF Grader!Read, Grader!Other
    <3>3. QED
      BY <3>1, <3>2
  <2>2. Grader!FilledForActive'
    BY <1>1, <2>1, GraderStays
  <2>3. QED
    BY <1>1, <2>1, <2>2 DEF Grader!GraderInv, Grader!CallsAsEntered
<1>4. ASSUME NEW onward \in BOOLEAN, Grader!Save(onward)
      PROVE  Grader!GraderInv'
  <2>1. UNCHANGED <<s2, s3, s4, s5, s6>> /\ s6.student = Grader!Active
    BY <1>1, <1>4 DEF Grader!Save, Grader!FilledForActive
  <2>2. PICK score, place, by, length :
          s8' = s8 \cup {[student |-> Grader!Active, entered |-> Grader!Active, score |-> score,
                          onward |-> onward, place |-> place, by |-> by, length |-> length,
                          stage |-> "sent"]}
    BY <1>4, <2>1 DEF Grader!Save
  <2>3. Grader!CallsAsEntered'
    BY <1>1, <2>2 DEF Grader!CallsAsEntered
  <2>4. QED
    BY <1>1, <2>1, <2>3, GraderStays DEF Grader!GraderInv
<1>5. ASSUME NEW call \in s8, Grader!Serve(call) \/ Grader!Answer(call) \/ Grader!Fail(call)
      PROVE  Grader!GraderInv'
  <2>1. Grader!FilledForActive'
    <3>1. CASE Grader!Answer(call)
      BY <1>1, <3>1, ShowFills DEF Grader!Answer
    <3>2. CASE Grader!Serve(call) \/ Grader!Fail(call)
      BY <1>1, <3>2, GraderStays DEF Grader!Serve, Grader!Fail
    <3>3. QED
      BY <1>5, <3>1, <3>2
  <2>2. s8' \subseteq s8 \cup {[call EXCEPT !.stage = "done"]}
    BY <1>5 DEF Grader!Serve, Grader!Answer, Grader!Fail
  <2>3. Grader!CallsAsEntered'
    <3>1. [call EXCEPT !.stage = "done"] =
            [student |-> call.student, entered |-> call.student, score |-> call.score,
             onward |-> call.onward, place |-> call.place, by |-> call.by,
             length |-> call.length, stage |-> "done"]
      BY <1>1 DEF Grader!CallsAsEntered
    <3>2. QED
      BY <1>1, <2>2, <3>1 DEF Grader!CallsAsEntered
  <2>4. QED
    BY <2>1, <2>3 DEF Grader!GraderInv
<1>6. QED
  BY <1>2, <1>3, <1>4, <1>5 DEF Grader!Next

LEMMA GraderSafe == Grader!GraderInv => Grader!EnteredForThem
<1> SUFFICES ASSUME Grader!CallsAsEntered, NEW call \in s8
             PROVE  call.entered = call.student
  BY DEF Grader!GraderInv, Grader!EnteredForThem
<1>1. call = [student |-> call.student, entered |-> call.student, score |-> call.score,
              onward |-> call.onward, place |-> call.place, by |-> call.by,
              length |-> call.length, stage |-> call.stage]
  BY DEF Grader!CallsAsEntered
<1>2. QED
  BY <1>1

(* A grade is saved for the student it was typed or shown for, whatever    *)
(* the filter, the arrows and the reloads move under the teacher's hands;  *)
(* and a payment goes to the matricula that was clicked, given or the only *)
(* one, in whatever order the lists arrive                                 *)
(* (features/assignments/TeacherSpeedGrader.tsx,                           *)
(* features/enrollments/QuickPayModal.tsx).                                *)
THEOREM GradesAndPaymentsForThem == Spec => []EnteredForThem
<1> DEFINE Inv == /\ part = "grader" => Grader!GraderInv
                  /\ part = "desk" => Desk!DeskInv
<1>1. Init => Inv
  BY GraderInit, DeskInit DEF Init
<1>2. Inv /\ [Next]_slots => Inv'
  BY PartSteps, GraderStepKept, DeskStepKept DEF slots
<1>3. Inv => EnteredForThem
  BY GraderSafe DEF EnteredForThem, Desk!DeskInv
<1>4. QED
  BY <1>1, <1>2, <1>3, PTL DEF Spec, slots

-----------------------------------------------------------------------------
(* The door (module SignIn): s1 the academy the browser remembers, s2 the  *)
(* page, s3 the request under way, s7 what is closed, s8 the links.        *)

\* A page of these fields.
DoorPage(shown, email, slug, offered, source, remember, who) ==
    [shown |-> shown, email |-> email, slug |-> slug, offered |-> offered, source |-> source,
     remember |-> remember, who |-> who]

\* An academy of one of those that an address may be finds them, and so does none.
LEMMA FoundByTheirs ==
  ASSUME NEW email \in Door!Emails
  PROVE  /\ Door!Narrowed(email, Door!NoAcademy) # {}
         /\ \A slug \in {a.academy : a \in Door!TheirsOf(email)} : Door!Narrowed(email, slug) # {}
BY DEF Door!Narrowed, Door!TheirsOf, Door!Emails

LEMMA NarrowedIsTheirs ==
  \A email, slug : Door!Narrowed(email, slug) \subseteq Door!TheirsOf(email)
BY DEF Door!Narrowed

\* A page that has been offered nothing may take the academy the browser remembers.
LEMMA RememberedPage ==
  ASSUME NEW shown, NEW email \in Door!Emails \cup {"none"}, NEW remember, NEW who,
         shown # "callback",
         s2' = Door!Remembered(DoorPage(shown, email, Door!NoAcademy, {}, "nowhere", remember, who))
  PROVE  Door!PageInv'
BY DEF Door!Remembered, DoorPage, Door!PageInv, Door!Mistaken

LEMMA DoorInit == Door!Init => Door!DoorInv
<1> SUFFICES ASSUME Door!Init PROVE Door!DoorInv
  OBVIOUS
<1>1. Door!PageInv
  BY DEF Door!Init, Door!Remembered, Door!Blank, Door!PageInv, Door!Mistaken
<1>2. Door!CallInv /\ Door!RefusedForTheAcademy
  BY DEF Door!Init, Door!NoCall, Door!CallInv, Door!RefusedForTheAcademy, Door!Entering,
         Door!TurnedAway
<1>3. QED
  BY <1>1, <1>2 DEF Door!DoorInv

\* The parts of a page that is as it should be.
LEMMA PageParts ==
  ASSUME Door!PageInv
  PROVE  s2 = DoorPage(s2.shown, s2.email, s2.slug, s2.offered, s2.source, s2.remember, s2.who)
BY DEF Door!PageInv, DoorPage

LEMMA TypeKeepsPage ==
  ASSUME Door!PageInv, NEW email \in Door!Emails, Door!Type(email)
  PROVE  Door!PageInv'
<1>1. s2.shown = "login" /\ s2' = Door!Retyped(email)
  BY DEF Door!Type
<1>2. CASE s2.offered = {}
  <2>1. s2' = DoorPage(s2.shown, email, s2.slug, s2.offered, s2.source, s2.remember, s2.who)
    BY <1>1, <1>2, PageParts DEF Door!Retyped, DoorPage
  <2>2. QED
    BY <1>1, <1>2, <2>1 DEF Door!PageInv, DoorPage
<1>3. CASE s2.offered # {}
  <2>1. [s2 EXCEPT !.email = email, !.offered = {}, !.slug = Door!NoAcademy, !.source = "nowhere"]
          = DoorPage(s2.shown, email, Door!NoAcademy, {}, "nowhere", s2.remember, s2.who)
    <3> DEFINE p == [s2 EXCEPT !.email = email, !.offered = {}, !.slug = Door!NoAcademy,
                               !.source = "nowhere"]
    <3>1. p = [f \in {"shown", "email", "slug", "offered", "source", "remember", "who"} |-> p[f]]
      BY PageParts DEF DoorPage
    <3>2. /\ p.shown = s2.shown /\ p.email = email /\ p.slug = Door!NoAcademy /\ p.offered = {}
          /\ p.source = "nowhere" /\ p.remember = s2.remember /\ p.who = s2.who
      BY PageParts DEF DoorPage
    <3> HIDE DEF p
    <3>3. p = DoorPage(s2.shown, email, Door!NoAcademy, {}, "nowhere", s2.remember, s2.who)
      BY <3>1, <3>2 DEF DoorPage
    <3>4. QED
      BY <3>3 DEF p
  <2>2. s2' = Door!Remembered(DoorPage(s2.shown, email, Door!NoAcademy, {}, "nowhere",
                                       s2.remember, s2.who))
    BY <1>1, <1>3, <2>1 DEF Door!Retyped
  <2>3. QED
    BY <1>1, <2>2, RememberedPage
<1>4. QED
  BY <1>2, <1>3

LEMMA ChooseKeepsPage ==
  ASSUME Door!PageInv, NEW academy, Door!Choose(academy)
  PROVE  Door!PageInv'
<1>1. s2' = DoorPage(s2.shown, s2.email, academy, s2.offered, s2.source, s2.remember, s2.who)
      /\ academy \in s2.offered
  BY PageParts DEF Door!Choose, DoorPage
<1>2. s2.source \in {"offer", "late"}
  BY <1>1 DEF Door!PageInv
<1>3. s2.source = "offer" => Door!Narrowed(s2.email, academy) # {}
  BY <1>1, FoundByTheirs DEF Door!PageInv
<1>4. QED
  BY <1>1, <1>2, <1>3 DEF Door!PageInv, DoorPage

LEMMA ProviderKeepsPage ==
  ASSUME Door!PageInv, NEW email \in Door!Emails, Door!GoToProvider(email)
  PROVE  Door!PageInv'
<1>1. s2' = DoorPage("callback", email, s2.slug, {},
                     IF s2.source = "offer" /\ email # s2.email THEN "late" ELSE s2.source,
                     s2.remember, s2.who)
  BY PageParts DEF Door!GoToProvider, DoorPage
<1>2. QED
  BY <1>1 DEF Door!PageInv, DoorPage, Door!Mistaken

\* A request of these fields.
DoorCall(by, email, slug, accepts, source, answer, account, why) ==
    [by |-> by, email |-> email, slug |-> slug, accepts |-> accepts, source |-> source,
     answer |-> answer, account |-> account, why |-> why]

LEMMA CallParts ==
  ASSUME Door!CallInv
  PROVE  s3 = DoorCall(s3.by, s3.email, s3.slug, s3.accepts, s3.source, s3.answer, s3.account, s3.why)
BY DEF Door!CallInv, DoorCall

\* A request for what is the browser's or the page's, of which nothing is known yet.
LEMMA SentCall ==
  ASSUME NEW by, NEW as, NEW accepts, Door!Send(by, accepts, as)
  PROVE  s3' = DoorCall(by, as.email, as.slug, accepts, as.source, "none", as.who, "none")
<1> DEFINE c == [Door!NoCall EXCEPT !.by = by, !.email = as.email, !.slug = as.slug,
                                    !.accepts = accepts, !.source = as.source, !.account = as.who]
<1>1. s3' = c
  BY DEF Door!Send
<1>2. c = [f \in {"by", "email", "slug", "accepts", "source", "answer", "account", "why"} |-> c[f]]
  BY DEF Door!NoCall
<1>3. /\ c.by = by /\ c.email = as.email /\ c.slug = as.slug /\ c.accepts = accepts
      /\ c.source = as.source /\ c.answer = "none" /\ c.account = as.who /\ c.why = "none"
  BY DEF Door!NoCall
<1> HIDE DEF c
<1>4. QED
  BY <1>1, <1>2, <1>3 DEF DoorCall

\* What is asked with an academy of the page's.
LEMMA SendKeepsCall ==
  ASSUME Door!PageInv, Door!PageInv', NEW as, as = s2 \/ as = s2',
         as.email \in Door!Emails, NEW by \in {"password", "provider"},
         NEW accepts \in SUBSET Door!TheirsOf(as.email),
         by = "provider" => accepts \in {{}, Door!TheirsOf(as.email)},
         Door!Send(by, accepts, as)
  PROVE  Door!CallInv' /\ Door!RefusedForTheAcademy'
<1>1. s3' = DoorCall(by, as.email, as.slug, accepts, as.source, "none", as.who, "none")
  BY SentCall
<1>2. as.source \notin Door!Mistaken => Door!Narrowed(as.email, as.slug) # {}
  BY FoundByTheirs DEF Door!PageInv
<1>3. /\ as.source \in {"nowhere", "offer"} \cup Door!Mistaken
      /\ as.source = "nowhere" => as.slug = Door!NoAcademy
  BY DEF Door!PageInv
<1>4. Door!RefusedForTheAcademy'
  BY <1>1 DEF Door!RefusedForTheAcademy, Door!TurnedAway, DoorCall
<1>5. Door!CallInv'
  BY <1>1, <1>2, <1>3 DEF Door!CallInv, DoorCall
<1>6. QED
  BY <1>4, <1>5

\* The server's answer: how one may be turned away is what there is to show.
LEMMA AnsweredCall ==
  ASSUME Door!CallInv, NEW answer, NEW account, NEW why,
         s3' = DoorCall(s3.by, s3.email, s3.slug, s3.accepts, s3.source, answer, account, why),
         answer = "choose" => account \subseteq Door!TheirsOf(s3.email),
         Door!Entering /\ answer \in {"refused", "stranger"} /\ s3.accepts # {} =>
            \/ why \in {"closed", "elsewhere"}
            \/ /\ s3.slug # Door!NoAcademy /\ \A a \in s3.accepts : a.academy # s3.slug
               /\ \/ s3.source \in {"memory", "late"}
                  \/ /\ s3.source = "offer" /\ s3.by = "password"
                     /\ Door!Narrowed(s3.email, s3.slug) # {}
  PROVE  Door!CallInv' /\ Door!RefusedForTheAcademy'
<1>1. /\ s3'.by = s3.by /\ s3'.email = s3.email /\ s3'.slug = s3.slug /\ s3'.accepts = s3.accepts
      /\ s3'.source = s3.source /\ s3'.answer = answer /\ s3'.account = account /\ s3'.why = why
  BY DEF DoorCall
<1>2. Door!RefusedForTheAcademy'
  BY <1>1 DEF Door!RefusedForTheAcademy, Door!Entering, Door!TurnedAway, Door!Narrowed,
              Door!TheirsOf
<1>3. Door!CallInv'
  BY <1>1 DEF Door!CallInv, Door!Entering, Door!Narrowed, Door!TheirsOf, Door!Mistaken, DoorCall
<1>4. QED
  BY <1>2, <1>3

LEMMA ReplyKeepsCall ==
  ASSUME Door!CallInv, NEW answer, NEW account, Door!Replies(answer, account),
         answer = "choose" => account \subseteq Door!TheirsOf(s3.email),
         answer \notin {"refused", "stranger"} \/ ~Door!Entering
  PROVE  Door!CallInv' /\ Door!RefusedForTheAcademy'
<1>1. s3' = DoorCall(s3.by, s3.email, s3.slug, s3.accepts, s3.source, answer, account, s3.why)
  BY CallParts DEF Door!Replies, DoorCall
<1>2. QED
  BY <1>1, AnsweredCall

LEMMA TurnKeepsCall ==
  ASSUME Door!CallInv, NEW answer \in {"refused", "stranger", "suspended", "locked"}, NEW why,
         Door!Turns(answer, why),
         Door!Entering /\ answer \in {"refused", "stranger"} /\ s3.accepts # {} =>
            \/ why \in {"closed", "elsewhere"}
            \/ /\ s3.slug # Door!NoAcademy /\ \A a \in s3.accepts : a.academy # s3.slug
               /\ \/ s3.source \in {"memory", "late"}
                  \/ /\ s3.source = "offer" /\ s3.by = "password"
                     /\ Door!Narrowed(s3.email, s3.slug) # {}
  PROVE  Door!CallInv' /\ Door!RefusedForTheAcademy'
<1>1. s3' = DoorCall(s3.by, s3.email, s3.slug, s3.accepts, s3.source, answer, {}, why)
  BY CallParts DEF Door!Turns, DoorCall
<1>2. QED
  BY <1>1, AnsweredCall

\* Where none of the accounts looked at is one the credential is good for.
LEMMA NoneMatches ==
  ASSUME Door!CallInv, Door!Entering, s3.accepts # {},
         Door!Narrowed(s3.email, s3.slug) \cap s3.accepts = {},
         s3.by = "provider" => Door!Narrowed(s3.email, s3.slug) = {}
  PROVE  /\ s3.slug # Door!NoAcademy /\ \A a \in s3.accepts : a.academy # s3.slug
         /\ \/ s3.source \in {"memory", "late"}
            \/ /\ s3.source = "offer" /\ s3.by = "password"
               /\ Door!Narrowed(s3.email, s3.slug) # {}
<1>1. s3.accepts \subseteq Door!TheirsOf(s3.email)
  BY DEF Door!CallInv
<1>2. s3.slug # Door!NoAcademy /\ \A a \in s3.accepts : a.academy # s3.slug
  BY <1>1 DEF Door!Narrowed
<1>3. s3.source \in {"offer"} \cup Door!Mistaken
  BY <1>2 DEF Door!CallInv
<1>4. s3.source = "offer" => Door!Narrowed(s3.email, s3.slug) # {}
  BY DEF Door!CallInv, Door!Mistaken
<1>5. QED
  BY <1>2, <1>3, <1>4 DEF Door!Mistaken, Door!Entering

LEMMA PasswordKeepsCall ==
  ASSUME Door!CallInv, Door!ServePassword
  PROVE  Door!CallInv' /\ Door!RefusedForTheAcademy'
<1> DEFINE found == Door!Narrowed(s3.email, s3.slug)
           matching == found \cap s3.accepts
<1>1. s3.by = "password" /\ Door!Entering /\ found \subseteq Door!TheirsOf(s3.email)
  BY NarrowedIsTheirs DEF Door!ServePassword, Door!Entering
<1>2. \/ Door!Turns("locked", "none")
      \/ Door!Replies("choose", matching)
      \/ \E a \in found : Door!TurnsOut(a)
      \/ \E a \in found : Door!Opens(a)
      \/ matching = {} /\ Door!Turns("refused", "none")
  BY DEF Door!ServePassword
<1>3. CASE Door!Turns("locked", "none")
  BY <1>3, TurnKeepsCall
<1>4. CASE Door!Replies("choose", matching)
  BY <1>1, <1>4, ReplyKeepsCall
<1>5. ASSUME NEW a \in found, Door!TurnsOut(a) PROVE Door!CallInv' /\ Door!RefusedForTheAcademy'
  BY <1>5, TurnKeepsCall DEF Door!TurnsOut
<1>6. ASSUME NEW a \in found, Door!Opens(a) PROVE Door!CallInv' /\ Door!RefusedForTheAcademy'
  BY <1>6, ReplyKeepsCall DEF Door!Opens
<1>7. CASE matching = {} /\ Door!Turns("refused", "none")
  BY <1>1, <1>7, NoneMatches, TurnKeepsCall
<1>8. QED
  BY <1>2, <1>3, <1>4, <1>5, <1>6, <1>7

LEMMA ProviderKeepsCall ==
  ASSUME Door!CallInv, Door!ServeProvider
  PROVE  Door!CallInv' /\ Door!RefusedForTheAcademy'
<1> DEFINE linked == IF s3.accepts = {} THEN {} ELSE Door!LinkedTo(s3.email)
           found == IF linked # {} THEN linked ELSE Door!Narrowed(s3.email, s3.slug)
<1>1. s3.by = "provider" /\ Door!Entering /\ found \subseteq Door!TheirsOf(s3.email)
  BY NarrowedIsTheirs DEF Door!ServeProvider, Door!Entering, Door!LinkedTo
<1>2. \/ s3.accepts = {} /\ \E answer \in {"refused", "stranger"} : Door!Turns(answer, "none")
      \/ found = {} /\ Door!Turns("stranger", "none")
      \/ Door!Replies("choose", found)
      \/ Door!Turns("refused", "elsewhere")
      \/ \E a \in found : Door!TurnsOut(a)
      \/ \E a \in found : Door!Opens(a)
  BY DEF Door!ServeProvider
<1>3. CASE s3.accepts = {} /\ \E answer \in {"refused", "stranger"} : Door!Turns(answer, "none")
  BY <1>3, TurnKeepsCall
<1>4. CASE found = {} /\ Door!Turns("stranger", "none")
  <2>1. Door!Narrowed(s3.email, s3.slug) = {}
    BY <1>4
  <2>2. QED
    BY <1>1, <1>4, <2>1, NoneMatches, TurnKeepsCall
<1>5. CASE Door!Replies("choose", found)
  BY <1>1, <1>5, ReplyKeepsCall
<1>6. CASE Door!Turns("refused", "elsewhere")
  BY <1>6, TurnKeepsCall
<1>7. ASSUME NEW a \in found, Door!TurnsOut(a) PROVE Door!CallInv' /\ Door!RefusedForTheAcademy'
  BY <1>7, TurnKeepsCall DEF Door!TurnsOut
<1>8. ASSUME NEW a \in found, Door!Opens(a) PROVE Door!CallInv' /\ Door!RefusedForTheAcademy'
  BY <1>8, ReplyKeepsCall DEF Door!Opens
<1>9. QED
  BY <1>2, <1>3, <1>4, <1>5, <1>6, <1>7, <1>8

LEMMA ServersKeepCall ==
  ASSUME Door!CallInv, Door!ServePassword \/ Door!ServeProvider \/ Door!ServeCode
  PROVE  Door!CallInv' /\ Door!RefusedForTheAcademy'
<1>1. CASE Door!ServeCode
  <2>1. s3.by = "code" /\ \E a \in s3.account : \E answer \in {"locked", "in", "refused"} :
                            Door!Replies(answer, {a})
    BY <1>1 DEF Door!ServeCode
  <2>2. ~Door!Entering
    BY <2>1 DEF Door!Entering
  <2>3. QED
    BY <2>1, <2>2, ReplyKeepsCall
<1>2. QED
  BY <1>1, PasswordKeepsCall, ProviderKeepsCall

\* The provider is tried with what the password was.
LEMMA TryKeepsCall ==
  ASSUME Door!CallInv, Door!TrySupabase
  PROVE  Door!CallInv' /\ Door!RefusedForTheAcademy'
<1> DEFINE c == [Door!NoCall EXCEPT !.by = "provider", !.email = s3.email, !.slug = s3.slug,
                                    !.source = s3.source, !.accepts = Door!TheirsOf(s3.email)]
<1>1. s3' = c /\ Door!Entering
  BY DEF Door!TrySupabase, Door!Entering
<1>2. c = [f \in {"by", "email", "slug", "accepts", "source", "answer", "account", "why"} |-> c[f]]
  BY DEF Door!NoCall
<1>3. /\ c.by = "provider" /\ c.email = s3.email /\ c.slug = s3.slug
      /\ c.accepts = Door!TheirsOf(s3.email) /\ c.source = s3.source /\ c.answer = "none"
  BY DEF Door!NoCall
<1> HIDE DEF c
<1>4. Door!RefusedForTheAcademy'
  BY <1>1, <1>3 DEF Door!RefusedForTheAcademy, Door!TurnedAway
<1>5. s3' = DoorCall(s3'.by, s3'.email, s3'.slug, s3'.accepts, s3'.source, s3'.answer, s3'.account,
                     s3'.why)
  BY <1>1, <1>2 DEF DoorCall
<1>6. Door!CallInv'
  BY <1>1, <1>3, <1>5 DEF Door!CallInv, Door!Entering, Door!Narrowed, Door!TheirsOf, Door!Mistaken,
                          DoorCall
<1>7. QED
  BY <1>4, <1>6

\* The answer reaches the page.
LEMMA AnswerKeepsDoor ==
  ASSUME Door!PageInv, Door!CallInv, Door!Answer
  PROVE  Door!PageInv' /\ Door!CallInv' /\ Door!RefusedForTheAcademy'
<1>1. s3' = Door!NoCall
  BY DEF Door!Answer
<1>2. Door!CallInv' /\ Door!RefusedForTheAcademy'
  BY <1>1 DEF Door!CallInv, Door!RefusedForTheAcademy, Door!NoCall, Door!Entering, Door!TurnedAway
<1>3. CASE s3.answer \in {"in", "mfa"}
  <2>1. s2' = DoorPage(s3.answer, "none", Door!NoAcademy, {}, "nowhere", s1 # Door!NoAcademy,
                       s3.account)
    BY <1>3 DEF Door!Answer, Door!Leave, Door!Blank, DoorPage
  <2>2. QED
    BY <1>2, <1>3, <2>1 DEF Door!PageInv, DoorPage
<1>4. CASE s3.answer = "choose"
  <2>1. PICK first \in s3.account :
          s2' = DoorPage(s2.shown, s2.email, first.academy, {a.academy : a \in s3.account},
                         IF s2.email = s3.email THEN "offer" ELSE "late", s2.remember, s2.who)
    BY <1>4, PageParts DEF Door!Answer, Door!Offer, DoorPage
  <2>2. s3.account \subseteq Door!TheirsOf(s3.email)
    BY <1>4 DEF Door!CallInv
  <2>3. CASE s2.email = s3.email
    <3>1. s2.email \in Door!Emails
      BY <2>1, <2>2, <2>3 DEF Door!TheirsOf, Door!Emails
    <3>2. {a.academy : a \in s3.account} \subseteq {a.academy : a \in Door!TheirsOf(s2.email)}
          /\ first.academy \in {a.academy : a \in s3.account}
      BY <2>1, <2>2, <2>3
    <3>3. Door!Narrowed(s2.email, first.academy) # {}
      BY <3>1, <3>2, FoundByTheirs
    <3>4. QED
      BY <1>2, <2>1, <2>3, <3>1, <3>2, <3>3 DEF Door!PageInv, DoorPage
  <2>4. CASE s2.email # s3.email
    BY <1>2, <2>1, <2>4 DEF Door!PageInv, DoorPage, Door!Mistaken
  <2>5. QED
    BY <2>3, <2>4
<1>5. CASE s3.answer \notin {"in", "mfa", "choose"} /\ s2.shown = "callback"
  <2>1. s2' = DoorPage(s2.shown, s2.email, s2.slug, {}, s2.source, s2.remember, s2.who)
    BY <1>5, PageParts DEF Door!Answer, DoorPage
  <2>2. QED
    BY <1>2, <1>5, <2>1 DEF Door!PageInv, DoorPage
<1>6. CASE UNCHANGED s2
  BY <1>2, <1>6 DEF Door!PageInv
<1>7. QED
  BY <1>3, <1>4, <1>5, <1>6 DEF Door!Answer

LEMMA DoorStepKept ==
  ASSUME Door!DoorInv, Door!Next \/ UNCHANGED <<s1, s2, s3, s4, s5, s6, s7, s8>>
  PROVE  Door!DoorInv'
<1>1. Door!PageInv /\ Door!CallInv /\ Door!RefusedForTheAcademy
  BY DEF Door!DoorInv
<1>2. UNCHANGED s3 => Door!CallInv' /\ Door!RefusedForTheAcademy'
  BY <1>1 DEF Door!CallInv, Door!RefusedForTheAcademy, Door!Entering, Door!TurnedAway
<1>3. UNCHANGED s2 => Door!PageInv'
  BY <1>1 DEF Door!PageInv
<1>4. ASSUME NEW email \in Door!Emails, Door!Type(email) PROVE Door!DoorInv'
  BY <1>1, <1>2, <1>4, TypeKeepsPage DEF Door!Type, Door!DoorInv
<1>5. ASSUME NEW email \in Door!Emails, Door!GoToProvider(email) PROVE Door!DoorInv'
  <2>1. Door!PageInv'
    BY <1>1, <1>5, ProviderKeepsPage
  <2>2. s2'.email = email
    BY <1>5, PageParts, <1>1 DEF Door!GoToProvider, DoorPage
  <2>3. PICK accepts \in {{}, Door!TheirsOf(email)} : Door!Send("provider", accepts, s2')
    BY <1>5 DEF Door!GoToProvider, Door!Vouched
  <2>4. QED
    BY <1>1, <2>1, <2>2, <2>3, SendKeepsCall DEF Door!DoorInv
<1>6. ASSUME NEW academy \in Door!Academies, Door!Choose(academy) PROVE Door!DoorInv'
  BY <1>1, <1>2, <1>6, ChooseKeepsPage DEF Door!Choose, Door!DoorInv
<1>7. CASE Door!Submit
  <2>1. UNCHANGED s2 /\ s2.email # "none"
    BY <1>7 DEF Door!Submit
  <2>2. PICK accepts \in SUBSET Door!TheirsOf(s2.email) : Door!Send("password", accepts, s2)
    BY <1>7 DEF Door!Submit
  <2>3. s2.email \in Door!Emails
    BY <1>1, <2>1 DEF Door!PageInv
  <2>4. QED
    BY <1>1, <1>3, <2>1, <2>2, <2>3, SendKeepsCall DEF Door!DoorInv
<1>8. CASE Door!SendCode
  <2>1. UNCHANGED s2
    BY <1>8 DEF Door!SendCode
  <2>2. PICK accepts \in {{}, s2.who} : Door!Send("code", accepts, s2)
    BY <1>8 DEF Door!SendCode
  <2>3. s3' = DoorCall("code", s2.email, s2.slug, accepts, s2.source, "none", s2.who, "none")
    BY <2>2, SentCall
  <2>4. Door!CallInv' /\ Door!RefusedForTheAcademy'
    BY <2>3 DEF Door!CallInv, Door!RefusedForTheAcademy, Door!Entering, Door!TurnedAway, DoorCall
  <2>5. QED
    BY <1>1, <1>3, <2>1, <2>4 DEF Door!DoorInv
<1>9. CASE Door!ChooseAtCallback
  <2>1. UNCHANGED s2 /\ s2.email \in Door!Emails
    BY <1>1, <1>9 DEF Door!ChooseAtCallback, Door!PageInv
  <2>2. PICK accepts \in {{}, Door!TheirsOf(s2.email)} : Door!Send("provider", accepts, s2)
    BY <1>9 DEF Door!ChooseAtCallback, Door!Vouched
  <2>3. QED
    BY <1>1, <1>3, <2>1, <2>2, SendKeepsCall DEF Door!DoorInv
<1>10. CASE Door!ToggleRemember
  <2>1. s2' = DoorPage(s2.shown, s2.email, s2.slug, s2.offered, s2.source, ~s2.remember, s2.who)
        /\ UNCHANGED s3
    BY <1>1, <1>10, PageParts DEF Door!ToggleRemember, DoorPage
  <2>2. Door!PageInv'
    BY <1>1, <2>1 DEF Door!PageInv, DoorPage
  <2>3. QED
    BY <1>2, <2>1, <2>2 DEF Door!DoorInv
<1>11. CASE Door!BackToLogin
  <2>1. s2' = Door!Remembered(DoorPage("login", "none", Door!NoAcademy, {}, "nowhere",
                                       s1 # Door!NoAcademy, {}))
        /\ UNCHANGED s3
    BY <1>11 DEF Door!BackToLogin, Door!Blank, DoorPage
  <2>2. QED
    BY <1>2, <2>1, RememberedPage DEF Door!DoorInv
<1>12. CASE Door!ServePassword \/ Door!ServeProvider \/ Door!ServeCode
  <2>1. UNCHANGED s2
    BY <1>12 DEF Door!ServePassword, Door!ServeProvider, Door!ServeCode
  <2>2. QED
    BY <1>1, <1>3, <1>12, <2>1, ServersKeepCall DEF Door!DoorInv
<1>13. CASE Door!TrySupabase
  BY <1>1, <1>3, <1>13, TryKeepsCall DEF Door!TrySupabase, Door!DoorInv
<1>14. CASE Door!Answer
  BY <1>1, <1>14, AnswerKeepsDoor DEF Door!DoorInv
<1>15. CASE \/ \E k \in Door!Keys : Door!LockEnds(k)
            \/ \E door \in Door!Doors : Door!Shut(door) \/ Door!Reopen(door)
            \/ UNCHANGED <<s1, s2, s3, s4, s5, s6, s7, s8>>
  BY <1>2, <1>3, <1>15 DEF Door!LockEnds, Door!Shut, Door!Reopen, Door!DoorInv
<1>16. QED
  BY <1>4, <1>5, <1>6, <1>7, <1>8, <1>9, <1>10, <1>11, <1>12, <1>13, <1>14, <1>15 DEF Door!Next

(* Whoever gives a credential that is good for an account, and is told all *)
(* the same that it is not, or that there is none, has the account         *)
(* deactivated or linked to another identity, or an academy was sent that  *)
(* the account is not of: the remembered one, one offered to another       *)
(* address, or, of those offered, one with another password.  For any      *)
(* accounts and academies, whatever is typed, chosen, locked or closed     *)
(* meanwhile (pages/Login.tsx, pages/AuthCallback.tsx, routers/auth.py).   *)
THEOREM OnlyAnothersAcademyRefuses == Spec => []RefusedForTheAcademy
<1> DEFINE Inv == part = "door" => Door!DoorInv
<1>1. Init => Inv
  BY DoorInit DEF Init
<1>2. Inv /\ [Next]_slots => Inv'
  BY PartSteps, DoorStepKept DEF slots
<1>3. Inv => RefusedForTheAcademy
  BY DEF RefusedForTheAcademy, Door!DoorInv
<1>4. QED
  BY <1>1, <1>2, <1>3, PTL DEF Spec, slots

-----------------------------------------------------------------------------
(* A form (module FormSession): s1 which, s2 its view, s3 the calls, s4    *)
(* the copies the server made, s5 the faults.                              *)

\* The forms that are not among the named ones close and clear nothing that was opened
\* since: they wait in callbacks of the dialog itself, or leave the view as it is.
LEMMA ReachingForms ==
  ASSUME NEW f \in Form!AllForms, f \notin Form!ActOnAnother
  PROVE  ~Form!Reaches(f)
<1>1. /\ ~Form!Reaches(Form!CreateUser) /\ ~Form!Reaches(Form!ReactivateStudent) /\ ~Form!Reaches(Form!DeactivateTeacher)
      /\ ~Form!Reaches(Form!ReactivateTeacher) /\ ~Form!Reaches(Form!Reassign) /\ ~Form!Reaches(Form!NewTenant)
      /\ ~Form!Reaches(Form!TenantDetails) /\ ~Form!Reaches(Form!TenantAdmin) /\ ~Form!Reaches(Form!ActivatePlan)
  BY DEF Form!CreateUser, Form!ReactivateStudent, Form!DeactivateTeacher,
         Form!ReactivateTeacher, Form!Reassign, Form!NewTenant, Form!TenantDetails,
         Form!TenantAdmin, Form!ActivatePlan, Form!Edit, Form!OfPanel, Form!Unblocked,
         Form!Switch, Form!Form, Form!Reaches
<1>2. /\ ~Form!Reaches(Form!ToggleLudi) /\ ~Form!Reaches(Form!EditCourse) /\ ~Form!Reaches(Form!StatusSelect)
      /\ ~Form!Reaches(Form!AttendanceToggle) /\ ~Form!Reaches(Form!TransferCourse) /\ ~Form!Reaches(Form!Finances)
      /\ ~Form!Reaches(Form!IssueInvoice) /\ ~Form!Reaches(Form!QuickPayment) /\ ~Form!Reaches(Form!AssignCourseTeacher)
  BY DEF Form!ToggleLudi, Form!EditCourse, Form!StatusSelect, Form!AttendanceToggle,
         Form!TransferCourse, Form!Finances, Form!IssueInvoice, Form!QuickPayment,
         Form!AssignCourseTeacher, Form!Edit, Form!OfPanel, Form!Switch, Form!Form,
         Form!Reaches
<1>3. /\ ~Form!Reaches(Form!ApproveProposal) /\ ~Form!Reaches(Form!ApproveRenewal) /\ ~Form!Reaches(Form!SwitchRoom)
      /\ ~Form!Reaches(Form!RequestPlan) /\ ~Form!Reaches(Form!RequestLudi) /\ ~Form!Reaches(Form!CancelPlan)
      /\ ~Form!Reaches(Form!ProfileDetails) /\ ~Form!Reaches(Form!NotificationChannel) /\ ~Form!Reaches(Form!AddOwnAvailability)
  BY DEF Form!ApproveProposal, Form!ApproveRenewal, Form!SwitchRoom, Form!RequestPlan,
         Form!RequestLudi, Form!CancelPlan, Form!ProfileDetails, Form!NotificationChannel,
         Form!AddOwnAvailability, Form!Edit, Form!OfPanel, Form!HeldByPanel, Form!Unblocked,
         Form!Switch, Form!Form, Form!Reaches
<1>4. /\ ~Form!Reaches(Form!DropOwnAvailability) /\ ~Form!Reaches(Form!ProposeLocation) /\ ~Form!Reaches(Form!GenerateClasses)
      /\ ~Form!Reaches(Form!ReopenRegister) /\ ~Form!Reaches(Form!MarkVisitor) /\ ~Form!Reaches(Form!DailyGrade)
      /\ ~Form!Reaches(Form!EnterClassMode) /\ ~Form!Reaches(Form!NotificationSettings) /\ ~Form!Reaches(Form!TestWhatsApp)
  BY DEF Form!DropOwnAvailability, Form!ProposeLocation, Form!GenerateClasses,
         Form!ReopenRegister, Form!MarkVisitor, Form!DailyGrade, Form!EnterClassMode,
         Form!NotificationSettings, Form!TestWhatsApp, Form!Edit, Form!OfPanel,
         Form!HeldByPanel, Form!Awaited, Form!Switch, Form!Form, Form!Reaches
<1>5. /\ ~Form!Reaches(Form!VideoProvider) /\ ~Form!Reaches(Form!TestProvider) /\ ~Form!Reaches(Form!QuickSetup)
      /\ ~Form!Reaches(Form!GenerateQuiz) /\ ~Form!Reaches(Form!LiveQuiz) /\ ~Form!Reaches(Form!Pronunciation)
  BY DEF Form!VideoProvider, Form!TestProvider, Form!QuickSetup, Form!GenerateQuiz,
         Form!LiveQuiz, Form!Pronunciation, Form!Edit, Form!OfPanel, Form!HeldByPanel,
         Form!Awaited, Form!Switch, Form!Form, Form!Reaches
<1>6. QED
  BY <1>1, <1>2, <1>3, <1>4, <1>5 DEF Form!AllForms, Form!ActOnAnother

\* Which form it is does not change.
LEMMA FormStays ==
  ASSUME s1 \in Form!AllForms, Form!Next \/ UNCHANGED s1
  PROVE  s1' \in Form!AllForms
BY DEF Form!Next, Form!Open, Form!Fill, Form!Send, Form!Close, Form!Serve, Form!Refuse, Form!Lose,
       Form!Answer

\* An answer acts on the form only from code that is still there, or where the table says so.
LEMMA FormAnswersOwn ==
  ASSUME s1 \in Form!AllForms, Form!Next
  PROVE  Form!OwnAnswer
<1> SUFFICES ASSUME s1 \notin Form!ActOnAnother,
                    NEW i \in DOMAIN s3,
                    s3'[i].stage = "heard", Form!InFlight(s3[i]), s2' # s2
             PROVE  s3[i].nth = s2.nth
  BY DEF Form!OwnAnswer
<1>1. s3' # s3
  BY DEF Form!InFlight
<1>2. PICK k \in DOMAIN s3 : Form!Answer(k)
  BY <1>1 DEF Form!Next, Form!Open, Form!Fill, Form!Send, Form!Close, Form!Serve, Form!Refuse,
              Form!Lose
<1>3. k = i
  BY <1>2 DEF Form!Answer, Form!InFlight
<1>4. Form!Heard(i) /\ s2' \in {Form!Saved, Form!Failed}
  BY <1>2, <1>3 DEF Form!Answer
<1>5. ~Form!Reaches(s1)
  BY ReachingForms
<1>6. ~(s1.awaits \/ s1.owner = "panel")
  <2> SUFFICES ASSUME s1.awaits \/ s1.owner = "panel" PROVE FALSE
    OBVIOUS
  <2>1. s1.saved = "stays" /\ s1.failed # "closes"
    BY <1>5 DEF Form!Reaches
  <2>2. Form!Saved = s2 /\ Form!Failed = s2
    BY <2>1 DEF Form!Saved, Form!Failed
  <2>3. QED
    BY <1>4, <2>2
<1>7. QED
  BY <1>4, <1>6 DEF Form!Heard

(* But for thirty-one forms named one by one, an answer closes or clears   *)
(* only the opening it was sent from, for every form of the table,         *)
(* however often it is closed, opened and sent meanwhile: no other form    *)
(* whose code awaits its answer, or whose hook is the panel's, touches     *)
(* what is open (Modal in components/ui.tsx, and the forms of Forms.tla).  *)
THEOREM AnswersTheirOwnOpening == Spec => OwnAnswer
<1> DEFINE Inv == part = "form" => s1 \in Form!AllForms
<1>1. Init => Inv
  BY DEF Init, Form!Init
<1>2. Inv /\ [Next]_slots => Inv'
  BY PartSteps, FormStays DEF slots
<1>3. Inv /\ [Next]_slots => [part = "form" => Form!OwnAnswer]_<<part, s2, s3>>
  BY PartSteps, FormAnswersOwn DEF slots
<1>4. QED
  BY <1>1, <1>2, <1>3, PTL DEF Spec, OwnAnswer, slots

\* Every form that begins blank and goes away when saved blocks while it waits.
LEMMA FormsAreSound ==
  ASSUME NEW f \in Form!AllForms
  PROVE  Form!Sound(f)
<1>1. /\ Form!Sound(Form!CreateUser) /\ Form!Sound(Form!EditUser)
      /\ Form!Sound(Form!DeleteUser) /\ Form!Sound(Form!DeactivateStudent)
      /\ Form!Sound(Form!ReactivateStudent) /\ Form!Sound(Form!DeactivateTeacher)
      /\ Form!Sound(Form!ReactivateTeacher) /\ Form!Sound(Form!Reassign)
      /\ Form!Sound(Form!NewTenant)
  BY DEF Form!CreateUser, Form!EditUser, Form!DeleteUser, Form!DeactivateStudent,
         Form!ReactivateStudent, Form!DeactivateTeacher, Form!ReactivateTeacher,
         Form!Reassign, Form!NewTenant, Form!Edit, Form!OfPanel, Form!Awaited,
         Form!Unblocked, Form!Confirm, Form!Switch, Form!Form, Form!Sound, Form!BlankAndGone
<1>2. /\ Form!Sound(Form!TenantDetails) /\ Form!Sound(Form!TenantAdmin)
      /\ Form!Sound(Form!TenantStatus) /\ Form!Sound(Form!ActivatePlan)
      /\ Form!Sound(Form!RejectPlan) /\ Form!Sound(Form!ToggleLudi)
      /\ Form!Sound(Form!QuickCourse) /\ Form!Sound(Form!EditCourse)
      /\ Form!Sound(Form!DeleteCourse)
  BY DEF Form!TenantDetails, Form!TenantAdmin, Form!TenantStatus, Form!ActivatePlan,
         Form!RejectPlan, Form!ToggleLudi, Form!QuickCourse, Form!EditCourse,
         Form!DeleteCourse, Form!Edit, Form!OfPanel, Form!HeldByPanel, Form!Confirm,
         Form!Switch, Form!Form, Form!Sound, Form!BlankAndGone
<1>3. /\ Form!Sound(Form!DeleteEnrollment) /\ Form!Sound(Form!StatusSelect)
      /\ Form!Sound(Form!AttendanceToggle) /\ Form!Sound(Form!TransferCourse)
      /\ Form!Sound(Form!Finances) /\ Form!Sound(Form!IssueInvoice)
      /\ Form!Sound(Form!StudentPayment) /\ Form!Sound(Form!QuickPayment)
      /\ Form!Sound(Form!CourseMove)
  BY DEF Form!DeleteEnrollment, Form!StatusSelect, Form!AttendanceToggle,
         Form!TransferCourse, Form!Finances, Form!IssueInvoice, Form!StudentPayment,
         Form!QuickPayment, Form!CourseMove, Form!Edit, Form!OfPanel, Form!HeldByPanel,
         Form!Confirm, Form!Switch, Form!Form, Form!Sound, Form!BlankAndGone
<1>4. /\ Form!Sound(Form!AssignCourseTeacher) /\ Form!Sound(Form!ApproveProposal)
      /\ Form!Sound(Form!RejectProposal) /\ Form!Sound(Form!ApproveRenewal)
      /\ Form!Sound(Form!RejectRenewal) /\ Form!Sound(Form!AddLanguage)
      /\ Form!Sound(Form!AddLevel) /\ Form!Sound(Form!DeleteLanguage)
      /\ Form!Sound(Form!DeleteLevel)
  BY DEF Form!AssignCourseTeacher, Form!ApproveProposal, Form!RejectProposal,
         Form!ApproveRenewal, Form!RejectRenewal, Form!AddLanguage, Form!AddLevel,
         Form!DeleteLanguage, Form!DeleteLevel, Form!Edit, Form!OfPanel, Form!HeldByPanel,
         Form!Confirm, Form!Switch, Form!Form, Form!Sound, Form!BlankAndGone
<1>5. /\ Form!Sound(Form!AddRoom) /\ Form!Sound(Form!SwitchRoom)
      /\ Form!Sound(Form!DeleteRoom) /\ Form!Sound(Form!AddHoliday)
      /\ Form!Sound(Form!DeleteHoliday) /\ Form!Sound(Form!RequestPlan)
      /\ Form!Sound(Form!RequestLudi) /\ Form!Sound(Form!CancelPlan)
      /\ Form!Sound(Form!Rate)
  BY DEF Form!AddRoom, Form!SwitchRoom, Form!DeleteRoom, Form!AddHoliday,
         Form!DeleteHoliday, Form!RequestPlan, Form!RequestLudi, Form!CancelPlan, Form!Rate,
         Form!Edit, Form!OfPanel, Form!HeldByPanel, Form!Unblocked, Form!Confirm,
         Form!Switch, Form!Form, Form!Sound, Form!BlankAndGone
<1>6. /\ Form!Sound(Form!ProfileDetails) /\ Form!Sound(Form!NotificationChannel)
      /\ Form!Sound(Form!ChangePassword) /\ Form!Sound(Form!AddOwnLanguage)
      /\ Form!Sound(Form!AddOwnAvailability) /\ Form!Sound(Form!DropOwnAvailability)
      /\ Form!Sound(Form!ScheduleEdit) /\ Form!Sound(Form!DeleteSchedule)
      /\ Form!Sound(Form!NewAssignment)
  BY DEF Form!ProfileDetails, Form!NotificationChannel, Form!ChangePassword,
         Form!AddOwnLanguage, Form!AddOwnAvailability, Form!DropOwnAvailability,
         Form!ScheduleEdit, Form!DeleteSchedule, Form!NewAssignment, Form!Edit,
         Form!OfPanel, Form!HeldByPanel, Form!Awaited, Form!Confirm, Form!Switch, Form!Form,
         Form!Sound, Form!BlankAndGone
<1>7. /\ Form!Sound(Form!Delivery) /\ Form!Sound(Form!ProposeLocation)
      /\ Form!Sound(Form!RescheduleClass) /\ Form!Sound(Form!CancelClass)
      /\ Form!Sound(Form!GenerateClasses) /\ Form!Sound(Form!CloseRegister)
      /\ Form!Sound(Form!ReopenRegister) /\ Form!Sound(Form!MarkVisitor)
      /\ Form!Sound(Form!DailyGrade)
  BY DEF Form!Delivery, Form!ProposeLocation, Form!RescheduleClass, Form!CancelClass,
         Form!GenerateClasses, Form!CloseRegister, Form!ReopenRegister, Form!MarkVisitor,
         Form!DailyGrade, Form!Edit, Form!OfPanel, Form!HeldByPanel, Form!Awaited,
         Form!Confirm, Form!Switch, Form!Form, Form!Sound, Form!BlankAndGone
<1>8. /\ Form!Sound(Form!EnterClassMode) /\ Form!Sound(Form!NotificationSettings)
      /\ Form!Sound(Form!TestWhatsApp) /\ Form!Sound(Form!VideoProvider)
      /\ Form!Sound(Form!TestProvider) /\ Form!Sound(Form!QuickSetup)
      /\ Form!Sound(Form!GenerateQuiz) /\ Form!Sound(Form!LiveQuiz)
      /\ Form!Sound(Form!AwardXP)
  BY DEF Form!EnterClassMode, Form!NotificationSettings, Form!TestWhatsApp,
         Form!VideoProvider, Form!TestProvider, Form!QuickSetup, Form!GenerateQuiz,
         Form!LiveQuiz, Form!AwardXP, Form!Edit, Form!OfPanel, Form!HeldByPanel,
         Form!Awaited, Form!Switch, Form!Form, Form!Sound, Form!BlankAndGone
<1>9. /\ Form!Sound(Form!Pronunciation)
  BY DEF Form!Pronunciation, Form!Edit, Form!OfPanel, Form!Switch, Form!Form, Form!Sound,
         Form!BlankAndGone
<1>10. QED
  BY <1>1, <1>2, <1>3, <1>4, <1>5, <1>6, <1>7, <1>8, <1>9 DEF Form!AllForms

LEMMA SessionInit == Form!Init => Form!SessionInv
BY EmptySeq DEF Form!Init, Form!SessionInv, Form!Views, Form!ViewsAndCalls, Form!CallsArePast,
   Form!DraftOfItsOpening,
       Form!OneAtATime, Form!CarriedOutIsOver

\* The forms the invariant is about: one that keeps what is typed in the panel
\* has its hooks there too.
LEMMA SoundForm ==
  ASSUME s1 \in Form!AllForms, Form!BlankAndGone(s1)
  PROVE  /\ s1.blocks
         /\ s1.saved \in {"closes", "clears"}
         /\ s1.holds = "dialog" \/ (s1.holds = "panel" /\ s1.owner = "panel")
BY FormsAreSound DEF Form!Sound

\* A new draft, in an opening of its own or not.
LEMMA FreshType ==
  ASSUME s2 \in Form!Views
  PROVE  /\ Form!Fresh \in Form!Views
         /\ Form!Fresh.draft = s2.draft + 1 /\ Form!Fresh.nth = s2.nth
         /\ ~s2.open => ~Form!Fresh.open
<1> DEFINE blank == s1.needs = {} \/ s1.begins = "record"
<1>1. Form!Fresh = [s2 EXCEPT !.draft = @ + 1, !.ready = blank] /\ blank \in BOOLEAN
  BY DEF Form!Fresh
<1> HIDE DEF blank
<1>2. Form!Fresh \in Form!Views
  <2> DEFINE v == [s2 EXCEPT !.draft = @ + 1]
  <2>1. v \in Form!Views
    BY DEF Form!Views
  <2>2. Form!Fresh = [v EXCEPT !.ready = blank]
    BY <1>1
  <2> HIDE DEF v
  <2>3. QED
    BY <1>1, <2>1, <2>2 DEF Form!Views
<1>3. Form!Fresh.draft = s2.draft + 1 /\ Form!Fresh.nth = s2.nth
  BY <1>1 DEF Form!Views
<1>4. ~s2.open => ~Form!Fresh.open
  BY <1>1 DEF Form!Views
<1>5. QED
  BY <1>2, <1>3, <1>4

\* Opening and filling: a new draft, or the one the panel kept.
LEMMA ViewStep ==
  ASSUME s2 \in Form!Views, Form!Open \/ Form!Fill \/ Form!Close
  PROVE  /\ s2' \in Form!Views
         /\ s2.nth <= s2'.nth /\ s2.draft <= s2'.draft
         /\ \/ s2'.draft > s2.draft
            \/ s1.holds # "dialog" \/ (s2'.nth = s2.nth /\ (~s2.open => ~s2'.open))
         /\ s1' = s1 /\ s3' = s3 /\ s4' = s4
<1>1. CASE Form!Open
  <2>1. PICK v \in Form!Views :
          /\ s2' = [v EXCEPT !.open = TRUE, !.nth = @ + 1]
          /\ v.nth = s2.nth /\ v.draft >= s2.draft
          /\ v.draft = s2.draft => s1.holds # "dialog"
    <3>1. CASE s1.holds = "panel" /\ s2.draft > 0
      <4>1. s2' = [s2 EXCEPT !.open = TRUE, !.nth = @ + 1]
        BY <1>1, <3>1 DEF Form!Open
      <4>2. s2.nth \in Nat /\ s2.draft \in Nat
        BY DEF Form!Views
      <4>3. s2.draft >= s2.draft /\ s1.holds # "dialog"
        BY <3>1, <4>2
      <4>4. QED
        BY <4>1, <4>3, Zenon
    <3>2. CASE ~(s1.holds = "panel" /\ s2.draft > 0)
      <4>1. s2' = [Form!Fresh EXCEPT !.open = TRUE, !.nth = @ + 1]
        BY <1>1, <3>2 DEF Form!Open
      <4>2. s2.nth \in Nat /\ s2.draft \in Nat
        BY DEF Form!Views
      <4>3. /\ Form!Fresh \in Form!Views /\ Form!Fresh.nth = s2.nth
            /\ Form!Fresh.draft >= s2.draft /\ Form!Fresh.draft # s2.draft
        BY <4>2, FreshType
      <4>4. QED
        BY <4>1, <4>3, Zenon
    <3>3. QED
      BY <3>1, <3>2
  <2>2. s2' \in Form!Views
    <3> DEFINE w == [v EXCEPT !.open = TRUE]
    <3>1. w \in Form!Views
      BY DEF Form!Views
    <3>2. s2' = [w EXCEPT !.nth = @ + 1]
      BY <2>1
    <3> HIDE DEF w
    <3>3. QED
      BY <3>1, <3>2 DEF Form!Views
  <2>3. s2'.draft = v.draft /\ s2'.nth = v.nth + 1
    BY <2>1 DEF Form!Views
  <2>4. s2.draft \in Nat /\ s2.nth \in Nat /\ v.draft \in Nat
    BY <2>1 DEF Form!Views
  <2>5. QED
    BY <1>1, <2>1, <2>2, <2>3, <2>4 DEF Form!Open
<1>2. CASE Form!Fill \/ Form!Close
  <2>1. s2' \in Form!Views
    BY <1>2 DEF Form!Fill, Form!Close, Form!Views
  <2>2. s2'.nth = s2.nth /\ s2'.draft = s2.draft
    BY <1>2 DEF Form!Fill, Form!Close, Form!Views
  <2>3. ~s2.open => ~s2'.open
    BY <1>2 DEF Form!Fill, Form!Close, Form!Views
  <2>4. s2.nth \in Nat /\ s2.draft \in Nat
    BY DEF Form!Views
  <2>5. QED
    BY <1>2, <2>1, <2>2, <2>3, <2>4 DEF Form!Fill, Form!Close
<1>3. QED
  BY <1>1, <1>2

LEMMA CallFacts ==
  ASSUME s3 \in Seq(Form!Calls), NEW i \in DOMAIN s3
  PROVE  /\ s3[i] \in Form!Calls
         /\ s3[i].nth \in Nat /\ s3[i].draft \in Nat /\ s3[i].stage \in Form!Stages
<1>1. i \in 1..Len(s3)
  OBVIOUS
<1>2. s3[i] \in Form!Calls
  BY <1>1, ElementOfSeq
<1>3. QED
  BY <1>2 DEF Form!Calls

LEMMA OpenFillClose ==
  ASSUME Form!SessionInv, Form!BlankAndGone(s1), Form!Open \/ Form!Fill \/ Form!Close
  PROVE  Form!SessionInv'
<1> USE DEF Form!SessionInv
<1>1. /\ s2' \in Form!Views
      /\ s2.nth <= s2'.nth /\ s2.draft <= s2'.draft
      /\ \/ s2'.draft > s2.draft
         \/ s1.holds # "dialog" \/ (s2'.nth = s2.nth /\ (~s2.open => ~s2'.open))
      /\ s1' = s1 /\ s3' = s3 /\ s4' = s4
  BY ViewStep DEF Form!ViewsAndCalls
<1>2. s2.nth \in Nat /\ s2.draft \in Nat /\ s2'.nth \in Nat /\ s2'.draft \in Nat
  BY <1>1 DEF Form!ViewsAndCalls, Form!Views
<1>3. \A i \in DOMAIN s3 : s3[i].nth \in Nat /\ s3[i].draft \in Nat
  BY CallFacts DEF Form!ViewsAndCalls
<1>4. Form!ViewsAndCalls'
  BY <1>1 DEF Form!ViewsAndCalls
<1>5. Form!CallsArePast' /\ Form!DraftOfItsOpening'
  BY <1>1, <1>2, <1>3 DEF Form!CallsArePast, Form!DraftOfItsOpening
<1>6. Form!OneAtATime'
  BY <1>1 DEF Form!OneAtATime, Form!InFlight
<1>7. Form!CarriedOutIsOver'
  <2> SUFFICES ASSUME NEW d \in Form!Drafts, s4'[d] > 0,
                      ~ \E i \in DOMAIN s3' : s3'[i].draft = d /\ s3'[i].unsure
               PROVE  /\ s4'[d] = 1
                      /\ d <= s2'.draft
                      /\ \A i \in DOMAIN s3' : s3'[i].draft = d => s3'[i].stage # "sent"
                      /\ \/ \E i \in DOMAIN s3' : s3'[i].draft = d /\ s3'[i].stage = "done"
                         \/ d < s2'.draft
                         \/ s1'.holds = "dialog" /\ ~s2'.open
    BY DEF Form!CarriedOutIsOver, Form!Drafts
  <2>1. /\ s4[d] = 1 /\ d <= s2.draft
        /\ \A i \in DOMAIN s3 : s3[i].draft = d => s3[i].stage # "sent"
        /\ \/ \E i \in DOMAIN s3 : s3[i].draft = d /\ s3[i].stage = "done"
           \/ d < s2.draft
           \/ s1.holds = "dialog" /\ ~s2.open
    BY <1>1 DEF Form!CarriedOutIsOver
  <2>2. d \in Int
    BY DEF Form!Drafts
  <2>3. QED
    BY <1>1, <1>2, <2>1, <2>2
<1>8. QED
  BY <1>1, <1>4, <1>5, <1>6, <1>7

\* One more call, of what is on the screen: nothing else of its opening, draft
\* or hook is under way.
LEMMA FormSends ==
  ASSUME Form!SessionInv, s1 \in Form!AllForms, Form!BlankAndGone(s1), Form!Send
  PROVE  Form!SessionInv'
<1> USE DEF Form!SessionInv
<1> DEFINE c == [nth |-> s2.nth, draft |-> s2.draft, stage |-> "sent", unsure |-> FALSE]
           n == Len(s3) + 1
<1>0. s3 \in Seq(Form!Calls) /\ s2.nth \in Nat /\ s2.draft \in Nat /\ s2.open
  BY DEF Form!ViewsAndCalls, Form!Views, Form!Send
<1>1. /\ c \in Form!Calls /\ c.nth = s2.nth /\ c.draft = s2.draft /\ c.stage = "sent"
      /\ ~c.unsure
  BY <1>0 DEF Form!Calls, Form!Stages
<1>2. s3' = Append(s3, c) /\ UNCHANGED <<s1, s2, s4>>
  BY DEF Form!Send
<1> HIDE DEF c
<1>3. /\ s3' \in Seq(Form!Calls) /\ DOMAIN s3' = DOMAIN s3 \cup {n} /\ n \notin DOMAIN s3
      /\ s3'[n] = c /\ \A i \in DOMAIN s3 : s3'[i] = s3[i] /\ i < n
  BY <1>0, <1>1, <1>2, AppendProperties
<1>4. \A i \in DOMAIN s3 : s3[i] \in Form!Calls /\ s3[i].nth \in Nat /\ s3[i].draft \in Nat
  BY <1>0, CallFacts
<1>5. \A i \in DOMAIN s3 : Form!InFlight(s3[i]) => s1.owner # "panel" /\ s3[i].nth # s2.nth
  BY SoundForm DEF Form!Send, Form!Busy
<1>6. \A i \in DOMAIN s3 : Form!InFlight(s3[i]) => s3[i].draft # s2.draft
  BY <1>5, SoundForm DEF Form!DraftOfItsOpening
<1>7. Form!ViewsAndCalls'
  BY <1>2, <1>3 DEF Form!ViewsAndCalls
<1>8. Form!CallsArePast' /\ Form!DraftOfItsOpening'
  BY <1>0, <1>1, <1>2, <1>3, <1>4 DEF Form!CallsArePast, Form!DraftOfItsOpening
<1>9. Form!OneAtATime'
  <2> SUFFICES ASSUME NEW i \in DOMAIN s3', NEW j \in DOMAIN s3', i < j, Form!InFlight(s3'[i])
               PROVE  /\ s1.owner # "panel" /\ s3'[j].nth # s3'[i].nth
                      /\ Form!InFlight(s3'[j]) => s3'[j].draft # s3'[i].draft
    BY <1>2 DEF Form!OneAtATime, Form!InFlight
  <2>1. i \in DOMAIN s3
    <3>1. n \in Int /\ DOMAIN s3 \subseteq Int
      BY <1>0
    <3>2. QED
      BY <1>3, <3>1
  <2>2. CASE j = n
    BY <1>1, <1>3, <1>5, <1>6, <2>1, <2>2
  <2>3. CASE j \in DOMAIN s3
    BY <1>3, <2>1, <2>3 DEF Form!OneAtATime
  <2>4. QED
    BY <1>3, <2>2, <2>3
<1>10. Form!CarriedOutIsOver'
  <2> SUFFICES ASSUME NEW d \in Form!Drafts, s4[d] > 0,
                      ~ \E i \in DOMAIN s3' : s3'[i].draft = d /\ s3'[i].unsure
               PROVE  /\ s4[d] = 1
                      /\ d <= s2.draft
                      /\ \A i \in DOMAIN s3' : s3'[i].draft = d => s3'[i].stage # "sent"
                      /\ \/ \E i \in DOMAIN s3' : s3'[i].draft = d /\ s3'[i].stage = "done"
                         \/ d < s2.draft
                         \/ s1.holds = "dialog" /\ ~s2.open
    BY <1>2 DEF Form!CarriedOutIsOver, Form!Drafts
  <2>1. /\ s4[d] = 1 /\ d <= s2.draft
        /\ \A i \in DOMAIN s3 : s3[i].draft = d => s3[i].stage # "sent"
        /\ \/ \E i \in DOMAIN s3 : s3[i].draft = d /\ s3[i].stage = "done"
           \/ d < s2.draft
    BY <1>0, <1>3 DEF Form!CarriedOutIsOver
  <2>2. d # s2.draft
    <3>1. ~ (\E i \in DOMAIN s3 : s3[i].draft = s2.draft /\ s3[i].stage = "done")
      BY <1>6 DEF Form!InFlight
    <3>2. ~ (s2.draft < s2.draft)
      BY <1>0
    <3>3. QED
      BY <2>1, <3>1, <3>2
  <2>3. \A i \in DOMAIN s3' : s3'[i].draft = d => s3'[i].stage # "sent"
    BY <1>1, <1>3, <2>1, <2>2
  <2>4. (\E i \in DOMAIN s3' : s3'[i].draft = d /\ s3'[i].stage = "done") \/ d < s2.draft
    BY <1>3, <2>1
  <2>5. QED
    BY <2>1, <2>3, <2>4
<1>11. QED
  BY <1>2, <1>7, <1>8, <1>9, <1>10

\* What became of a call is written down: of which opening and draft it was stays.
LEMMA CallMoves ==
  ASSUME s3 \in Seq(Form!Calls), NEW k \in DOMAIN s3, NEW st \in Form!Stages,
         \/ s3' = [s3 EXCEPT ![k].stage = st]
         \/ s3' = [s3 EXCEPT ![k].stage = st, ![k].unsure = TRUE]
  PROVE  /\ s3' \in Seq(Form!Calls) /\ DOMAIN s3' = DOMAIN s3
         /\ \A i \in DOMAIN s3 : i # k => s3'[i] = s3[i]
         /\ s3'[k].nth = s3[k].nth /\ s3'[k].draft = s3[k].draft /\ s3'[k].stage = st
         /\ s3[k].unsure => s3'[k].unsure
<1>1. s3[k] \in Form!Calls
  BY CallFacts
<1>2. PICK c \in Form!Calls :
        /\ s3' = [s3 EXCEPT ![k] = c]
        /\ c.nth = s3[k].nth /\ c.draft = s3[k].draft /\ c.stage = st
        /\ s3[k].unsure => c.unsure
  <2>1. CASE s3' = [s3 EXCEPT ![k].stage = st]
    <3> DEFINE c == [s3[k] EXCEPT !.stage = st]
    <3>1. c \in Form!Calls
      BY <1>1 DEF Form!Calls
    <3>2. c.nth = s3[k].nth /\ c.draft = s3[k].draft /\ c.stage = st
      BY <1>1 DEF Form!Calls
    <3>3. s3[k].unsure => c.unsure
      BY <1>1 DEF Form!Calls
    <3>4. s3' = [s3 EXCEPT ![k] = c]
      BY <2>1
    <3> HIDE DEF c
    <3>5. QED
      BY <3>1, <3>2, <3>3, <3>4, Zenon
  <2>2. CASE s3' = [s3 EXCEPT ![k].stage = st, ![k].unsure = TRUE]
    <3> DEFINE b == [s3[k] EXCEPT !.stage = st]
               c == [b EXCEPT !.unsure = TRUE]
    <3>1. b \in Form!Calls /\ b.nth = s3[k].nth /\ b.draft = s3[k].draft /\ b.stage = st
      BY <1>1 DEF Form!Calls
    <3>2. s3' = [s3 EXCEPT ![k] = [b EXCEPT !.unsure = TRUE]]
      BY <2>2
    <3> HIDE DEF b
    <3>3. c \in Form!Calls
      BY <3>1 DEF Form!Calls
    <3>4. c.nth = s3[k].nth /\ c.draft = s3[k].draft /\ c.stage = st
      BY <3>1 DEF Form!Calls
    <3>5. c.unsure
      BY <3>1 DEF Form!Calls
    <3>6. s3' = [s3 EXCEPT ![k] = c]
      BY <3>2
    <3> HIDE DEF c
    <3>7. QED
      BY <3>3, <3>4, <3>5, <3>6, Zenon
  <2>3. QED
    BY <2>1, <2>2
<1>3. s3' \in Seq(Form!Calls)
  BY <1>2, ExceptSeq
<1>4. QED
  BY <1>2, <1>3

\* Where a call has got to changes, and the view moves on at most: what is
\* known of openings, drafts and hooks stays.
LEMMA CallMovesKeep ==
  ASSUME Form!SessionInv, Form!BlankAndGone(s1), NEW k \in DOMAIN s3, NEW st \in Form!Stages,
         \/ s3' = [s3 EXCEPT ![k].stage = st]
         \/ s3' = [s3 EXCEPT ![k].stage = st, ![k].unsure = TRUE],
         Form!InFlight(s3[k]),
         s1' = s1, s2' \in Form!Views, s4' \in [Form!Drafts -> Nat],
         s2'.nth = s2.nth, s2.draft <= s2'.draft
  PROVE  /\ Form!ViewsAndCalls' /\ Form!CallsArePast' /\ Form!DraftOfItsOpening'
         /\ Form!OneAtATime'
<1> USE DEF Form!SessionInv
<1>1. /\ s3' \in Seq(Form!Calls) /\ DOMAIN s3' = DOMAIN s3
      /\ \A i \in DOMAIN s3 : i # k => s3'[i] = s3[i]
      /\ s3'[k].nth = s3[k].nth /\ s3'[k].draft = s3[k].draft
  BY CallMoves DEF Form!ViewsAndCalls
<1>2. \A i \in DOMAIN s3 : s3'[i].nth = s3[i].nth /\ s3'[i].draft = s3[i].draft
  BY <1>1
<1>3. \A i \in DOMAIN s3 : s3[i].nth \in Nat /\ s3[i].draft \in Nat
  BY CallFacts DEF Form!ViewsAndCalls
<1>4. s2.draft \in Nat /\ s2'.draft \in Nat /\ s2.nth \in Nat
  BY DEF Form!ViewsAndCalls, Form!Views
<1>5. Form!ViewsAndCalls'
  BY <1>1 DEF Form!ViewsAndCalls
<1>6. Form!CallsArePast' /\ Form!DraftOfItsOpening'
  <2> SUFFICES ASSUME NEW i \in DOMAIN s3
               PROVE  /\ s3[i].nth <= s2.nth /\ s3[i].draft <= s2'.draft
                      /\ s1.holds = "dialog" /\ s3[i].draft = s2'.draft => s3[i].nth = s2.nth
    BY <1>1, <1>2 DEF Form!CallsArePast, Form!DraftOfItsOpening
  <2>1. s3[i].nth <= s2.nth /\ s3[i].draft <= s2.draft
    BY DEF Form!CallsArePast
  <2>2. s3[i].draft = s2'.draft => s3[i].draft = s2.draft
    BY <1>3, <1>4, <2>1
  <2>3. QED
    BY <1>3, <1>4, <2>1, <2>2 DEF Form!DraftOfItsOpening
<1>7. \A i \in DOMAIN s3 : Form!InFlight(s3'[i]) => Form!InFlight(s3[i])
  BY <1>1
<1>8. Form!OneAtATime'
  BY <1>1, <1>2, <1>7 DEF Form!OneAtATime, Form!InFlight
<1>9. QED
  BY <1>5, <1>6, <1>8

\* The server carries a call out, refuses it, or it is lost.
LEMMA CarriedOut ==
  ASSUME Form!SessionInv, Form!BlankAndGone(s1), NEW k \in DOMAIN s3,
         Form!Serve(k) \/ Form!Refuse(k) \/ Form!Lose(k)
  PROVE  Form!SessionInv'
<1> USE DEF Form!SessionInv
<1>1. PICK st \in {"done", "refused", "lost"} :
        /\ \/ s3' = [s3 EXCEPT ![k].stage = st]
           \/ s3' = [s3 EXCEPT ![k].stage = st, ![k].unsure = TRUE]
        /\ s1' = s1 /\ s2' = s2
        /\ st = "done" => s3[k].stage = "sent" /\ s4' = [s4 EXCEPT ![s3[k].draft] = @ + 1]
        /\ st # "done" => s4' = s4
        /\ s3[k].stage \in {"sent", "done"}
        /\ s3[k].stage = "done" => s3' = [s3 EXCEPT ![k].stage = st, ![k].unsure = TRUE]
  BY DEF Form!Serve, Form!Refuse, Form!Lose
<1>2. /\ s3 \in Seq(Form!Calls) /\ s4 \in [Form!Drafts -> Nat] /\ s2 \in Form!Views
      /\ st \in Form!Stages
  BY DEF Form!ViewsAndCalls, Form!Stages
<1>3. /\ DOMAIN s3' = DOMAIN s3
      /\ \A i \in DOMAIN s3 : i # k => s3'[i] = s3[i]
      /\ s3'[k].nth = s3[k].nth /\ s3'[k].draft = s3[k].draft /\ s3'[k].stage = st
      /\ s3[k].unsure => s3'[k].unsure
  BY <1>1, <1>2, CallMoves
<1>4. s3[k].stage = "done" => s3'[k].unsure
  <2>1. s3[k] \in Form!Calls
    BY <1>2, CallFacts
  <2> DEFINE b == [s3[k] EXCEPT !.stage = st]
  <2>2. b \in Form!Calls
    BY <1>2, <2>1 DEF Form!Calls
  <2>3. s3[k].stage = "done" => s3'[k] = [b EXCEPT !.unsure = TRUE]
    BY <1>1
  <2> HIDE DEF b
  <2>4. QED
    BY <2>2, <2>3 DEF Form!Calls
<1>5. s4' \in [Form!Drafts -> Nat]
  BY <1>1, <1>2
<1>6. Form!ViewsAndCalls' /\ Form!CallsArePast' /\ Form!DraftOfItsOpening' /\ Form!OneAtATime'
  <2>1. s2.draft <= s2'.draft
    BY <1>1, <1>2 DEF Form!Views
  <2>2. QED
    BY <1>1, <1>2, <1>5, <2>1, CallMovesKeep DEF Form!InFlight
<1>7. Form!CarriedOutIsOver'
  <2> SUFFICES ASSUME NEW d \in Form!Drafts, s4'[d] > 0,
                      ~ \E i \in DOMAIN s3 : s3'[i].draft = d /\ s3'[i].unsure
               PROVE  /\ s4'[d] = 1
                      /\ d <= s2.draft
                      /\ \A i \in DOMAIN s3 : s3'[i].draft = d => s3'[i].stage # "sent"
                      /\ \/ \E i \in DOMAIN s3 : s3'[i].draft = d /\ s3'[i].stage = "done"
                         \/ d < s2.draft
                         \/ s1.holds = "dialog" /\ ~s2.open
    BY <1>1, <1>3 DEF Form!CarriedOutIsOver, Form!Drafts
  <2>0. ~ \E i \in DOMAIN s3 : s3[i].draft = d /\ s3[i].unsure
    BY <1>3
  <2>1. s4[d] > 0 =>
          /\ s4[d] = 1 /\ d <= s2.draft
          /\ \A i \in DOMAIN s3 : s3[i].draft = d => s3[i].stage # "sent"
          /\ \/ \E i \in DOMAIN s3 : s3[i].draft = d /\ s3[i].stage = "done"
             \/ d < s2.draft
             \/ s1.holds = "dialog" /\ ~s2.open
    BY <2>0 DEF Form!CarriedOutIsOver
  <2>2. CASE st = "done" /\ s3[k].draft = d
    <3>1. ~(s4[d] > 0)
      BY <1>1, <2>1, <2>2
    <3>2. s4'[d] = 1
      BY <1>1, <1>2, <2>2, <3>1
    <3>3. d <= s2.draft
      BY <2>2 DEF Form!CallsArePast
    <3>4. \A i \in DOMAIN s3 : s3'[i].draft = d => s3'[i].stage # "sent"
      <4> SUFFICES ASSUME NEW i \in DOMAIN s3, i # k, s3[i].draft = d, s3[i].stage = "sent"
                   PROVE  FALSE
        BY <1>3, <2>2
      <4>1. i < k \/ k < i
        BY <1>2
      <4>2. Form!InFlight(s3[i]) /\ Form!InFlight(s3[k])
        BY <1>1 DEF Form!InFlight
      <4>3. QED
        BY <2>2, <4>1, <4>2 DEF Form!OneAtATime
    <3>5. \E i \in DOMAIN s3 : s3'[i].draft = d /\ s3'[i].stage = "done"
      BY <1>3, <2>2
    <3>6. QED
      BY <3>2, <3>3, <3>4, <3>5
  <2>3. CASE ~(st = "done" /\ s3[k].draft = d)
    <3>1. s4'[d] = s4[d]
      BY <1>1, <1>2, <2>3
    <3>2. \A i \in DOMAIN s3 : s3'[i].draft = d => s3'[i].stage # "sent"
      BY <1>3, <2>1, <3>1
    <3>3. \A i \in DOMAIN s3 : s3[i].draft = d /\ s3[i].stage = "done"
                               => s3'[i].draft = d /\ s3'[i].stage = "done"
      BY <1>3, <1>4
    <3>4. QED
      BY <2>1, <3>1, <3>2, <3>3
  <2>4. QED
    BY <2>2, <2>3
<1>8. QED
  BY <1>1, <1>6, <1>7

\* What an answer makes of the view: the draft that was carried out leaves it,
\* or the dialog it was in is closed.
LEMMA AnswerViews ==
  ASSUME Form!SessionInv, s1 \in Form!AllForms, Form!BlankAndGone(s1), NEW k \in DOMAIN s3,
         Form!Answer(k)
  PROVE  /\ s2' \in Form!Views /\ s2'.nth = s2.nth /\ s2.draft <= s2'.draft
         /\ ~s2.open => ~s2'.open
         /\ s3[k].stage = "done" => \/ s3[k].draft < s2'.draft
                                    \/ s1.holds = "dialog" /\ ~s2'.open
<1> USE DEF Form!SessionInv
<1>1. s2 \in Form!Views /\ s2.nth \in Nat /\ s2.draft \in Nat
  BY DEF Form!ViewsAndCalls, Form!Views
<1>2. s3[k].draft \in Nat /\ s3[k].draft <= s2.draft
  BY CallFacts DEF Form!ViewsAndCalls, Form!CallsArePast
<1>3. \A v \in Form!Views :
        /\ [v EXCEPT !.open = FALSE] \in Form!Views
        /\ [v EXCEPT !.open = FALSE].nth = v.nth /\ [v EXCEPT !.open = FALSE].draft = v.draft
        /\ ~[v EXCEPT !.open = FALSE].open
  BY DEF Form!Views
<1>4. CASE ~Form!Heard(k)
  <2>1. s2' = s2
    BY <1>4 DEF Form!Answer
  <2>2. \A j \in (k + 1)..Len(s3) : s1.owner # "panel" /\ s3[j].nth # s3[k].nth
    <3> SUFFICES ASSUME NEW j \in (k + 1)..Len(s3)
                 PROVE  s1.owner # "panel" /\ s3[j].nth # s3[k].nth
      OBVIOUS
    <3>1. j \in DOMAIN s3 /\ k < j
      BY DEF Form!ViewsAndCalls
    <3>2. QED
      BY <3>1 DEF Form!OneAtATime, Form!Answer, Form!InFlight
  <2>3. s1.owner # "panel" /\ ~(s2.open /\ s3[k].nth = s2.nth)
    BY <1>4, <2>2 DEF Form!Heard
  <2>4. s1.holds = "dialog"
    BY <2>3, SoundForm
  <2>5. s3[k].draft = s2.draft => ~s2.open
    BY <2>3, <2>4 DEF Form!DraftOfItsOpening
  <2>6. QED
    BY <1>1, <1>2, <2>1, <2>4, <2>5
<1>5. CASE Form!Heard(k) /\ s3[k].stage = "done"
  <2>1. s2' = Form!Saved
    BY <1>5 DEF Form!Answer
  <2>2. CASE s1.saved = "closes" /\ s1.holds = "panel"
    <3>1. s2' = [Form!Fresh EXCEPT !.open = FALSE]
      BY <2>1, <2>2 DEF Form!Saved
    <3>2. QED
      BY <1>1, <1>2, <1>3, <3>1, FreshType
  <2>3. CASE s1.saved = "closes" /\ s1.holds = "dialog"
    <3>1. s2' = [s2 EXCEPT !.open = FALSE]
      BY <2>1, <2>3 DEF Form!Saved
    <3>2. QED
      BY <1>1, <1>2, <1>3, <2>3, <3>1
  <2>4. CASE s1.saved = "clears"
    <3>1. s2' = Form!Fresh
      BY <2>1, <2>4 DEF Form!Saved
    <3>2. QED
      BY <1>1, <1>2, <3>1, FreshType
  <2>5. QED
    BY <2>2, <2>3, <2>4, SoundForm
<1>6. CASE Form!Heard(k) /\ s3[k].stage # "done"
  <2>1. s2' = s2 \/ s2' = [s2 EXCEPT !.open = FALSE]
    BY <1>6 DEF Form!Answer, Form!Failed
  <2>2. CASE s2' = s2
    BY <1>1, <1>6, <2>2
  <2>3. CASE s2' = [s2 EXCEPT !.open = FALSE]
    BY <1>1, <1>3, <1>6, <2>3
  <2>4. QED
    BY <2>1, <2>2, <2>3
<1>7. QED
  BY <1>4, <1>5, <1>6

LEMMA Answered ==
  ASSUME Form!SessionInv, s1 \in Form!AllForms, Form!BlankAndGone(s1), NEW k \in DOMAIN s3,
         Form!Answer(k)
  PROVE  Form!SessionInv'
<1> USE DEF Form!SessionInv
<1>1. /\ s2' \in Form!Views /\ s2'.nth = s2.nth /\ s2.draft <= s2'.draft
      /\ ~s2.open => ~s2'.open
      /\ s3[k].stage = "done" => \/ s3[k].draft < s2'.draft
                                 \/ s1.holds = "dialog" /\ ~s2'.open
  BY AnswerViews
<1>2. /\ s3' = [s3 EXCEPT ![k].stage = "heard"] /\ "heard" \in Form!Stages
      /\ UNCHANGED <<s1, s4>>
  BY DEF Form!Answer, Form!Stages
<1>3. s3 \in Seq(Form!Calls) /\ s2.draft \in Nat /\ s2'.draft \in Nat
  BY <1>1 DEF Form!ViewsAndCalls, Form!Views
<1>4. /\ DOMAIN s3' = DOMAIN s3
      /\ \A i \in DOMAIN s3 : i # k => s3'[i] = s3[i]
      /\ s3'[k].draft = s3[k].draft /\ s3'[k].stage = "heard"
      /\ s3[k].unsure => s3'[k].unsure
  BY <1>2, <1>3, CallMoves
<1>5. Form!ViewsAndCalls' /\ Form!CallsArePast' /\ Form!DraftOfItsOpening' /\ Form!OneAtATime'
  <2>1. Form!InFlight(s3[k]) /\ s4' \in [Form!Drafts -> Nat]
    BY <1>2 DEF Form!Answer, Form!InFlight, Form!ViewsAndCalls
  <2>2. QED
    BY <1>1, <1>2, <2>1, CallMovesKeep
<1>6. Form!CarriedOutIsOver'
  <2> SUFFICES ASSUME NEW d \in Form!Drafts, s4[d] > 0,
                      ~ \E i \in DOMAIN s3 : s3'[i].draft = d /\ s3'[i].unsure
               PROVE  /\ s4[d] = 1
                      /\ d <= s2'.draft
                      /\ \A i \in DOMAIN s3 : s3'[i].draft = d => s3'[i].stage # "sent"
                      /\ \/ \E i \in DOMAIN s3 : s3'[i].draft = d /\ s3'[i].stage = "done"
                         \/ d < s2'.draft
                         \/ s1.holds = "dialog" /\ ~s2'.open
    BY <1>2, <1>4 DEF Form!CarriedOutIsOver, Form!Drafts
  <2>0. ~ \E i \in DOMAIN s3 : s3[i].draft = d /\ s3[i].unsure
    BY <1>4
  <2>1. /\ s4[d] = 1 /\ d <= s2.draft
        /\ \A i \in DOMAIN s3 : s3[i].draft = d => s3[i].stage # "sent"
        /\ \/ \E i \in DOMAIN s3 : s3[i].draft = d /\ s3[i].stage = "done"
           \/ d < s2.draft
           \/ s1.holds = "dialog" /\ ~s2.open
    BY <2>0 DEF Form!CarriedOutIsOver
  <2>2. d \in Int
    BY DEF Form!Drafts
  <2>3. \A i \in DOMAIN s3 : s3'[i].draft = d => s3'[i].stage # "sent"
    BY <1>4, <2>1
  <2>4. (\E i \in DOMAIN s3 : s3[i].draft = d /\ s3[i].stage = "done")
        => \/ \E i \in DOMAIN s3 : s3'[i].draft = d /\ s3'[i].stage = "done"
           \/ s3[k].draft = d /\ s3[k].stage = "done"
    BY <1>4
  <2>5. QED
    BY <1>1, <1>3, <2>1, <2>2, <2>3, <2>4
<1>7. QED
  BY <1>2, <1>5, <1>6

LEMMA SessionNext ==
  ASSUME Form!SessionInv, s1 \in Form!AllForms, Form!Next
  PROVE  Form!SessionInv' /\ s1' = s1
<1>1. s1' = s1
  BY DEF Form!Next, Form!Open, Form!Fill, Form!Send, Form!Close, Form!Serve, Form!Refuse,
         Form!Lose, Form!Answer
<1>2. CASE ~Form!BlankAndGone(s1)
  BY <1>1, <1>2 DEF Form!SessionInv
<1>3. CASE Form!BlankAndGone(s1)
  BY <1>1, <1>3, OpenFillClose, FormSends, CarriedOut, Answered DEF Form!Next
<1>4. QED
  BY <1>1, <1>2, <1>3

LEMMA SessionIs ==
  Spec => [](part = "form" => s1 \in Form!AllForms /\ Form!SessionInv)
<1>1. Init => (part = "form" => s1 \in Form!AllForms /\ Form!SessionInv)
  BY SessionInit DEF Init, Form!Init
<1>2. (part = "form" => s1 \in Form!AllForms /\ Form!SessionInv) /\ [Next]_slots
      => (part = "form" => s1 \in Form!AllForms /\ Form!SessionInv)'
  <2> SUFFICES ASSUME part = "form" => s1 \in Form!AllForms /\ Form!SessionInv, [Next]_slots,
                      part' = "form"
               PROVE  (s1 \in Form!AllForms /\ Form!SessionInv)'
    OBVIOUS
  <2>1. s1 \in Form!AllForms /\ Form!SessionInv
    BY PartSteps
  <2>2. CASE UNCHANGED slots
    BY <2>1, <2>2 DEF slots, Form!SessionInv, Form!ViewsAndCalls, Form!CallsArePast,
       Form!DraftOfItsOpening, Form!OneAtATime, Form!CarriedOutIsOver
  <2>3. CASE Form!Next
    BY <2>1, <2>3, SessionNext
  <2>4. QED
    BY <2>2, <2>3, PartSteps
<1>3. QED
  BY <1>1, <1>2, PTL DEF Spec, slots

(* What begins blank and goes away when saved is carried out once, however *)
(* often it is pressed, closed and opened again and whatever comes first,  *)
(* unless an answer was lost: the handlers of the dialogs of features/.    *)
THEOREM OneOpeningSavesOnce == Spec => []SavedOnce
<1>1. (part = "form" => s1 \in Form!AllForms /\ Form!SessionInv) => SavedOnce
  <2> SUFFICES ASSUME Form!SessionInv, Form!BlankAndGone(s1), NEW d \in Form!Drafts, s4[d] > 1
               PROVE  \E i \in DOMAIN s3 : s3[i].draft = d /\ s3[i].unsure
    BY DEF SavedOnce, Form!SavedOnce, Form!BlankAndGone, Form!Drafts
  <2>1. s4[d] \in Nat
    BY DEF Form!SessionInv, Form!ViewsAndCalls
  <2>2. QED
    BY <2>1 DEF Form!SessionInv, Form!CarriedOutIsOver
<1>2. QED
  BY <1>1, SessionIs, PTL

-----------------------------------------------------------------------------
(* The cell of the grade sheet (module GradeCell): s1 the grade there is,  *)
(* s2 the list, s3 its reading, s4 what the cell holds, s5 the focus, s6   *)
(* the requests, s8 whether others left the list behind, s9 the typing.    *)

\* A list with one score says that score.
LEMMA ListOfScore ==
  ASSUME NEW score \in Cell!MaybeScore
  PROVE  Cell!ListOf(score) \in Seq(Cell!Entry) /\ Cell!ScoreOf(Cell!ListOf(score)) = score
<1> DEFINE e == [real |-> TRUE, score |-> score]
<1>1. CASE score = NoScore
  BY <1>1 DEF Cell!ListOf, Cell!ScoreOf, Cell!Graded
<1>2. CASE score # NoScore
  <2>1. e \in Cell!Entry /\ e.score = score
    BY <1>2 DEF Cell!Entry, Cell!MaybeScore
  <2>2. Cell!ListOf(score) = <<e>>
    BY <1>2 DEF Cell!ListOf
  <2> HIDE DEF e
  <2>3. QED
    BY <2>1, <2>2 DEF Cell!ScoreOf, Cell!Graded
<1>3. QED
  BY <1>1, <1>2

LEMMA CellInit == Cell!Init => Cell!CellInv
<1> SUFFICES ASSUME Cell!Init PROVE Cell!CellInv
  OBVIOUS
<1>1. s2 \in Seq(Cell!Entry) /\ Cell!ScoreOf(s2) = s1
  BY ListOfScore DEF Cell!Init
<1>2. s6 \in Seq(Cell!Queued)
  BY EmptySeq DEF Cell!Init
<1>3. s3 \in [stage : {"none", "asked", "read"}, seen : Cell!MaybeScore] /\ s3.stage = "none"
  BY DEF Cell!Init, Cell!NoFetch, Cell!MaybeScore
<1>4. Cell!ListsAndCalls
  BY <1>1, <1>2, <1>3 DEF Cell!Init, Cell!ListsAndCalls
<1>5. QED
  BY <1>1, <1>3, <1>4 DEF Cell!Init, Cell!CellInv, Cell!CellOfTheList, Cell!ListOfTheServer

\* The score shown before the server has it is the one typed.
LEMMA OptimisticShows ==
  ASSUME s2 \in Seq(Cell!Entry), NEW list \in Seq(Cell!Entry), s4 \in Grades,
         list = s2 \/ list = Cell!Optimistic(s2)
  PROVE  Cell!Optimistic(list) \in Seq(Cell!Entry) /\ Cell!ScoreOf(Cell!Optimistic(list)) = s4
<1> DEFINE new == [real |-> FALSE, score |-> s4]
<1>0. new \in Cell!Entry /\ new.score = s4
  BY DEF Cell!Entry
<1>1. CASE s2 = << >>
  <2>1. Cell!Optimistic(s2) = Append(s2, new)
    BY <1>1 DEF Cell!Optimistic, Cell!Graded
  <2>2. Cell!Optimistic(list) = Append(list, new)
    BY <1>1 DEF Cell!Optimistic, Cell!Graded
  <2>3. list = << >> \/ list = Append(<< >>, new)
    BY <1>1, <2>1
  <2> HIDE DEF new
  <2>4. QED
    BY <1>0, <2>2, <2>3 DEF Cell!ScoreOf, Cell!Graded
<1>2. CASE s2 # << >>
  <2> DEFINE first(l) == [Head(l) EXCEPT !.score = s4]
             shown(l) == <<first(l)>> \o Tail(l)
  <2>1. \A l : Cell!Optimistic(l) = shown(l)
    BY <1>2 DEF Cell!Optimistic, Cell!Graded
  <2>2. ASSUME NEW l \in Seq(Cell!Entry), l # << >>
        PROVE  shown(l) \in Seq(Cell!Entry) /\ shown(l) # << >> /\ Head(shown(l)).score = s4
    <3>1. Head(l) \in Cell!Entry /\ Tail(l) \in Seq(Cell!Entry)
      BY <2>2
    <3>2. first(l) \in Cell!Entry /\ first(l).score = s4
      BY <3>1 DEF Cell!Entry
    <3> HIDE DEF first
    <3>3. QED
      BY <3>1, <3>2
  <2>3. list # << >>
    BY <1>2, <2>1, <2>2
  <2> HIDE DEF shown
  <2>4. QED
    BY <2>1, <2>2, <2>3 DEF Cell!ScoreOf, Cell!Graded
<1>3. QED
  BY <1>1, <1>2

\* The cell follows the list, but not while somebody is in it.
LEMMA ResyncFollows ==
  ASSUME Cell!CellInv, NEW list
  PROVE  /\ s5 => Cell!Resync(list) = s4
         /\ ~s5 /\ Cell!Resync(list) \in Grades => Cell!Resync(list) = Cell!ScoreOf(list)
BY DEF Cell!CellInv, Cell!CellOfTheList, Cell!Resync

\* A request moves on: it is over only once it has been answered.
LEMMA CellCallMoves ==
  ASSUME s6 \in Seq(Cell!Queued), NEW i \in DOMAIN s6,
         NEW st \in {"sent", "served", "refused", "over"},
         \/ s6' = [s6 EXCEPT ![i].stage = st]
         \/ s6' = [s6 EXCEPT ![i].stage = st, ![i].prev = <<>>]
  PROVE  s6' \in Seq(Cell!Queued) /\ DOMAIN s6' = DOMAIN s6 /\ s6'[i].stage = st
<1>1. s6[i] \in Cell!Queued
  BY ElementOfSeq
<1> DEFINE b == [s6[i] EXCEPT !.stage = st]
<1>2. b \in Cell!Queued /\ b.stage = st
  BY <1>1 DEF Cell!Queued
<1>3. s6' = [s6 EXCEPT ![i] = b] \/ s6' = [s6 EXCEPT ![i] = [b EXCEPT !.prev = <<>>]]
  OBVIOUS
<1> HIDE DEF b
<1> DEFINE c == [b EXCEPT !.prev = <<>>]
<1>4. c \in Cell!Queued
  BY <1>2, EmptySeq DEF Cell!Queued
<1>5. c.stage = st
  BY <1>2 DEF Cell!Queued
<1> HIDE DEF c
<1>6. PICK d \in Cell!Queued : s6' = [s6 EXCEPT ![i] = d] /\ d.stage = st
  BY <1>2, <1>3, <1>4, <1>5 DEF c
<1>7. QED
  BY <1>6, ExceptSeq

\* Leaving the cell.
LEMMA BlurKeeps ==
  ASSUME Cell!CellInv, Cell!Blur
  PROVE  Cell!CellInv'
<1> USE DEF Cell!CellInv
<1>1. /\ s1' = s1 /\ s4' = s4 /\ ~s5' /\ s8' = s8 /\ s9' = s9
  BY DEF Cell!Blur
<1>2. CASE ~Cell!Commits
  <2>1. UNCHANGED <<s2, s3, s6>>
    BY <1>2 DEF Cell!Blur
  <2>2. Cell!ListsAndCalls'
    BY <1>1, <2>1 DEF Cell!ListsAndCalls
  <2>3. Cell!CellOfTheList'
    BY <1>1, <1>2, <2>1 DEF Cell!CellOfTheList, Cell!Commits, Cell!ScoreOf, Cell!Graded
  <2>4. Cell!ListOfTheServer'
    BY <1>1, <2>1 DEF Cell!ListOfTheServer, Cell!Settled, Cell!ScoreOf, Cell!Graded
  <2>5. QED
    BY <2>2, <2>3, <2>4
<1>3. CASE Cell!Commits
  <2>1. s4 \in Grades /\ (Cell!CommitLeave \/ Cell!CommitTwice) /\ s3' = Cell!NoFetch
    BY <1>3 DEF Cell!Blur, Cell!Commits
  <2>2. s2 \in Seq(Cell!Entry) /\ s6 \in Seq(Cell!Queued)
    BY DEF Cell!ListsAndCalls
  <2>3. ASSUME NEW list \in Seq(Cell!Entry)
        PROVE  Cell!Request(list) \in Cell!Queued /\ Cell!Request(list).stage = "sent"
    <3>1. CASE Cell!Graded(s2)
      <4>1. Head(s2).real \in BOOLEAN
        <5>1. Head(s2) \in Cell!Entry
          BY <2>2, <3>1 DEF Cell!Graded
        <5>2. QED
          BY <5>1 DEF Cell!Entry
      <4>2. Cell!Request(list) = [kind |-> "update", real |-> Head(s2).real, score |-> s4,
                                  prev |-> list, stage |-> "sent"]
        BY <3>1 DEF Cell!Request
      <4>3. QED
        BY <2>1, <2>3, <4>1, <4>2 DEF Cell!Queued
    <3>2. CASE ~Cell!Graded(s2)
      BY <2>1, <2>3, <3>2 DEF Cell!Request, Cell!Queued
    <3>3. QED
      BY <3>1, <3>2
  <2>4. /\ Cell!Optimistic(s2) \in Seq(Cell!Entry)
        /\ Cell!ScoreOf(Cell!Optimistic(s2)) = s4
        /\ Cell!Optimistic(Cell!Optimistic(s2)) \in Seq(Cell!Entry)
        /\ Cell!ScoreOf(Cell!Optimistic(Cell!Optimistic(s2))) = s4
    BY <2>1, <2>2, OptimisticShows
  <2>5. s2' \in Seq(Cell!Entry) /\ Cell!ScoreOf(s2') = s4
    BY <2>1, <2>4 DEF Cell!CommitLeave, Cell!CommitTwice
  <2>6. s6' \in Seq(Cell!Queued) /\ \E i \in DOMAIN s6' : s6'[i].stage = "sent"
    <3> DEFINE a == Cell!Request(s2)
               b == Cell!Request(Cell!Optimistic(s2))
    <3>1. a \in Cell!Queued /\ a.stage = "sent" /\ b \in Cell!Queued
      BY <2>2, <2>3, <2>4
    <3>2. s6' = Append(s6, a) \/ s6' = s6 \o <<a, b>>
      BY <2>1 DEF Cell!CommitLeave, Cell!CommitTwice
    <3> HIDE DEF a, b
    <3>3. s6' \in Seq(Cell!Queued) /\ Len(s6) + 1 \in DOMAIN s6' /\ s6'[Len(s6) + 1] = a
      <4>1. CASE s6' = Append(s6, a)
        BY <2>2, <3>1, <4>1, AppendProperties
      <4>2. CASE s6' = s6 \o <<a, b>>
        <5>1. <<a, b>> \in Seq(Cell!Queued) /\ Len(<<a, b>>) = 2 /\ <<a, b>>[1] = a
          BY <3>1
        <5>2. /\ s6' \in Seq(Cell!Queued) /\ Len(s6') = Len(s6) + 2
              /\ s6'[Len(s6) + 1] = <<a, b>>[1]
          BY <2>2, <4>2, <5>1, ConcatProperties
        <5>3. QED
          BY <2>2, <5>1, <5>2
      <4>3. QED
        BY <3>2, <4>1, <4>2
    <3>4. QED
      BY <3>1, <3>3
  <2>7. s3'.stage = "none" /\ s3' \in [stage : {"none", "asked", "read"}, seen : Cell!MaybeScore]
    BY <2>1 DEF Cell!NoFetch, Cell!MaybeScore
  <2>8. Cell!ListsAndCalls'
    BY <1>1, <2>5, <2>6, <2>7 DEF Cell!ListsAndCalls
  <2>9. Cell!CellOfTheList'
    BY <1>1, <2>5 DEF Cell!CellOfTheList, Cell!ScoreOf, Cell!Graded
  <2>10. Cell!ListOfTheServer'
    BY <2>6 DEF Cell!ListOfTheServer, Cell!Settled
  <2>11. QED
    BY <2>8, <2>9, <2>10
<1>4. QED
  BY <1>2, <1>3

\* An answer is taken.
LEMMA SettleKeeps ==
  ASSUME Cell!CellInv, NEW i \in DOMAIN s6, Cell!Settle(i)
  PROVE  Cell!CellInv'
<1> USE DEF Cell!CellInv
<1>1. s2 \in Seq(Cell!Entry) /\ s6 \in Seq(Cell!Queued)
  BY DEF Cell!ListsAndCalls
<1>2. s6[i].prev \in Seq(Cell!Entry)
  <2>1. s6[i] \in Cell!Queued
    BY <1>1, ElementOfSeq
  <2>2. QED
    BY <2>1 DEF Cell!Queued
<1>3. PICK list \in Seq(Cell!Entry) : s2' = list /\ s4' = Cell!Resync(list)
  BY <1>1, <1>2 DEF Cell!Settle, Cell!Rollback
<1>4. s6' \in Seq(Cell!Queued)
  BY <1>1, CellCallMoves DEF Cell!Settle, Cell!Over
<1>5. /\ s3' = [stage |-> "asked", seen |-> NoScore]
      /\ UNCHANGED <<s1, s5, s8, s9>>
  BY DEF Cell!Settle, Cell!Invalidate, Cell!Asking
<1>6. Cell!ListsAndCalls'
  BY <1>3, <1>4, <1>5 DEF Cell!ListsAndCalls, Cell!MaybeScore
<1>7. Cell!CellOfTheList'
  BY <1>3, <1>5, ResyncFollows DEF Cell!CellOfTheList, Cell!ScoreOf, Cell!Graded
<1>8. Cell!ListOfTheServer'
  BY <1>5 DEF Cell!ListOfTheServer
<1>9. QED
  BY <1>6, <1>7, <1>8

\* The list is read again.
LEMMA TakeFetchKeeps ==
  ASSUME Cell!CellInv, Cell!TakeFetch
  PROVE  Cell!CellInv'
<1> USE DEF Cell!CellInv
<1>1. s3.seen \in Cell!MaybeScore /\ s8 = s8
  BY DEF Cell!ListsAndCalls
<1>2. /\ s2' = Cell!ListOf(s3.seen) /\ s4' = Cell!Resync(s2') /\ s3' = Cell!NoFetch
      /\ s8' = (s8 /\ s3.seen # s1) /\ s3.stage = "read"
      /\ UNCHANGED <<s1, s5, s6, s9>>
  BY DEF Cell!TakeFetch
<1>3. s2' \in Seq(Cell!Entry) /\ Cell!ScoreOf(s2') = s3.seen
  BY <1>1, <1>2, ListOfScore
<1>4. s3'.stage = "none" /\ s3' \in [stage : {"none", "asked", "read"}, seen : Cell!MaybeScore]
  BY <1>2 DEF Cell!NoFetch, Cell!MaybeScore
<1>5. Cell!ListsAndCalls'
  BY <1>2, <1>3, <1>4 DEF Cell!ListsAndCalls
<1>6. Cell!CellOfTheList'
  BY <1>2, ResyncFollows DEF Cell!CellOfTheList, Cell!ScoreOf, Cell!Graded
<1>7. Cell!ListOfTheServer'
  <2> SUFFICES ASSUME Cell!Settled', ~s8' PROVE Cell!ScoreOf(s2') = s1
    BY <1>2, <1>4 DEF Cell!ListOfTheServer, Cell!ScoreOf, Cell!Graded
  <2>1. Cell!Settled
    BY <1>2 DEF Cell!Settled
  <2>2. s3.seen = s1
    BY <1>2, <2>1 DEF Cell!ListOfTheServer
  <2>3. QED
    BY <1>3, <2>2
<1>8. QED
  BY <1>5, <1>6, <1>7

\* A request is served, refused or lost: it is not over.
LEMMA CellServed ==
  ASSUME Cell!CellInv, NEW i \in DOMAIN s6, Cell!Serve(i) \/ Cell!Lose(i)
  PROVE  Cell!CellInv'
<1> USE DEF Cell!CellInv
<1>1. s6 \in Seq(Cell!Queued)
  BY DEF Cell!ListsAndCalls
<1>2. PICK st \in {"served", "refused"} : s6' = [s6 EXCEPT ![i].stage = st]
  BY DEF Cell!Serve, Cell!Lose
<1>3. s6' \in Seq(Cell!Queued) /\ i \in DOMAIN s6' /\ s6'[i].stage # "over"
  BY <1>1, <1>2, CellCallMoves
<1>4. UNCHANGED <<s2, s3, s4, s5, s8, s9>> /\ (s1' = s1 \/ s1' = s6[i].score)
  BY DEF Cell!Serve, Cell!Lose
<1>5. s6[i].score \in Grades
  <2>1. s6[i] \in Cell!Queued
    BY <1>1, ElementOfSeq
  <2>2. QED
    BY <2>1 DEF Cell!Queued
<1>6. Cell!ListsAndCalls'
  BY <1>3, <1>4, <1>5 DEF Cell!ListsAndCalls, Cell!MaybeScore
<1>7. Cell!CellOfTheList'
  BY <1>4 DEF Cell!CellOfTheList, Cell!ScoreOf, Cell!Graded
<1>8. Cell!ListOfTheServer'
  BY <1>3 DEF Cell!ListOfTheServer, Cell!Settled
<1>9. QED
  BY <1>6, <1>7, <1>8

LEMMA CellNext ==
  ASSUME Cell!CellInv, Cell!Next
  PROVE  Cell!CellInv' /\ Cell!TypingKept
<1> USE DEF Cell!CellInv
<1>1. CASE Cell!Focus \/ \E v \in Cell!MaybeScore \cup {Bad} : Cell!Type(v)
  <2>1. /\ UNCHANGED <<s1, s2, s3, s6, s8>> /\ s5'
        /\ s9' = s9 \/ (s9' = s9 + 1 /\ s5)
        /\ s9' = s9 => s4' = s4
    BY <1>1 DEF Cell!Focus, Cell!Type, Cell!ListsAndCalls
  <2>2. Cell!ListsAndCalls'
    BY <2>1 DEF Cell!ListsAndCalls
  <2>3. Cell!CellOfTheList' /\ Cell!TypingKept
    BY <2>1 DEF Cell!CellOfTheList, Cell!TypingKept
  <2>4. Cell!ListOfTheServer'
    BY <2>1 DEF Cell!ListOfTheServer, Cell!Settled, Cell!ScoreOf, Cell!Graded
  <2>5. QED
    BY <2>2, <2>3, <2>4
<1>2. CASE Cell!Blur
  BY <1>2, BlurKeeps DEF Cell!Blur, Cell!TypingKept
<1>3. CASE Cell!ServeFetch \/ Cell!FailFetch \/ \E score \in Grades : Cell!Correct(score)
  <2>1. UNCHANGED <<s2, s4, s5, s6, s9>>
    BY <1>3 DEF Cell!ServeFetch, Cell!FailFetch, Cell!Correct
  <2>2. /\ s1' \in Cell!MaybeScore
        /\ s3' \in [stage : {"none", "asked", "read"}, seen : Cell!MaybeScore]
    BY <1>3 DEF Cell!ServeFetch, Cell!FailFetch, Cell!Correct, Cell!NoFetch, Cell!MaybeScore,
                Cell!ListsAndCalls
  <2>3. s8' \/ (s8' = s8 /\ s3'.stage = "read" /\ s3'.seen = s1')
    BY <1>3 DEF Cell!ServeFetch, Cell!FailFetch, Cell!Correct
  <2>4. Cell!ListsAndCalls'
    BY <2>1, <2>2 DEF Cell!ListsAndCalls
  <2>5. Cell!CellOfTheList' /\ Cell!TypingKept
    BY <2>1 DEF Cell!CellOfTheList, Cell!TypingKept, Cell!ScoreOf, Cell!Graded
  <2>6. Cell!ListOfTheServer'
    BY <2>3 DEF Cell!ListOfTheServer
  <2>7. QED
    BY <2>4, <2>5, <2>6
<1>4. CASE Cell!TakeFetch
  BY <1>4, TakeFetchKeeps, ResyncFollows DEF Cell!TakeFetch, Cell!TypingKept
<1>5. ASSUME NEW i \in DOMAIN s6, Cell!Settle(i)
      PROVE  Cell!CellInv' /\ Cell!TypingKept
  BY <1>5, SettleKeeps, ResyncFollows DEF Cell!Settle, Cell!TypingKept
<1>6. ASSUME NEW i \in DOMAIN s6, Cell!Serve(i) \/ Cell!Lose(i)
      PROVE  Cell!CellInv' /\ Cell!TypingKept
  BY <1>6, CellServed DEF Cell!Serve, Cell!Lose, Cell!TypingKept
<1>7. QED
  BY <1>1, <1>2, <1>3, <1>4, <1>5, <1>6 DEF Cell!Next

-----------------------------------------------------------------------------
(* The register on the teacher's page (module RosterSheet): s1 the marks   *)
(* on the server, s2 the list, s3 has it been read, s4 its reading, s5 did *)
(* the last one fail, s6 the marks sent.                                   *)

RosterCalls ==
    [by : {"button", "key", "rest", "nobody"}, sets : Roster!Marks, prev : Roster!Marks,
     had : BOOLEAN, stage : Roster!Stages]

Fetches == [stage : {"idle", "asked", "read"}, data : Roster!Marks, late : BOOLEAN]

LEMMA RosterParts ==
  Roster!TypeOK <=>
    /\ s1 \in Roster!Marks /\ s2 \in Roster!Marks /\ s3 \in BOOLEAN /\ s5 \in BOOLEAN
    /\ s4 \in Fetches /\ s6 \in Seq(RosterCalls)
BY DEF Roster!TypeOK, RosterCalls, Fetches

LEMMA BlankMarks ==
  /\ Roster!NoOne \in Roster!Marks
  /\ \A s \in Learners, status \in Roster!Status :
        [Roster!NoOne EXCEPT ![s] = status] \in Roster!Marks
  /\ \A old, new \in Roster!Marks : Roster!Over(old, new) \in Roster!Marks
BY DEF Roster!NoOne, Roster!Marks, Roster!Over

LEMMA NewFetches ==
  /\ Roster!Quiet \in Fetches /\ Roster!Quiet.stage = "idle"
  /\ Roster!Asked \in Fetches /\ Roster!Asked.stage = "asked"
BY BlankMarks DEF Roster!Quiet, Roster!Asked, Fetches

LEMMA RosterInit == Roster!Init => Roster!SheetInv
<1> SUFFICES ASSUME Roster!Init PROVE Roster!SheetInv
  OBVIOUS
<1>1. s1 \in Roster!Marks
  BY DEF Roster!Init, Roster!Marks, Roster!Status
<1>2. Roster!TypeOK
  BY <1>1, BlankMarks, NewFetches, EmptySeq, RosterParts DEF Roster!Init
<1>3. QED
  BY <1>2, NewFetches
  DEF Roster!Init, Roster!SheetInv, Roster!ReadsTheMarks, Roster!ShownIsRead

\* A mark is on its way: not every answer is in.
LEMMA MarkSent ==
  ASSUME Roster!TypeOK,
         NEW by \in {"button", "key", "rest"}, NEW sets \in Roster!Marks,
         Roster!Send(by, sets)
  PROVE  s6' \in Seq(RosterCalls) /\ ~Roster!AllHeard'
<1> DEFINE c == [by |-> by, sets |-> sets, prev |-> s2, had |-> s3, stage |-> "sent"]
<1>1. c \in RosterCalls /\ c.stage = "sent"
  BY RosterParts DEF RosterCalls, Roster!Stages
<1>2. s6' = Append(s6, c) /\ s6 \in Seq(RosterCalls)
  BY RosterParts DEF Roster!Send
<1> HIDE DEF c
<1>3. /\ s6' \in Seq(RosterCalls) /\ Len(s6') = Len(s6) + 1 /\ s6'[Len(s6) + 1] = c
  BY <1>1, <1>2, AppendProperties
<1>4. Len(s6) + 1 \in DOMAIN s6'
  BY <1>2, <1>3
<1>5. QED
  BY <1>1, <1>3, <1>4 DEF Roster!AllHeard, Roster!InFlight

LEMMA Taps ==
  ASSUME Roster!TypeOK,
         \/ \E who \in Learners : \E status \in Roster!Status :
               Roster!Tap("button", who, status) \/ Roster!Tap("key", who, status)
         \/ \E status \in Roster!Status : Roster!MarkTheRest(status)
  PROVE  Roster!TypeOK' /\ ~Roster!AllHeard'
<1>1. ASSUME NEW by \in {"button", "key"}, NEW who \in Learners, NEW status \in Roster!Status,
             Roster!Tap(by, who, status)
      PROVE  Roster!TypeOK' /\ ~Roster!AllHeard'
  <2> DEFINE sets == [Roster!NoOne EXCEPT ![who] = status]
  <2>1. sets \in Roster!Marks
    BY BlankMarks
  <2>2. /\ Roster!Send(by, sets) /\ s4' = Roster!Quiet
        /\ s2' = s2 \/ s2' = Roster!Over(s2, sets)
        /\ UNCHANGED <<s1, s3, s5>>
    BY <1>1 DEF Roster!Tap
  <2> HIDE DEF sets
  <2>3. s2' \in Roster!Marks
    BY <2>1, <2>2, BlankMarks, RosterParts
  <2>4. s6' \in Seq(RosterCalls) /\ ~Roster!AllHeard'
    BY <2>1, <2>2, MarkSent
  <2>5. QED
    BY <2>2, <2>3, <2>4, NewFetches, RosterParts DEF Roster!TypeOK, RosterCalls, Fetches
<1>2. ASSUME NEW status \in Roster!Status, Roster!MarkTheRest(status)
      PROVE  Roster!TypeOK' /\ ~Roster!AllHeard'
  <2> DEFINE sets == [s \in Learners |-> IF s \in Roster!Unmarked THEN status ELSE Roster!Blank]
  <2>1. sets \in Roster!Marks
    BY DEF Roster!Marks
  <2>2. Roster!Send("rest", sets) /\ UNCHANGED <<s1, s2, s3, s4, s5>>
    BY <1>2 DEF Roster!MarkTheRest
  <2> HIDE DEF sets
  <2>3. s6' \in Seq(RosterCalls) /\ ~Roster!AllHeard'
    BY <2>1, <2>2, MarkSent
  <2>4. QED
    BY <2>2, <2>3 DEF Roster!TypeOK, RosterCalls, Fetches
<1>3. QED
  BY <1>1, <1>2

\* The server has the mark, refuses it, or it is lost: still to be heard of.
LEMMA MarkServed ==
  ASSUME Roster!TypeOK, NEW i \in DOMAIN s6,
         Roster!Serve(i) \/ Roster!Refuse(i) \/ Roster!Lose(i)
  PROVE  Roster!TypeOK' /\ ~Roster!AllHeard'
<1>0. s6 \in Seq(RosterCalls)
  BY RosterParts
<1>1. s6[i] \in RosterCalls
  BY <1>0, ElementOfSeq
<1>2. PICK st \in {"done", "refused", "lost"} : s6' = [s6 EXCEPT ![i].stage = st]
  BY DEF Roster!Serve, Roster!Refuse, Roster!Lose
<1> DEFINE c == [s6[i] EXCEPT !.stage = st]
<1>3. c \in RosterCalls /\ c.stage = st
  BY <1>1 DEF RosterCalls, Roster!Stages
<1>4. s6' = [s6 EXCEPT ![i] = c]
  BY <1>2
<1> HIDE DEF c
<1>5. s6' \in Seq(RosterCalls) /\ i \in DOMAIN s6' /\ s6'[i] = c
  BY <1>0, <1>3, <1>4, ExceptSeq
<1>6. s1' \in Roster!Marks
  BY <1>1, RosterParts, BlankMarks DEF Roster!Serve, Roster!Refuse, Roster!Lose, RosterCalls
<1>7. UNCHANGED <<s2, s3, s4, s5>>
  BY DEF Roster!Serve, Roster!Refuse, Roster!Lose
<1>8. QED
  BY <1>3, <1>5, <1>6, <1>7 DEF Roster!TypeOK, RosterCalls, Fetches, Roster!AllHeard, Roster!InFlight

\* Having heard, the page reads again; the very first reading goes on as a late one.
LEMMA MarkAnswered ==
  ASSUME Roster!SheetInv, NEW i \in DOMAIN s6, Roster!Answer(i)
  PROVE  Roster!SheetInv'
<1> USE DEF Roster!SheetInv
<1>0. s6 \in Seq(RosterCalls) /\ s4 \in Fetches
  BY RosterParts
<1>1. s6[i] \in RosterCalls
  BY <1>0, ElementOfSeq
<1>2. Roster!Heard \in RosterCalls
  BY BlankMarks DEF Roster!Heard, RosterCalls, Roster!Stages
<1>3. s6' \in Seq(RosterCalls)
  BY <1>0, <1>2, ExceptSeq DEF Roster!Answer
<1>4. s2' \in Roster!Marks
  BY <1>1, RosterParts DEF Roster!Answer, RosterCalls
<1>5. s4' = Roster!Asked \/ (s4.stage # "idle" /\ s4' = [s4 EXCEPT !.late = TRUE])
  BY DEF Roster!Answer, Roster!Reread
<1>6. s4' \in Fetches /\ s4'.stage # "idle" /\ (s4'.stage = "read" => s4'.late)
  <2>1. CASE s4' = Roster!Asked
    BY <2>1, NewFetches
  <2>2. CASE s4.stage # "idle" /\ s4' = [s4 EXCEPT !.late = TRUE]
    <3>1. s4' \in Fetches
      BY <1>0, <2>2 DEF Fetches
    <3>2. s4'.stage = s4.stage
      BY <1>0, <2>2 DEF Fetches
    <3>3. s4'.late
      BY <1>0, <2>2 DEF Fetches
    <3>4. QED
      BY <2>2, <3>1, <3>2, <3>3
  <2>3. QED
    BY <1>5, <2>1, <2>2
<1>7. Roster!TypeOK'
  BY <1>3, <1>4, <1>6 DEF Roster!Answer, Roster!TypeOK, RosterCalls, Fetches
<1>8. Roster!ReadsTheMarks' /\ Roster!ShownIsRead'
  BY <1>6 DEF Roster!ReadsTheMarks, Roster!ShownIsRead
<1>9. QED
  BY <1>7, <1>8

\* The list is read, comes, or does not; or is asked for again.
LEMMA ListIsRead ==
  ASSUME Roster!SheetInv,
         Roster!Read \/ Roster!Arrive \/ Roster!Miss \/ Roster!BackOnline
  PROVE  Roster!SheetInv'
<1> USE DEF Roster!SheetInv
<1>0. s4 \in Fetches /\ s1 \in Roster!Marks
  BY RosterParts
<1>1. CASE Roster!Read
  <2> DEFINE f == [s4 EXCEPT !.stage = "read", !.data = s1]
  <2>1. f \in Fetches
    BY <1>0 DEF Fetches
  <2>2. f.stage = "read" /\ f.data = s1
    BY <1>0 DEF Fetches
  <2>3. s4' = f /\ UNCHANGED <<s1, s2, s3, s5, s6>>
    BY <1>1 DEF Roster!Read
  <2> HIDE DEF f
  <2>4. QED
    BY <2>1, <2>2, <2>3
    DEF Roster!TypeOK, Fetches, Roster!ReadsTheMarks, Roster!ShownIsRead
<1>2. CASE Roster!Arrive
  <2>1. /\ s4.stage = "read" /\ s2' = s4.data /\ s3' /\ s4' = Roster!Quiet /\ s5' = s4.late
        /\ s3' \in BOOLEAN /\ UNCHANGED <<s1, s6>>
    BY <1>2 DEF Roster!Arrive
  <2>2. s2' \in Roster!Marks /\ s5' \in BOOLEAN
    BY <1>0, <2>1 DEF Fetches
  <2>3. Roster!TypeOK'
    BY <2>1, <2>2, NewFetches DEF Roster!TypeOK, Fetches
  <2>4. Roster!ShownIsRead'
    BY <2>1 DEF Roster!ReadsTheMarks, Roster!ShownIsRead, Roster!AllHeard, Roster!InFlight
  <2>5. Roster!ReadsTheMarks'
    BY <2>1, NewFetches DEF Roster!ReadsTheMarks
  <2>6. QED
    BY <2>3, <2>4, <2>5
<1>3. CASE Roster!Miss
  BY <1>3, NewFetches
  DEF Roster!Miss, Roster!TypeOK, Fetches, Roster!ReadsTheMarks, Roster!ShownIsRead
<1>4. CASE Roster!BackOnline
  BY <1>4, NewFetches
  DEF Roster!BackOnline, Roster!TypeOK, Fetches, Roster!ReadsTheMarks, Roster!ShownIsRead
<1>5. QED
  BY <1>1, <1>2, <1>3, <1>4

LEMMA RosterNext ==
  ASSUME Roster!SheetInv, Roster!Next
  PROVE  Roster!SheetInv'
<1>1. ~Roster!AllHeard' => Roster!ReadsTheMarks' /\ Roster!ShownIsRead'
  BY DEF Roster!ReadsTheMarks, Roster!ShownIsRead
<1>2. QED
  BY <1>1, Taps, MarkServed, MarkAnswered, ListIsRead DEF Roster!Next, Roster!SheetInv

LEMMA SheetsAre ==
  Spec => []((part = "cell" => Cell!CellInv) /\ (part = "roster" => Roster!SheetInv))
<1> DEFINE Inv == (part = "cell" => Cell!CellInv) /\ (part = "roster" => Roster!SheetInv)
<1>1. Init => Inv
  BY CellInit, RosterInit DEF Init
<1>2. Inv /\ [Next]_slots => Inv'
  <2> SUFFICES ASSUME Inv, [Next]_slots PROVE Inv'
    OBVIOUS
  <2>1. CASE UNCHANGED slots
    BY <2>1 DEF slots, Cell!CellInv, Cell!ListsAndCalls, Cell!CellOfTheList, Cell!ListOfTheServer,
       Cell!Settled, Cell!ScoreOf, Cell!Graded, Roster!SheetInv, Roster!TypeOK,
       Roster!ReadsTheMarks, Roster!ShownIsRead, Roster!AllHeard, Roster!InFlight
  <2>2. CASE (part = "cell" => Cell!Next) /\ (part = "roster" => Roster!Next)
    BY <2>2, PartSteps, CellNext, RosterNext
  <2>3. QED
    BY <2>1, <2>2, PartSteps
<1>3. QED
  BY <1>1, <1>2, PTL DEF Spec, slots

(* At rest the cell of the grade table shows the grade there is, and the   *)
(* page of the register the marks there are, whatever requests, refusals   *)
(* and readings overlapped: GradeTable.tsx and lib/queries/grades.ts,      *)
(* pages/TeacherDashboard.tsx and lib/queries/attendance.ts.               *)
THEOREM SheetsShowTheServer == Spec => []ShowsTheServer
<1>1. (part = "cell" => Cell!CellInv) /\ (part = "roster" => Roster!SheetInv) => ShowsTheServer
  BY DEF ShowsTheServer, Cell!CellShowsServer, Cell!Quiet, Cell!CellInv, Cell!CellOfTheList,
     Cell!ListOfTheServer, Cell!Settled, Roster!SheetInv, Roster!ShownIsRead, Roster!AllHeard,
     Roster!ShowsTheMarks, Roster!InFlight
<1>2. QED
  BY <1>1, SheetsAre, PTL

(* While a teacher is in the cell only typing changes it: the effect of    *)
(* GradeTable.tsx that follows the list stands back.                       *)
THEOREM TypedStays == Spec => TypingIsKept
<1>1. ((part = "cell" => Cell!CellInv) /\ (part = "roster" => Roster!SheetInv)) /\ [Next]_slots
      => [part = "cell" => Cell!TypingKept]_<<part, s4>>
  BY PartSteps, CellNext DEF slots
<1>2. QED
  BY <1>1, SheetsAre, PTL DEF Spec, TypingIsKept, slots

-----------------------------------------------------------------------------
(* Enrolling several students at once (module EnrollBatch): s2 the ticks   *)
(* of the list, s3 the wizard, s4 the batches sent.                        *)

Wizardly == [shown : {"no", "form", "result"}, nth : Nat, picked : SUBSET Learners, clash : BOOLEAN]

LEMMA BatchInit == Batch!Init => Batch!BatchInv
BY EmptySeq DEF Batch!Init, Batch!Away, Batch!BatchInv, Batch!TypeOK, Batch!FormKnowsOfNone

\* The ticks are of students of the list.
LEMMA TicksOfStudents ==
  ASSUME s2 \subseteq Learners
  PROVE  Batch!Lists!ToggleAll(s2, Batch!Visible) \subseteq Learners
BY DEF Batch!Lists!ToggleAll, Batch!Visible

\* The wizard opens without a clash, whomever it is opened for.
LEMMA MountKeeps ==
  ASSUME Batch!BatchInv, NEW who \in SUBSET Learners, Batch!Mount(who)
  PROVE  s3' \in Wizardly /\ ~s3'.clash
<1>1. Len(s4) + 1 \in Nat
  BY DEF Batch!BatchInv, Batch!TypeOK
<1>2. QED
  BY <1>1 DEF Batch!Mount, Wizardly

\* Whatever is done about the ticks and the form, a form knows of no clash.
LEMMA BatchForm ==
  ASSUME Batch!BatchInv, s2' \subseteq Learners, s3' \in Wizardly,
         s3'.shown = "form" => ~s3'.clash, s4' = s4
  PROVE  Batch!BatchInv'
BY DEF Batch!BatchInv, Batch!TypeOK, Batch!FormKnowsOfNone, Wizardly

LEMMA FormEdited ==
  ASSUME Batch!BatchInv, NEW s \in Learners, Batch!Add(s) \/ Batch!Remove(s)
  PROVE  Batch!BatchInv'
<1>1. s3 \in Wizardly /\ s3.shown = "form" /\ ~s3.clash
  BY DEF Batch!BatchInv, Batch!TypeOK, Batch!FormKnowsOfNone, Wizardly, Batch!Add, Batch!Remove
<1>2. PICK who \in SUBSET Learners : s3' = [s3 EXCEPT !.picked = who]
  BY <1>1 DEF Batch!Add, Batch!Remove, Wizardly
<1>3. s3' \in Wizardly
  BY <1>1, <1>2 DEF Wizardly
<1>4. ~s3'.clash
  BY <1>1, <1>2 DEF Wizardly
<1>5. UNCHANGED <<s2, s4>>
  BY DEF Batch!Add, Batch!Remove
<1>6. QED
  BY <1>3, <1>4, <1>5, BatchForm DEF Batch!BatchInv, Batch!TypeOK

\* Only the button of the form sends, and the one that overrides is not there.
LEMMA BatchSent ==
  ASSUME Batch!BatchInv, NEW force \in BOOLEAN, Batch!Submit(force)
  PROVE  Batch!BatchInv'
<1> DEFINE c == [who |-> s3.picked, force |-> force, nth |-> s3.nth, stage |-> "sent",
                 out |-> {}, clash |-> FALSE]
<1>1. s3 \in Wizardly /\ s4 \in Seq(Batch!Batches)
  BY DEF Batch!BatchInv, Batch!TypeOK, Wizardly
<1>2. ~force
  BY DEF Batch!Submit, Batch!BatchInv, Batch!FormKnowsOfNone
<1>3. c \in Batch!Batches
  BY <1>1 DEF Batch!Batches, Wizardly
<1>4. ~c.force
  BY <1>2
<1>5. s4' = Append(s4, c) /\ UNCHANGED <<s2, s3>>
  BY DEF Batch!Submit
<1> HIDE DEF c
<1>6. s4' \in Seq(Batch!Batches) /\ \A i \in DOMAIN s4' : i \in DOMAIN s4 \/ s4'[i] = c
  BY <1>1, <1>3, <1>5, AppendProperties
<1>7. \A i \in DOMAIN s4 : s4'[i] = s4[i]
  BY <1>1, <1>3, <1>5, AppendProperties
<1>8. QED
  BY <1>4, <1>5, <1>6, <1>7 DEF Batch!BatchInv, Batch!TypeOK, Batch!FormKnowsOfNone

\* What the server makes of a batch, and what the wizard hears, is not an override.
LEMMA BatchMoves ==
  ASSUME Batch!BatchInv, NEW i \in DOMAIN s4, NEW c \in Batch!Batches, ~c.force,
         s4' = [s4 EXCEPT ![i] = c]
  PROVE  s4' \in Seq(Batch!Batches) /\ \A j \in DOMAIN s4' : ~s4'[j].force
BY ExceptSeq DEF Batch!BatchInv, Batch!TypeOK

LEMMA BatchServed ==
  ASSUME Batch!BatchInv, NEW i \in DOMAIN s4, Batch!Serve(i)
  PROVE  Batch!BatchInv'
<1>0. s4 \in Seq(Batch!Batches)
  BY DEF Batch!BatchInv, Batch!TypeOK
<1>1. s4[i] \in Batch!Batches /\ ~s4[i].force
  BY <1>0, ElementOfSeq DEF Batch!BatchInv
<1>2. PICK made, told :
        /\ s4' = [s4 EXCEPT ![i].stage = "done", ![i].out = s4[i].who \ made,
                            ![i].clash = (told # {})]
        /\ UNCHANGED <<s2, s3>>
  BY DEF Batch!Serve
<1> DEFINE out == s4[i].who \ made
           clash == told # {}
           a == [s4[i] EXCEPT !.stage = "done"]
           b == [a EXCEPT !.out = out]
           c == [b EXCEPT !.clash = clash]
<1>3. out \in SUBSET Learners /\ clash \in BOOLEAN
  BY <1>1 DEF Batch!Batches
<1>4. s4' = [s4 EXCEPT ![i] = c]
  BY <1>2
<1> HIDE DEF out, clash
<1>5. a \in Batch!Batches /\ ~a.force
  <2>1. a \in Batch!Batches
    BY <1>1 DEF Batch!Batches
  <2>2. ~a.force
    BY <1>1 DEF Batch!Batches
  <2>3. QED
    BY <2>1, <2>2
<1> HIDE DEF a
<1>6. b \in Batch!Batches /\ ~b.force
  <2>1. b \in Batch!Batches
    BY <1>3, <1>5 DEF Batch!Batches
  <2>2. ~b.force
    BY <1>3, <1>5 DEF Batch!Batches
  <2>3. QED
    BY <2>1, <2>2
<1> HIDE DEF b
<1>7. c \in Batch!Batches
  BY <1>3, <1>6 DEF Batch!Batches
<1>8. ~c.force
  BY <1>3, <1>6 DEF Batch!Batches
<1> HIDE DEF c
<1>9. s4' \in Seq(Batch!Batches) /\ \A j \in DOMAIN s4' : ~s4'[j].force
  BY <1>4, <1>7, <1>8, BatchMoves
<1>10. QED
  BY <1>2, <1>9 DEF Batch!BatchInv, Batch!TypeOK, Batch!FormKnowsOfNone

LEMMA BatchAnswered ==
  ASSUME Batch!BatchInv, NEW i \in DOMAIN s4, Batch!Answer(i)
  PROVE  Batch!BatchInv'
<1>0. s4 \in Seq(Batch!Batches) /\ s3 \in Wizardly /\ s2 \subseteq Learners
  BY DEF Batch!BatchInv, Batch!TypeOK, Wizardly
<1>1. s4[i] \in Batch!Batches /\ ~s4[i].force /\ s4[i].clash \in BOOLEAN
  <2>1. s4[i] \in Batch!Batches /\ ~s4[i].force
    BY <1>0, ElementOfSeq DEF Batch!BatchInv
  <2>2. QED
    BY <2>1 DEF Batch!Batches
<1> DEFINE c == [Batch!Heard EXCEPT !.force = s4[i].force]
<1>2. c \in Batch!Batches /\ ~c.force
  <2>1. Batch!Heard \in Batch!Batches
    BY DEF Batch!Heard, Batch!Batches
  <2>2. c \in Batch!Batches
    BY <1>1, <2>1 DEF Batch!Batches
  <2>3. ~c.force
    BY <1>1, <2>1 DEF Batch!Batches
  <2>4. QED
    BY <2>2, <2>3
<1>3. s4' = [s4 EXCEPT ![i] = c]
  BY DEF Batch!Answer
<1> HIDE DEF c
<1>5. s4' \in Seq(Batch!Batches) /\ \A j \in DOMAIN s4' : ~s4'[j].force
  BY <1>2, <1>3, BatchMoves
<1>6. /\ s2' \subseteq Learners /\ s3' \in Wizardly
      /\ s3'.shown = "form" => ~s3'.clash
  <2>1. CASE s3' = s3 /\ s2' = s2
    BY <1>0, <2>1 DEF Batch!BatchInv, Batch!FormKnowsOfNone
  <2>2. CASE Batch!Close
    BY <2>2 DEF Batch!Close, Batch!Away, Wizardly
  <2>3. CASE /\ s3' = [s3 EXCEPT !.shown = "result", !.clash = @ \/ s4[i].clash]
             /\ s2' = s2
    <3> DEFINE told == s3.clash \/ s4[i].clash
               w == [s3 EXCEPT !.shown = "result"]
    <3>1. told \in BOOLEAN /\ s3' = [w EXCEPT !.clash = told]
      BY <2>3
    <3>2. w \in Wizardly /\ w.shown = "result"
      BY <1>0 DEF Wizardly
    <3> HIDE DEF told, w
    <3>3. s3' \in Wizardly
      BY <3>1, <3>2 DEF Wizardly
    <3>4. s3'.shown = "result"
      BY <3>1, <3>2 DEF Wizardly
    <3>5. QED
      BY <1>0, <2>3, <3>3, <3>4
  <2>4. QED
    BY <2>1, <2>2, <2>3 DEF Batch!Answer
<1>7. QED
  BY <1>5, <1>6 DEF Batch!BatchInv, Batch!TypeOK, Batch!FormKnowsOfNone, Wizardly

LEMMA BatchNext ==
  ASSUME Batch!BatchInv, Batch!Next
  PROVE  Batch!BatchInv'
<1>0. s2 \subseteq Learners /\ s3 \in Wizardly /\ (s3.shown = "form" => ~s3.clash)
  BY DEF Batch!BatchInv, Batch!TypeOK, Batch!FormKnowsOfNone, Wizardly
<1>1. ASSUME \/ \E t \in Batch!Tabs : Batch!ChooseTab(t) \/ Batch!FollowLink(t)
             \/ \E s \in Learners : Batch!Tick(s)
             \/ Batch!TickAll \/ Batch!Reread \/ Batch!Elsewhere
      PROVE  Batch!BatchInv'
  <2>1. UNCHANGED <<s3, s4>>
    BY <1>1 DEF Batch!ChooseTab, Batch!FollowLink, Batch!Tick, Batch!TickAll, Batch!Reread,
                Batch!Elsewhere
  <2>2. s2' \subseteq Learners
    BY <1>0, <1>1, TicksOfStudents
    DEF Batch!ChooseTab, Batch!FollowLink, Batch!Tick, Batch!TickAll, Batch!Reread,
        Batch!Elsewhere
  <2>3. QED
    BY <1>0, <2>1, <2>2, BatchForm
<1>2. ASSUME Batch!CloseForm \/ Batch!CloseResult
      PROVE  Batch!BatchInv'
  <2>1. s2' = {} /\ s3' \in Wizardly /\ ~s3'.clash /\ s4' = s4
    <3>1. Batch!Away \in Wizardly /\ ~Batch!Away.clash
      BY DEF Batch!Away, Wizardly
    <3>2. s2' = {} /\ s3' = Batch!Away /\ s4' = s4
      BY <1>2 DEF Batch!CloseForm, Batch!CloseResult, Batch!Close
    <3>3. QED
      BY <3>1, <3>2
  <2>2. QED
    BY <2>1, BatchForm
<1>3. ASSUME Batch!OpenWizard PROVE Batch!BatchInv'
  <2>1. s3' \in Wizardly /\ ~s3'.clash /\ s2' = s2 /\ s4' = s4
    BY <1>0, <1>3, MountKeeps DEF Batch!OpenWizard
  <2>2. QED
    BY <1>0, <2>1, BatchForm
<1>4. ASSUME NEW s \in Learners, Batch!OpenFromRecord(s) PROVE Batch!BatchInv'
  <2>1. s3' \in Wizardly /\ ~s3'.clash /\ s2' = {s} /\ s4' = s4
    BY <1>4, MountKeeps DEF Batch!OpenFromRecord
  <2>2. QED
    BY <2>1, BatchForm
<1>5. QED
  BY <1>1, <1>2, <1>3, <1>4, FormEdited, BatchSent, BatchServed, BatchAnswered DEF Batch!Next

-----------------------------------------------------------------------------
(* Students from a file (module StudentImport): s1 the dialog, s2 the      *)
(* files being read for it, s3 the imports sent.                           *)

LEMMA ImportCardinality ==
  ASSUME NEW S
  PROVE  Import!Cardinality(S) = Cardinality(S)
BY DEF Import!Cardinality, Cardinality

\* A row is refused by the number it has in the file, but for blank lines before it.
LEMMA NumbersOfTheFile ==
  ASSUME NEW file \in Seq(STRING), NEW n \in Import!Parsed(file).wrong \ {0},
         \A k \in 1..n : file[k] # "blank"
  PROVE  file[n] \in {"unnamed", "badmail"}
<1>1. PICK k \in Import!Refused(file) : n = Import!Number(file, k)
  BY DEF Import!Parsed, Import!Nothing
<1>2. k \in 1..Len(file) /\ file[k] \in {"unnamed", "badmail"} /\ Len(file) \in Nat
  BY DEF Import!Refused, Import!Below, Import!Lines
<1> DEFINE before == {j \in Import!Lines(file) : j <= k}
<1>3. n = Cardinality(before) /\ before \subseteq 1..k /\ k \in Nat
  BY <1>1, <1>2, ImportCardinality DEF Import!Number, Import!Lines
<1>4. n \in Nat /\ n <= k
  <2>1. IsFiniteSet(1..k) /\ Cardinality(1..k) = k
    BY <1>3, FS_Interval
  <2>2. QED
    BY <1>3, <2>1, FS_Subset, FS_CardinalityType
<1>5. ~(n < k)
  <2> SUFFICES ASSUME n < k PROVE FALSE
    OBVIOUS
  <2>1. (1..n) \cup {k} \subseteq before
    BY <1>2, <1>4 DEF Import!Lines, Import!Refused, Import!Below
  <2>2. IsFiniteSet(1..n) /\ Cardinality(1..n) = n /\ k \notin 1..n
    BY <1>4, FS_Interval
  <2>3. IsFiniteSet((1..n) \cup {k}) /\ Cardinality((1..n) \cup {k}) = n + 1
    BY <2>2, FS_AddElement
  <2>4. IsFiniteSet(before)
    <3>1. IsFiniteSet(1..k)
      BY <1>3, FS_Interval
    <3>2. QED
      BY <1>3, <3>1, FS_Subset
  <2>5. n + 1 <= n
    <3> DEFINE some == (1..n) \cup {k}
    <3>1. Cardinality(some) <= Cardinality(before)
      <4> HIDE DEF some, before
      <4>1. some \in SUBSET before
        BY <2>1 DEF some
      <4>2. QED
        BY <2>4, <4>1, FS_Subset
    <3>2. QED
      BY <1>3, <2>3, <3>1
  <2>6. QED
    BY <1>4, <2>5
<1>6. n = k
  BY <1>3, <1>4, <1>5
<1>7. QED
  BY <1>2, <1>6

LEMMA ParsedType ==
  ASSUME NEW file \in Files
  PROVE  Import!Parsed(file).rows \subseteq Newcomers /\ Import!Parsed(file).wrong \subseteq Nat
<1>1. file \in Seq(STRING)
  BY ClientAssumption
<1>2. ASSUME NEW k \in Import!Refused(file)
      PROVE  Import!Number(file, k) \in Nat
  <2> DEFINE before == {j \in Import!Lines(file) : j <= k}
  <2>1. IsFiniteSet(before)
    <3>1. before \subseteq 1..Len(file) /\ Len(file) \in Nat
      BY <1>1 DEF Import!Lines
    <3>2. IsFiniteSet(1..Len(file))
      BY <3>1, FS_Interval
    <3>3. QED
      BY <3>1, <3>2, FS_Subset
  <2>2. Cardinality(before) \in Nat
    BY <2>1, FS_CardinalityType
  <2>3. QED
    BY <2>2, ImportCardinality DEF Import!Number
<1>3. QED
  BY <1>2 DEF Import!Parsed, Import!Nothing, Import!Rows

LEMMA AwayType ==
  /\ Import!Away \in Import!Modals
  /\ ~Import!Away.shown /\ Import!Away.step = "upload" /\ ~Import!Away.crossed
  /\ Import!Away.rows = {} /\ Import!Away.wrong = {}
BY DEF Import!Away, Import!Modals, Import!Froms

LEMMA ImportInit == Import!Init => Import!ImportInv
<1> SUFFICES ASSUME Import!Init PROVE Import!ImportInv
  OBVIOUS
<1>1. Import!TypeOK
  BY AwayType, EmptySeq DEF Import!Init, Import!TypeOK
<1>2. QED
  BY <1>1, AwayType DEF Import!Init, Import!ImportInv, Import!OneUnderWay, Import!ReadsTheNamed,
     Import!PasswordsInHand, Import!ShowsTheNamedFile

LEMMA ImportFacts ==
  ASSUME Import!TypeOK, NEW i \in DOMAIN s3
  PROVE  s3[i] \in Import!Imports /\ s3[i].nth \in Nat /\ s1.nth \in Nat
<1>1. s3[i] \in Import!Imports
  BY ElementOfSeq DEF Import!TypeOK
<1>2. QED
  BY <1>1 DEF Import!TypeOK, Import!Modals, Import!Imports

\* Opening: a new number, nothing named.
LEMMA ImportOpens ==
  ASSUME Import!ImportInv, NEW from \in Import!Froms, Import!Open(from)
  PROVE  Import!ImportInv'
<1> USE DEF Import!ImportInv
<1>1. s1.nth \in Nat /\ ~s1.shown /\ UNCHANGED <<s2, s3>> /\ s2 = {}
  BY DEF Import!Open, Import!TypeOK, Import!Modals, Import!ReadsTheNamed
<1> DEFINE m == [Import!Away EXCEPT !.shown = TRUE, !.from = from]
<1>2. m \in Import!Modals
  BY AwayType DEF Import!Modals
<1>3. /\ m.shown /\ ~m.crossed /\ m.rows = {} /\ m.wrong = {} /\ m.step = "upload"
      /\ m.from = from
  BY AwayType DEF Import!Modals
<1>4. s1' = [m EXCEPT !.nth = s1.nth + 1]
  BY DEF Import!Open
<1> HIDE DEF m
<1>5. s1' \in Import!Modals
  BY <1>1, <1>2, <1>4 DEF Import!Modals
<1>6. s1'.rows = {} /\ s1'.wrong = {} /\ s1'.nth = s1.nth + 1
  BY <1>1, <1>2, <1>3, <1>4 DEF Import!Modals
<1>7. \A i \in DOMAIN s3 : s3[i].nth \in Nat /\ s3[i].nth <= s1.nth
  BY ImportFacts DEF Import!OneUnderWay
<1>8. Import!TypeOK'
  BY <1>1, <1>5 DEF Import!TypeOK
<1>9. Import!OneUnderWay'
  BY <1>1, <1>6, <1>7 DEF Import!OneUnderWay
<1>10. Import!ReadsTheNamed' /\ Import!ShowsTheNamedFile'
  BY <1>1, <1>6 DEF Import!ReadsTheNamed, Import!ShowsTheNamedFile
<1>11. Import!PasswordsInHand'
  BY <1>1 DEF Import!PasswordsInHand
<1>12. QED
  BY <1>8, <1>9, <1>10, <1>11

\* Another file is named.
LEMMA FileChosen ==
  ASSUME Import!ImportInv, NEW file \in Files, Import!ChooseFile(file)
  PROVE  Import!ImportInv'
<1> USE DEF Import!ImportInv
<1>1. /\ s1 \in Import!Modals /\ s1.shown /\ s1.step = "upload" /\ s3' = s3
      /\ s2' = s2 \cup {file}
  BY DEF Import!ChooseFile, Import!TypeOK
<1> DEFINE crossed == s2 # {}
           m == [s1 EXCEPT !.name = file, !.rows = {}, !.wrong = {}]
<1>2. m \in Import!Modals
  BY <1>1 DEF Import!Modals
<1>3. /\ m.shown /\ m.rows = {} /\ m.wrong = {} /\ m.step = "upload" /\ m.name = file
      /\ m.from = s1.from /\ m.nth = s1.nth
  BY <1>1 DEF Import!Modals
<1>4. s1' = [m EXCEPT !.crossed = crossed] /\ crossed \in BOOLEAN
  BY DEF Import!ChooseFile
<1> HIDE DEF m
<1>5. s1' \in Import!Modals
  <2> HIDE DEF crossed
  <2>1. QED
    BY <1>2, <1>4 DEF Import!Modals
<1>6. /\ s1'.shown /\ s1'.rows = {} /\ s1'.wrong = {} /\ s1'.step = "upload" /\ s1'.name = file
      /\ s1'.from = s1.from /\ s1'.nth = s1.nth
  BY <1>2, <1>3, <1>4 DEF Import!Modals
<1>7. ~s1'.crossed => s2 = {}
  BY <1>2, <1>4 DEF Import!Modals
<1>8. Import!TypeOK'
  BY <1>1, <1>5 DEF Import!TypeOK
<1>9. Import!OneUnderWay'
  BY <1>1, <1>6 DEF Import!OneUnderWay
<1>10. Import!ReadsTheNamed' /\ Import!ShowsTheNamedFile'
  BY <1>1, <1>6, <1>7 DEF Import!ReadsTheNamed, Import!ShowsTheNamedFile
<1>11. Import!PasswordsInHand'
  BY <1>1 DEF Import!PasswordsInHand
<1>12. QED
  BY <1>8, <1>9, <1>10, <1>11

\* A file has been read.
LEMMA FileLoaded ==
  ASSUME Import!ImportInv, NEW file \in s2, Import!Load(file)
  PROVE  Import!ImportInv'
<1> USE DEF Import!ImportInv
<1> DEFINE read == Import!Parsed(file)
           rows == IF 0 \in read.wrong THEN s1.rows ELSE read.rows
           wrong == read.wrong
<1>1. /\ s1 \in Import!Modals /\ s2' = s2 \ {file} /\ s3' = s3 /\ file \in Files
      /\ s1' = [s1 EXCEPT !.rows = rows, !.wrong = wrong]
  BY DEF Import!Load, Import!TypeOK
<1>2. rows \in SUBSET Newcomers /\ wrong \in SUBSET Nat
  BY <1>1, ParsedType DEF Import!Modals
<1>3. s1.shown /\ ~s1.crossed => file = s1.name
  BY DEF Import!ReadsTheNamed
<1>4. s1.shown
  BY DEF Import!ReadsTheNamed
<1>5. /\ ~s1.crossed /\ rows # {} => rows = Import!Parsed(s1.name).rows
      /\ ~s1.crossed => wrong = Import!Parsed(s1.name).wrong
  BY <1>3, <1>4 DEF Import!ShowsTheNamedFile
<1>6. ~s1.crossed => s1.name \in Seq(STRING)
  BY <1>1, <1>3, <1>4, ClientAssumption
<1> HIDE DEF rows, wrong
<1>7. s1' \in Import!Modals
  BY <1>1, <1>2 DEF Import!Modals
<1>8. /\ s1'.shown = s1.shown /\ s1'.rows = rows /\ s1'.wrong = wrong /\ s1'.step = s1.step
      /\ s1'.name = s1.name /\ s1'.from = s1.from /\ s1'.nth = s1.nth /\ s1'.told = s1.told
  BY <1>1 DEF Import!Modals
<1>9. s1'.crossed = s1.crossed
  BY <1>1 DEF Import!Modals
<1>10. Import!TypeOK'
  BY <1>1, <1>7 DEF Import!TypeOK
<1>11. Import!OneUnderWay'
  BY <1>1, <1>8 DEF Import!OneUnderWay
<1>12. Import!ReadsTheNamed'
  BY <1>1, <1>4, <1>8, <1>9 DEF Import!ReadsTheNamed
<1>13. Import!ShowsTheNamedFile'
  BY <1>5, <1>6, <1>8, <1>9, NumbersOfTheFile DEF Import!ShowsTheNamedFile
<1>14. Import!PasswordsInHand'
  BY <1>1, <1>8 DEF Import!PasswordsInHand
<1>15. QED
  BY <1>10, <1>11, <1>12, <1>13, <1>14

LEMMA ImportSent ==
  ASSUME Import!ImportInv, NEW enrol \in BOOLEAN, Import!Submit(enrol)
  PROVE  Import!ImportInv'
<1> USE DEF Import!ImportInv
<1> DEFINE c == [rows |-> s1.rows, named |-> s1.name, from |-> s1.from, nth |-> s1.nth,
                 enrol |-> enrol, stage |-> "sent", made |-> {}, fate |-> "open"]
           n == Len(s3) + 1
<1>1. /\ s1 \in Import!Modals /\ s1.shown /\ s1.step = "upload" /\ ~Import!Busy
      /\ s3' = Append(s3, c) /\ s3 \in Seq(Import!Imports) /\ UNCHANGED <<s1, s2>>
  BY DEF Import!Submit, Import!TypeOK
<1>2. /\ c \in Import!Imports /\ c.stage = "sent" /\ c.fate = "open" /\ c.nth = s1.nth
      /\ c.from = s1.from
  BY <1>1 DEF Import!Modals, Import!Imports
<1> HIDE DEF c
<1>3. /\ s3' \in Seq(Import!Imports) /\ DOMAIN s3' = DOMAIN s3 \cup {n} /\ n \notin DOMAIN s3
      /\ s3'[n] = c /\ \A i \in DOMAIN s3 : s3'[i] = s3[i]
  BY <1>1, <1>2, AppendProperties
<1>4. \A i \in DOMAIN s3 : s3[i].stage # "over" => s3[i].nth # s1.nth
  BY <1>1 DEF Import!Busy
<1>5. s1.nth \in Nat
  BY <1>1 DEF Import!Modals
<1>6. Import!TypeOK'
  BY <1>1, <1>3 DEF Import!TypeOK
<1>7. Import!OneUnderWay'
  BY <1>1, <1>2, <1>3, <1>4, <1>5 DEF Import!OneUnderWay
<1>8. Import!ReadsTheNamed' /\ Import!ShowsTheNamedFile'
  BY <1>1 DEF Import!ReadsTheNamed, Import!ShowsTheNamedFile
<1>9. Import!PasswordsInHand'
  BY <1>1, <1>2, <1>3 DEF Import!PasswordsInHand
<1>10. QED
  BY <1>6, <1>7, <1>8, <1>9

\* An import that was sent is carried out, or lost.
LEMMA ImportServed ==
  ASSUME Import!ImportInv, NEW k \in DOMAIN s3, Import!Serve(k) \/ Import!Lose(k)
  PROVE  Import!ImportInv'
<1> USE DEF Import!ImportInv
<1>1. s1 \in Import!Modals /\ s3 \in Seq(Import!Imports) /\ UNCHANGED <<s1, s2>>
  BY DEF Import!TypeOK, Import!Serve, Import!Lose
<1>2. s3[k] \in Import!Imports /\ s3[k].stage # "over"
  BY ImportFacts DEF Import!Serve, Import!Lose
<1>3. PICK c \in Import!Imports :
        /\ s3' = [s3 EXCEPT ![k] = c]
        /\ c.nth = s3[k].nth /\ c.from = s3[k].from
        /\ c.stage # "over" => c.fate = s3[k].fate
        /\ c.fate = "heard" => s3[k].fate = "heard"
  <2>1. CASE Import!Serve(k)
    <3> DEFINE made == s3[k].rows \ (s4 \cup Twins)
               c == [s3[k] EXCEPT !.stage = "done", !.made = made]
    <3>1. made \in SUBSET Newcomers
      BY <1>2 DEF Import!Imports
    <3>2. s3' = [s3 EXCEPT ![k] = c]
      BY <2>1 DEF Import!Serve
    <3> HIDE DEF made
    <3>3. c \in Import!Imports
      BY <1>2, <3>1 DEF Import!Imports
    <3>4. c.nth = s3[k].nth /\ c.from = s3[k].from /\ c.fate = s3[k].fate
      BY <1>2 DEF Import!Imports
    <3> HIDE DEF c
    <3>5. QED
      BY <3>2, <3>3, <3>4, Zenon
  <2>2. CASE Import!Lose(k)
    <3> DEFINE c == [s3[k] EXCEPT !.stage = "over", !.fate = "lost"]
    <3>1. s3' = [s3 EXCEPT ![k] = c]
      BY <2>2 DEF Import!Lose
    <3>2. c \in Import!Imports
      BY <1>2 DEF Import!Imports
    <3>3. c.nth = s3[k].nth /\ c.from = s3[k].from /\ c.fate = "lost" /\ c.stage = "over"
      BY <1>2 DEF Import!Imports
    <3>4. c.fate # "heard"
      BY <3>3
    <3> HIDE DEF c
    <3>5. QED
      BY <3>1, <3>2, <3>3, <3>4, Zenon
  <2>3. QED
    BY <2>1, <2>2
<1>4. /\ s3' \in Seq(Import!Imports) /\ DOMAIN s3' = DOMAIN s3 /\ s3'[k] = c
      /\ \A i \in DOMAIN s3 : i # k => s3'[i] = s3[i]
  BY <1>1, <1>3, ExceptSeq
<1>5. s3[k].fate = "open"
  BY <1>2 DEF Import!OneUnderWay
<1>6. Import!TypeOK'
  BY <1>1, <1>4 DEF Import!TypeOK
<1>7. Import!OneUnderWay'
  BY <1>1, <1>2, <1>3, <1>4 DEF Import!OneUnderWay
<1>8. Import!ReadsTheNamed' /\ Import!ShowsTheNamedFile'
  BY <1>1 DEF Import!ReadsTheNamed, Import!ShowsTheNamedFile
<1>9. c.fate # "heard"
  BY <1>3, <1>5
<1>10. Import!PasswordsInHand'
  BY <1>1, <1>4, <1>9 DEF Import!PasswordsInHand
<1>11. QED
  BY <1>6, <1>7, <1>8, <1>10

\* Closing: what was heard has been seen.
LEMMA ImportCloses ==
  ASSUME Import!ImportInv, Import!Close
  PROVE  Import!ImportInv'
<1> USE DEF Import!ImportInv
<1> DEFINE seen(i) == IF s3[i].nth = s1.nth /\ s3[i].fate = "heard"
                      THEN [s3[i] EXCEPT !.fate = "seen"] ELSE s3[i]
<1>1. /\ s1' = [Import!Away EXCEPT !.nth = s1.nth] /\ s2' = {} /\ s1.nth \in Nat
      /\ s3 \in Seq(Import!Imports) /\ s3' = [i \in DOMAIN s3 |-> seen(i)]
  BY DEF Import!Close, Import!TypeOK, Import!Modals
<1>2. s1' \in Import!Modals
  BY <1>1, AwayType DEF Import!Modals
<1>3. ~s1'.shown /\ s1'.nth = s1.nth
  BY <1>1, AwayType DEF Import!Modals
<1>4. \A i \in DOMAIN s3 :
        /\ seen(i) \in Import!Imports
        /\ seen(i).nth = s3[i].nth /\ seen(i).stage = s3[i].stage /\ seen(i).from = s3[i].from
        /\ s3[i].fate = "open" => seen(i).fate = "open"
        /\ seen(i).fate = "heard" => s3[i].fate = "heard" /\ s3[i].nth # s1.nth
  <2> SUFFICES ASSUME NEW i \in DOMAIN s3
               PROVE  /\ seen(i) \in Import!Imports
                      /\ seen(i).nth = s3[i].nth /\ seen(i).stage = s3[i].stage
                      /\ seen(i).from = s3[i].from
                      /\ s3[i].fate = "open" => seen(i).fate = "open"
                      /\ seen(i).fate = "heard" => s3[i].fate = "heard" /\ s3[i].nth # s1.nth
    OBVIOUS
  <2>1. s3[i] \in Import!Imports
    BY ImportFacts
  <2>2. CASE s3[i].nth = s1.nth /\ s3[i].fate = "heard"
    <3> DEFINE c == [s3[i] EXCEPT !.fate = "seen"]
    <3>1. c \in Import!Imports
      BY <2>1 DEF Import!Imports
    <3>2. /\ c.nth = s3[i].nth /\ c.stage = s3[i].stage /\ c.from = s3[i].from
          /\ c.fate = "seen"
      BY <2>1 DEF Import!Imports
    <3>3. seen(i) = c
      BY <2>2
    <3> HIDE DEF c, seen
    <3>4. QED
      BY <2>2, <3>1, <3>2, <3>3
  <2>3. CASE ~(s3[i].nth = s1.nth /\ s3[i].fate = "heard")
    BY <2>1, <2>3
  <2>4. QED
    BY <2>2, <2>3
<1> HIDE DEF seen
<1>5. s3' \in Seq(Import!Imports) /\ DOMAIN s3' = DOMAIN s3 /\ \A i \in DOMAIN s3 : s3'[i] = seen(i)
  <2>1. Len(s3) \in Nat /\ DOMAIN s3 = 1..Len(s3)
    BY <1>1
  <2>2. s3' \in [1..Len(s3) -> Import!Imports]
    BY <1>1, <1>4, <2>1
  <2>3. QED
    BY <1>1, <2>1, <2>2, IsASeq
<1>6. Import!TypeOK'
  BY <1>1, <1>2, <1>5 DEF Import!TypeOK
<1>7. Import!OneUnderWay'
  BY <1>3, <1>4, <1>5 DEF Import!OneUnderWay
<1>8. Import!ReadsTheNamed' /\ Import!ShowsTheNamedFile'
  BY <1>1, <1>3 DEF Import!ReadsTheNamed, Import!ShowsTheNamedFile
<1>9. Import!PasswordsInHand'
  BY <1>4, <1>5 DEF Import!PasswordsInHand
<1>10. QED
  BY <1>6, <1>7, <1>8, <1>9

\* An answer: the dialog that waits for it shows what it holds; of the first steps both go.
LEMMA ImportAnswered ==
  ASSUME Import!ImportInv, NEW k \in DOMAIN s3, Import!Answer(k)
  PROVE  Import!ImportInv'
<1> USE DEF Import!ImportInv
<1> DEFINE open == s1.shown /\ s1.nth = s3[k].nth
           both == s1.from = "first steps" /\ s3[k].from = "first steps"
           fate == IF open THEN "heard" ELSE "left"
           c == [s3[k] EXCEPT !.stage = "over", !.fate = fate]
           told == [s1 EXCEPT !.step = "results", !.told = s3[k].made]
<1>1. /\ s1 \in Import!Modals /\ s3 \in Seq(Import!Imports) /\ s2 \subseteq Files
      /\ s1.nth \in Nat
  BY DEF Import!TypeOK, Import!Modals
<1>2. s3[k] \in Import!Imports /\ s3[k].stage = "done" /\ s3[k].stage # "over"
  BY ImportFacts DEF Import!Answer
<1>3. fate \in {"heard", "left"} /\ (~open => fate = "left") /\ s3' = [s3 EXCEPT ![k] = c]
  BY DEF Import!Answer
<1>4. /\ c \in Import!Imports /\ c.nth = s3[k].nth /\ c.from = s3[k].from
      /\ c.stage = "over" /\ c.fate = fate /\ c.made = s3[k].made
  <2> HIDE DEF fate
  <2>1. QED
    BY <1>2, <1>3 DEF Import!Imports
<1>5. /\ s1' = IF both THEN [Import!Away EXCEPT !.nth = s1.nth]
               ELSE IF open THEN told ELSE s1
      /\ s2' = IF s1'.shown THEN s2 ELSE {}
  BY DEF Import!Answer
<1>6. /\ told \in Import!Modals /\ told.step = "results" /\ told.told = s3[k].made
      /\ told.from = s1.from /\ told.nth = s1.nth /\ told.name = s1.name
      /\ told.rows = s1.rows /\ told.wrong = s1.wrong
  BY <1>1, <1>2 DEF Import!Modals, Import!Imports
<1>7. told.shown = s1.shown /\ told.crossed = s1.crossed
  BY <1>1 DEF Import!Modals
<1> HIDE DEF c, told, fate
<1>8. /\ s3' \in Seq(Import!Imports) /\ DOMAIN s3' = DOMAIN s3 /\ s3'[k] = c
      /\ \A i \in DOMAIN s3 : i # k => s3'[i] = s3[i]
  BY <1>1, <1>3, <1>4, ExceptSeq
<1>9. s2' \subseteq Files /\ (~s1'.shown => s2' = {}) /\ s2' \subseteq s2
  BY <1>1, <1>5
<1>10. CASE both
  <2> DEFINE m == [Import!Away EXCEPT !.nth = s1.nth]
  <2>1. m \in Import!Modals /\ m.nth = s1.nth
    BY <1>1, AwayType DEF Import!Modals
  <2>2. ~m.shown
    BY <1>1, AwayType DEF Import!Modals
  <2>3. s1' = m
    BY <1>5, <1>10
  <2> HIDE DEF m
  <2>4. Import!TypeOK'
    BY <1>8, <1>9, <2>1, <2>3 DEF Import!TypeOK
  <2>5. Import!OneUnderWay'
    BY <1>4, <1>8, <2>1, <2>2, <2>3 DEF Import!OneUnderWay
  <2>6. Import!ReadsTheNamed' /\ Import!ShowsTheNamedFile'
    BY <1>9, <2>2, <2>3 DEF Import!ReadsTheNamed, Import!ShowsTheNamedFile
  <2>7. \A i \in DOMAIN s3 : ~(s3[i].fate = "heard" /\ s3[i].from = "students")
    BY <1>10 DEF Import!PasswordsInHand, Import!OneUnderWay
  <2>8. Import!PasswordsInHand'
    BY <1>4, <1>8, <1>10, <2>7 DEF Import!PasswordsInHand
  <2>9. QED
    BY <2>4, <2>5, <2>6, <2>8
<1>11. CASE ~both /\ open
  <2>1. s1' = told /\ s1.shown /\ s1.nth = s3[k].nth /\ s1.step = "upload"
    BY <1>2, <1>5, <1>11 DEF Import!OneUnderWay
  <2>2. s2' = s2
    BY <1>5, <1>7, <2>1
  <2>3. Import!TypeOK'
    BY <1>6, <1>8, <1>9, <2>1 DEF Import!TypeOK
  <2>4. \A i \in DOMAIN s3 : i # k /\ s3[i].stage # "over" => s3[i].nth # s1.nth
    BY <1>2, <2>1 DEF Import!OneUnderWay
  <2>5. Import!OneUnderWay'
    BY <1>4, <1>6, <1>7, <1>8, <2>1, <2>4 DEF Import!OneUnderWay
  <2>6. Import!ReadsTheNamed' /\ Import!ShowsTheNamedFile'
    <3>1. s1'.name = s1.name /\ s1'.rows = s1.rows /\ s1'.wrong = s1.wrong
      BY <1>6, <2>1
    <3>2. s1'.shown /\ s1'.crossed = s1.crossed
      BY <1>7, <2>1
    <3>3. Import!ReadsTheNamed'
      BY <2>1, <2>2, <3>1, <3>2 DEF Import!ReadsTheNamed
    <3>4. Import!ShowsTheNamedFile'
      BY <2>1, <3>1, <3>2 DEF Import!ShowsTheNamedFile
    <3>5. QED
      BY <3>3, <3>4
  <2>7. \A i \in DOMAIN s3 : ~(s3[i].fate = "heard" /\ s3[i].from = "students")
    BY <2>1 DEF Import!PasswordsInHand
  <2>8. Import!PasswordsInHand'
    BY <1>4, <1>6, <1>7, <1>8, <2>1, <2>7 DEF Import!PasswordsInHand
  <2>9. QED
    BY <2>3, <2>5, <2>6, <2>8
<1>12. CASE ~both /\ ~open
  <2>1. s1' = s1 /\ c.fate = "left"
    BY <1>3, <1>4, <1>5, <1>12
  <2>2. Import!TypeOK'
    BY <1>1, <1>8, <1>9, <2>1 DEF Import!TypeOK
  <2>3. Import!OneUnderWay'
    BY <1>4, <1>8, <2>1 DEF Import!OneUnderWay
  <2>4. Import!ReadsTheNamed' /\ Import!ShowsTheNamedFile'
    BY <1>9, <2>1 DEF Import!ReadsTheNamed, Import!ShowsTheNamedFile
  <2>5. Import!PasswordsInHand'
    BY <1>8, <2>1 DEF Import!PasswordsInHand
  <2>6. QED
    BY <2>2, <2>3, <2>4, <2>5
<1>13. QED
  BY <1>10, <1>11, <1>12

LEMMA ImportNext ==
  ASSUME Import!ImportInv, Import!Next
  PROVE  Import!ImportInv'
<1>1. {"students", "first steps"} \subseteq Import!Froms
  BY DEF Import!Froms
<1>2. QED
  BY <1>1, ImportOpens, FileChosen, FileLoaded, ImportSent, ImportServed, ImportAnswered,
     ImportCloses DEF Import!Next

-----------------------------------------------------------------------------
(* The wizards (module Wizards): s1 which, s2 the draft, s3 the dialog, s4 *)
(* the tries, s5 what is made, s6 the hours taken, s7 the hours promised,  *)
(* s9 the faults, s10 the steps that a try stopped at.                     *)

LEMMA WizardCardinality ==
  ASSUME NEW S
  PROVE  Wizard!Cardinality(S) = Cardinality(S)
BY DEF Wizard!Cardinality, Cardinality

\* A class is told from the other requests.
LEMMA SlotApart ==
  ASSUME NEW d
  PROVE  /\ Wizard!Slot(d) # <<"account">> /\ Wizard!Slot(d) # <<"course">>
         /\ Wizard!Slot(d) # <<"staff">> /\ Wizard!Slot(d) # <<"check">>
         /\ Wizard!Slot(d) # <<"languages">>
         /\ Wizard!Slot(d)[2] = d
<1>1. /\ Len(Wizard!Slot(d)) = 2 /\ Len(<<"account">>) = 1 /\ Len(<<"course">>) = 1
      /\ Len(<<"staff">>) = 1 /\ Len(<<"check">>) = 1 /\ Len(<<"languages">>) = 1
  BY DEF Wizard!Slot
<1>2. QED
  BY <1>1 DEF Wizard!Slot

LEMMA RequestsApart ==
  /\ Wizard!Account # Wizard!Languages
  /\ Wizard!Account \notin {<<"course">>, <<"staff">>, <<"check">>} \cup Wizard!Slots
  /\ Wizard!Languages \notin {<<"course">>, <<"staff">>, <<"check">>} \cup Wizard!Slots
  /\ <<"course">> \notin {<<"staff">>, <<"check">>} \cup Wizard!Slots
  /\ <<"staff">> \notin {<<"check">>} \cup Wizard!Slots
  /\ <<"check">> \notin Wizard!Slots
BY SlotApart DEF Wizard!Account, Wizard!Languages, Wizard!Slots

\* A try that asks for something asks first for its account, then its languages, and for a
\* class at the end.
Shape(t) ==
    /\ t.todo # << >>
    /\ t.todo[Len(t.todo)] \in Wizard!Slots
    /\ s2.fresh /\ ~s3.account => Head(t.todo) = Wizard!Account
    /\ \A k \in DOMAIN t.todo : t.todo[k] = Wizard!Account => k = 1 /\ ~s3.account
    /\ s2.languages /\ Head(t.todo) = Wizard!Account => t.todo[2] = Wizard!Languages

\* What the invariant says of one try.
Sane(t) ==
    /\ s1 = "schedule" => \A k \in DOMAIN t.todo : t.todo[k] \in {<<"check">>} \cup Wizard!Slots
    /\ t.stage # "none" => Shape(t)
    /\ \A d \in t.slots :
          \/ s5.classes[d] = 1
          \/ \E k \in DOMAIN t.todo : t.todo[k] = Wizard!Slot(d) /\ (t.stage = "yes" => k > 1)
    /\ t.stage = "yes" /\ Head(t.todo) \in Wizard!Slots => s5.staff
    /\ t.stage \in {"warns", "clash"} => Head(t.todo) = <<"check">>
    /\ t.stage = "lost" \/ (t.stage = "no" /\ Head(t.todo) = Wizard!Account) => s9 > 0

OfTheTries ==
    Wizard!Apart /\ Wizard!ClassesLast /\ Wizard!NoneForgotten /\ Wizard!ClassHasTeacher
    /\ Wizard!StagesTell

LEMMA SaneTries ==
  ASSUME OfTheTries
  PROVE  /\ s1 # "schedule" => s4[2].stage = "none"
         /\ \A i \in Wizard!Turns : Sane(s4[i])
<1> USE DEF OfTheTries, Wizard!Turns
<1>1. s1 # "schedule" => s4[2].stage = "none"
  BY DEF Wizard!Apart, Wizard!Idle
<1>2. ASSUME NEW i \in Wizard!Turns PROVE Sane(s4[i])
  <2>1. s1 = "schedule" => \A k \in DOMAIN s4[i].todo :
                              s4[i].todo[k] \in {<<"check">>} \cup Wizard!Slots
    BY <1>2 DEF Wizard!Apart
  <2>2. s4[i].stage # "none" => Shape(s4[i])
    BY <1>2 DEF Wizard!ClassesLast, Wizard!Idle, Wizard!Doing, Shape
  <2>3. s4[i].stage = "yes" /\ Head(s4[i].todo) \in Wizard!Slots => s5.staff
    BY <1>2 DEF Wizard!ClassHasTeacher, Wizard!Doing
  <2>4. /\ s4[i].stage \in {"warns", "clash"} => Head(s4[i].todo) = <<"check">>
        /\ s4[i].stage = "lost" \/ (s4[i].stage = "no" /\ Head(s4[i].todo) = Wizard!Account)
           => s9 > 0
    BY <1>2 DEF Wizard!StagesTell, Wizard!Doing
  <2>5. \A d \in s4[i].slots :
           \/ s5.classes[d] = 1
           \/ \E k \in DOMAIN s4[i].todo :
                 s4[i].todo[k] = Wizard!Slot(d) /\ (s4[i].stage = "yes" => k > 1)
    BY <1>2 DEF Wizard!NoneForgotten
  <2>6. QED
    BY <2>1, <2>2, <2>3, <2>4, <2>5 DEF Sane
<1>3. QED
  BY <1>1, <1>2

\* At the next state, the other way round.
LEMMA TriesAgain ==
  ASSUME (s1 # "schedule" => s4[2].stage = "none")',
         (\A i \in Wizard!Turns : Sane(s4[i]))'
  PROVE  OfTheTries'
<1> USE DEF Sane, Wizard!Turns
<1>1. Wizard!Apart' /\ Wizard!ClassHasTeacher' /\ Wizard!StagesTell'
  BY DEF Wizard!Apart, Wizard!Idle, Wizard!ClassHasTeacher, Wizard!StagesTell, Wizard!Doing
<1>2. Wizard!ClassesLast'
  BY DEF Wizard!ClassesLast, Wizard!Idle, Wizard!Doing, Shape
<1>3. Wizard!NoneForgotten'
  BY DEF Wizard!NoneForgotten
<1>4. QED
  BY <1>1, <1>2, <1>3 DEF OfTheTries

LEMMA TryFacts ==
  ASSUME NEW t \in Wizard!Tries
  PROVE  /\ t.todo \in Seq(Wizard!Calls) /\ Len(t.todo) \in Nat /\ t.slots \subseteq Days
         /\ DOMAIN t.todo = 1..Len(t.todo)
         /\ t.todo # << >> => Len(t.todo) > 0 /\ Head(t.todo) = t.todo[1]
<1>1. t.todo \in Seq(Wizard!Calls) /\ t.slots \subseteq Days
  BY DEF Wizard!Tries
<1>2. QED
  BY <1>1, EmptySeq

LEMMA NoTryFacts ==
  /\ Wizard!NoTry \in Wizard!Tries /\ Wizard!NoTry.stage = "none"
  /\ Wizard!NoTry.slots = {} /\ Wizard!NoTry.todo = << >>
BY EmptySeq DEF Wizard!NoTry, Wizard!Tries

\* Who has nothing under way asks for nothing.
LEMMA NoTrySane ==
  ASSUME NEW i \in Wizard!Turns, s4'[i] = Wizard!NoTry
  PROVE  Sane(s4[i])'
BY NoTryFacts, EmptySeq DEF Sane

\* The one try there may be, unless the dialog is that of the classes.
LEMMA ActingTry ==
  ASSUME Wizard!WizardInv, NEW i \in Wizard!Turns, ~Wizard!Idle(i)
  PROVE  /\ s1 # "schedule" => i = 1
         /\ s4[i] \in Wizard!Tries /\ Sane(s4[i]) /\ Shape(s4[i])
         /\ Wizard!Doing(i) = Head(s4[i].todo) /\ Head(s4[i].todo) = s4[i].todo[1]
         /\ Len(s4[i].todo) \in Nat /\ Len(s4[i].todo) > 0
         /\ DOMAIN s4[i].todo = 1..Len(s4[i].todo)
         /\ Wizard!Doing(i) \in Wizard!Calls
         /\ s1 = "schedule" => Wizard!Doing(i) \in {<<"check">>} \cup Wizard!Slots
         /\ s2.languages => s2.fresh /\ s1 = "teacher"
         /\ s7 # {} => s1 = "schedule" /\ ~s3.open
<1>1. OfTheTries /\ Wizard!WizardTypeOK /\ Wizard!DoneIsOver
  BY DEF Wizard!WizardInv, OfTheTries
<1>2. s4[i] \in Wizard!Tries /\ Sane(s4[i]) /\ s4[i].stage # "none"
  BY <1>1, SaneTries DEF Wizard!WizardTypeOK, Wizard!Idle
<1>3. Shape(s4[i])
  BY <1>2 DEF Sane
<1>4. s1 # "schedule" => i = 1
  BY <1>1, <1>2, SaneTries DEF Wizard!Turns
<1>5. /\ Head(s4[i].todo) = s4[i].todo[1] /\ Len(s4[i].todo) \in Nat /\ Len(s4[i].todo) > 0
      /\ DOMAIN s4[i].todo = 1..Len(s4[i].todo) /\ s4[i].todo \in Seq(Wizard!Calls)
  BY <1>2, <1>3, TryFacts DEF Shape
<1>6. 1 \in DOMAIN s4[i].todo
  BY <1>5
<1>7. s4[i].todo[1] \in Wizard!Calls
  BY <1>5, <1>6, ElementOfSeq
<1>8. s1 = "schedule" => s4[i].todo[1] \in {<<"check">>} \cup Wizard!Slots
  BY <1>2, <1>6 DEF Sane
<1>9. (s2.languages => s2.fresh /\ s1 = "teacher")
  BY <1>1 DEF Wizard!WizardTypeOK
<1>10. s7 # {} => s1 = "schedule" /\ ~s3.open
  BY <1>1, <1>2, <1>4 DEF Wizard!DoneIsOver, Wizard!Idle
<1>11. Wizard!Doing(i) = Head(s4[i].todo)
  BY DEF Wizard!Doing
<1>12. QED
  BY <1>2, <1>3, <1>4, <1>5, <1>7, <1>8, <1>9, <1>10, <1>11

\* One try goes on; what the other rests on is still there.
LEMMA OneTryMoves ==
  ASSUME Wizard!WizardInv, Wizard!WizardTypeOK', NEW i \in Wizard!Turns,
         s1' = s1, s2' = s2, s9' >= s9,
         s1 # "schedule" => i = 1,
         \A j \in Wizard!Turns \ {i} : s4'[j] = s4[j],
         s3'.account = s3.account \/ s1 # "schedule",
         (s5.staff => s5'.staff) \/ s1 # "schedule",
         \A d \in Days : s5.classes[d] = 1 => s5'.classes[d] = 1,
         Sane(s4[i])'
  PROVE  OfTheTries'
<1>1. OfTheTries /\ Wizard!WizardTypeOK
  BY DEF Wizard!WizardInv, OfTheTries
<1>2. (s1 # "schedule" => s4[2].stage = "none")'
  BY <1>1, SaneTries DEF Wizard!Turns
<1>3. ASSUME NEW j \in Wizard!Turns \ {i} PROVE Sane(s4[j])'
  <2>1. /\ s4'[j] = s4[j] /\ Sane(s4[j]) /\ s4[j] \in Wizard!Tries /\ s9 \in Nat /\ s9' \in Nat
        /\ s4[j].slots \subseteq Days
    BY <1>1, <1>3, SaneTries, TryFacts DEF Wizard!WizardTypeOK
  <2>2. \A d \in s4[j].slots :
           \/ s5'.classes[d] = 1
           \/ \E k \in DOMAIN s4[j].todo :
                 s4[j].todo[k] = Wizard!Slot(d) /\ (s4[j].stage = "yes" => k > 1)
    BY <2>1 DEF Sane
  <2>3. s4[j].stage = "lost" \/ (s4[j].stage = "no" /\ Head(s4[j].todo) = Wizard!Account)
        => s9' > 0
    BY <2>1 DEF Sane
  <2>4. CASE s1 = "schedule"
    <3>1. s4[j].stage # "none" => Shape(s4[j])'
      BY <2>1, <2>4 DEF Sane, Shape
    <3>2. QED
      BY <2>1, <2>2, <2>3, <2>4, <3>1 DEF Sane
  <2>5. CASE s1 # "schedule"
    <3>1. s4[j].stage = "none"
      BY <1>1, <2>5, SaneTries DEF Wizard!Turns
    <3>2. QED
      BY <2>1, <2>2, <2>5, <3>1 DEF Sane
  <2>6. QED
    BY <2>4, <2>5
<1>4. (\A j \in Wizard!Turns : Sane(s4[j]))'
  BY <1>3
<1>5. QED
  BY <1>2, <1>4, TriesAgain

\* The parts of the invariant, together.
LEMMA WizardParts ==
  ASSUME Wizard!WizardTypeOK', OfTheTries', Wizard!LanguagesFollow', Wizard!DoneIsOver',
         Wizard!AccountKnown', Wizard!SaysDoneWhenDone', Wizard!RetriesSkipTheAccount'
  PROVE  Wizard!WizardInv'
BY DEF Wizard!WizardInv, OfTheTries

LEMMA WizardInit == Wizard!Init => Wizard!WizardInv
<1> SUFFICES ASSUME Wizard!Init PROVE Wizard!WizardInv
  OBVIOUS
<1>1. s5.accounts = 0 /\ s5 \in Wizard!Things
  <2> DEFINE knows == {~s2.fresh}
  <2>1. s5 \in [accounts : {0}, languages : knows, courses : {0}, staff : BOOLEAN,
                classes : {[d \in Days |-> 0]}]
    BY DEF Wizard!Init
  <2>2. [d \in Days |-> 0] \in [Days -> 0..1] /\ knows \subseteq BOOLEAN
    OBVIOUS
  <2> HIDE DEF knows
  <2>3. QED
    BY <2>1, <2>2 DEF Wizard!Things
<1>2. s3 \in Wizard!Dialogs
  BY DEF Wizard!Init, Wizard!Dialogs
<1>3. /\ s4 \in [Wizard!Turns -> Wizard!Tries]
      /\ \A i \in Wizard!Turns : s4[i].stage = "none" /\ s4[i].slots = {} /\ s4[i].todo = << >>
  BY NoTryFacts DEF Wizard!Init
<1>4. Wizard!WizardTypeOK
  BY <1>1, <1>2, <1>3 DEF Wizard!Init, Wizard!WizardTypeOK, Wizard!Drafts
<1>5. Wizard!Apart /\ Wizard!ClassesLast
  BY <1>3, EmptySeq DEF Wizard!Apart, Wizard!ClassesLast, Wizard!Idle, Wizard!Turns
<1>6. Wizard!NoneForgotten /\ Wizard!ClassHasTeacher /\ Wizard!StagesTell
  BY <1>3 DEF Wizard!NoneForgotten, Wizard!ClassHasTeacher, Wizard!StagesTell
<1>7. Wizard!LanguagesFollow /\ Wizard!DoneIsOver /\ Wizard!AccountKnown
      /\ Wizard!SaysDoneWhenDone /\ Wizard!RetriesSkipTheAccount
  BY <1>1, <1>3
  DEF Wizard!Init, Wizard!LanguagesFollow, Wizard!DoneIsOver, Wizard!AccountKnown,
      Wizard!SaysDoneWhenDone, Wizard!RetriesSkipTheAccount
<1>8. QED
  BY <1>4, <1>5, <1>6, <1>7 DEF Wizard!WizardInv

\* A step that leaves the tries, what is made and what is promised.
LEMMA WizardBeside ==
  ASSUME Wizard!WizardInv, UNCHANGED <<s1, s4, s5, s7, s10>>,
         s2' \in Wizard!Drafts, s2'.fresh = s2.fresh, s2'.languages = s2.languages,
         s3' \in Wizard!Dialogs, s3'.account = s3.account,
         s3'.open => s3.open, s6' \subseteq Days, s9' \in Nat, s9' >= s9
  PROVE  Wizard!WizardInv'
<1> USE DEF Wizard!WizardInv
<1>1. s9 \in Nat
  BY DEF Wizard!WizardTypeOK
<1>2. Wizard!WizardTypeOK'
  BY DEF Wizard!WizardTypeOK
<1>3. Wizard!Apart' /\ Wizard!NoneForgotten' /\ Wizard!ClassHasTeacher'
  BY DEF Wizard!Apart, Wizard!Idle, Wizard!NoneForgotten, Wizard!ClassHasTeacher, Wizard!Doing
<1>4. Wizard!ClassesLast'
  BY DEF Wizard!ClassesLast, Wizard!Idle, Wizard!Doing
<1>5. Wizard!StagesTell'
  BY <1>1 DEF Wizard!StagesTell, Wizard!Doing
<1>6. Wizard!LanguagesFollow' /\ Wizard!DoneIsOver' /\ Wizard!SaysDoneWhenDone'
  BY DEF Wizard!LanguagesFollow, Wizard!DoneIsOver, Wizard!SaysDoneWhenDone, Wizard!Idle,
         Wizard!Doing
<1>7. Wizard!AccountKnown' /\ Wizard!RetriesSkipTheAccount'
  BY <1>1 DEF Wizard!AccountKnown, Wizard!RetriesSkipTheAccount, Wizard!Doing
<1>8. QED
  BY <1>2, <1>3, <1>4, <1>5, <1>6, <1>7

\* The request under way is refused, warned of, or its answer lost.
LEMMA TryFails ==
  ASSUME Wizard!WizardInv, NEW i \in Wizard!Turns, ~Wizard!Idle(i),
         NEW x \in {"no", "lost", "warns", "clash"},
         s4' = [s4 EXCEPT ![i].stage = x], UNCHANGED <<s1, s2, s3, s5, s6, s7, s10>>,
         s9' \in Nat, s9' >= s9, s4[i].stage = "yes" => s9' > 0,
         x \in {"warns", "clash"} => Wizard!Doing(i) = <<"check">>,
         x = "lost" \/ (x = "no" /\ Wizard!Doing(i) = Wizard!Account) => s9' > 0
  PROVE  Wizard!WizardInv'
<1>1. /\ s4 \in [Wizard!Turns -> Wizard!Tries] /\ s9 \in Nat /\ Wizard!WizardTypeOK
      /\ Wizard!LanguagesFollow /\ Wizard!AccountKnown /\ Wizard!SaysDoneWhenDone
      /\ Wizard!RetriesSkipTheAccount
  BY DEF Wizard!WizardTypeOK, Wizard!WizardInv
<1>2. /\ s1 # "schedule" => i = 1
      /\ s4[i] \in Wizard!Tries /\ Sane(s4[i]) /\ Shape(s4[i])
      /\ Wizard!Doing(i) = Head(s4[i].todo)
      /\ s7 # {} => s1 = "schedule" /\ ~s3.open
  BY ActingTry
<1>3. /\ s4'[i] \in Wizard!Tries /\ s4'[i].stage = x /\ s4'[i].todo = s4[i].todo
      /\ s4'[i].slots = s4[i].slots
      /\ s4' \in [Wizard!Turns -> Wizard!Tries] /\ \A j \in Wizard!Turns \ {i} : s4'[j] = s4[j]
  <2> DEFINE t == [s4[i] EXCEPT !.stage = x]
  <2>1. t \in Wizard!Tries /\ t.stage = x /\ t.todo = s4[i].todo /\ t.slots = s4[i].slots
    BY <1>2 DEF Wizard!Tries
  <2>2. s4' = [s4 EXCEPT ![i] = t]
    OBVIOUS
  <2> HIDE DEF t
  <2>3. QED
    BY <1>1, <2>1, <2>2
<1>4. Wizard!WizardTypeOK'
  BY <1>1, <1>3 DEF Wizard!WizardTypeOK
<1>5. Sane(s4[i])'
  <2>1. Shape(s4[i])'
    BY <1>2, <1>3 DEF Shape
  <2>2. QED
    BY <1>2, <1>3, <2>1 DEF Sane
<1>6. OfTheTries'
  BY <1>1, <1>2, <1>3, <1>4, <1>5, OneTryMoves
<1>7. Wizard!LanguagesFollow'
  BY <1>1, <1>3 DEF Wizard!LanguagesFollow, Wizard!Idle, Wizard!Doing, Wizard!Turns
<1>8. Wizard!DoneIsOver' /\ Wizard!SaysDoneWhenDone' /\ Wizard!RetriesSkipTheAccount'
  BY <1>1, <1>2 DEF Wizard!DoneIsOver, Wizard!SaysDoneWhenDone, Wizard!RetriesSkipTheAccount
<1>9. Wizard!AccountKnown'
  <2> SUFFICES ASSUME s9' = 0, s5.accounts # 0, ~s3.account
               PROVE  s4'[1].stage = "yes" /\ Wizard!Doing(1)' = Wizard!Account
    BY DEF Wizard!AccountKnown
  <2>1. s9 = 0
    BY <1>1
  <2>2. s4[1].stage = "yes" /\ Wizard!Doing(1) = Wizard!Account
    BY <1>1, <2>1 DEF Wizard!AccountKnown
  <2>3. i # 1
    BY <2>2
  <2>4. s4'[1] = s4[1]
    BY <1>3, <2>3 DEF Wizard!Turns
  <2>5. QED
    BY <2>2, <2>4 DEF Wizard!Doing
<1>10. QED
  BY <1>4, <1>6, <1>7, <1>8, <1>9, WizardParts

LEMMA NotEmpty ==
  ASSUME NEW s, Len(s) > 0
  PROVE  s # << >>
<1>1. Len(<< >>) = 0
  BY EmptySeq
<1>2. ASSUME s = << >> PROVE FALSE
  BY <1>1, <1>2
<1>3. QED
  BY <1>2

\* Short sequences one after another.
LEMMA Joined ==
  ASSUME NEW a, NEW b, NEW c
  PROVE  /\ <<a>> \o << >> = <<a>>
         /\ <<a>> \o <<b>> = <<a, b>>
         /\ <<a>> \o <<b, c>> = <<a, b, c>>
         /\ << >> \o <<b, c>> = <<b, c>>
         /\ \A d : <<a, d>> \o <<b, c>> = <<a, d, b, c>>
<1>1. <<a>> \o << >> = <<a>>
  OBVIOUS
<1> DEFINE S == {a, b, c}
<1>2. <<a>> \o <<b>> = <<a, b>>
  <2>1. <<a>> \in Seq(S) /\ <<b>> \in Seq(S) /\ <<a, b>> \in Seq(S)
    OBVIOUS
  <2>2. <<a>> \o <<b>> \in Seq(S) /\ Len(<<a>> \o <<b>>) = 2
        /\ \A i \in 1..2 : (<<a>> \o <<b>>)[i] = IF i <= 1 THEN <<a>>[i] ELSE <<b>>[i - 1]
    BY <2>1, ConcatProperties
  <2> DEFINE s == <<a>> \o <<b>>
  <2>3. s \in Seq(S) /\ Len(s) = 2 /\ s[1] = a /\ s[2] = b
    BY <2>2
  <2> HIDE DEF s
  <2>4. \A i \in 1..Len(s) : s[i] = <<a, b>>[i]
    BY <2>3
  <2>5. s = <<a, b>>
    BY <2>1, <2>3, <2>4, SeqEqual
  <2>6. QED
    BY <2>5 DEF s
<1>3. <<a>> \o <<b, c>> = <<a, b, c>>
  <2>1. <<a>> \in Seq(S) /\ <<b, c>> \in Seq(S) /\ <<a, b, c>> \in Seq(S)
    OBVIOUS
  <2>2. <<a>> \o <<b, c>> \in Seq(S) /\ Len(<<a>> \o <<b, c>>) = 3
        /\ \A i \in 1..3 : (<<a>> \o <<b, c>>)[i] = IF i <= 1 THEN <<a>>[i] ELSE <<b, c>>[i - 1]
    BY <2>1, ConcatProperties
  <2> DEFINE s == <<a>> \o <<b, c>>
  <2>3. s \in Seq(S) /\ Len(s) = 3 /\ s[1] = a /\ s[2] = b /\ s[3] = c
    BY <2>2
  <2> HIDE DEF s
  <2>4. \A i \in 1..Len(s) : s[i] = <<a, b, c>>[i]
    BY <2>3
  <2>5. s = <<a, b, c>>
    BY <2>1, <2>3, <2>4, SeqEqual
  <2>6. QED
    BY <2>5 DEF s
<1>4. << >> \o <<b, c>> = <<b, c>>
  OBVIOUS
<1>5. ASSUME NEW d PROVE <<a, d>> \o <<b, c>> = <<a, d, b, c>>
  <2> DEFINE T == {a, b, c, d}
             s == <<a, d>> \o <<b, c>>
  <2>1. <<a, d>> \in Seq(T) /\ <<b, c>> \in Seq(T) /\ <<a, d, b, c>> \in Seq(T)
    OBVIOUS
  <2>2. s \in Seq(T) /\ Len(s) = 4
        /\ \A i \in 1..4 : s[i] = IF i <= 2 THEN <<a, d>>[i] ELSE <<b, c>>[i - 2]
    BY <2>1, ConcatProperties
  <2>3. s \in Seq(T) /\ Len(s) = 4 /\ s[1] = a /\ s[2] = d /\ s[3] = b /\ s[4] = c
    BY <2>2
  <2> HIDE DEF s
  <2>4. \A i \in 1..Len(s) : s[i] = <<a, d, b, c>>[i]
    BY <2>3
  <2>5. s = <<a, d, b, c>>
    BY <2>1, <2>3, <2>4, SeqEqual
  <2>6. QED
    BY <2>5 DEF s
<1>6. QED
  BY <1>1, <1>2, <1>3, <1>4, <1>5

LEMMA One ==
  ASSUME NEW S, NEW a \in S
  PROVE  <<a>> \in Seq(S) /\ Len(<<a>>) = 1 /\ <<a>>[1] = a
OBVIOUS

LEMMA Two ==
  ASSUME NEW S, NEW a \in S, NEW b \in S
  PROVE  <<a, b>> \in Seq(S) /\ Len(<<a, b>>) = 2 /\ <<a, b>>[1] = a /\ <<a, b>>[2] = b
OBVIOUS

LEMMA Three ==
  ASSUME NEW S, NEW a \in S, NEW b \in S, NEW c \in S
  PROVE  /\ <<a, b, c>> \in Seq(S) /\ Len(<<a, b, c>>) = 3
         /\ <<a, b, c>>[1] = a /\ <<a, b, c>>[2] = b /\ <<a, b, c>>[3] = c
OBVIOUS

LEMMA Four ==
  ASSUME NEW S, NEW a \in S, NEW b \in S, NEW c \in S, NEW d \in S
  PROVE  /\ <<a, b, c, d>> \in Seq(S) /\ Len(<<a, b, c, d>>) = 4
         /\ <<a, b, c, d>>[1] = a /\ <<a, b, c, d>>[2] = b /\ <<a, b, c, d>>[3] = c
         /\ <<a, b, c, d>>[4] = d
OBVIOUS

\* A try that is given up, and what it stopped at.
LEMMA TryEnds ==
  ASSUME Wizard!WizardInv, NEW i \in Wizard!Turns, ~Wizard!Idle(i),
         s4[i].stage \in {"no", "lost", "warns", "clash"},
         s4' = [s4 EXCEPT ![i] = Wizard!NoTry],
         s3' \in Wizard!Dialogs, s3'.account = s3.account, s3'.open = s3.open,
         UNCHANGED <<s1, s2, s5, s6, s7, s9>>,
         s10' = s10 \/ s10' = s10 \cup ({Wizard!Doing(i)} \cap {Wizard!Account, Wizard!Languages}),
         s4[i].stage \in {"no", "lost"} => Wizard!Doing(i) # Wizard!Languages \/ Wizard!Languages \in s10'
  PROVE  Wizard!WizardInv'
<1>1. /\ s4 \in [Wizard!Turns -> Wizard!Tries] /\ s9 \in Nat /\ Wizard!WizardTypeOK
      /\ Wizard!LanguagesFollow /\ Wizard!AccountKnown /\ Wizard!SaysDoneWhenDone
      /\ Wizard!RetriesSkipTheAccount
  BY DEF Wizard!WizardTypeOK, Wizard!WizardInv
<1>2. /\ s1 # "schedule" => i = 1
      /\ s4[i] \in Wizard!Tries /\ Sane(s4[i])
      /\ Wizard!Doing(i) = Head(s4[i].todo)
      /\ s7 # {} => s1 = "schedule" /\ ~s3.open
  BY ActingTry
<1>3. /\ s4'[i] = Wizard!NoTry /\ s4'[i].stage = "none"
      /\ s4' \in [Wizard!Turns -> Wizard!Tries] /\ \A j \in Wizard!Turns \ {i} : s4'[j] = s4[j]
  BY <1>1, NoTryFacts
<1>4. Wizard!WizardTypeOK'
  <2>1. s10' \subseteq {Wizard!Account, Wizard!Languages}
    BY <1>1 DEF Wizard!WizardTypeOK
  <2>2. QED
    BY <1>1, <1>3, <2>1 DEF Wizard!WizardTypeOK
<1>5. Sane(s4[i])'
  BY <1>3, NoTrySane
<1>6. OfTheTries'
  BY <1>1, <1>2, <1>3, <1>4, <1>5, OneTryMoves
<1>7. Wizard!LanguagesFollow'
  <2> SUFFICES ASSUME s2.languages, s3.account, ~s5.languages, Wizard!Languages \notin s10'
               PROVE  ~Wizard!Idle(1)' /\ (Wizard!Doing(1) = Wizard!Languages)' /\ s4'[1].stage # "yes"
    BY DEF Wizard!LanguagesFollow
  <2>1. ~Wizard!Idle(1) /\ Wizard!Doing(1) = Wizard!Languages /\ s4[1].stage # "yes"
    BY <1>1 DEF Wizard!LanguagesFollow
  <2>2. i # 1
    <3> SUFFICES ASSUME i = 1 PROVE FALSE
      OBVIOUS
    <3>1. s4[i].stage \in {"warns", "clash"}
      BY <2>1
    <3>2. Wizard!Doing(i) = <<"check">>
      BY <1>2, <3>1 DEF Sane
    <3>3. QED
      BY <2>1, <3>2, RequestsApart
  <2>3. s4'[1] = s4[1]
    BY <1>3, <2>2 DEF Wizard!Turns
  <2>4. QED
    BY <2>1, <2>3 DEF Wizard!Idle, Wizard!Doing
<1>8. Wizard!DoneIsOver'
  BY <1>1, <1>2 DEF Wizard!DoneIsOver
<1>9. Wizard!SaysDoneWhenDone'
  BY <1>1 DEF Wizard!SaysDoneWhenDone
<1>10. Wizard!RetriesSkipTheAccount'
  <2> SUFFICES ASSUME Wizard!Account \in s10', Wizard!Account \notin s10 PROVE s9 > 0
    BY <1>1 DEF Wizard!RetriesSkipTheAccount
  <2>1. Wizard!Doing(i) = Wizard!Account
    OBVIOUS
  <2>2. s4[i].stage \notin {"warns", "clash"}
    BY <1>2, <2>1, RequestsApart DEF Sane
  <2>3. QED
    BY <1>2, <2>1, <2>2 DEF Sane
<1>11. Wizard!AccountKnown'
  <2> SUFFICES ASSUME s9 = 0, s5.accounts # 0, ~s3.account
               PROVE  s4'[1].stage = "yes" /\ (Wizard!Doing(1) = Wizard!Account)'
    BY DEF Wizard!AccountKnown
  <2>1. s4[1].stage = "yes" /\ Wizard!Doing(1) = Wizard!Account
    BY <1>1 DEF Wizard!AccountKnown
  <2>2. i # 1
    BY <2>1
  <2>3. s4'[1] = s4[1]
    BY <1>3, <2>2 DEF Wizard!Turns
  <2>4. QED
    BY <2>1, <2>3 DEF Wizard!Doing
<1>12. QED
  BY <1>4, <1>6, <1>7, <1>8, <1>9, <1>10, <1>11, WizardParts

\* The next request of a try.  What is left behind is made, or was only to assign.
LEMMA TryGoesOn ==
  ASSUME Wizard!WizardInv, NEW i \in Wizard!Turns, ~Wizard!Idle(i), Len(s4[i].todo) > 1,
         s4[i].stage = "yes" \/ (s4[i].stage # "yes" /\ Wizard!Doing(i) = <<"staff">>),
         s4' = [s4 EXCEPT ![i] = [@ EXCEPT !.stage = "asked", !.todo = Tail(s4[i].todo)]],
         s3' \in Wizard!Dialogs, s3'.open = s3.open,
         s3'.account <=> (s3.account \/ (s4[i].stage = "yes" /\ Wizard!Doing(i) = Wizard!Account)),
         UNCHANGED <<s1, s2, s5, s6, s7, s9, s10>>
  PROVE  Wizard!WizardInv'
<1> DEFINE todo == s4[i].todo
           rest == Tail(s4[i].todo)
<1>1. /\ s4 \in [Wizard!Turns -> Wizard!Tries] /\ s9 \in Nat /\ Wizard!WizardTypeOK
      /\ Wizard!LanguagesFollow /\ Wizard!AccountKnown /\ Wizard!SaysDoneWhenDone
      /\ Wizard!RetriesSkipTheAccount /\ s3 \in Wizard!Dialogs
  BY DEF Wizard!WizardTypeOK, Wizard!WizardInv
<1>2. /\ s1 # "schedule" => i = 1
      /\ s4[i] \in Wizard!Tries /\ Sane(s4[i]) /\ Shape(s4[i])
      /\ Wizard!Doing(i) = todo[1] /\ Head(todo) = todo[1]
      /\ Len(todo) \in Nat /\ Len(todo) > 0 /\ DOMAIN todo = 1..Len(todo)
      /\ s1 = "schedule" => Wizard!Doing(i) \in {<<"check">>} \cup Wizard!Slots
      /\ s2.languages => s2.fresh /\ s1 = "teacher"
      /\ s7 # {} => s1 = "schedule" /\ ~s3.open
      /\ todo \in Seq(Wizard!Calls)
  BY ActingTry, TryFacts
<1>3. /\ rest \in Seq(Wizard!Calls) /\ Len(rest) = Len(todo) - 1
      /\ DOMAIN rest = 1..(Len(todo) - 1) /\ rest # << >> /\ Head(rest) = rest[1]
      /\ \A k \in 1..(Len(todo) - 1) : rest[k] = todo[k + 1]
  <2>1. todo # << >>
    BY <1>2 DEF Shape
  <2>2. /\ rest \in Seq(Wizard!Calls) /\ Len(rest) = Len(todo) - 1
        /\ \A k \in 1..Len(rest) : rest[k] = todo[k + 1]
    BY <1>2, <2>1, HeadTailProperties
  <2>3. rest # << >>
    <3>1. Len(rest) > 0
      BY <1>2, <2>2
    <3>2. QED
      BY <3>1, NotEmpty
  <2>4. Head(rest) = rest[1]
    BY <2>2, <2>3
  <2>5. QED
    BY <1>2, <2>2, <2>3, <2>4
<1>4. /\ s4'[i] \in Wizard!Tries /\ s4'[i].stage = "asked" /\ s4'[i].todo = rest
      /\ s4'[i].slots = s4[i].slots
      /\ s4' \in [Wizard!Turns -> Wizard!Tries] /\ \A j \in Wizard!Turns \ {i} : s4'[j] = s4[j]
  <2> DEFINE t == [s4[i] EXCEPT !.stage = "asked", !.todo = rest]
  <2>1. s4' = [s4 EXCEPT ![i] = t]
    OBVIOUS
  <2> HIDE DEF rest
  <2>2. t \in Wizard!Tries /\ t.stage = "asked" /\ t.todo = rest /\ t.slots = s4[i].slots
    BY <1>2, <1>3 DEF Wizard!Tries
  <2> HIDE DEF t
  <2>3. QED
    BY <1>1, <2>1, <2>2
<1> HIDE DEF rest, todo
<1>5. Wizard!WizardTypeOK'
  BY <1>1, <1>4 DEF Wizard!WizardTypeOK
<1>6. s2.fresh => s3'.account
  BY <1>2, RequestsApart DEF Shape, todo, Wizard!Dialogs
<1>7. Sane(s4[i])'
  <2>1. \A k \in DOMAIN rest : k + 1 \in DOMAIN todo /\ k + 1 > 1 /\ rest[k] = todo[k + 1]
    BY <1>2, <1>3
  <2>2. Shape(s4[i])'
    <3>1. rest[Len(rest)] \in Wizard!Slots
      BY <1>2, <1>3 DEF Shape, todo
    <3>2. \A k \in DOMAIN rest : rest[k] # Wizard!Account
      BY <1>2, <2>1 DEF Shape, todo
    <3>3. rest[1] # Wizard!Account
      BY <1>2, <1>3, <3>2
    <3>4. QED
      BY <1>3, <1>4, <1>6, <3>1, <3>2, <3>3 DEF Shape
  <2>3. s1 = "schedule" => \A k \in DOMAIN rest : rest[k] \in {<<"check">>} \cup Wizard!Slots
    BY <1>2, <2>1 DEF Sane, todo
  <2>4. ASSUME NEW d \in s4[i].slots, s5.classes[d] # 1
        PROVE  \E k \in DOMAIN rest : rest[k] = Wizard!Slot(d)
    <3>1. PICK k \in DOMAIN todo : todo[k] = Wizard!Slot(d) /\ (s4[i].stage = "yes" => k > 1)
      BY <1>2, <2>4 DEF Sane, todo
    <3>2. k > 1
      <4>1. CASE s4[i].stage = "yes"
        BY <3>1, <4>1
      <4>2. CASE s4[i].stage # "yes"
        <5>1. k # 1
          BY <1>2, <3>1, <4>2, SlotApart
        <5>2. QED
          BY <1>2, <5>1
      <4>3. QED
        BY <4>1, <4>2
    <3>3. k - 1 \in DOMAIN rest /\ rest[k - 1] = Wizard!Slot(d)
      BY <1>2, <1>3, <3>1, <3>2
    <3>4. QED
      BY <3>3
  <2>5. QED
    BY <1>4, <2>2, <2>3, <2>4 DEF Sane
<1>8. OfTheTries'
  <2>1. s3'.account = s3.account \/ s1 # "schedule"
    <3>1. CASE s1 = "schedule"
      <4>1. Wizard!Doing(i) # Wizard!Account
        BY <1>2, <3>1, RequestsApart
      <4>2. s3'.account \in BOOLEAN /\ s3.account \in BOOLEAN /\ (s3'.account <=> s3.account)
        BY <1>1, <4>1 DEF Wizard!Dialogs
      <4>3. QED
        BY <4>2
    <3>2. QED
      BY <3>1
  <2>2. s9' >= s9
    BY <1>1
  <2>3. QED
    BY <1>2, <1>4, <1>5, <1>7, <2>1, <2>2, OneTryMoves
<1>9. Wizard!LanguagesFollow'
  <2> SUFFICES ASSUME s2.languages, s3'.account, ~s5.languages, Wizard!Languages \notin s10
               PROVE  ~Wizard!Idle(1)' /\ (Wizard!Doing(1) = Wizard!Languages)' /\ s4'[1].stage # "yes"
    BY DEF Wizard!LanguagesFollow
  <2>1. i = 1
    BY <1>2
  <2>2. ~s3.account
    <3> SUFFICES ASSUME s3.account PROVE FALSE
      OBVIOUS
    <3>1. Wizard!Doing(1) = Wizard!Languages /\ s4[1].stage # "yes"
      BY <1>1 DEF Wizard!LanguagesFollow
    <3>2. QED
      BY <2>1, <3>1, RequestsApart
  <2>3. todo[2] = Wizard!Languages
    BY <1>2, <2>2 DEF Shape, todo
  <2>4. rest[1] = Wizard!Languages
    BY <1>2, <1>3, <2>3 DEF todo
  <2>5. QED
    BY <1>3, <1>4, <2>1, <2>4 DEF Wizard!Idle, Wizard!Doing
<1>10. Wizard!DoneIsOver' /\ Wizard!SaysDoneWhenDone' /\ Wizard!RetriesSkipTheAccount'
  BY <1>1, <1>2 DEF Wizard!DoneIsOver, Wizard!SaysDoneWhenDone, Wizard!RetriesSkipTheAccount
<1>11. Wizard!AccountKnown'
  <2> SUFFICES ASSUME s9 = 0, s5.accounts # 0, ~s3'.account
               PROVE  s4'[1].stage = "yes" /\ (Wizard!Doing(1) = Wizard!Account)'
    BY DEF Wizard!AccountKnown
  <2>1. s4[1].stage = "yes" /\ Wizard!Doing(1) = Wizard!Account
    BY <1>1 DEF Wizard!AccountKnown
  <2>2. i # 1
    BY <2>1
  <2>3. s4'[1] = s4[1]
    BY <1>4, <2>2 DEF Wizard!Turns
  <2>4. QED
    BY <2>1, <2>3 DEF Wizard!Doing
<1>12. QED
  BY <1>5, <1>8, <1>9, <1>10, <1>11, WizardParts

\* A new try: its steps, and then its classes in some order.
LEMMA TryBegins ==
  ASSUME Wizard!WizardInv, NEW i \in Wizard!Turns, Wizard!Submit(i)
  PROVE  Wizard!WizardInv'
<1> DEFINE force == s3.warned # {}
<1>1. /\ s2 \in Wizard!Drafts /\ s3 \in Wizard!Dialogs /\ s2.slots \in SUBSET Days /\ s2.slots # {}
      /\ s3.open /\ Wizard!Idle(i) /\ s3' = [s3 EXCEPT !.warned = {}]
      /\ UNCHANGED <<s1, s2, s5, s6, s7, s9, s10>> /\ s1 \in Wizard!Wizards
      /\ s4 \in [Wizard!Turns -> Wizard!Tries] /\ s9 \in Nat /\ Wizard!WizardTypeOK
      /\ (s2.fresh => s1 = "teacher") /\ (s2.languages => s2.fresh)
      /\ s2.fresh \in BOOLEAN /\ s2.languages \in BOOLEAN
  BY DEF Wizard!WizardInv, Wizard!WizardTypeOK, Wizard!Submit, Wizard!Drafts
<1>2. PICK list \in Wizard!Classes(s2.slots) :
        s4' = [s4 EXCEPT ![i] = [stage |-> "asked", todo |-> Wizard!Steps \o list,
                                 slots |-> s2.slots, force |-> force]]
  BY DEF Wizard!Submit
<1>3. s1 # "schedule" => i = 1
  BY DEF Wizard!Submit, Wizard!Waits, Wizard!Turns
<1> DEFINE n == Cardinality(s2.slots)
           few == Wizard!Steps
           todo == few \o list
<1>4. /\ list \in Seq({Wizard!Slot(d) : d \in s2.slots}) /\ Len(list) = n /\ n \in Nat
      /\ DOMAIN list = 1..n /\ n > 0
      /\ \A d \in s2.slots : \E k \in 1..n : list[k] = Wizard!Slot(d)
  <2>1. n \in Nat
    BY <1>1, ClientAssumption, FS_Subset, FS_CardinalityType
  <2>2. /\ list \in [1..n -> {Wizard!Slot(d) : d \in s2.slots}]
        /\ \A d \in s2.slots : \E k \in 1..n : list[k] = Wizard!Slot(d)
    BY <1>2, WizardCardinality DEF Wizard!Classes
  <2>3. n > 0
    BY <1>1, <2>1, <2>2
  <2>4. list \in Seq({Wizard!Slot(d) : d \in s2.slots}) /\ Len(list) = n
    BY <2>1, <2>2, IsASeq
  <2>5. QED
    BY <2>1, <2>2, <2>3, <2>4
<1>5. /\ few \in Seq(Wizard!Calls) /\ Len(few) \in Nat
      /\ \A k \in 1..Len(few) : few[k] = Wizard!Account => k = 1 /\ ~s3.account
      /\ s2.fresh /\ ~s3.account => Len(few) > 0 /\ few[1] = Wizard!Account
      /\ s2.languages /\ ~s3.account => Len(few) > 1 /\ few[2] = Wizard!Languages
      /\ s1 = "schedule" => \A k \in 1..Len(few) : few[k] = <<"check">>
  <2> DEFINE a == Wizard!Account
             l == Wizard!Languages
             c == <<"course">>
             s == <<"staff">>
             k == <<"check">>
  <2>1. \/ few \in {<<c>>, <<c, s>>} /\ s1 = "course"
        \/ few = <<s, k>> /\ s1 = "teacher" /\ (~s2.fresh \/ s3.account)
        \/ few = <<a, s, k>> /\ s1 = "teacher" /\ ~s2.languages /\ ~s3.account
        \/ few = <<a, l, s, k>> /\ s1 = "teacher" /\ ~s3.account
        \/ few = <<k>> /\ s1 = "schedule"
    <3>1. CASE s1 = "course"
      <4>1. few = <<c>> \o (IF s2.staffed THEN <<s>> ELSE << >>)
        BY <3>1 DEF Wizard!Steps, Wizard!CourseSteps
      <4> HIDE DEF few, a, l, c, s, k
      <4>2. few = <<c>> \o <<s>> \/ few = <<c>> \o << >>
        BY <4>1
      <4>3. QED
        BY <3>1, <4>2, Joined
    <3>2. CASE s1 = "teacher"
      <4>1. few = (IF ~s2.fresh \/ s3.account THEN << >>
                   ELSE IF s2.languages THEN <<a, l>> ELSE <<a>>) \o <<s, k>>
        BY <3>2 DEF Wizard!Steps, Wizard!TeacherSteps, Wizard!AccountSteps
      <4> HIDE DEF few, a, l, c, s, k
      <4>2. \/ few = << >> \o <<s, k>> /\ (~s2.fresh \/ s3.account)
            \/ few = <<a>> \o <<s, k>> /\ ~s2.languages /\ ~s3.account
            \/ few = <<a, l>> \o <<s, k>> /\ ~s3.account
        BY <4>1
      <4>3. QED
        BY <3>2, <4>2, Joined
    <3>3. CASE s1 = "schedule"
      BY <3>3 DEF Wizard!Steps, Wizard!ScheduleSteps
    <3>4. QED
      BY <1>1, <3>1, <3>2, <3>3 DEF Wizard!Wizards
  <2>2. a # c /\ a # s /\ a # k /\ a # l
    BY RequestsApart
  <2>3. a \in Wizard!Calls /\ l \in Wizard!Calls /\ c \in Wizard!Calls /\ s \in Wizard!Calls
        /\ k \in Wizard!Calls
    BY DEF Wizard!Calls
  <2>4. SUFFICES /\ few \in Seq(Wizard!Calls) /\ Len(few) \in Nat
                 /\ \A j \in 1..Len(few) : few[j] = a => j = 1 /\ ~s3.account
                 /\ s2.fresh /\ ~s3.account => Len(few) > 0 /\ few[1] = a
                 /\ s2.languages /\ ~s3.account => Len(few) > 1 /\ few[2] = l
                 /\ s1 = "schedule" => \A j \in 1..Len(few) : few[j] = k
    OBVIOUS
  <2> HIDE DEF few, a, l, c, s, k
  <2>5. CASE (few = <<c>> /\ s1 = "course") \/ (few = <<k>> /\ s1 = "schedule")
    <3>1. few \in Seq(Wizard!Calls) /\ Len(few) = 1
      BY <2>3, <2>5, One
    <3>2. (few[1] = c /\ s1 = "course") \/ (few[1] = k /\ s1 = "schedule")
      BY <2>3, <2>5, One
    <3>3. QED
      BY <1>1, <2>2, <3>1, <3>2
  <2>6. CASE \/ few = <<c, s>> /\ s1 = "course"
             \/ few = <<s, k>> /\ s1 = "teacher" /\ (~s2.fresh \/ s3.account)
    <3>1. few \in Seq(Wizard!Calls) /\ Len(few) = 2
      BY <2>3, <2>6, Two
    <3>2. (few[1] = c /\ few[2] = s) \/ (few[1] = s /\ few[2] = k)
      BY <2>3, <2>6, Two
    <3>3. QED
      BY <1>1, <2>2, <2>6, <3>1, <3>2
  <2>7. CASE few = <<a, s, k>> /\ s1 = "teacher" /\ ~s2.languages /\ ~s3.account
    <3>1. few \in Seq(Wizard!Calls) /\ Len(few) = 3
      BY <2>3, <2>7, Three
    <3>2. few[1] = a /\ few[2] = s /\ few[3] = k
      BY <2>3, <2>7, Three
    <3>3. QED
      BY <2>2, <2>7, <3>1, <3>2
  <2>8. CASE few = <<a, l, s, k>> /\ s1 = "teacher" /\ ~s3.account
    <3>1. few \in Seq(Wizard!Calls) /\ Len(few) = 4
      BY <2>3, <2>8, Four
    <3>2. few[1] = a /\ few[2] = l /\ few[3] = s /\ few[4] = k
      BY <2>3, <2>8, Four
    <3>3. QED
      BY <2>2, <2>8, <3>1, <3>2
  <2>9. QED
    BY <2>1, <2>5, <2>6, <2>7, <2>8
<1> HIDE DEF n, few, force
<1>6. /\ todo \in Seq(Wizard!Calls) /\ Len(todo) = Len(few) + n /\ DOMAIN todo = 1..(Len(few) + n)
      /\ \A k \in 1..(Len(few) + n) : todo[k] = IF k <= Len(few) THEN few[k] ELSE list[k - Len(few)]
  <2>1. list \in Seq(Wizard!Calls)
    <3>1. {Wizard!Slot(d) : d \in s2.slots} \subseteq Wizard!Calls
      BY <1>1 DEF Wizard!Calls, Wizard!Slots
    <3>2. \A k \in 1..n : list[k] \in Wizard!Calls
      BY <1>4, <3>1, ElementOfSeq
    <3>3. QED
      BY <1>4, <3>2, IsASeq
  <2>2. /\ todo \in Seq(Wizard!Calls) /\ Len(todo) = Len(few) + n
        /\ \A k \in 1..(Len(few) + n) :
              todo[k] = IF k <= Len(few) THEN few[k] ELSE list[k - Len(few)]
    BY <1>4, <1>5, <2>1, ConcatProperties
  <2>3. DOMAIN todo = 1..Len(todo)
    BY <2>2, LenProperties
  <2>4. QED
    BY <2>2, <2>3
<1>7. /\ s4'[i] \in Wizard!Tries /\ s4'[i].stage = "asked" /\ s4'[i].todo = todo
      /\ s4'[i].slots = s2.slots
      /\ s4' \in [Wizard!Turns -> Wizard!Tries] /\ \A j \in Wizard!Turns \ {i} : s4'[j] = s4[j]
  <2> DEFINE t == [stage |-> "asked", todo |-> todo, slots |-> s2.slots, force |-> force]
  <2>1. force \in BOOLEAN
    BY DEF force
  <2>2. s4' = [s4 EXCEPT ![i] = t]
    BY <1>2 DEF few
  <2> HIDE DEF todo
  <2>3. t \in Wizard!Tries /\ t.stage = "asked" /\ t.todo = todo /\ t.slots = s2.slots
    BY <1>1, <1>6, <2>1 DEF Wizard!Tries
  <2> HIDE DEF t
  <2>4. QED
    BY <1>1, <2>2, <2>3
<1>8. s3' \in Wizard!Dialogs /\ s3'.account = s3.account /\ s3'.open = s3.open
  BY <1>1 DEF Wizard!Dialogs
<1>9. \A k \in 1..n : \E d \in s2.slots : list[k] = Wizard!Slot(d)
  BY <1>4, ElementOfSeq
<1>10. \A k \in 1..n : list[k] \in Wizard!Slots /\ list[k] # Wizard!Account
  <2>1. \A k \in 1..n : list[k] \in Wizard!Slots
    BY <1>1, <1>9 DEF Wizard!Slots
  <2>2. QED
    BY <2>1, RequestsApart
<1>11. Wizard!WizardTypeOK'
  BY <1>1, <1>7, <1>8 DEF Wizard!WizardTypeOK
<1>12. \A k \in DOMAIN todo : \/ k \in 1..Len(few) /\ todo[k] = few[k]
                              \/ k - Len(few) \in 1..n /\ todo[k] = list[k - Len(few)]
  BY <1>4, <1>5, <1>6
<1>13. /\ todo # << >> /\ Head(todo) = todo[1] /\ todo[Len(todo)] \in Wizard!Slots
  <2>1. Len(todo) \in Nat /\ Len(todo) > 0 /\ todo[Len(todo)] = list[n]
    BY <1>4, <1>5, <1>6
  <2>2. todo # << >>
    BY <2>1, NotEmpty
  <2>3. n \in 1..n
    BY <1>4
  <2> HIDE DEF todo
  <2>4. QED
    BY <1>6, <1>10, <2>1, <2>2, <2>3
<1>14. \A k \in DOMAIN todo : todo[k] = Wizard!Account => k = 1 /\ ~s3.account
  BY <1>5, <1>10, <1>12
<1>15. s2.fresh /\ ~s3.account => todo[1] = Wizard!Account
  BY <1>4, <1>5, <1>6
<1>16. s2.languages /\ todo[1] = Wizard!Account => todo[2] = Wizard!Languages
  <2> SUFFICES ASSUME s2.languages, todo[1] = Wizard!Account PROVE todo[2] = Wizard!Languages
    OBVIOUS
  <2>1. 1 \in DOMAIN todo
    BY <1>4, <1>5, <1>6
  <2>2. ~s3.account
    BY <1>14, <2>1
  <2>3. QED
    BY <1>4, <1>5, <1>6, <2>2
<1>17. s1 = "schedule" => \A k \in DOMAIN todo : todo[k] \in {<<"check">>} \cup Wizard!Slots
  BY <1>5, <1>10, <1>12
<1>18. ASSUME NEW d \in s2.slots PROVE \E k \in DOMAIN todo : todo[k] = Wizard!Slot(d)
  <2>1. PICK k \in 1..n : list[k] = Wizard!Slot(d)
    BY <1>4, <1>18
  <2>2. Len(few) + k \in DOMAIN todo /\ todo[Len(few) + k] = list[k]
    BY <1>4, <1>5, <1>6
  <2>3. QED
    BY <2>1, <2>2
<1> HIDE DEF todo
<1>19. Sane(s4[i])'
  <2>1. Shape(s4[i])'
    BY <1>1, <1>7, <1>8, <1>13, <1>14, <1>15, <1>16 DEF Shape
  <2>2. QED
    BY <1>1, <1>7, <1>17, <1>18, <2>1 DEF Sane
<1>20. OfTheTries'
  <2>1. s9' >= s9
    BY <1>1
  <2>2. QED
    BY <1>1, <1>3, <1>7, <1>8, <1>11, <1>19, <2>1, OneTryMoves
<1>21. s7 = {}
  BY <1>1 DEF Wizard!WizardInv, Wizard!DoneIsOver
<1>22. Wizard!DoneIsOver' /\ Wizard!SaysDoneWhenDone' /\ Wizard!RetriesSkipTheAccount'
  BY <1>1, <1>21
  DEF Wizard!WizardInv, Wizard!DoneIsOver, Wizard!SaysDoneWhenDone, Wizard!RetriesSkipTheAccount
<1>23. Wizard!LanguagesFollow'
  <2> SUFFICES ASSUME s2.languages, s3.account
               PROVE  s5.languages \/ Wizard!Languages \in s10
    BY <1>1, <1>8 DEF Wizard!LanguagesFollow
  <2>1. i = 1
    BY <1>1, <1>3
  <2>2. QED
    BY <1>1, <2>1 DEF Wizard!WizardInv, Wizard!LanguagesFollow
<1>24. Wizard!AccountKnown'
  <2> SUFFICES ASSUME s9 = 0, s5.accounts # 0, ~s3.account
               PROVE  s4'[1].stage = "yes" /\ (Wizard!Doing(1) = Wizard!Account)'
    BY <1>1, <1>8 DEF Wizard!AccountKnown
  <2>1. s4[1].stage = "yes" /\ Wizard!Doing(1) = Wizard!Account
    BY DEF Wizard!WizardInv, Wizard!AccountKnown
  <2>2. i # 1
    BY <1>1, <2>1 DEF Wizard!Idle
  <2>3. s4'[1] = s4[1]
    BY <1>7, <2>2 DEF Wizard!Turns
  <2>4. QED
    BY <2>1, <2>3 DEF Wizard!Doing
<1>25. QED
  BY <1>11, <1>20, <1>22, <1>23, <1>24, WizardParts

\* What is carried out: a class is made once and with a teacher, an account once.
LEMMA WizardCarriesOut ==
  ASSUME Wizard!WizardInv, NEW i \in Wizard!Turns, ~Wizard!Idle(i), Wizard!Accepted(i)
  PROVE  /\ Wizard!Effect(i) \in Wizard!Things
         /\ Wizard!Found(i) \in {"yes", "warns", "clash"}
         /\ Wizard!Found(i) # "yes" => Wizard!Effect(i) = s5 /\ Wizard!Doing(i) = <<"check">>
         /\ \A d \in Days :
              /\ s5.classes[d] = 1 => Wizard!Effect(i).classes[d] = 1
              /\ Wizard!Doing(i) = Wizard!Slot(d) => Wizard!Effect(i).classes[d] = 1
         /\ Wizard!Doing(i) \in Wizard!Slots => Wizard!Effect(i).staff
         /\ Wizard!Doing(i) # <<"course">> => (s5.staff => Wizard!Effect(i).staff)
         /\ s5.languages => Wizard!Effect(i).languages
         /\ Wizard!Doing(i) = Wizard!Languages => Wizard!Effect(i).languages
         /\ Wizard!Doing(i) # Wizard!Account => Wizard!Effect(i).accounts = s5.accounts
<1> DEFINE done == Wizard!Effect(i)
           now == Wizard!Doing(i)
<1>1. s5 \in Wizard!Things /\ now \in Wizard!Calls
  BY ActingTry DEF Wizard!WizardInv, Wizard!WizardTypeOK
<1>2. /\ Wizard!Found(i) \in {"yes", "warns", "clash"}
      /\ Wizard!Found(i) # "yes" => now = <<"check">>
  BY DEF Wizard!Found
<1>3. \A d \in Days : Wizard!Slot(d) \in Wizard!Slots
  BY DEF Wizard!Slots
<1>4. CASE now = Wizard!Account
  <2>1. done = [s5 EXCEPT !.accounts = s5.accounts + 1] /\ s5.accounts = 0
    BY <1>4, RequestsApart DEF Wizard!Effect, Wizard!Accepted
  <2> HIDE DEF done, now
  <2>2. done \in Wizard!Things /\ done.classes = s5.classes /\ done.staff = s5.staff
        /\ done.languages = s5.languages
    BY <1>1, <2>1 DEF Wizard!Things
  <2>3. QED
    BY <1>2, <1>3, <1>4, <2>2, RequestsApart DEF done, now
<1>5. CASE now = Wizard!Languages
  <2>1. done = [s5 EXCEPT !.languages = TRUE]
    BY <1>5, RequestsApart DEF Wizard!Effect
  <2> HIDE DEF done, now
  <2>2. done \in Wizard!Things /\ done.classes = s5.classes /\ done.staff = s5.staff
        /\ done.accounts = s5.accounts /\ done.languages
    BY <1>1, <2>1 DEF Wizard!Things
  <2>3. QED
    BY <1>2, <1>3, <1>5, <2>2, RequestsApart DEF done, now
<1>6. CASE now = <<"course">>
  <2> DEFINE more == [s5 EXCEPT !.courses = s5.courses + 1]
  <2>1. done = [more EXCEPT !.staff = FALSE]
    BY <1>6, RequestsApart DEF Wizard!Effect
  <2> HIDE DEF done, now
  <2>2. done \in Wizard!Things /\ done.classes = s5.classes /\ done.accounts = s5.accounts
        /\ done.languages = s5.languages
    <3>1. more \in Wizard!Things /\ more.classes = s5.classes /\ more.accounts = s5.accounts
          /\ more.languages = s5.languages
      BY <1>1 DEF Wizard!Things
    <3> HIDE DEF more
    <3>2. QED
      BY <2>1, <3>1 DEF Wizard!Things
  <2>3. QED
    BY <1>2, <1>3, <1>6, <2>2, RequestsApart DEF done, now
<1>7. CASE now = <<"staff">>
  <2>1. done = [s5 EXCEPT !.staff = TRUE]
    BY <1>7, RequestsApart DEF Wizard!Effect
  <2> HIDE DEF done, now
  <2>2. done \in Wizard!Things /\ done.classes = s5.classes /\ done.accounts = s5.accounts
        /\ done.languages = s5.languages /\ done.staff
    BY <1>1, <2>1 DEF Wizard!Things
  <2>3. QED
    BY <1>2, <1>3, <1>7, <2>2, RequestsApart DEF done, now
<1>8. CASE now = <<"check">>
  <2>1. done = s5
    BY <1>8, RequestsApart DEF Wizard!Effect
  <2> HIDE DEF done, now
  <2>2. QED
    BY <1>1, <1>2, <1>3, <1>8, <2>1, RequestsApart DEF done, now
<1>9. CASE now \in Wizard!Slots
  <2>1. PICK d \in Days : now = Wizard!Slot(d)
    BY <1>9 DEF Wizard!Slots
  <2>2. now[2] = d /\ now \notin {Wizard!Account, Wizard!Languages, <<"course">>, <<"staff">>,
                                  <<"check">>}
    BY <1>9, <2>1, SlotApart, RequestsApart
  <2>3. Wizard!TakesClass(i, d) /\ done = Wizard!WithClass(d)
    BY <1>9, <2>2 DEF Wizard!Accepted, Wizard!Effect
  <2>4. s5.classes \in [Days -> 0..1] /\ s5.classes[d] = 0 /\ s5.staff
    BY <1>1, <2>3 DEF Wizard!TakesClass, Wizard!Clashes, Wizard!Teaches, Wizard!Things
  <2> DEFINE more == [s5.classes EXCEPT ![d] = s5.classes[d] + 1]
  <2>5. more \in [Days -> 0..1] /\ more[d] = 1 /\ \A e \in Days : e # d => more[e] = s5.classes[e]
    BY <2>4
  <2>6. done = [s5 EXCEPT !.classes = more]
    BY <2>3 DEF Wizard!WithClass
  <2> HIDE DEF done, more, now
  <2>7. done \in Wizard!Things /\ done.classes = more /\ done.accounts = s5.accounts
        /\ done.languages = s5.languages /\ done.staff = s5.staff
    BY <1>1, <2>5, <2>6 DEF Wizard!Things
  <2>8. \A e \in Days : s5.classes[e] = 1 => done.classes[e] = 1
    BY <2>4, <2>5, <2>7
  <2>9. \A e \in Days : now = Wizard!Slot(e) => done.classes[e] = 1
    <3>1. \A e \in Days : now = Wizard!Slot(e) => e = d
      BY <2>2, SlotApart
    <3>2. QED
      BY <2>5, <2>7, <3>1
  <2>10. QED
    BY <1>2, <1>9, <2>2, <2>4, <2>7, <2>8, <2>9 DEF done, now
<1>10. QED
  BY <1>1, <1>4, <1>5, <1>6, <1>7, <1>8, <1>9 DEF Wizard!Calls

LEMMA TryServed ==
  ASSUME Wizard!WizardInv, NEW i \in Wizard!Turns, Wizard!Serve(i)
  PROVE  Wizard!WizardInv'
<1>1. /\ s4 \in [Wizard!Turns -> Wizard!Tries] /\ s9 \in Nat /\ Wizard!WizardTypeOK
      /\ Wizard!LanguagesFollow /\ Wizard!AccountKnown /\ Wizard!SaysDoneWhenDone
      /\ Wizard!RetriesSkipTheAccount
  BY DEF Wizard!WizardTypeOK, Wizard!WizardInv
<1>2. s4[i].stage = "asked" /\ ~Wizard!Idle(i)
      /\ UNCHANGED <<s1, s2, s3, s6, s7, s8, s9, s10>>
  BY DEF Wizard!Serve, Wizard!Idle
<1>3. /\ s1 # "schedule" => i = 1
      /\ s4[i] \in Wizard!Tries /\ Sane(s4[i]) /\ Shape(s4[i])
      /\ Wizard!Doing(i) = Head(s4[i].todo) /\ Head(s4[i].todo) = s4[i].todo[1]
      /\ Len(s4[i].todo) \in Nat /\ Len(s4[i].todo) > 0 /\ DOMAIN s4[i].todo = 1..Len(s4[i].todo)
      /\ s1 = "schedule" => Wizard!Doing(i) \in {<<"check">>} \cup Wizard!Slots
      /\ s2.languages => s2.fresh /\ s1 = "teacher"
      /\ s7 # {} => s1 = "schedule" /\ ~s3.open
      /\ s4[i].slots \subseteq Days
  BY <1>2, ActingTry, TryFacts
<1>4. CASE ~Wizard!Accepted(i)
  <2>1. s4' = [s4 EXCEPT ![i].stage = "no"] /\ s5' = s5
    BY <1>4 DEF Wizard!Serve
  <2>2. Wizard!Doing(i) = Wizard!Account => s9 > 0
    <3> SUFFICES ASSUME Wizard!Doing(i) = Wizard!Account PROVE s9 > 0
      OBVIOUS
    <3>1. s5.accounts # 0
      BY <1>4, RequestsApart DEF Wizard!Accepted
    <3>2. ~s3.account
      BY <1>3 DEF Shape
    <3>3. i = 1
      BY <1>3, RequestsApart
    <3>4. s4[1].stage # "yes"
      BY <1>2, <3>3
    <3>5. QED
      BY <1>1, <3>1, <3>2, <3>4 DEF Wizard!AccountKnown
  <2>3. s9 >= s9
    BY <1>1
  <2>4. QED
    BY <1>1, <1>2, <2>1, <2>2, <2>3, TryFails
<1>5. CASE Wizard!Accepted(i)
  <2> DEFINE found == Wizard!Found(i)
             done == Wizard!Effect(i)
  <2>1. s4' = [s4 EXCEPT ![i].stage = found] /\ s5' = done
    BY <1>5 DEF Wizard!Serve
  <2>2. /\ done \in Wizard!Things /\ found \in {"yes", "warns", "clash"}
        /\ found # "yes" => done = s5 /\ Wizard!Doing(i) = <<"check">>
        /\ \A d \in Days :
              /\ s5.classes[d] = 1 => done.classes[d] = 1
              /\ Wizard!Doing(i) = Wizard!Slot(d) => done.classes[d] = 1
        /\ Wizard!Doing(i) \in Wizard!Slots => done.staff
        /\ Wizard!Doing(i) # <<"course">> => (s5.staff => done.staff)
        /\ s5.languages => done.languages
        /\ Wizard!Doing(i) = Wizard!Languages => done.languages
        /\ Wizard!Doing(i) # Wizard!Account => done.accounts = s5.accounts
    BY <1>2, <1>5, WizardCarriesOut
  <2> HIDE DEF found, done
  <2>3. CASE found # "yes"
    <3>1. found \in {"no", "lost", "warns", "clash"} /\ s5' = s5
          /\ found \notin {"no", "lost"} /\ Wizard!Doing(i) = <<"check">>
      BY <2>1, <2>2, <2>3
    <3>2. s9 >= s9
      BY <1>1
    <3>3. QED
      BY <1>1, <1>2, <2>1, <3>1, <3>2, TryFails
  <2>4. CASE found = "yes"
    <3>1. /\ s4'[i] \in Wizard!Tries /\ s4'[i].stage = "yes" /\ s4'[i].todo = s4[i].todo
          /\ s4'[i].slots = s4[i].slots
          /\ s4' \in [Wizard!Turns -> Wizard!Tries]
          /\ \A j \in Wizard!Turns \ {i} : s4'[j] = s4[j]
      <4> DEFINE t == [s4[i] EXCEPT !.stage = "yes"]
      <4>1. t \in Wizard!Tries /\ t.stage = "yes" /\ t.todo = s4[i].todo /\ t.slots = s4[i].slots
        BY <1>3 DEF Wizard!Tries
      <4>2. s4' = [s4 EXCEPT ![i] = t]
        BY <2>1, <2>4
      <4> HIDE DEF t
      <4>3. QED
        BY <1>1, <4>1, <4>2
    <3>2. Wizard!WizardTypeOK'
      BY <1>1, <1>2, <2>1, <2>2, <3>1 DEF Wizard!WizardTypeOK
    <3>3. Sane(s4[i])'
      <4>1. Shape(s4[i])'
        BY <1>2, <1>3, <3>1 DEF Shape
      <4>2. ASSUME NEW d \in s4[i].slots, done.classes[d] # 1
            PROVE  \E k \in DOMAIN s4[i].todo : s4[i].todo[k] = Wizard!Slot(d) /\ k > 1
        <5>1. d \in Days
          BY <1>3
        <5>2. PICK k \in DOMAIN s4[i].todo : s4[i].todo[k] = Wizard!Slot(d)
          BY <1>3, <2>2, <4>2, <5>1 DEF Sane
        <5>3. k # 1
          BY <1>3, <2>2, <4>2, <5>1, <5>2
        <5>4. QED
          BY <1>3, <5>2, <5>3
      <4>3. s1 = "schedule" => \A k \in DOMAIN s4[i].todo :
                                  s4[i].todo[k] \in {<<"check">>} \cup Wizard!Slots
        BY <1>3 DEF Sane
      <4>4. Head(s4[i].todo) \in Wizard!Slots => done.staff
        BY <1>3, <2>2
      <4>5. QED
        BY <1>2, <2>1, <3>1, <4>1, <4>2, <4>3, <4>4 DEF Sane
    <3>4. OfTheTries'
      <4>1. (s5.staff => s5'.staff) \/ s1 # "schedule"
        BY <1>3, <2>1, <2>2, RequestsApart
      <4>2. s9' >= s9 /\ s3'.account = s3.account /\ s1' = s1 /\ s2' = s2
        BY <1>1, <1>2
      <4>3. QED
        BY <1>3, <2>1, <2>2, <3>1, <3>2, <3>3, <4>1, <4>2, OneTryMoves
    <3>5. Wizard!LanguagesFollow'
      <4> SUFFICES ASSUME s2.languages, s3.account, ~done.languages, Wizard!Languages \notin s10
                   PROVE  ~Wizard!Idle(1)' /\ (Wizard!Doing(1) = Wizard!Languages)'
                          /\ s4'[1].stage # "yes"
        BY <1>2, <2>1 DEF Wizard!LanguagesFollow
      <4>1. i = 1
        BY <1>3
      <4>2. Wizard!Doing(1) = Wizard!Languages
        BY <1>1, <2>2 DEF Wizard!LanguagesFollow
      <4>3. QED
        BY <2>2, <4>1, <4>2
    <3>6. Wizard!DoneIsOver'
      BY <1>2, <1>3 DEF Wizard!DoneIsOver
    <3>7. Wizard!SaysDoneWhenDone'
      <4> SUFFICES ASSUME s7 # {}
                   PROVE  /\ done.staff /\ \A d \in s7 : done.classes[d] = 1
                          /\ s2.languages => done.languages \/ Wizard!Languages \in s10
        BY <1>2, <2>1 DEF Wizard!SaysDoneWhenDone
      <4>1. Wizard!Doing(i) # <<"course">>
        BY <1>3, RequestsApart
      <4>2. s7 \subseteq Days
        BY <1>1 DEF Wizard!WizardTypeOK
      <4>3. QED
        BY <1>1, <2>2, <4>1, <4>2 DEF Wizard!SaysDoneWhenDone
    <3>8. Wizard!RetriesSkipTheAccount'
      BY <1>1, <1>2 DEF Wizard!RetriesSkipTheAccount
    <3>9. Wizard!AccountKnown'
      <4> SUFFICES ASSUME s9 = 0, done.accounts # 0, ~s3.account
                   PROVE  s4'[1].stage = "yes" /\ (Wizard!Doing(1) = Wizard!Account)'
        BY <1>2, <2>1 DEF Wizard!AccountKnown
      <4>1. CASE Wizard!Doing(i) = Wizard!Account
        <5>1. i = 1
          BY <1>3, <4>1, RequestsApart
        <5>2. QED
          BY <3>1, <4>1, <5>1 DEF Wizard!Doing
      <4>2. CASE Wizard!Doing(i) # Wizard!Account
        <5>1. s4[1].stage = "yes" /\ Wizard!Doing(1) = Wizard!Account
          BY <1>1, <2>2, <4>2 DEF Wizard!AccountKnown
        <5>2. i # 1
          BY <4>2, <5>1
        <5>3. s4'[1] = s4[1]
          BY <3>1, <5>2 DEF Wizard!Turns
        <5>4. QED
          BY <5>1, <5>3 DEF Wizard!Doing
      <4>3. QED
        BY <4>1, <4>2
    <3>10. QED
      BY <3>2, <3>4, <3>5, <3>6, <3>7, <3>8, <3>9, WizardParts
  <2>5. QED
    BY <2>3, <2>4
<1>6. QED
  BY <1>4, <1>5

\* The last answer: what it announces is done.
LEMMA TryAnswered ==
  ASSUME Wizard!WizardInv, NEW i \in Wizard!Turns, Wizard!Proceed(i)
  PROVE  Wizard!WizardInv'
<1>1. /\ s4 \in [Wizard!Turns -> Wizard!Tries] /\ s9 \in Nat /\ Wizard!WizardTypeOK
      /\ Wizard!LanguagesFollow /\ Wizard!AccountKnown /\ Wizard!SaysDoneWhenDone
      /\ Wizard!RetriesSkipTheAccount /\ s3 \in Wizard!Dialogs
  BY DEF Wizard!WizardTypeOK, Wizard!WizardInv
<1>2. s4[i].stage = "yes" /\ ~Wizard!Idle(i) /\ UNCHANGED <<s1, s2, s5, s6, s8, s9, s10>>
  BY DEF Wizard!Proceed, Wizard!Idle
<1>3. /\ s1 # "schedule" => i = 1
      /\ s4[i] \in Wizard!Tries /\ Sane(s4[i]) /\ Shape(s4[i])
      /\ Wizard!Doing(i) = Head(s4[i].todo) /\ Head(s4[i].todo) = s4[i].todo[1]
      /\ Len(s4[i].todo) \in Nat /\ Len(s4[i].todo) > 0 /\ DOMAIN s4[i].todo = 1..Len(s4[i].todo)
      /\ s2.languages => s2.fresh /\ s1 = "teacher"
      /\ s4[i].slots \subseteq Days
  BY <1>2, ActingTry, TryFacts
<1>4. CASE Len(s4[i].todo) > 1
  <2> DEFINE known == s3.account \/ Wizard!Doing(i) = Wizard!Account
             hook == IF s4[i].todo[2] \in Wizard!Slots THEN i ELSE s3.hook
  <2>1. /\ s4' = [s4 EXCEPT ![i] = [@ EXCEPT !.stage = "asked", !.todo = Tail(s4[i].todo)]]
        /\ s7' = s7 /\ s3' = [s3 EXCEPT !.account = known, !.hook = hook]
    BY <1>4 DEF Wizard!Proceed, Wizard!Onward, Wizard!Remember
  <2>2. known \in BOOLEAN /\ hook \in 0..2
    BY <1>1 DEF Wizard!Dialogs, Wizard!Turns
  <2>3. known <=> (s3.account \/ (s4[i].stage = "yes" /\ Wizard!Doing(i) = Wizard!Account))
    BY <1>2
  <2> HIDE DEF known, hook
  <2>4. s3' \in Wizard!Dialogs /\ s3'.account = known /\ s3'.open = s3.open
    BY <1>1, <2>1, <2>2 DEF Wizard!Dialogs
  <2>5. QED
    BY <1>2, <1>4, <2>1, <2>3, <2>4, TryGoesOn
<1>5. CASE ~(Len(s4[i].todo) > 1)
  <2>1. s4' = [s4 EXCEPT ![i] = Wizard!NoTry] /\ s3' = [s3 EXCEPT !.open = FALSE]
        /\ s7' = s7 \cup s4[i].slots
    BY <1>5 DEF Wizard!Proceed, Wizard!Onward
  <2>2. s3' \in Wizard!Dialogs /\ ~s3'.open /\ s3'.account = s3.account
    BY <1>1, <2>1 DEF Wizard!Dialogs
  <2>3. /\ s4'[i] = Wizard!NoTry /\ s4'[i].stage = "none"
        /\ s4' \in [Wizard!Turns -> Wizard!Tries] /\ \A j \in Wizard!Turns \ {i} : s4'[j] = s4[j]
    BY <1>1, <2>1, NoTryFacts
  <2>4. Wizard!Doing(i) \in Wizard!Slots
    <3> DEFINE n == Len(s4[i].todo)
    <3>1. n \in Nat /\ n > 0 /\ ~(n > 1)
      BY <1>3, <1>5
    <3>2. s4[i].todo[n] \in Wizard!Slots
      BY <1>3 DEF Shape
    <3> HIDE DEF n
    <3>3. n = 1
      BY <3>1
    <3>4. QED
      BY <1>3, <3>2, <3>3
  <2>5. s5.staff
    BY <1>2, <1>3, <2>4 DEF Sane
  <2>6. \A d \in s4[i].slots : s5.classes[d] = 1
    <3>1. \A k \in DOMAIN s4[i].todo : ~(k > 1)
      BY <1>3, <1>5
    <3>2. QED
      BY <1>2, <1>3, <3>1 DEF Sane
  <2>7. s2.fresh => s3.account
    BY <1>3, <2>4, RequestsApart DEF Shape
  <2>8. s2.languages => s5.languages \/ Wizard!Languages \in s10
    BY <1>1, <1>2, <1>3, <2>4, <2>7, RequestsApart DEF Wizard!LanguagesFollow
  <2>9. Wizard!WizardTypeOK'
    <3>1. s7' \subseteq Days
      BY <1>1, <1>3, <2>1 DEF Wizard!WizardTypeOK
    <3>2. QED
      BY <1>1, <1>2, <2>2, <2>3, <3>1 DEF Wizard!WizardTypeOK
  <2>10. Sane(s4[i])'
    BY <2>3, NoTrySane
  <2>11. OfTheTries'
    <3>1. s9' >= s9 /\ s1' = s1 /\ s2' = s2 /\ s5' = s5
      BY <1>1, <1>2
    <3>2. QED
      BY <1>3, <2>2, <2>3, <2>9, <2>10, <3>1, OneTryMoves
  <2>12. Wizard!LanguagesFollow'
    BY <1>2, <2>8 DEF Wizard!LanguagesFollow
  <2>13. Wizard!DoneIsOver'
    BY <1>2, <1>3, <2>2, <2>3 DEF Wizard!DoneIsOver, Wizard!Idle
  <2>14. Wizard!SaysDoneWhenDone'
    <3>1. \A d \in s7' : s5.classes[d] = 1
      BY <1>1, <2>1, <2>6 DEF Wizard!SaysDoneWhenDone
    <3>2. QED
      BY <1>2, <2>5, <2>8, <3>1 DEF Wizard!SaysDoneWhenDone
  <2>15. Wizard!RetriesSkipTheAccount'
    BY <1>1, <1>2 DEF Wizard!RetriesSkipTheAccount
  <2>16. Wizard!AccountKnown'
    <3> SUFFICES ASSUME s9 = 0, s5.accounts # 0, ~s3.account
                 PROVE  s4'[1].stage = "yes" /\ (Wizard!Doing(1) = Wizard!Account)'
      BY <1>2, <2>2 DEF Wizard!AccountKnown
    <3>1. s4[1].stage = "yes" /\ Wizard!Doing(1) = Wizard!Account
      BY <1>1 DEF Wizard!AccountKnown
    <3>2. i # 1
      BY <2>4, <3>1, RequestsApart
    <3>3. s4'[1] = s4[1]
      BY <2>3, <3>2 DEF Wizard!Turns
    <3>4. QED
      BY <3>1, <3>3 DEF Wizard!Doing
  <2>17. QED
    BY <2>9, <2>11, <2>12, <2>13, <2>14, <2>15, <2>16, WizardParts
<1>6. QED
  BY <1>4, <1>5

LEMMA WizardNext ==
  ASSUME Wizard!WizardInv, Wizard!Next
  PROVE  Wizard!WizardInv'
<1>0. /\ s2 \in Wizard!Drafts /\ s3 \in Wizard!Dialogs /\ s4 \in [Wizard!Turns -> Wizard!Tries]
      /\ s6 \subseteq Days /\ s9 \in Nat
  BY DEF Wizard!WizardInv, Wizard!WizardTypeOK
<1>1. ASSUME NEW picked \in (SUBSET Days) \ {{}}, Wizard!Choose(picked)
      PROVE  Wizard!WizardInv'
  <2>1. s2' \in Wizard!Drafts /\ s2'.fresh = s2.fresh /\ s2'.languages = s2.languages
    BY <1>0, <1>1 DEF Wizard!Choose, Wizard!Drafts
  <2>2. UNCHANGED <<s1, s3, s4, s5, s6, s7, s9, s10>>
    BY <1>1 DEF Wizard!Choose
  <2>3. s9 >= s9
    BY <1>0
  <2>4. QED
    BY <1>0, <2>1, <2>2, <2>3, WizardBeside
<1>2. ASSUME Wizard!Close PROVE Wizard!WizardInv'
  <2>1. s3' \in Wizard!Dialogs /\ s3'.account = s3.account /\ ~s3'.open
    BY <1>0, <1>2 DEF Wizard!Close, Wizard!Dialogs
  <2>2. UNCHANGED <<s1, s2, s4, s5, s6, s7, s9, s10>>
    BY <1>2 DEF Wizard!Close
  <2>3. s9 >= s9
    BY <1>0
  <2>4. QED
    BY <1>0, <2>1, <2>2, <2>3, WizardBeside
<1>3. ASSUME NEW d \in Days, Wizard!Take(d) PROVE Wizard!WizardInv'
  <2>1. s6' \subseteq Days /\ s9' \in Nat /\ s9' >= s9
    BY <1>0, <1>3 DEF Wizard!Take
  <2>2. UNCHANGED <<s1, s2, s3, s4, s5, s7, s10>>
    BY <1>3 DEF Wizard!Take
  <2>3. QED
    BY <1>0, <2>1, <2>2, WizardBeside
<1>4. ASSUME NEW i \in Wizard!Turns, Wizard!Lose(i) PROVE Wizard!WizardInv'
  <2>1. /\ ~Wizard!Idle(i) /\ s4' = [s4 EXCEPT ![i].stage = "lost"]
        /\ UNCHANGED <<s1, s2, s3, s5, s6, s7, s10>>
    BY <1>4 DEF Wizard!Lose, Wizard!Idle
  <2>2. s9' \in Nat /\ s9' >= s9 /\ s9' > 0
    BY <1>0, <1>4 DEF Wizard!Lose
  <2>3. QED
    BY <1>0, <2>1, <2>2, TryFails
<1>5. ASSUME NEW i \in Wizard!Turns, Wizard!Stop(i) PROVE Wizard!WizardInv'
  <2>1. /\ ~Wizard!Idle(i) /\ s4[i].stage \in {"no", "lost", "warns", "clash"}
        /\ s4' = [s4 EXCEPT ![i] = Wizard!NoTry]
        /\ UNCHANGED <<s1, s2, s3, s5, s6, s7, s9>>
        /\ s10' = s10 \cup ({Wizard!Doing(i)} \cap {Wizard!Account, Wizard!Languages})
    BY <1>5 DEF Wizard!Stop, Wizard!Ends, Wizard!Idle
  <2>2. Wizard!Doing(i) # Wizard!Languages \/ Wizard!Languages \in s10'
    BY <2>1
  <2>3. QED
    BY <1>0, <2>1, <2>2, TryEnds
<1>6. ASSUME NEW i \in Wizard!Turns, Wizard!Warn(i) PROVE Wizard!WizardInv'
  <2>1. /\ ~Wizard!Idle(i) /\ s4[i].stage \in {"warns", "clash"}
        /\ s4' = [s4 EXCEPT ![i] = Wizard!NoTry]
        /\ UNCHANGED <<s1, s2, s5, s6, s7, s9, s10>>
    BY <1>6 DEF Wizard!Warn, Wizard!Ends, Wizard!Idle
  <2>2. s3' \in Wizard!Dialogs /\ s3'.account = s3.account /\ s3'.open = s3.open
    <3>1. CASE s4[i].stage = "clash"
      BY <1>0, <1>6, <3>1 DEF Wizard!Warn
    <3>2. CASE s4[i].stage # "clash"
      <4> DEFINE warned == {d \in s4[i].slots : Wizard!Doubtful(d)}
      <4>1. warned \in SUBSET Days
        BY <1>0 DEF Wizard!Tries
      <4>2. s3' = [s3 EXCEPT !.warned = warned]
        BY <1>6, <3>2 DEF Wizard!Warn
      <4> HIDE DEF warned
      <4>3. QED
        BY <1>0, <4>1, <4>2 DEF Wizard!Dialogs
    <3>3. QED
      BY <3>1, <3>2
  <2>3. QED
    BY <2>1, <2>2, TryEnds
<1>7. ASSUME NEW i \in Wizard!Turns, Wizard!Swallow(i) PROVE Wizard!WizardInv'
  <2>1. /\ ~Wizard!Idle(i) /\ s4[i].stage \in {"no", "lost"} /\ Wizard!Doing(i) = <<"staff">>
        /\ UNCHANGED <<s1, s2, s3, s5, s6, s7, s9, s10>>
    BY <1>7 DEF Wizard!Swallow, Wizard!Swallowed, Wizard!Idle
  <2>2. CASE Len(s4[i].todo) > 1
    <3>1. s4' = [s4 EXCEPT ![i] = [@ EXCEPT !.stage = "asked", !.todo = Tail(s4[i].todo)]]
      BY <1>7, <2>2 DEF Wizard!Swallow, Wizard!Onward
    <3>2. QED
      BY <1>0, <2>1, <2>2, <3>1, TryGoesOn
  <2>3. CASE ~(Len(s4[i].todo) > 1)
    <3>1. s4' = [s4 EXCEPT ![i] = Wizard!NoTry]
      BY <1>7, <2>3 DEF Wizard!Swallow, Wizard!Onward
    <3>2. QED
      BY <1>0, <2>1, <3>1, RequestsApart, TryEnds
  <2>4. QED
    BY <2>2, <2>3
<1>8. QED
  BY <1>1, <1>2, <1>3, <1>4, <1>5, <1>6, <1>7, TryBegins, TryServed, TryAnswered DEF Wizard!Next

-----------------------------------------------------------------------------
LEMMA DialogsAre ==
  Spec => [](/\ part = "wizard" => Wizard!WizardInv
             /\ part = "batch" => Batch!BatchInv
             /\ part = "import" => Import!ImportInv)
<1> DEFINE Inv == /\ part = "wizard" => Wizard!WizardInv
                  /\ part = "batch" => Batch!BatchInv
                  /\ part = "import" => Import!ImportInv
<1>1. Init => Inv
  BY WizardInit, BatchInit, ImportInit DEF Init
<1>2. Inv /\ [Next]_slots => Inv'
  <2> SUFFICES ASSUME Inv, [Next]_slots PROVE Inv'
    OBVIOUS
  <2>1. ASSUME UNCHANGED slots, part = "wizard" PROVE Wizard!WizardInv'
    <3>1. /\ s2 \in Wizard!Drafts /\ s3 \in Wizard!Dialogs /\ s6 \subseteq Days /\ s9 \in Nat
          /\ s9 >= s9 /\ Wizard!WizardInv
      BY <2>1 DEF Wizard!WizardInv, Wizard!WizardTypeOK
    <3>2. UNCHANGED <<s1, s2, s3, s4, s5, s6, s7, s9, s10>>
      BY <2>1 DEF slots
    <3>3. QED
      BY <3>1, <3>2, WizardBeside
  <2>2. ASSUME UNCHANGED slots, part = "batch" PROVE Batch!BatchInv'
    BY <2>2 DEF slots, Batch!BatchInv, Batch!TypeOK, Batch!FormKnowsOfNone
  <2>3. ASSUME UNCHANGED slots, part = "import" PROVE Import!ImportInv'
    <3>1. Import!ImportInv /\ UNCHANGED <<s1, s2, s3>>
      BY <2>3 DEF slots
    <3> USE <3>1 DEF Import!ImportInv
    <3>2. Import!TypeOK' /\ Import!OneUnderWay'
      BY DEF Import!TypeOK, Import!OneUnderWay
    <3>3. Import!ReadsTheNamed' /\ Import!PasswordsInHand'
      BY DEF Import!ReadsTheNamed, Import!PasswordsInHand
    <3>4. Import!ShowsTheNamedFile'
      BY DEF Import!ShowsTheNamedFile
    <3>5. QED
      BY <3>2, <3>3, <3>4
  <2>4. CASE UNCHANGED slots
    BY <2>1, <2>2, <2>3, <2>4 DEF slots
  <2>5. CASE /\ part = "wizard" => Wizard!Next
             /\ part = "batch" => Batch!Next
             /\ part = "import" => Import!Next
    BY <2>5, PartSteps, WizardNext, BatchNext, ImportNext
  <2>6. QED
    BY <2>4, <2>5, PartSteps
<1>3. QED
  BY <1>1, <1>2, PTL DEF Spec, slots

(* Of what a wizard announces as done, every class is there, once and of a *)
(* teacher of the course, though two submissions overlapped; the languages *)
(* of a new teacher are stored, unless an earlier try stopped at them; and *)
(* no try stumbles over the account an earlier one made unless something   *)
(* was lost.  Nobody is enrolled over a clash that was not seen; an import *)
(* shows the file it names, and keeps the passwords in hand:               *)
(* UnifiedCourseWizardModal.tsx, RegisterTeacherWizard.tsx,                *)
(* CreateScheduleModal.tsx, EnrollWizard.tsx, StudentBulkImportModal.tsx.  *)
THEOREM DialogsKeepTheirWord == Spec => []WizardsKeepTheirWord
<1>1. (/\ part = "wizard" => Wizard!WizardInv
       /\ part = "batch" => Batch!BatchInv
       /\ part = "import" => Import!ImportInv) => WizardsKeepTheirWord
  BY DEF WizardsKeepTheirWord, Wizard!WizardInv, Batch!BatchInv, Batch!NeverForced,
     Import!ImportInv
<1>2. QED
  BY <1>1, DialogsAre, PTL

-----------------------------------------------------------------------------
(* A cached answer (module QueryCache): s2 the question, s3 the change, s4 *)
(* the writes, s5 the calls, s6 the last write told, s7 the answer, s8 its *)
(* request, s9 is the screen shown, s11 is there something missed.         *)

\* The parts of the invariant, at the next state.
LEMMA CacheInvNext ==
  ASSUME Cache!TypeOK', (s6 <= s4)', Cache!AskedWhenNeeded', UNCHANGED Cache!choice,
         Cache!Matches(s3, s2) => Cache!ReadsInTime' /\ Cache!FreshOrInvalid'
  PROVE  Cache!CacheInv'
BY DEF Cache!CacheInv, Cache!choice, Cache!Matches

LEMMA CacheInit == Cache!Init => Cache!CacheInv
<1> SUFFICES ASSUME Cache!Init PROVE Cache!CacheInv
  OBVIOUS
<1>1. Cache!TypeOK
  <2>1. s5 \in [1..MaxCalls -> {"none", "sent", "committed", "over"}]
    BY DEF Cache!Init
  <2>2. s7 \in [data : Nat \cup {NoData}, invalid : BOOLEAN]
    BY DEF Cache!Init
  <2>3. s8 \in [stage : {"none", "asked", "read"}, seen : Nat]
    BY DEF Cache!Init
  <2>4. QED
    BY <2>1, <2>2, <2>3 DEF Cache!Init, Cache!TypeOK
<1>2. s8.stage = "asked" /\ s6 = 0 /\ s4 = 0
  BY DEF Cache!Init
<1>3. QED
  BY <1>1, <1>2 DEF Cache!CacheInv, Cache!AskedWhenNeeded, Cache!ReadsInTime, Cache!FreshOrInvalid

\* What every step starts from.
LEMMA CacheTyped ==
  ASSUME Cache!CacheInv
  PROVE  /\ s4 \in Nat /\ s6 \in Nat /\ s12 \in Nat /\ s6 <= s4
         /\ s5 \in [1..MaxCalls -> {"none", "sent", "committed", "over"}]
         /\ s7 \in [data : Nat \cup {NoData}, invalid : BOOLEAN]
         /\ s8 \in [stage : {"none", "asked", "read"}, seen : Nat]
         /\ s9 \in BOOLEAN /\ s10 \in BOOLEAN /\ s11 \in BOOLEAN
BY DEF Cache!CacheInv, Cache!TypeOK

\* What invalidateQueries does to the answer and to its request.
LEMMA InvalidateKeeps ==
  ASSUME Cache!CacheInv, Cache!Invalidate
  PROVE  /\ s7' \in [data : Nat \cup {NoData}, invalid : BOOLEAN] /\ s7'.data = s7.data
         /\ s8' \in [stage : {"none", "asked", "read"}, seen : Nat]
         /\ s11' \in BOOLEAN
         /\ s9 /\ s8'.stage = "none" /\ ~s11' => s7'.data # NoData /\ ~s7'.invalid
         /\ s8'.stage = "read" /\ ~s11' /\ Cache!Matches(s3, s2) => FALSE
         /\ Cache!Matches(s3, s2) => s7'.invalid
         /\ ~Cache!Matches(s3, s2) => s7' = s7 /\ s8' = s8 /\ s11' = s11
<1>0. /\ s7 \in [data : Nat \cup {NoData}, invalid : BOOLEAN]
      /\ s8 \in [stage : {"none", "asked", "read"}, seen : Nat]
      /\ s11 \in BOOLEAN
      /\ s9 /\ s8.stage = "none" /\ ~s11 => s7.data # NoData /\ ~s7.invalid
  BY CacheTyped DEF Cache!CacheInv, Cache!AskedWhenNeeded
<1>1. CASE ~Cache!Matches(s3, s2)
  BY <1>0, <1>1 DEF Cache!Invalidate
<1>2. CASE Cache!Matches(s3, s2)
  <2>1. s7' = [s7 EXCEPT !.invalid = TRUE]
    BY <1>2 DEF Cache!Invalidate
  <2>2. /\ s7' \in [data : Nat \cup {NoData}, invalid : BOOLEAN]
        /\ s7'.data = s7.data /\ s7'.invalid
    BY <1>0, <2>1
  <2>3. CASE s9 /\ s7.data # NoData
    <3>1. s8' = Cache!Ask /\ s11' = FALSE
      BY <1>2, <2>3 DEF Cache!Invalidate
    <3>2. s8' \in [stage : {"none", "asked", "read"}, seen : Nat] /\ s8'.stage = "asked"
      BY <3>1 DEF Cache!Ask
    <3>3. QED
      BY <1>2, <2>2, <3>1, <3>2
  <2>4. CASE ~(s9 /\ s7.data # NoData)
    <3>1. s8' = s8 /\ s11' = (s11 \/ s8.stage # "none")
      BY <1>2, <2>4 DEF Cache!Invalidate
    <3>2. QED
      BY <1>0, <1>2, <2>2, <2>4, <3>1
  <2>5. QED
    BY <2>3, <2>4
<1>3. QED
  BY <1>1, <1>2

\* The answer is read, taken, lost or grows old; the screen is left and shown.
LEMMA CacheFetchSteps ==
  ASSUME NoData \notin Nat, Cache!CacheInv,
         \/ Cache!ServeFetch \/ Cache!TakeFetch \/ Cache!FailFetch
         \/ Cache!Age \/ Cache!LeaveScreen \/ Cache!Return
  PROVE  Cache!CacheInv'
<1> USE CacheTyped DEF Cache!CacheInv, Cache!TypeOK
<1>1. CASE Cache!ServeFetch
  BY <1>1 DEF Cache!ServeFetch, Cache!AskedWhenNeeded, Cache!ReadsInTime, Cache!FreshOrInvalid,
     Cache!choice, Cache!server, Cache!Matches
<1>2. CASE Cache!TakeFetch
  BY <1>2 DEF Cache!TakeFetch, Cache!NoFetch, Cache!AskedWhenNeeded, Cache!ReadsInTime,
     Cache!FreshOrInvalid, Cache!choice, Cache!server, Cache!Matches
<1>3. CASE Cache!FailFetch
  BY <1>3 DEF Cache!FailFetch, Cache!NoFetch, Cache!AskedWhenNeeded, Cache!ReadsInTime,
     Cache!FreshOrInvalid, Cache!choice, Cache!server, Cache!Matches
<1>4. CASE Cache!Age
  BY <1>4 DEF Cache!Age, Cache!AskedWhenNeeded, Cache!ReadsInTime,
     Cache!FreshOrInvalid, Cache!choice, Cache!server, Cache!Matches
<1>5. CASE Cache!LeaveScreen
  <2>1. /\ UNCHANGED <<s2, s3, s4, s5, s6, s7, s8, s10, s11>> /\ UNCHANGED Cache!choice
        /\ s9' = FALSE /\ s12' = s12 + 1
    BY <1>5 DEF Cache!LeaveScreen, Cache!choice, Cache!server
  <2>2. Cache!TypeOK' /\ (s6 <= s4)'
    <3>1. s12 \in Nat /\ s12' = s12 + 1 /\ s9' = FALSE
      BY <2>1
    <3>2. s12' \in Nat
      BY ONLY <3>1
    <3>3. s4' = s4 /\ s6' = s6 /\ s7' = s7 /\ s8' = s8 /\ s10' = s10 /\ s11' = s11 /\ s5' = s5
      BY <2>1
    <3>4. (s6 <= s4)'
      BY <3>3
    <3>5. QED
      BY <3>1, <3>2, <3>3, <3>4
  <2>3. Cache!AskedWhenNeeded'
    BY <2>1 DEF Cache!AskedWhenNeeded
  <2>4. Cache!Matches(s3, s2) => Cache!ReadsInTime' /\ Cache!FreshOrInvalid'
    BY <2>1 DEF Cache!ReadsInTime, Cache!FreshOrInvalid
  <2>5. QED
    BY <2>1, <2>2, <2>3, <2>4, CacheInvNext
<1>6. CASE Cache!Return
  BY <1>6 DEF Cache!Return, Cache!Ask, Cache!AskedWhenNeeded, Cache!ReadsInTime,
     Cache!FreshOrInvalid, Cache!choice, Cache!server, Cache!Matches
<1>7. QED
  BY <1>1, <1>2, <1>3, <1>4, <1>5, <1>6

\* A call of the change goes out, is committed, answered, refused or lost.
LEMMA CacheCallSteps ==
  ASSUME Cache!CacheInv, NEW c \in 1..MaxCalls,
         Cache!Send(c) \/ Cache!Commit(c) \/ Cache!Succeed(c) \/ Cache!Fail(c)
  PROVE  Cache!CacheInv'
<1> USE CacheTyped
<1>1. CASE Cache!Send(c)
  BY <1>1 DEF Cache!Send, Cache!AskedWhenNeeded, Cache!ReadsInTime,
     Cache!FreshOrInvalid, Cache!choice, Cache!client, Cache!Matches, Cache!CacheInv, Cache!TypeOK
<1>2. CASE Cache!Commit(c)
  BY <1>2 DEF Cache!Commit, Cache!AskedWhenNeeded, Cache!ReadsInTime,
     Cache!FreshOrInvalid, Cache!choice, Cache!client, Cache!Matches, Cache!CacheInv, Cache!TypeOK
<1>3. CASE Cache!Succeed(c)
  <2>1. /\ s5' \in [1..MaxCalls -> {"none", "sent", "committed", "over"}]
        /\ s6' = s4 /\ s4' = s4 /\ s9' = s9 /\ s10' = s10 /\ s12' = s12
        /\ UNCHANGED Cache!choice /\ Cache!Invalidate
    BY <1>3 DEF Cache!Succeed
  <2>2. Cache!TypeOK'
    BY <2>1, InvalidateKeeps DEF Cache!TypeOK
  <2>3. Cache!AskedWhenNeeded'
    BY <2>1, InvalidateKeeps DEF Cache!AskedWhenNeeded
  <2>4. Cache!Matches(s3, s2) => Cache!ReadsInTime' /\ Cache!FreshOrInvalid'
    BY <2>1, InvalidateKeeps DEF Cache!ReadsInTime, Cache!FreshOrInvalid
  <2>5. QED
    BY <2>1, <2>2, <2>3, <2>4, CacheInvNext
<1>4. CASE Cache!Fail(c)
  <2>1. /\ s5' \in [1..MaxCalls -> {"none", "sent", "committed", "over"}]
        /\ s6' = s6 /\ s4' = s4 /\ s9' = s9 /\ s10' = s10 /\ s12' = s12 + 1
        /\ UNCHANGED Cache!choice
        /\ Cache!Invalidate \/ UNCHANGED <<s7, s8, s11>>
    BY <1>4 DEF Cache!Fail
  <2>2. CASE Cache!Invalidate
    <3>1. Cache!TypeOK'
      BY <2>1, <2>2, InvalidateKeeps DEF Cache!TypeOK
    <3>2. Cache!AskedWhenNeeded'
      BY <2>1, <2>2, InvalidateKeeps DEF Cache!AskedWhenNeeded
    <3>3. Cache!Matches(s3, s2) => Cache!ReadsInTime' /\ Cache!FreshOrInvalid'
      BY <2>1, <2>2, InvalidateKeeps DEF Cache!ReadsInTime, Cache!FreshOrInvalid
    <3>4. QED
      BY <2>1, <3>1, <3>2, <3>3, CacheInvNext
  <2>3. CASE UNCHANGED <<s7, s8, s11>>
    BY <2>1, <2>3 DEF Cache!AskedWhenNeeded, Cache!ReadsInTime, Cache!FreshOrInvalid,
       Cache!choice, Cache!Matches, Cache!CacheInv, Cache!TypeOK
  <2>4. QED
    BY <2>1, <2>2, <2>3
<1>5. QED
  BY <1>1, <1>2, <1>3, <1>4

LEMMA CacheNext ==
  ASSUME NoData \notin Nat, Cache!CacheInv, Cache!Next
  PROVE  Cache!CacheInv'
BY CacheFetchSteps, CacheCallSteps DEF Cache!Next

LEMMA CacheInvariant == Spec => [](part = "cache" => Cache!CacheInv)
<1>1. Init => (part = "cache" => Cache!CacheInv)
  BY CacheInit DEF Init
<1>2. (part = "cache" => Cache!CacheInv) /\ [Next]_slots => (part = "cache" => Cache!CacheInv)'
  <2>1. ASSUME part = "cache", Cache!CacheInv, UNCHANGED slots PROVE Cache!CacheInv'
    BY <2>1 DEF slots, Cache!CacheInv, Cache!TypeOK, Cache!AskedWhenNeeded, Cache!ReadsInTime,
       Cache!FreshOrInvalid, Cache!Matches
  <2>2. QED
    BY <2>1, PartSteps, CacheNext, ClientAssumption
<1>3. QED
  BY <1>1, <1>2, PTL DEF Spec, slots

\* At rest a screen shows every change it was told of, if the change names the
\* key of the question or the beginning of it: for any number of calls and
\* faults, whatever refetches, failures and visits come in between
\* (lib/queries, lib/queryClient.ts).
THEOREM NamedAnswersAreFresh ==
  Spec => [](part = "cache" =>
               (Cache!Settled /\ Cache!Matches(s3, s2) => s7.data >= s6))
<1>1. (part = "cache" => Cache!CacheInv)
      => (part = "cache" => (Cache!Settled /\ Cache!Matches(s3, s2) => s7.data >= s6))
  BY DEF Cache!CacheInv, Cache!Settled, Cache!AskedWhenNeeded, Cache!FreshOrInvalid
<1>2. QED
  BY <1>1, CacheInvariant, PTL

-----------------------------------------------------------------------------
(* The tables of lib/queries: what each question shows and is cached       *)
(* under, what each change writes and refreshes, and which of them are on  *)
(* one screen.                                                             *)

\* The answer to q is cached under a key that begins so.
Under(q, key) == Cache!IsPrefix(key, q.key)

LEMMA PrefixItself ==
  /\ \A a : Cache!IsPrefix(<<a>>, <<a>>)
  /\ \A a, b : Cache!IsPrefix(<<a, b>>, <<a, b>>)
BY DEF Cache!IsPrefix

LEMMA PrefixBegins ==
  /\ \A a, b : Cache!IsPrefix(<<a>>, <<a, b>>)
  /\ \A a, b, d : Cache!IsPrefix(<<a>>, <<a, b, d>>)
  /\ \A a, b, d, e : Cache!IsPrefix(<<a>>, <<a, b, d, e>>)
  /\ \A a, b, d, e : Cache!IsPrefix(<<a, b, d>>, <<a, b, d, e>>)
BY DEF Cache!IsPrefix

(* The changes that refresh nothing of a question that shows what they     *)
(* write.  Some of these pairs are on one screen (Overlooked); the others  *)
(* meet only when the screen is shown again.                               *)
Unnamed ==
    UNION {
        {"useCreateLanguage", "useCreatePayment", "useCreateSchedule", "useDeleteLanguage",
            "useDeleteSchedule", "useProposeLocation", "useRequestRenewal", "useReviewProposal",
            "useUpdateLanguage", "useUpdateSchedule", "useWithdrawRenewal"} \X {"useDashboard"},
        {"useCreateLevel", "useDeleteLevel", "useUpdateLevel"} \X {"useDashboard",
            "useLanguageDeleteImpact"},
        {"useCreateCourse", "useDeleteCourse", "useUpdateCourse"} \X {"useDashboard",
            "useExecutiveKpis", "useLanguageDeleteImpact", "useLevelDeleteImpact", "useReport"},
        {"useChangeCourseStatus"} \X {"useExecutiveKpis", "useLanguageDeleteImpact",
            "useLevelDeleteImpact", "useReport"},
        {"useCreateEnrollment", "useDeleteEnrollment", "useUpdateEnrollment"} \X
            {"useCourseDeleteImpact", "useCourseStudents", "useCourses", "useDashboard",
            "useExecutiveKpis", "useReport"},
        {"useBulkEnroll", "useReviewRenewal"} \X {"useCourseDeleteImpact", "useCourseStudents",
            "useExecutiveKpis", "useReport"},
        {"TeacherSpeedGrader", "useBulkAttendance", "useCreateAttendance", "useCreateGrade",
            "useUpdateGrade"} \X {"useStudentKardex"},
        {"useAddEvaluation", "useDeleteEvaluation"} \X {"useFinalGrade"},
        {"useCancelSession", "useRescheduleSession"} \X {"useCandidateSessions"},
        {"useEnsureSession", "useGenerateSessions"} \X {"useAgenda", "useCandidateSessions",
            "useClassBoard", "useMySessions", "useReport"},
        {"useBookMakeUp", "useCancelMakeUpBooking"} \X {"useAgenda", "useClassBoard",
            "useMakeupVisitors"},
        {"useCreateUser", "useDeleteUser", "useUpdateMe", "useUpdateTeacherRate", "useUpdateUser"}
            \X {"useDashboard", "useExecutiveKpis", "usePublicTeachers", "useReport"},
        {"useActivatePlan", "useRejectPlanRequest"} \X {"useAcademyPlan"},
        {"useCancelPlanRequest", "useRequestPlan"} \X {"useTenants"},
        {"useDirectToggleLudiAddon", "useRequestLudiAddon", "useToggleLudiAddon"} \X
            {"useAcademyPlan", "useLudiStatus"},
        {"StudentAssignmentModal", "TeacherAssignmentModal"} \X {"useReport"}}

(* What shows each kind of data, and where its key begins. *)
USE DEF Cache!Questions, Cache!Question, Cache!Nationalities, Cache!Languages, Cache!Levels,
    Cache!CourseQuestions, Cache!DeleteImpacts, Cache!EnrollmentQuestions, Cache!PaymentQuestions,
    Cache!RenewalQuestions, Cache!AttendanceQuestions, Cache!GradeQuestions,
    Cache!SessionQuestions, Cache!MakeupQuestions, Cache!ScheduleQuestions,
    Cache!LocationQuestions, Cache!RoomQuestions, Cache!HolidayQuestions, Cache!MeetingQuestions,
    Cache!UserQuestions, Cache!TeacherQuestions, Cache!PayrollQuestions,
    Cache!NotificationQuestions, Cache!AuditQuestions, Cache!TenantQuestions, Cache!PlanQuestions,
    Cache!LudiQuestions, Cache!AssignmentQuestions, Cache!SummaryQuestions

LEMMA ShowsNationalities ==
  ASSUME NEW q \in Cache!Questions, "nationalities" \in q.shows
  PROVE  q.hook = "useNationalities" /\ Under(q, <<"nationalities">>)
BY PrefixItself, PrefixBegins DEF Under

LEMMA ShowsLanguages ==
  ASSUME NEW q \in Cache!Questions, "languages" \in q.shows
  PROVE  \/ q.hook = "useLanguages" /\ Under(q, <<"languages">>)
         \/ q.hook = "useDashboard"
BY PrefixItself, PrefixBegins DEF Under

LEMMA ShowsLevels ==
  ASSUME NEW q \in Cache!Questions, "levels" \in q.shows
  PROVE  \/ q.hook = "useLevels" /\ Under(q, <<"levels">>)
         \/ q.hook \in {"useDashboard", "useLanguageDeleteImpact"}
BY PrefixItself, PrefixBegins DEF Under

LEMMA ShowsCourses ==
  ASSUME NEW q \in Cache!Questions, "courses" \in q.shows
  PROVE  \/ q.hook = "useCourses" /\ Under(q, <<"courses">>)
         \/ q.hook \in {"useExecutiveKpis", "useLanguageDeleteImpact", "useLevelDeleteImpact",
                         "useReport"}
         \/ q.hook = "useDashboard" /\ Under(q, <<"dashboard">>)
BY PrefixItself, PrefixBegins DEF Under

LEMMA ShowsCourseTeachers ==
  ASSUME NEW q \in Cache!Questions, "course-teachers" \in q.shows
  PROVE  /\ q.hook = "useCourseTeachers"
         /\ Under(q, <<"course-teachers">>)
         /\ Under(q, <<"course-teachers", "it">>)
BY PrefixItself, PrefixBegins DEF Under

LEMMA ShowsSeats ==
  ASSUME NEW q \in Cache!Questions, "seats" \in q.shows
  PROVE  \/ q.hook = "useCourses" /\ Under(q, <<"courses">>)
         \/ q.hook \in {"useCourseDeleteImpact", "useCourseStudents", "useExecutiveKpis",
                         "useReport"}
         \/ q.hook = "useEnrollments" /\ Under(q, <<"enrollments">>)
         \/ q.hook = "useDashboard" /\ Under(q, <<"dashboard">>)
BY PrefixItself, PrefixBegins DEF Under

LEMMA ShowsBalance ==
  ASSUME NEW q \in Cache!Questions, "balance" \in q.shows
  PROVE  \/ q.hook = "useEnrollments" /\ Under(q, <<"enrollments">>)
         \/ q.hook = "useEnrollmentLedger" /\ Under(q, <<"ledger", "it">>)
         \/ q.hook = "useDashboard"
BY PrefixItself, PrefixBegins DEF Under

LEMMA ShowsInvoices ==
  ASSUME NEW q \in Cache!Questions, "invoices" \in q.shows
  PROVE  q.hook = "useEnrollmentInvoices" /\ Under(q, <<"invoices", "it">>)
BY PrefixItself, PrefixBegins DEF Under

LEMMA ShowsRenewals ==
  ASSUME NEW q \in Cache!Questions, "renewals" \in q.shows
  PROVE  \/ q.hook \in {"usePendingRenewals", "useRenewalOptions"} /\ Under(q, <<"renewals">>)
         \/ q.hook = "useDashboard" /\ Under(q, <<"dashboard">>)
BY PrefixItself, PrefixBegins DEF Under

LEMMA ShowsMarks ==
  ASSUME NEW q \in Cache!Questions, "marks" \in q.shows
  PROVE  \/ q.hook = "useAttendance" /\ Under(q, <<"attendance">>)
         \/ /\ q.hook = "useVisibleAttendance"
            /\ Under(q, <<"attendance">>)
            /\ Under(q, <<"attendance", "visible">>)
         \/ q.hook = "useClassBoard" /\ Under(q, <<"class-board">>)
         \/ q.hook = "useStudentKardex"
         \/ q.hook = "useReport" /\ Under(q, <<"report">>)
BY PrefixItself, PrefixBegins DEF Under

LEMMA ShowsRegister ==
  ASSUME NEW q \in Cache!Questions, "register" \in q.shows
  PROVE  \/ q.hook = "useSessions" /\ Under(q, <<"sessions">>)
         \/ q.hook = "useAgenda" /\ Under(q, <<"agenda">>)
         \/ q.hook = "useClassBoard" /\ Under(q, <<"class-board">>)
         \/ q.hook = "useDashboard" /\ Under(q, <<"dashboard">>)
         \/ q.hook = "useReport" /\ Under(q, <<"report">>)
BY PrefixItself, PrefixBegins DEF Under

LEMMA ShowsScores ==
  ASSUME NEW q \in Cache!Questions, "scores" \in q.shows
  PROVE  \/ q.hook = "useGrades" /\ Under(q, <<"grades">>) /\ Under(q, <<"grades", "it">>)
         \/ q.hook = "useGrades" /\ Under(q, <<"grades">>) /\ Under(q, <<"grades", "all">>)
         \/ q.hook = "useFinalGrade" /\ Under(q, <<"final-grade">>)
         \/ q.hook = "useStudentKardex"
         \/ q.hook = "useReport" /\ Under(q, <<"report">>)
BY PrefixItself, PrefixBegins DEF Under

LEMMA ShowsWeights ==
  ASSUME NEW q \in Cache!Questions, "weights" \in q.shows
  PROVE  \/ q.hook = "useFinalGrade"
         \/ q.hook = "useCourseEvaluations" /\ Under(q, <<"course-evaluations", "it">>)
BY PrefixItself, PrefixBegins DEF Under

LEMMA ShowsClasses ==
  ASSUME NEW q \in Cache!Questions, "classes" \in q.shows
  PROVE  \/ q.hook = "useSessions" /\ Under(q, <<"sessions">>) /\ Under(q, <<"sessions", "it">>)
         \/ q.hook = "useMySessions" /\ Under(q, <<"sessions">>)
         \/ q.hook = "useAgenda" /\ Under(q, <<"agenda">>)
         \/ q.hook = "useClassBoard" /\ Under(q, <<"class-board">>)
         \/ q.hook = "useCandidateSessions"
         \/ q.hook = "useReport" /\ Under(q, <<"report">>)
BY PrefixItself, PrefixBegins DEF Under

LEMMA ShowsNotices ==
  ASSUME NEW q \in Cache!Questions, "notices" \in q.shows
  PROVE  q.hook \in {"useNotifications", "useUnreadCount"} /\ Under(q, <<"notifications">>)
BY PrefixItself, PrefixBegins DEF Under

LEMMA ShowsTopic ==
  ASSUME NEW q \in Cache!Questions, "topic" \in q.shows
  PROVE  q.hook = "useSession" /\ Under(q, <<"session", "it">>)
BY PrefixItself, PrefixBegins DEF Under

LEMMA ShowsPasses ==
  ASSUME NEW q \in Cache!Questions, "passes" \in q.shows
  PROVE  q.hook \in {"useCandidateSessions", "useMakeUpCredits"} /\ Under(q, <<"makeups">>)
BY PrefixItself, PrefixBegins DEF Under

LEMMA ShowsVisitors ==
  ASSUME NEW q \in Cache!Questions, "visitors" \in q.shows
  PROVE  \/ q.hook = "useAgenda" /\ Under(q, <<"agenda">>)
         \/ q.hook = "useClassBoard" /\ Under(q, <<"class-board", "it">>)
         \/ q.hook = "useMakeupVisitors" /\ Under(q, <<"session-makeup-visitors", "it">>)
BY PrefixItself, PrefixBegins DEF Under

LEMMA ShowsSchedules ==
  ASSUME NEW q \in Cache!Questions, "schedules" \in q.shows
  PROVE  \/ q.hook = "useSchedules" /\ Under(q, <<"schedules">>)
         \/ q.hook = "useDashboard" /\ Under(q, <<"dashboard">>)
BY PrefixItself, PrefixBegins DEF Under

LEMMA ShowsLocation ==
  ASSUME NEW q \in Cache!Questions, "location" \in q.shows
  PROVE  \/ q.hook = "useSchedules" /\ Under(q, <<"schedules">>)
         \/ q.hook = "useLocationProposals" /\ Under(q, <<"location-proposals">>)
         \/ q.hook = "useDashboard"
BY PrefixItself, PrefixBegins DEF Under

LEMMA ShowsRooms ==
  ASSUME NEW q \in Cache!Questions, "rooms" \in q.shows
  PROVE  q.hook = "useRooms" /\ Under(q, <<"rooms">>)
BY PrefixItself, PrefixBegins DEF Under

LEMMA ShowsHolidays ==
  ASSUME NEW q \in Cache!Questions, "holidays" \in q.shows
  PROVE  q.hook = "useHolidays" /\ Under(q, <<"holidays">>)
BY PrefixItself, PrefixBegins DEF Under

LEMMA ShowsUsers ==
  ASSUME NEW q \in Cache!Questions, "users" \in q.shows
  PROVE  \/ q.hook \in {"useDashboard", "useExecutiveKpis", "usePublicTeachers", "useReport"}
         \/ q.hook = "useUsers" /\ Under(q, <<"users">>)
BY PrefixItself, PrefixBegins DEF Under

LEMMA ShowsTeacherLanguages ==
  ASSUME NEW q \in Cache!Questions, "teacher-languages" \in q.shows
  PROVE  q.hook = "useTeacherLanguages" /\ Under(q, <<"teacher-languages", "it">>)
BY PrefixItself, PrefixBegins DEF Under

LEMMA ShowsAvailability ==
  ASSUME NEW q \in Cache!Questions, "availability" \in q.shows
  PROVE  \/ q.hook = "useTeacherAvailability" /\ Under(q, <<"teacher-availability", "it">>)
         \/ q.hook = "useTeacherLoad" /\ Under(q, <<"teacher-load", "it">>)
BY PrefixItself, PrefixBegins DEF Under

LEMMA ShowsTeaching ==
  ASSUME NEW q \in Cache!Questions, "teaching" \in q.shows
  PROVE  \/ q.hook = "useTeacherLoad" /\ Under(q, <<"teacher-load">>)
         \/ q.hook = "useTeacherAssignments" /\ Under(q, <<"teacher-assignments">>)
BY PrefixItself, PrefixBegins DEF Under

LEMMA ShowsRates ==
  ASSUME NEW q \in Cache!Questions, "rates" \in q.shows
  PROVE  \/ /\ q.hook = "useTeacherPayroll"
            /\ Under(q, <<"teachers">>)
            /\ Under(q, <<"teachers", "it", "payroll">>)
         \/ /\ q.hook = "useAcademyPayrollSummary"
            /\ Under(q, <<"teachers">>)
            /\ Under(q, <<"teachers", "payroll", "summary">>)
BY PrefixItself, PrefixBegins DEF Under

LEMMA ShowsTrail ==
  ASSUME NEW q \in Cache!Questions, "trail" \in q.shows
  PROVE  q.hook = "useAudit" /\ Under(q, <<"audit">>)
BY PrefixItself, PrefixBegins DEF Under

LEMMA ShowsTenants ==
  ASSUME NEW q \in Cache!Questions, "tenants" \in q.shows
  PROVE  q.hook = "useTenants" /\ Under(q, <<"tenants">>)
BY PrefixItself, PrefixBegins DEF Under

LEMMA ShowsAdmins ==
  ASSUME NEW q \in Cache!Questions, "admins" \in q.shows
  PROVE  q.hook = "useTenantAdmins" /\ Under(q, <<"tenants">>)
BY PrefixItself, PrefixBegins DEF Under

LEMMA ShowsPlan ==
  ASSUME NEW q \in Cache!Questions, "plan" \in q.shows
  PROVE  \/ q.hook = "useTenants" /\ Under(q, <<"tenants">>)
         \/ q.hook = "useAcademyPlan" /\ Under(q, <<"academy", "plan">>)
BY PrefixItself, PrefixBegins DEF Under

LEMMA ShowsLudi ==
  ASSUME NEW q \in Cache!Questions, "ludi" \in q.shows
  PROVE  \/ q.hook = "useTenants" /\ Under(q, <<"tenants">>)
         \/ q.hook \in {"useAcademyPlan", "useLudiStatus"}
BY PrefixItself, PrefixBegins DEF Under

LEMMA ShowsPoints ==
  ASSUME NEW q \in Cache!Questions, "points" \in q.shows
  PROVE  q.hook = "useCourseRanking" /\ Under(q, <<"ludi-ranking", "it">>)
BY PrefixItself, PrefixBegins DEF Under

LEMMA ShowsTasks ==
  ASSUME NEW q \in Cache!Questions, "tasks" \in q.shows
  PROVE  \/ q.hook = "useAssignments" /\ Under(q, <<"assignments">>)
         \/ q.hook = "useDashboard" /\ Under(q, <<"dashboard">>)
         \/ q.hook = "useReport"
BY PrefixItself, PrefixBegins DEF Under

LEMMA ShowsHandedIn ==
  ASSUME NEW q \in Cache!Questions, "handed-in" \in q.shows
  PROVE  \/ q.hook = "useAssignments" /\ Under(q, <<"assignments">>)
         \/ q.hook = "useAssignmentSubmissions" /\ Under(q, <<"assignment-submissions">>)
         \/ q.hook = "useDashboard" /\ Under(q, <<"dashboard">>)
         \/ q.hook = "useReport" /\ Under(q, <<"report">>)
BY PrefixItself, PrefixBegins DEF Under

HIDE DEF Cache!Questions, Cache!Question, Cache!Nationalities, Cache!Languages, Cache!Levels,
    Cache!CourseQuestions, Cache!DeleteImpacts, Cache!EnrollmentQuestions, Cache!PaymentQuestions,
    Cache!RenewalQuestions, Cache!AttendanceQuestions, Cache!GradeQuestions,
    Cache!SessionQuestions, Cache!MakeupQuestions, Cache!ScheduleQuestions,
    Cache!LocationQuestions, Cache!RoomQuestions, Cache!HolidayQuestions, Cache!MeetingQuestions,
    Cache!UserQuestions, Cache!TeacherQuestions, Cache!PayrollQuestions,
    Cache!NotificationQuestions, Cache!AuditQuestions, Cache!TenantQuestions, Cache!PlanQuestions,
    Cache!LudiQuestions, Cache!AssignmentQuestions, Cache!SummaryQuestions

(* What each change writes is shown under keys it refreshes, or the pair   *)
(* is one of the above.                                                    *)
LEMMA NationalityChangesNamed ==
  ASSUME NEW q \in Cache!Questions, NEW c \in Cache!NationalityChanges, Cache!Touches(c, q)
  PROVE  Cache!Matches(c, q) \/ <<c.hook, q.hook>> \in Unnamed
<1>1. CASE c.hook \in {"useCreateNationality", "useDeleteNationality", "useUpdateNationality"}
  <2>1. c.writes = {"nationalities"} /\ {<<"nationalities">>} \subseteq c.refreshes
    BY <1>1 DEF Cache!NationalityChanges, Cache!Change, Cache!Own
  <2>2. QED
    BY <1>1, <2>1, ShowsNationalities DEF Cache!Touches, Cache!Matches, Under, Unnamed
<1>2. QED
  BY <1>1 DEF Cache!NationalityChanges, Cache!Change, Cache!Own

LEMMA LanguageChangesNamed ==
  ASSUME NEW q \in Cache!Questions, NEW c \in Cache!LanguageChanges, Cache!Touches(c, q)
  PROVE  Cache!Matches(c, q) \/ <<c.hook, q.hook>> \in Unnamed
<1>1. CASE c.hook \in {"useCreateLanguage", "useDeleteLanguage", "useUpdateLanguage"}
  <2>1. c.writes = {"languages"} /\ {<<"languages">>} \subseteq c.refreshes
    BY <1>1 DEF Cache!LanguageChanges, Cache!Change, Cache!Own
  <2>2. QED
    BY <1>1, <2>1, ShowsLanguages DEF Cache!Touches, Cache!Matches, Under, Unnamed
<1>2. QED
  BY <1>1 DEF Cache!LanguageChanges, Cache!Change, Cache!Own

LEMMA LevelChangesNamed ==
  ASSUME NEW q \in Cache!Questions, NEW c \in Cache!LevelChanges, Cache!Touches(c, q)
  PROVE  Cache!Matches(c, q) \/ <<c.hook, q.hook>> \in Unnamed
<1>1. CASE c.hook \in {"useCreateLevel", "useDeleteLevel", "useUpdateLevel"}
  <2>1. c.writes = {"levels"} /\ {<<"levels">>} \subseteq c.refreshes
    BY <1>1 DEF Cache!LevelChanges, Cache!Change, Cache!Own
  <2>2. QED
    BY <1>1, <2>1, ShowsLevels DEF Cache!Touches, Cache!Matches, Under, Unnamed
<1>2. QED
  BY <1>1 DEF Cache!LevelChanges, Cache!Change, Cache!Own

LEMMA CourseChangesNamed ==
  ASSUME NEW q \in Cache!Questions, NEW c \in Cache!CourseChanges, Cache!Touches(c, q)
  PROVE  Cache!Matches(c, q) \/ <<c.hook, q.hook>> \in Unnamed
<1>1. CASE c.hook \in {"useCreateCourse", "useDeleteCourse", "useUpdateCourse"}
  <2>1. c.writes = {"courses"} /\ {<<"courses">>} \subseteq c.refreshes
    BY <1>1 DEF Cache!CourseChanges, Cache!Change, Cache!Own
  <2>2. QED
    BY <1>1, <2>1, ShowsCourses DEF Cache!Touches, Cache!Matches, Under, Unnamed
<1>2. QED
  BY <1>1 DEF Cache!CourseChanges, Cache!Change, Cache!Own

LEMMA CourseStaffChangesNamed ==
  ASSUME NEW q \in Cache!Questions, NEW c \in Cache!CourseStaffChanges, Cache!Touches(c, q)
  PROVE  Cache!Matches(c, q) \/ <<c.hook, q.hook>> \in Unnamed
<1>1. CASE c.hook \in {"useAssignCourseTeacher", "useUnassignCourseTeacher"}
  <2>1. c.writes = {"course-teachers"} /\ {<<"course-teachers", "it">>} \subseteq c.refreshes
    BY <1>1 DEF Cache!CourseStaffChanges, Cache!Change
  <2>2. QED
    BY <1>1, <2>1, ShowsCourseTeachers DEF Cache!Touches, Cache!Matches, Under, Unnamed
<1>2. QED
  BY <1>1 DEF Cache!CourseStaffChanges, Cache!Change

LEMMA CourseStatusChangeNamed ==
  ASSUME NEW q \in Cache!Questions, NEW c, c = Cache!CourseStatusChange, Cache!Touches(c, q)
  PROVE  Cache!Matches(c, q) \/ <<c.hook, q.hook>> \in Unnamed
<1>1. CASE c.hook = "useChangeCourseStatus"
  <2>1. c.writes = {"courses"} /\ {<<"courses">>, <<"dashboard">>} \subseteq c.refreshes
    BY <1>1 DEF Cache!CourseStatusChange, Cache!Change
  <2>2. QED
    BY <1>1, <2>1, ShowsCourses DEF Cache!Touches, Cache!Matches, Under, Unnamed
<1>2. QED
  BY <1>1 DEF Cache!CourseStatusChange, Cache!Change

LEMMA EnrollmentChangesNamed ==
  ASSUME NEW q \in Cache!Questions, NEW c \in Cache!EnrollmentChanges, Cache!Touches(c, q)
  PROVE  Cache!Matches(c, q) \/ <<c.hook, q.hook>> \in Unnamed
<1>1. CASE c.hook \in {"useCreateEnrollment", "useDeleteEnrollment", "useUpdateEnrollment"}
  <2>1. c.writes = {"seats"} /\ {<<"enrollments">>} \subseteq c.refreshes
    BY <1>1 DEF Cache!EnrollmentChanges, Cache!Change
  <2>2. QED
    BY <1>1, <2>1, ShowsSeats DEF Cache!Touches, Cache!Matches, Under, Unnamed
<1>2. CASE c.hook = "useBulkEnroll"
  <2>1. c.writes = {"seats"} /\ {<<"courses">>, <<"dashboard">>, <<"enrollments">>} \subseteq
        c.refreshes
    BY <1>2 DEF Cache!EnrollmentChanges, Cache!Change
  <2>2. QED
    BY <1>2, <2>1, ShowsSeats DEF Cache!Touches, Cache!Matches, Under, Unnamed
<1>3. QED
  BY <1>1, <1>2 DEF Cache!EnrollmentChanges, Cache!Change

LEMMA PaymentChangesNamed ==
  ASSUME NEW q \in Cache!Questions, NEW c \in Cache!PaymentChanges, Cache!Touches(c, q)
  PROVE  Cache!Matches(c, q) \/ <<c.hook, q.hook>> \in Unnamed
<1>1. CASE c.hook = "useCreatePayment"
  <2>1. c.writes = {"balance"} /\ {<<"enrollments">>, <<"ledger", "it">>} \subseteq c.refreshes
    BY <1>1 DEF Cache!PaymentChanges, Cache!Change
  <2>2. QED
    BY <1>1, <2>1, ShowsBalance DEF Cache!Touches, Cache!Matches, Under, Unnamed
<1>2. CASE c.hook = "useIssueInvoice"
  <2>1. c.writes = {"invoices"} /\ {<<"invoices", "it">>} \subseteq c.refreshes
    BY <1>2 DEF Cache!PaymentChanges, Cache!Change
  <2>2. QED
    BY <1>2, <2>1, ShowsInvoices DEF Cache!Touches, Cache!Matches, Under, Unnamed
<1>3. QED
  BY <1>1, <1>2 DEF Cache!PaymentChanges, Cache!Change

LEMMA RenewalChangesNamed ==
  ASSUME NEW q \in Cache!Questions, NEW c \in Cache!RenewalChanges, Cache!Touches(c, q)
  PROVE  Cache!Matches(c, q) \/ <<c.hook, q.hook>> \in Unnamed
<1>1. CASE c.hook \in {"useRequestRenewal", "useWithdrawRenewal"}
  <2>1. c.writes = {"renewals"} /\ {<<"renewals">>} \subseteq c.refreshes
    BY <1>1 DEF Cache!RenewalChanges, Cache!Change
  <2>2. QED
    BY <1>1, <2>1, ShowsRenewals DEF Cache!Touches, Cache!Matches, Under, Unnamed
<1>2. CASE c.hook = "useReviewRenewal"
  <2>1. c.writes = {"renewals", "seats"} /\ {<<"courses">>, <<"dashboard">>, <<"enrollments">>,
        <<"renewals">>} \subseteq c.refreshes
    BY <1>2 DEF Cache!RenewalChanges, Cache!Change
  <2>2. QED
    BY <1>2, <2>1, ShowsRenewals, ShowsSeats DEF Cache!Touches, Cache!Matches, Under, Unnamed
<1>3. QED
  BY <1>1, <1>2 DEF Cache!RenewalChanges, Cache!Change

LEMMA AttendanceChangesNamed ==
  ASSUME NEW q \in Cache!Questions, NEW c \in Cache!AttendanceChanges, Cache!Touches(c, q)
  PROVE  Cache!Matches(c, q) \/ <<c.hook, q.hook>> \in Unnamed
<1>1. CASE c.hook \in {"useBulkAttendance", "useCreateAttendance"}
  <2>1. c.writes = {"marks", "register"} /\ {<<"agenda">>, <<"attendance">>,
        <<"attendance", "visible">>, <<"class-board">>, <<"dashboard">>, <<"report">>,
        <<"sessions">>} \subseteq c.refreshes
    BY <1>1 DEF Cache!AttendanceChanges, Cache!Attempt
  <2>2. QED
    BY <1>1, <2>1, ShowsMarks, ShowsRegister DEF Cache!Touches, Cache!Matches, Under, Unnamed
<1>2. QED
  BY <1>1 DEF Cache!AttendanceChanges, Cache!Attempt

LEMMA GradeChangesNamed ==
  ASSUME NEW q \in Cache!Questions, NEW c \in Cache!GradeChanges, Cache!Touches(c, q)
  PROVE  Cache!Matches(c, q) \/ <<c.hook, q.hook>> \in Unnamed
<1>1. CASE c.hook = "useCreateGrade"
  <2>1. c.writes = {"scores"} /\ {<<"final-grade">>, <<"grades", "all">>, <<"grades", "it">>,
        <<"report">>} \subseteq c.refreshes
    BY <1>1 DEF Cache!GradeChanges, Cache!Attempt, Cache!DerivedFromGrades
  <2>2. QED
    BY <1>1, <2>1, ShowsScores DEF Cache!Touches, Cache!Matches, Under, Unnamed
<1>2. CASE c.hook = "useUpdateGrade"
  <2>1. c.writes = {"scores"} /\ {<<"final-grade">>, <<"grades">>, <<"report">>} \subseteq
        c.refreshes
    BY <1>2 DEF Cache!GradeChanges, Cache!Attempt, Cache!DerivedFromGrades
  <2>2. QED
    BY <1>2, <2>1, ShowsScores DEF Cache!Touches, Cache!Matches, Under, Unnamed
<1>3. QED
  BY <1>1, <1>2 DEF Cache!GradeChanges, Cache!Attempt, Cache!DerivedFromGrades

LEMMA WeightChangesNamed ==
  ASSUME NEW q \in Cache!Questions, NEW c \in Cache!WeightChanges, Cache!Touches(c, q)
  PROVE  Cache!Matches(c, q) \/ <<c.hook, q.hook>> \in Unnamed
<1>1. CASE c.hook \in {"useAddEvaluation", "useDeleteEvaluation"}
  <2>1. c.writes = {"weights"} /\ {<<"course-evaluations", "it">>} \subseteq c.refreshes
    BY <1>1 DEF Cache!WeightChanges, Cache!Change
  <2>2. QED
    BY <1>1, <2>1, ShowsWeights DEF Cache!Touches, Cache!Matches, Under, Unnamed
<1>2. QED
  BY <1>1 DEF Cache!WeightChanges, Cache!Change

LEMMA SessionViewChangesNamed ==
  ASSUME NEW q \in Cache!Questions, NEW c \in Cache!SessionViewChanges, Cache!Touches(c, q)
  PROVE  Cache!Matches(c, q) \/ <<c.hook, q.hook>> \in Unnamed
<1>1. CASE c.hook \in {"useCancelSession", "useRescheduleSession"}
  <2>1. c.writes = {"classes", "notices"} /\ {<<"agenda">>, <<"class-board">>,
        <<"notifications">>, <<"report">>, <<"sessions">>} \subseteq c.refreshes
    BY <1>1 DEF Cache!SessionViewChanges, Cache!Change, Cache!SessionViews
  <2>2. QED
    BY <1>1, <2>1, ShowsClasses, ShowsNotices DEF Cache!Touches, Cache!Matches, Under, Unnamed
<1>2. CASE c.hook \in {"useCloseRegister", "useReopenRegister"}
  <2>1. c.writes = {"register"} /\ {<<"agenda">>, <<"class-board">>, <<"dashboard">>,
        <<"report">>, <<"sessions">>} \subseteq c.refreshes
    BY <1>2 DEF Cache!SessionViewChanges, Cache!Change, Cache!SessionViews
  <2>2. QED
    BY <1>2, <2>1, ShowsRegister DEF Cache!Touches, Cache!Matches, Under, Unnamed
<1>3. QED
  BY <1>1, <1>2 DEF Cache!SessionViewChanges, Cache!Change, Cache!SessionViews

LEMMA SessionChangesNamed ==
  ASSUME NEW q \in Cache!Questions, NEW c \in Cache!SessionChanges, Cache!Touches(c, q)
  PROVE  Cache!Matches(c, q) \/ <<c.hook, q.hook>> \in Unnamed
<1>1. CASE c.hook \in {"useEnsureSession", "useGenerateSessions"}
  <2>1. c.writes = {"classes"} /\ {<<"sessions", "it">>} \subseteq c.refreshes
    BY <1>1 DEF Cache!SessionChanges, Cache!Change
  <2>2. QED
    BY <1>1, <2>1, ShowsClasses DEF Cache!Touches, Cache!Matches, Under, Unnamed
<1>2. CASE c.hook = "useUpdateSession"
  <2>1. c.writes = {"topic"} /\ {<<"session", "it">>} \subseteq c.refreshes
    BY <1>2 DEF Cache!SessionChanges, Cache!Change
  <2>2. QED
    BY <1>2, <2>1, ShowsTopic DEF Cache!Touches, Cache!Matches, Under, Unnamed
<1>3. QED
  BY <1>1, <1>2 DEF Cache!SessionChanges, Cache!Change

LEMMA VisitorChangeNamed ==
  ASSUME NEW q \in Cache!Questions, NEW c, c = Cache!VisitorChange, Cache!Touches(c, q)
  PROVE  Cache!Matches(c, q) \/ <<c.hook, q.hook>> \in Unnamed
<1>1. CASE c.hook = "useMarkMakeupVisitor"
  <2>1. c.writes = {"passes", "visitors"} /\ {<<"agenda">>, <<"class-board", "it">>,
        <<"makeups">>, <<"session-makeup-visitors", "it">>} \subseteq c.refreshes
    BY <1>1 DEF Cache!VisitorChange, Cache!Change
  <2>2. QED
    BY <1>1, <2>1, ShowsPasses, ShowsVisitors DEF Cache!Touches, Cache!Matches, Under, Unnamed
<1>2. QED
  BY <1>1 DEF Cache!VisitorChange, Cache!Change

LEMMA MakeupChangesNamed ==
  ASSUME NEW q \in Cache!Questions, NEW c \in Cache!MakeupChanges, Cache!Touches(c, q)
  PROVE  Cache!Matches(c, q) \/ <<c.hook, q.hook>> \in Unnamed
<1>1. CASE c.hook \in {"useBookMakeUp", "useCancelMakeUpBooking"}
  <2>1. c.writes = {"passes", "visitors"} /\ {<<"makeups">>} \subseteq c.refreshes
    BY <1>1 DEF Cache!MakeupChanges, Cache!Change
  <2>2. QED
    BY <1>1, <2>1, ShowsPasses, ShowsVisitors DEF Cache!Touches, Cache!Matches, Under, Unnamed
<1>2. CASE c.hook = "useCreateMakeUpCredit"
  <2>1. c.writes = {"passes"} /\ {<<"makeups">>} \subseteq c.refreshes
    BY <1>2 DEF Cache!MakeupChanges, Cache!Change
  <2>2. QED
    BY <1>2, <2>1, ShowsPasses DEF Cache!Touches, Cache!Matches, Under, Unnamed
<1>3. QED
  BY <1>1, <1>2 DEF Cache!MakeupChanges, Cache!Change

LEMMA ScheduleChangesNamed ==
  ASSUME NEW q \in Cache!Questions, NEW c \in Cache!ScheduleChanges, Cache!Touches(c, q)
  PROVE  Cache!Matches(c, q) \/ <<c.hook, q.hook>> \in Unnamed
<1>1. CASE c.hook \in {"useCreateSchedule", "useDeleteSchedule", "useUpdateSchedule"}
  <2>1. c.writes = {"schedules"} /\ {<<"schedules">>} \subseteq c.refreshes
    BY <1>1 DEF Cache!ScheduleChanges, Cache!Change, Cache!Own
  <2>2. QED
    BY <1>1, <2>1, ShowsSchedules DEF Cache!Touches, Cache!Matches, Under, Unnamed
<1>2. QED
  BY <1>1 DEF Cache!ScheduleChanges, Cache!Change, Cache!Own

LEMMA LocationChangesNamed ==
  ASSUME NEW q \in Cache!Questions, NEW c \in Cache!LocationChanges, Cache!Touches(c, q)
  PROVE  Cache!Matches(c, q) \/ <<c.hook, q.hook>> \in Unnamed
<1>1. CASE c.hook \in {"useProposeLocation", "useReviewProposal"}
  <2>1. c.writes = {"location"} /\ {<<"location-proposals">>, <<"schedules">>} \subseteq
        c.refreshes
    BY <1>1 DEF Cache!LocationChanges, Cache!Change
  <2>2. QED
    BY <1>1, <2>1, ShowsLocation DEF Cache!Touches, Cache!Matches, Under, Unnamed
<1>2. QED
  BY <1>1 DEF Cache!LocationChanges, Cache!Change

LEMMA RoomChangesNamed ==
  ASSUME NEW q \in Cache!Questions, NEW c \in Cache!RoomChanges, Cache!Touches(c, q)
  PROVE  Cache!Matches(c, q) \/ <<c.hook, q.hook>> \in Unnamed
<1>1. CASE c.hook \in {"useCreateRoom", "useDeleteRoom", "useUpdateRoom"}
  <2>1. c.writes = {"rooms"} /\ {<<"rooms">>} \subseteq c.refreshes
    BY <1>1 DEF Cache!RoomChanges, Cache!Change, Cache!Own
  <2>2. QED
    BY <1>1, <2>1, ShowsRooms DEF Cache!Touches, Cache!Matches, Under, Unnamed
<1>2. QED
  BY <1>1 DEF Cache!RoomChanges, Cache!Change, Cache!Own

LEMMA HolidayChangesNamed ==
  ASSUME NEW q \in Cache!Questions, NEW c \in Cache!HolidayChanges, Cache!Touches(c, q)
  PROVE  Cache!Matches(c, q) \/ <<c.hook, q.hook>> \in Unnamed
<1>1. CASE c.hook \in {"useCreateHoliday", "useDeleteHoliday"}
  <2>1. c.writes = {"holidays"} /\ {<<"holidays">>} \subseteq c.refreshes
    BY <1>1 DEF Cache!HolidayChanges, Cache!Change, Cache!Own
  <2>2. QED
    BY <1>1, <2>1, ShowsHolidays DEF Cache!Touches, Cache!Matches, Under, Unnamed
<1>2. QED
  BY <1>1 DEF Cache!HolidayChanges, Cache!Change, Cache!Own

LEMMA UserChangesNamed ==
  ASSUME NEW q \in Cache!Questions, NEW c \in Cache!UserChanges, Cache!Touches(c, q)
  PROVE  Cache!Matches(c, q) \/ <<c.hook, q.hook>> \in Unnamed
<1>1. CASE c.hook \in {"useCreateUser", "useDeleteUser", "useUpdateMe", "useUpdateUser"}
  <2>1. c.writes = {"users"} /\ {<<"users">>} \subseteq c.refreshes
    BY <1>1 DEF Cache!UserChanges, Cache!Change, Cache!Own
  <2>2. QED
    BY <1>1, <2>1, ShowsUsers DEF Cache!Touches, Cache!Matches, Under, Unnamed
<1>2. QED
  BY <1>1 DEF Cache!UserChanges, Cache!Change, Cache!Own

LEMMA TeacherChangesNamed ==
  ASSUME NEW q \in Cache!Questions, NEW c \in Cache!TeacherChanges, Cache!Touches(c, q)
  PROVE  Cache!Matches(c, q) \/ <<c.hook, q.hook>> \in Unnamed
<1>1. CASE c.hook = "useSetTeacherLanguages"
  <2>1. c.writes = {"teacher-languages"} /\ {<<"teacher-languages", "it">>} \subseteq c.refreshes
    BY <1>1 DEF Cache!TeacherChanges, Cache!Change
  <2>2. QED
    BY <1>1, <2>1, ShowsTeacherLanguages DEF Cache!Touches, Cache!Matches, Under, Unnamed
<1>2. CASE c.hook \in {"useAddAvailability", "useDeleteAvailability", "usePatchAvailability"}
  <2>1. c.writes = {"availability"} /\ {<<"teacher-availability", "it">>,
        <<"teacher-load", "it">>} \subseteq c.refreshes
    BY <1>2 DEF Cache!TeacherChanges, Cache!Change
  <2>2. QED
    BY <1>2, <2>1, ShowsAvailability DEF Cache!Touches, Cache!Matches, Under, Unnamed
<1>3. CASE c.hook = "useReassignTeacher"
  <2>1. c.writes = {"course-teachers", "schedules", "teaching"} /\ {<<"course-teachers">>,
        <<"dashboard">>, <<"schedules">>, <<"teacher-assignments">>, <<"teacher-load">>} \subseteq
        c.refreshes
    BY <1>3 DEF Cache!TeacherChanges, Cache!Change
  <2>2. QED
    BY <1>3, <2>1, ShowsCourseTeachers, ShowsSchedules, ShowsTeaching DEF Cache!Touches,
       Cache!Matches, Under, Unnamed
<1>4. QED
  BY <1>1, <1>2, <1>3 DEF Cache!TeacherChanges, Cache!Change

LEMMA PayrollChangeNamed ==
  ASSUME NEW q \in Cache!Questions, NEW c, c = Cache!PayrollChange, Cache!Touches(c, q)
  PROVE  Cache!Matches(c, q) \/ <<c.hook, q.hook>> \in Unnamed
<1>1. CASE c.hook = "useUpdateTeacherRate"
  <2>1. c.writes = {"rates", "users"} /\ {<<"teachers">>, <<"teachers", "it", "payroll">>,
        <<"teachers", "payroll", "summary">>, <<"users">>} \subseteq c.refreshes
    BY <1>1 DEF Cache!PayrollChange, Cache!Change
  <2>2. QED
    BY <1>1, <2>1, ShowsRates, ShowsUsers DEF Cache!Touches, Cache!Matches, Under, Unnamed
<1>2. QED
  BY <1>1 DEF Cache!PayrollChange, Cache!Change

LEMMA NotificationChangesNamed ==
  ASSUME NEW q \in Cache!Questions, NEW c \in Cache!NotificationChanges, Cache!Touches(c, q)
  PROVE  Cache!Matches(c, q) \/ <<c.hook, q.hook>> \in Unnamed
<1>1. CASE c.hook \in {"useMarkAllRead", "useMarkNotificationRead"}
  <2>1. c.writes = {"notices"} /\ {<<"notifications">>} \subseteq c.refreshes
    BY <1>1 DEF Cache!NotificationChanges, Cache!Change
  <2>2. QED
    BY <1>1, <2>1, ShowsNotices DEF Cache!Touches, Cache!Matches, Under, Unnamed
<1>2. CASE c.hook = "useRaiseAtRiskAlerts"
  <2>1. c.writes = {"notices", "trail"} /\ {<<"audit">>, <<"notifications">>} \subseteq
        c.refreshes
    BY <1>2 DEF Cache!NotificationChanges, Cache!Change
  <2>2. QED
    BY <1>2, <2>1, ShowsNotices, ShowsTrail DEF Cache!Touches, Cache!Matches, Under, Unnamed
<1>3. QED
  BY <1>1, <1>2 DEF Cache!NotificationChanges, Cache!Change

LEMMA TenantChangesNamed ==
  ASSUME NEW q \in Cache!Questions, NEW c \in Cache!TenantChanges, Cache!Touches(c, q)
  PROVE  Cache!Matches(c, q) \/ <<c.hook, q.hook>> \in Unnamed
<1>1. CASE c.hook \in {"useCreateTenant", "useUpdateTenant"}
  <2>1. c.writes = {"tenants"} /\ {<<"tenants">>} \subseteq c.refreshes
    BY <1>1 DEF Cache!TenantChanges, Cache!Change
  <2>2. QED
    BY <1>1, <2>1, ShowsTenants DEF Cache!Touches, Cache!Matches, Under, Unnamed
<1>2. CASE c.hook = "useCreateTenantAdmin"
  <2>1. c.writes = {"admins"} /\ {<<"tenants">>} \subseteq c.refreshes
    BY <1>2 DEF Cache!TenantChanges, Cache!Change
  <2>2. QED
    BY <1>2, <2>1, ShowsAdmins DEF Cache!Touches, Cache!Matches, Under, Unnamed
<1>3. CASE c.hook \in {"useActivatePlan", "useRejectPlanRequest"}
  <2>1. c.writes = {"plan"} /\ {<<"tenants">>} \subseteq c.refreshes
    BY <1>3 DEF Cache!TenantChanges, Cache!Change
  <2>2. QED
    BY <1>3, <2>1, ShowsPlan DEF Cache!Touches, Cache!Matches, Under, Unnamed
<1>4. QED
  BY <1>1, <1>2, <1>3 DEF Cache!TenantChanges, Cache!Change

LEMMA PlanChangesNamed ==
  ASSUME NEW q \in Cache!Questions, NEW c \in Cache!PlanChanges, Cache!Touches(c, q)
  PROVE  Cache!Matches(c, q) \/ <<c.hook, q.hook>> \in Unnamed
<1>1. CASE c.hook \in {"useCancelPlanRequest", "useRequestPlan"}
  <2>1. c.writes = {"plan"} /\ {<<"academy", "plan">>} \subseteq c.refreshes
    BY <1>1 DEF Cache!PlanChanges, Cache!Change
  <2>2. QED
    BY <1>1, <2>1, ShowsPlan DEF Cache!Touches, Cache!Matches, Under, Unnamed
<1>2. QED
  BY <1>1 DEF Cache!PlanChanges, Cache!Change

LEMMA LudiChangesNamed ==
  ASSUME NEW q \in Cache!Questions, NEW c \in Cache!LudiChanges, Cache!Touches(c, q)
  PROVE  Cache!Matches(c, q) \/ <<c.hook, q.hook>> \in Unnamed
<1>1. CASE c.hook \in {"useDirectToggleLudiAddon", "useRequestLudiAddon", "useToggleLudiAddon"}
  <2>1. c.writes = {"ludi"} /\ {<<"tenants">>} \subseteq c.refreshes
    BY <1>1 DEF Cache!LudiChanges, Cache!Change
  <2>2. QED
    BY <1>1, <2>1, ShowsLudi DEF Cache!Touches, Cache!Matches, Under, Unnamed
<1>2. CASE c.hook = "useAwardXP"
  <2>1. c.writes = {"points"} /\ {<<"ludi-ranking", "it">>} \subseteq c.refreshes
    BY <1>2 DEF Cache!LudiChanges, Cache!Change
  <2>2. QED
    BY <1>2, <2>1, ShowsPoints DEF Cache!Touches, Cache!Matches, Under, Unnamed
<1>3. QED
  BY <1>1, <1>2 DEF Cache!LudiChanges, Cache!Change

LEMMA AssignmentChangesNamed ==
  ASSUME NEW q \in Cache!Questions, NEW c \in Cache!AssignmentChanges, Cache!Touches(c, q)
  PROVE  Cache!Matches(c, q) \/ <<c.hook, q.hook>> \in Unnamed
<1>1. CASE c.hook = "TeacherAssignmentModal"
  <2>1. c.writes = {"tasks"} /\ {<<"assignments">>, <<"dashboard">>} \subseteq c.refreshes
    BY <1>1 DEF Cache!AssignmentChanges, Cache!Change
  <2>2. QED
    BY <1>1, <2>1, ShowsTasks DEF Cache!Touches, Cache!Matches, Under, Unnamed
<1>2. CASE c.hook = "StudentAssignmentModal"
  <2>1. c.writes = {"handed-in"} /\ {<<"assignment-submissions">>, <<"assignments">>,
        <<"dashboard">>} \subseteq c.refreshes
    BY <1>2 DEF Cache!AssignmentChanges, Cache!Change
  <2>2. QED
    BY <1>2, <2>1, ShowsHandedIn DEF Cache!Touches, Cache!Matches, Under, Unnamed
<1>3. CASE c.hook = "TeacherSpeedGrader"
  <2>1. c.writes = {"handed-in", "scores"} /\ {<<"assignment-submissions">>, <<"assignments">>,
        <<"dashboard">>, <<"final-grade">>, <<"grades">>, <<"report">>} \subseteq c.refreshes
    BY <1>3 DEF Cache!AssignmentChanges, Cache!Change
  <2>2. QED
    BY <1>3, <2>1, ShowsHandedIn, ShowsScores DEF Cache!Touches, Cache!Matches, Under, Unnamed
<1>4. QED
  BY <1>1, <1>2, <1>3 DEF Cache!AssignmentChanges, Cache!Change

\* For every question and change of the client.
LEMMA NamedOrNot ==
  ASSUME NEW q \in Cache!Questions, NEW c \in Cache!Changes, Cache!Touches(c, q)
  PROVE  Cache!Matches(c, q) \/ <<c.hook, q.hook>> \in Unnamed
BY NationalityChangesNamed, LanguageChangesNamed, LevelChangesNamed, CourseChangesNamed,
   CourseStaffChangesNamed, CourseStatusChangeNamed, EnrollmentChangesNamed, PaymentChangesNamed,
   RenewalChangesNamed, AttendanceChangesNamed, GradeChangesNamed, WeightChangesNamed,
   SessionViewChangesNamed, SessionChangesNamed, VisitorChangeNamed, MakeupChangesNamed,
   ScheduleChangesNamed, LocationChangesNamed, RoomChangesNamed, HolidayChangesNamed,
   UserChangesNamed, TeacherChangesNamed, PayrollChangeNamed, NotificationChangesNamed,
   TenantChangesNamed, PlanChangesNamed, LudiChangesNamed, AssignmentChangesNamed DEF
   Cache!Changes

\* No screen has both, but for the pairs the code overlooks.
LEMMA UnnamedApart ==
  ASSUME NEW s \in Cache!Screens, NEW q \in s.asks, NEW c \in s.does,
         <<c.hook, q.hook>> \in Unnamed
  PROVE  <<c.hook, q.hook>> \in Cache!Overlooked
<1>1. s.does = {} \/ s \in {Cache!QuickPay, Cache!Bell, Cache!PlanOfAcademy, Cache!CoursesScreen,
      Cache!ScheduleDialog, Cache!CourseStatus, Cache!CourseWizard, Cache!AssignTeacher,
      Cache!EnrollmentsScreen, Cache!FinancesDialog, Cache!Statement, Cache!EnrollDesk,
      Cache!RenewalsCard, Cache!NextLevel, Cache!StudentsScreen, Cache!StudentDrawer,
      Cache!TeachersScreen, Cache!TeacherWizard, Cache!UsersScreen, Cache!PayrollScreen,
      Cache!CatalogScreen, Cache!RoomsScreen, Cache!HolidaysScreen, Cache!Planner,
      Cache!Proposals, Cache!TenantsScreen, Cache!ClassRegister, Cache!TeacherClasses,
      Cache!Today, Cache!GradeSheet, Cache!HomeworkToSet, Cache!HomeworkToDo, Cache!StudentHome,
      Cache!MakeupDialog, Cache!LobbyScreen, Cache!Profile, Cache!Ludi}
  BY DEF Cache!Screens, Cache!Screen, Cache!Frame, Cache!PaletteOfStaff, Cache!PaletteOfTeachers,
     Cache!PaletteOfStudents, Cache!Start, Cache!Figures, Cache!WeekPreview,
     Cache!FinancialSummary, Cache!CoursePreview, Cache!Payslip, Cache!Marks, Cache!Payments,
     Cache!Report, Cache!Trail
<1>2. CASE s \in {Cache!QuickPay, Cache!Bell, Cache!PlanOfAcademy, Cache!CoursesScreen,
      Cache!ScheduleDialog, Cache!CourseStatus}
  BY <1>2 DEF Unnamed, Cache!Overlooked, Cache!Screen, Cache!QuickPay, Cache!Bell,
     Cache!PlanOfAcademy, Cache!CoursesScreen, Cache!ScheduleDialog, Cache!CourseStatus
<1>3. CASE s \in {Cache!CourseWizard, Cache!AssignTeacher, Cache!EnrollmentsScreen,
      Cache!FinancesDialog, Cache!Statement, Cache!EnrollDesk}
  BY <1>3 DEF Unnamed, Cache!Overlooked, Cache!Screen, Cache!CourseWizard, Cache!AssignTeacher,
     Cache!EnrollmentsScreen, Cache!FinancesDialog, Cache!Statement, Cache!EnrollDesk
<1>4. CASE s \in {Cache!RenewalsCard, Cache!NextLevel, Cache!StudentsScreen, Cache!StudentDrawer,
      Cache!TeachersScreen, Cache!TeacherWizard}
  BY <1>4 DEF Unnamed, Cache!Overlooked, Cache!Screen, Cache!RenewalsCard, Cache!NextLevel,
     Cache!StudentsScreen, Cache!StudentDrawer, Cache!TeachersScreen, Cache!TeacherWizard
<1>5. CASE s \in {Cache!UsersScreen, Cache!PayrollScreen, Cache!CatalogScreen, Cache!RoomsScreen,
      Cache!HolidaysScreen, Cache!Planner}
  BY <1>5 DEF Unnamed, Cache!Overlooked, Cache!Screen, Cache!UsersScreen, Cache!PayrollScreen,
     Cache!CatalogScreen, Cache!RoomsScreen, Cache!HolidaysScreen, Cache!Planner
<1>6. CASE s \in {Cache!Proposals, Cache!TenantsScreen, Cache!ClassRegister, Cache!TeacherClasses,
      Cache!Today, Cache!GradeSheet}
  BY <1>6 DEF Unnamed, Cache!Overlooked, Cache!Screen, Cache!Proposals, Cache!TenantsScreen,
     Cache!ClassRegister, Cache!TeacherClasses, Cache!Today, Cache!GradeSheet
<1>7. CASE s \in {Cache!HomeworkToSet, Cache!HomeworkToDo, Cache!StudentHome, Cache!MakeupDialog,
      Cache!LobbyScreen, Cache!Profile}
  BY <1>7 DEF Unnamed, Cache!Overlooked, Cache!Screen, Cache!HomeworkToSet, Cache!HomeworkToDo,
     Cache!StudentHome, Cache!MakeupDialog, Cache!LobbyScreen, Cache!Profile
<1>8. CASE s \in {Cache!Ludi}
  BY <1>8 DEF Unnamed, Cache!Overlooked, Cache!Screen, Cache!Ludi
<1>9. QED
  BY <1>1, <1>2, <1>3, <1>4, <1>5, <1>6, <1>7, <1>8

\* So whatever a screen changes is asked for again on that screen.
LEMMA KeysNameWhatScreensShow ==
  ASSUME NEW s \in Cache!Screens, NEW q \in s.asks, NEW c \in s.does, Cache!Touches(c, q)
  PROVE  Cache!Matches(c, q) \/ <<c.hook, q.hook>> \in Cache!Overlooked
<1>1. q \in Cache!Questions /\ c \in Cache!Changes
  BY DEF Cache!Screens, Cache!Screen, Cache!Frame, Cache!PaletteOfStaff, Cache!PaletteOfTeachers,
     Cache!PaletteOfStudents, Cache!QuickPay, Cache!Bell, Cache!Start, Cache!Figures,
     Cache!WeekPreview, Cache!FinancialSummary, Cache!PlanOfAcademy, Cache!CoursesScreen,
     Cache!CoursePreview, Cache!ScheduleDialog, Cache!CourseStatus, Cache!CourseWizard,
     Cache!AssignTeacher, Cache!EnrollmentsScreen, Cache!FinancesDialog, Cache!Statement,
     Cache!EnrollDesk, Cache!RenewalsCard, Cache!NextLevel, Cache!StudentsScreen,
     Cache!StudentDrawer, Cache!TeachersScreen, Cache!TeacherWizard, Cache!UsersScreen,
     Cache!PayrollScreen, Cache!CatalogScreen, Cache!RoomsScreen, Cache!HolidaysScreen,
     Cache!Planner, Cache!Proposals, Cache!TenantsScreen, Cache!ClassRegister,
     Cache!TeacherClasses, Cache!Payslip, Cache!Today, Cache!GradeSheet, Cache!HomeworkToSet,
     Cache!HomeworkToDo, Cache!StudentHome, Cache!Marks, Cache!Payments, Cache!Report,
     Cache!Trail, Cache!MakeupDialog, Cache!LobbyScreen, Cache!Profile, Cache!Ludi
<1>2. QED
  BY <1>1, NamedOrNot, UnnamedApart

\* A behaviour follows one change and one question of one screen.
LEMMA ChosenInvariant == Spec => [](part = "cache" => Cache!Chosen)
<1>1. Init => (part = "cache" => Cache!Chosen)
  BY DEF Init, Cache!Init, Cache!Chosen
<1>2. ASSUME NEW c, Cache!Send(c) \/ Cache!Commit(c) \/ Cache!Succeed(c) \/ Cache!Fail(c)
      PROVE  UNCHANGED Cache!choice
  BY <1>2 DEF Cache!Send, Cache!Commit, Cache!Succeed, Cache!Fail
<1>3. Cache!Next => UNCHANGED Cache!choice
  BY <1>2 DEF Cache!Next, Cache!ServeFetch, Cache!TakeFetch, Cache!FailFetch, Cache!Age,
     Cache!LeaveScreen, Cache!Return
<1>4. (part = "cache" => Cache!Chosen) /\ [Next]_slots => (part = "cache" => Cache!Chosen)'
  BY <1>3, PartSteps DEF slots, Cache!choice, Cache!Chosen, Cache!Touches
<1>5. QED
  BY <1>1, <1>4, PTL DEF Spec, slots

\* A screen at rest shows every change it was told had been made, but for the
\* pairs of change and question that the code overlooks: for every screen,
\* question and change of the client, any number of calls and faults
\* (lib/queries, lib/queryClient.ts).
THEOREM OwnChangesAreShown == Spec => []ShowsOwnChanges
<1>1. ASSUME part = "cache" => Cache!CacheInv, part = "cache" => Cache!Chosen
      PROVE  ShowsOwnChanges
  <2>1. SUFFICES ASSUME part = "cache", Cache!Settled,
                        <<s3.hook, s2.hook>> \notin Cache!Overlooked
                 PROVE  s7.data >= s6
    BY DEF ShowsOwnChanges, Cache!ShowsOwnChanges
  <2>2. Cache!Matches(s3, s2)
    BY <1>1, <2>1, KeysNameWhatScreensShow DEF Cache!Chosen
  <2>3. QED
    BY <1>1, <2>1, <2>2 DEF Cache!CacheInv, Cache!Settled, Cache!AskedWhenNeeded,
       Cache!FreshOrInvalid
<1>2. QED
  BY <1>1, CacheInvariant, ChosenInvariant, PTL

-----------------------------------------------------------------------------
(* Who gets to see and press what (module Access): s1 the account, s2 the  *)
(* page's copy of what it holds, s3 the items of the start page, s4 the    *)
(* section, s5 how it was reached, s6 the last answer, s7 revised.         *)

\* The server takes it, or it is one of those offered to an assistant too many.
Accepted(who, h) ==
    Rights!May(who, h) \/ (who.role = "assistant" /\ h \in Rights!Overoffered)

Reaches(s) == {q.hook : q \in s.asks} \cup {c.hook : c \in s.does}

\* A screen reaches no other hooks than those of its component.
LEMMA ScreenReaches ==
  ASSUME NEW asks, NEW does
  PROVE  Reaches(Rights!Screen(asks, does)) \subseteq asks \cup does
BY DEF Reaches, Rights!Screen

\* What an administrator of an academy may do.
LEMMA AdminMay ==
  ASSUME NEW who, who.role = "admin", NEW h,
         h \notin Rights!OfThePlatform, h \notin Rights!OfStudents
  PROVE  Rights!May(who, h)
BY DEF Rights!May, Rights!Holds, Rights!Admins

LEMMA SuperadminMay ==
  ASSUME NEW who, who.role = "superadmin", NEW h, h \notin Rights!OfStudents
  PROVE  Rights!May(who, h)
BY DEF Rights!May, Rights!Holds, Rights!Admins

OfficeScreens ==
    {Rights!Frame, Rights!PaletteOfStaff, Rights!QuickPay, Rights!Bell, Rights!Start,
     Rights!Figures, Rights!WeekPreview, Rights!FinancialSummary, Rights!PlanOfAcademy,
     Rights!CoursesScreen, Rights!CoursePreview, Rights!ScheduleDialog, Rights!CourseStatus,
     Rights!CourseWizard, Rights!AssignTeacher, Rights!EnrollmentsScreen,
     Rights!FinancesDialog, Rights!Statement, Rights!EnrollDesk, Rights!RenewalsCard,
     Rights!StudentsScreen, Rights!StudentDrawer, Rights!TeachersScreen, Rights!TeacherWizard,
     Rights!UsersScreen, Rights!PayrollScreen, Rights!CatalogScreen, Rights!RoomsScreen,
     Rights!HolidaysScreen, Rights!Planner, Rights!Proposals, Rights!Report, Rights!Trail,
     Rights!Profile}

LEMMA OfficeReaches ==
  ASSUME NEW s \in OfficeScreens, NEW h \in Reaches(s)
  PROVE  h \notin Rights!OfThePlatform /\ h \notin Rights!OfStudents
BY ScreenReaches DEF OfficeScreens, Rights!OfThePlatform, Rights!OfStudents,
   Rights!Frame, Rights!PaletteOfStaff, Rights!QuickPay, Rights!Bell, Rights!Start,
   Rights!Figures, Rights!WeekPreview, Rights!FinancialSummary, Rights!PlanOfAcademy,
   Rights!CoursesScreen, Rights!CoursePreview, Rights!ScheduleDialog, Rights!CourseStatus,
   Rights!CourseWizard, Rights!AssignTeacher, Rights!EnrollmentsScreen, Rights!FinancesDialog,
   Rights!Statement, Rights!EnrollDesk, Rights!RenewalsCard, Rights!StudentsScreen,
   Rights!StudentDrawer, Rights!TeachersScreen, Rights!TeacherWizard, Rights!UsersScreen,
   Rights!PayrollScreen, Rights!CatalogScreen, Rights!RoomsScreen, Rights!HolidaysScreen,
   Rights!Planner, Rights!Proposals, Rights!Report, Rights!Trail, Rights!Profile

LEMMA TenantsReaches ==
  ASSUME NEW h \in Reaches(Rights!TenantsScreen)
  PROVE  h \notin Rights!OfStudents
BY ScreenReaches DEF Rights!TenantsScreen, Rights!OfStudents


\* What a section of the office shows an assistant who may open it is accepted,
\* whatever else the assistant holds.
LEMMA AssistantOffice ==
  ASSUME NEW who, who.role = "assistant", NEW section, Rights!CanSee(who, section),
         NEW s \in Rights!SectionOfOffice(who, section), NEW h \in Reaches(s),
         Rights!Teaches(who, section) \/ h \notin Rights!OfTeachers
  PROVE  Accepted(who, h)
<1> USE ScreenReaches DEF Accepted, Rights!SectionOfOffice, Rights!CanSee, Rights!OpensWith,
        Rights!May, Rights!Holds, Rights!Admins, Rights!Permitted, Rights!StaffPermitted,
        Rights!Permissions, Rights!OfThePlatform, Rights!OfAdmins, Rights!OfStudents,
        Rights!OfTheDirectory, Rights!Overoffered
<1>1. CASE section = "courses"
  BY <1>1 DEF Rights!CoursesScreen, Rights!CoursePreview, Rights!ScheduleDialog,
     Rights!CourseStatus, Rights!CourseWizard, Rights!AssignTeacher, Rights!EnrollDesk
<1>2. CASE section = "catalog"
  BY <1>2 DEF Rights!CatalogScreen
<1>3. CASE section = "enrollments"
  BY <1>3 DEF Rights!EnrollmentsOf, Rights!EnrollmentsScreen, Rights!EnrollDesk,
     Rights!FinancesDialog, Rights!RenewalsCard, Rights!If, Rights!CanViewFinance, 
     Rights!CanManageEnrollments
<1>4. CASE section = "users"
  BY <1>4 DEF Rights!UsersScreen, Rights!EnrollDesk, Rights!Statement, Rights!Teaches,
     Rights!OfTeachers
<1>5. CASE section = "teachers"
  BY <1>5 DEF Rights!TeachersScreen, Rights!TeacherWizard, Rights!AssignTeacher
<1>6. CASE section = "nomina"
  BY <1>6 DEF Rights!PayrollScreen
<1>7. CASE section = "students"
  BY <1>7 DEF Rights!StudentsScreen, Rights!StudentDrawer, Rights!EnrollDesk
<1>8. CASE section = "inicio"
  BY <1>8 DEF Rights!HomeOf, Rights!If, Rights!Start, Rights!Figures, Rights!FinancialSummary,
     Rights!PlanOfAcademy, Rights!WeekPreview
<1>9. CASE section \in {"horarios", "pendientes"}
  BY <1>9 DEF Rights!Planner, Rights!Proposals
<1>10. CASE section \in {"rooms", "holidays", "reports"}
  BY <1>10 DEF Rights!RoomsScreen, Rights!HolidaysScreen, Rights!Report
<1>11. CASE section \in {"tenants", "audit"}
  BY <1>11 DEF Rights!SectionsFor
<1>12. CASE section = "perfil"
  BY <1>12 DEF Rights!Profile, Rights!Teaches, Rights!OfTeachers
<1>13. QED
  BY <1>1, <1>2, <1>3, <1>4, <1>5, <1>6, <1>7, <1>8, <1>9, <1>10, <1>11, <1>12

\* The pages of an administrator show screens of the office only.
LEMMA AdminOffice ==
  ASSUME NEW who, who.role = "admin", NEW section, Rights!CanSee(who, section),
         NEW s \in Rights!SectionOfOffice(who, section), NEW h \in Reaches(s)
  PROVE  Accepted(who, h)
<1>1. section # "tenants"
  BY DEF Rights!CanSee
<1>2. s \in OfficeScreens
  BY <1>1 DEF Rights!SectionOfOffice, Rights!HomeOf, Rights!EnrollmentsOf, Rights!If,
     OfficeScreens
<1>3. QED
  BY <1>2, OfficeReaches, AdminMay DEF Accepted

LEMMA SuperadminOffice ==
  ASSUME NEW who, who.role = "superadmin", NEW section, Rights!CanSee(who, section),
         NEW s \in Rights!SectionOfOffice(who, section), NEW h \in Reaches(s)
  PROVE  Accepted(who, h)
<1>1. s \in OfficeScreens \cup {Rights!TenantsScreen}
  BY DEF Rights!SectionOfOffice, Rights!HomeOf, Rights!EnrollmentsOf, Rights!If, OfficeScreens
<1>2. QED
  BY <1>1, OfficeReaches, TenantsReaches, SuperadminMay DEF Accepted

LEMMA TeacherPages ==
  ASSUME NEW who, who.role = "teacher", NEW section,
         NEW s \in Rights!SectionOfTeacher(who, section), NEW h \in Reaches(s)
  PROVE  Accepted(who, h)
<1> USE ScreenReaches DEF Accepted, Rights!SectionOfTeacher,
        Rights!May, Rights!Holds, Rights!Admins, Rights!Permitted, Rights!StaffPermitted,
        Rights!Permissions, Rights!OfThePlatform, Rights!OfAdmins, Rights!OfStudents,
        Rights!OfTheDirectory
<1>1. CASE section = "clases"
  BY <1>1 DEF Rights!TeacherClasses, Rights!ClassRegister, Rights!GradeSheet
<1>2. CASE section = "tareas"
  BY <1>2 DEF Rights!HomeworkOf, Rights!HomeworkToSet, Rights!CanManageGrades
<1>3. CASE section \notin {"clases", "tareas"}
  BY <1>3 DEF Rights!Today, Rights!Ludi, Rights!Payslip, Rights!Report, Rights!Profile
<1>4. QED
  BY <1>1, <1>2, <1>3

LEMMA StudentPages ==
  ASSUME NEW who, who.role = "student", NEW section,
         NEW s \in Rights!SectionOfStudent(section), NEW h \in Reaches(s),
         Rights!Teaches(who, section) \/ h \notin Rights!OfTeachers
  PROVE  Accepted(who, h)
<1> USE ScreenReaches DEF Accepted, Rights!SectionOfStudent,
        Rights!May, Rights!Holds, Rights!Admins, Rights!Permitted, Rights!StaffPermitted,
        Rights!Permissions, Rights!OfThePlatform, Rights!OfAdmins, Rights!OfStudents,
        Rights!OfTheDirectory
<1>1. CASE section = "perfil"
  BY <1>1 DEF Rights!Profile, Rights!Teaches, Rights!OfTeachers
<1>2. CASE section # "perfil"
  BY <1>2 DEF Rights!HomeworkToDo, Rights!Marks, Rights!Payments, Rights!Report,
     Rights!StudentHome, Rights!NextLevel, Rights!MakeupDialog
<1>3. QED
  BY <1>1, <1>2

\* The bar, the bell, the palette and the quick payment, on the page of anybody.
LEMMA AroundAccepted ==
  ASSUME NEW who, who.role \in Rights!Roles, NEW s \in Rights!Around(who), NEW h \in Reaches(s)
  PROVE  Accepted(who, h)
BY ScreenReaches
DEF Accepted, Rights!Roles, Rights!Around, Rights!If, Rights!Frame, Rights!Bell,
    Rights!PaletteOfStaff, Rights!PaletteOfTeachers, Rights!PaletteOfStudents, Rights!QuickPay,
    Rights!CanViewFinance, Rights!Overoffered,
    Rights!May, Rights!Holds, Rights!Admins, Rights!Permitted, Rights!StaffPermitted,
    Rights!Permissions, Rights!OfThePlatform, Rights!OfAdmins, Rights!OfStudents,
    Rights!OfTheDirectory

\* For every role, whatever it holds, at every section: what is asked or offered
\* is accepted.
LEMMA UsesAccepted ==
  ASSUME NEW who, who.role \in Rights!Roles, NEW section,
         NEW h \in Rights!AskedFor(who, section) \cup Rights!Offered(who, section)
  PROVE  Accepted(who, h)
<1>1. CASE h \in Rights!Settings(who, section)
  BY <1>1 DEF Rights!Settings, Rights!If, Rights!CanSee, Rights!SectionsFor, Rights!MenuOf,
     Rights!Extra, Rights!Roles, Accepted, Rights!Overoffered, Rights!MenuOfAcademy,
     Rights!May, Rights!Holds, Rights!Admins, Rights!Permitted, Rights!StaffPermitted,
     Rights!Permissions, Rights!OfThePlatform, Rights!OfAdmins, Rights!OfStudents,
     Rights!OfTheDirectory
<1>2. CASE h \notin Rights!Settings(who, section)
  <2>1. PICK s \in Rights!Shown(who, section) : h \in Reaches(s)
    BY <1>2 DEF Rights!AskedFor, Rights!Offered, Reaches
  <2>2. Rights!Teaches(who, section) \/ h \notin Rights!OfTeachers
    BY DEF Rights!AskedFor, Rights!Offered
  <2>3. CASE s \in Rights!Around(who)
    BY <2>1, <2>3, AroundAccepted
  <2>4. CASE s \in Rights!Mounted(who, section)
    BY <2>1, <2>2, <2>4, AssistantOffice, AdminOffice, SuperadminOffice, TeacherPages,
       StudentPages
    DEF Rights!Mounted, Rights!Roles, Rights!Admins
  <2>5. QED
    BY <2>1, <2>3, <2>4 DEF Rights!Shown
<1>3. QED
  BY <1>1, <1>2

\* Every link but the misleading ones leads to a section that opens.
LEMMA MenuOpens ==
  ASSUME NEW who, who.role \in Rights!Roles
  PROVE  /\ \A section \in Rights!Menu(who) : Rights!CanSee(who, section)
         /\ Rights!CanSee(who, Rights!DefaultSection(who.role))
BY DEF Rights!Menu, Rights!CanSee, Rights!DefaultSection, Rights!Roles, Rights!Admins,
   Rights!SectionsFor, Rights!MenuOf, Rights!MenuOfAcademy, Rights!Extra, Rights!OpensWith

LEMMA PaletteOpens ==
  ASSUME NEW who, who.role \in Rights!Roles, who.role # "superadmin",
         who.role # "assistant" => who.held = {},
         NEW section \in Rights!Palette(who)
  PROVE  Rights!CanSee(who, section)
BY DEF Rights!Menu, Rights!CanSee, Rights!Palette, Rights!Roles, Rights!Admins,
   Rights!SectionsFor, Rights!MenuOf, Rights!MenuOfAcademy, Rights!Extra, Rights!OpensWith,
   Rights!CanManageEnrollments

LEMMA TrayOpens ==
  ASSUME NEW who, who.role \in Rights!Roles, who.role # "superadmin",
         NEW section \in Rights!TrayItems(who), section # "courses"
  PROVE  Rights!CanSee(who, section)
BY DEF Rights!TrayItems, Rights!CanSee, Rights!Roles, Rights!Admins, Rights!Holds,
   Rights!SectionsFor, Rights!MenuOf, Rights!MenuOfAcademy, Rights!Extra, Rights!OpensWith

LEMMA AccessInit == Rights!Init => Rights!AccessInv
<1> SUFFICES ASSUME Rights!Init PROVE Rights!AccessInv
  OBVIOUS
<1>1. PICK r \in Rights!Roles : s1 \in [role : {r}, held : Rights!Holdings(r)]
  BY DEF Rights!Init
<1>2. Rights!AccountInv
  BY <1>1 DEF Rights!AccountInv
<1>3. Rights!UpToDate /\ Rights!OffersWhatItMay
  BY DEF Rights!Init, Rights!UpToDate, Rights!OffersWhatItMay, Rights!Quiet
<1>4. Rights!CanSee(Rights!Me, s4)
  BY <1>2, MenuOpens DEF Rights!Init, Rights!Me, Rights!AccountInv
<1>5. QED
  BY <1>2, <1>3, <1>4 DEF Rights!AccessInv, Rights!LinksOpen

\* A link that is followed.
LEMMA AccessGo ==
  ASSUME Rights!AccessInv,
         Rights!FromMenu \/ Rights!FromPalette \/ Rights!FromTray \/ Rights!FromBell
  PROVE  Rights!AccessInv'
<1>1. UNCHANGED <<s1, s2, s3, s7>> /\ s6' = Rights!Quiet
  BY DEF Rights!FromMenu, Rights!FromPalette, Rights!FromTray, Rights!FromBell, Rights!Go
<1>2. Rights!AccountInv' /\ Rights!UpToDate' /\ Rights!OffersWhatItMay'
  BY <1>1 DEF Rights!AccessInv, Rights!AccountInv, Rights!UpToDate, Rights!OffersWhatItMay,
     Rights!Quiet
<1>3. ASSUME ~s7, ~Rights!Misleading'
      PROVE  Rights!CanSee(Rights!Me, s4')
  <2> DEFINE who == Rights!Me
  <2>1. who = s1 /\ who.role \in Rights!Roles /\ (who.role # "assistant" => who.held = {})
        /\ who.role = s1.role
    BY <1>3 DEF Rights!AccessInv, Rights!AccountInv, Rights!UpToDate, Rights!Me, Rights!Holdings
  <2>2. CASE Rights!FromMenu
    BY <2>1, <2>2, MenuOpens DEF Rights!FromMenu, Rights!Go
  <2>3. CASE Rights!FromPalette
    BY <1>1, <1>3, <2>1, <2>3, PaletteOpens DEF Rights!FromPalette, Rights!Go, Rights!Misleading
  <2>4. CASE Rights!FromTray
    <3>1. s4' \in Rights!TrayItems(s1) /\ s5' = "tray" /\ s1.role # "superadmin"
      BY <1>3, <2>4 DEF Rights!FromTray, Rights!Go, Rights!AccessInv, Rights!UpToDate
    <3>2. s4' # "courses"
      BY <1>3, <3>1 DEF Rights!Misleading
    <3>3. QED
      BY <2>1, <3>1, <3>2, TrayOpens
  <2>5. CASE Rights!FromBell
    BY <1>3, <2>5 DEF Rights!FromBell, Rights!Go, Rights!Misleading
  <2>6. QED
    BY <2>2, <2>3, <2>4, <2>5
<1>4. Rights!Me' = Rights!Me
  BY <1>1 DEF Rights!Me
<1>5. Rights!LinksOpen'
  BY <1>1, <1>3, <1>4 DEF Rights!LinksOpen
<1>6. QED
  BY <1>2, <1>5 DEF Rights!AccessInv

\* A question asked or a button pressed.
LEMMA AccessUse ==
  ASSUME Rights!AccessInv, Rights!Ask \/ Rights!Press
  PROVE  Rights!AccessInv'
<1>1. PICK h \in Rights!AskedFor(Rights!Me, s4) \cup Rights!Offered(Rights!Me, s4) :
        /\ s6' = [hook |-> h, taken |-> Rights!May(s1, h)]
        /\ s3' = s3 \/ s3' = Rights!TrayItems(s1)
  BY DEF Rights!Ask, Rights!Press
<1>2. UNCHANGED <<s1, s2, s4, s5, s7>>
  BY DEF Rights!Ask, Rights!Press
<1>3. Rights!AccountInv' /\ Rights!UpToDate' /\ Rights!LinksOpen'
  BY <1>1, <1>2 DEF Rights!AccessInv, Rights!AccountInv, Rights!UpToDate, Rights!LinksOpen,
     Rights!Misleading, Rights!Me
<1>4. ~s7 => Accepted(s1, h)
  <2>1. ~s7 => Rights!Me = s1
    BY DEF Rights!AccessInv, Rights!AccountInv, Rights!UpToDate, Rights!Me
  <2>2. s1.role \in Rights!Roles
    BY DEF Rights!AccessInv, Rights!AccountInv
  <2>3. QED
    BY <1>1, <2>1, <2>2, UsesAccepted
<1>5. Rights!OffersWhatItMay'
  BY <1>1, <1>2, <1>4 DEF Rights!OffersWhatItMay, Accepted
<1>6. QED
  BY <1>3, <1>5 DEF Rights!AccessInv

LEMMA AccessRevise ==
  ASSUME Rights!AccessInv, Rights!Revise
  PROVE  Rights!AccessInv'
<1>1. PICK held \in Rights!Holdings(s1.role) : s1' = [s1 EXCEPT !.held = held]
  BY DEF Rights!Revise
<1>2. s1' = [role |-> s1.role, held |-> held] /\ s7' = TRUE
  BY <1>1 DEF Rights!AccessInv, Rights!AccountInv, Rights!Revise
<1>3. QED
  BY <1>2 DEF Rights!AccessInv, Rights!AccountInv, Rights!UpToDate, Rights!LinksOpen,
     Rights!OffersWhatItMay

LEMMA AccessReload ==
  ASSUME Rights!AccessInv, Rights!Reload
  PROVE  Rights!AccessInv'
BY DEF Rights!Reload, Rights!AccessInv, Rights!AccountInv, Rights!UpToDate, Rights!LinksOpen,
   Rights!OffersWhatItMay, Rights!Quiet, Rights!TrayItems, Rights!Holds

LEMMA AccessInvariant == Spec => [](part = "rights" => Rights!AccessInv)
<1>1. Init => (part = "rights" => Rights!AccessInv)
  BY AccessInit DEF Init
<1>2. Rights!AccessInv /\ Rights!Next => Rights!AccessInv'
  BY AccessGo, AccessUse, AccessRevise, AccessReload DEF Rights!Next
<1>3. Rights!AccessInv /\ UNCHANGED slots => Rights!AccessInv'
  BY DEF slots, Rights!AccessInv, Rights!AccountInv, Rights!UpToDate, Rights!LinksOpen,
     Rights!Misleading, Rights!Me, Rights!OffersWhatItMay, Rights!TrayItems, Rights!Holds
<1>4. (part = "rights" => Rights!AccessInv) /\ [Next]_slots
        => (part = "rights" => Rights!AccessInv)'
  BY <1>2, <1>3, PartSteps
<1>5. QED
  BY <1>1, <1>4, PTL DEF Spec, slots

\* Until an account is changed under an open page, every link of its menu, its
\* palette and its start page opens, and the server takes whatever its screens
\* ask or offer, but for the dead ends and the offers that Misleading and
\* Overoffered name: for every role and every set of permissions
\* (lib/nav.ts, core/deps.py).
THEOREM OffersAreOpen == Spec => []OffersWhatOpens
<1>1. (part = "rights" => Rights!AccessInv) => OffersWhatOpens
  BY DEF OffersWhatOpens, Rights!AccessInv
<1>2. QED
  BY <1>1, AccessInvariant, PTL

=============================================================================
