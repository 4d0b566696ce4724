-------------------------------- MODULE Ledger ---------------------------------
(***************************************************************************)
(* The account of one matricula: its charges and payments, the invoices    *)
(* issued for what was paid, and the payment status the matricula carries  *)
(* as a summary of them.  Requests overlap as the database lets them: they *)
(* read what is committed, a movement keeps the row of the matricula from  *)
(* being locked for an invoice, and the status is written only by whom it  *)
(* changes for.  Every movement is of one unit, and the matricula is one   *)
(* the sweeps look at: it still owes, in an academy that is active.        *)
(***************************************************************************)
EXTENDS Naturals, FiniteSets

CONSTANTS
    Requests,       \* the requests in flight, the hourly sweep among them
    MaxRows         \* bounds the movements of the ledger

VARIABLES
    rows,           \* the charges that are due, due later, without a date, and the payments
    fee,            \* the amount agreed with the matricula
    status,         \* its payment status
    invoiced,       \* the total of its invoices
    work,           \* what each request is at
    doubt           \* whether the status may be another than the ledger says

vars == <<rows, fee, status, invoiced, work, doubt>>

Moves == {"due", "later", "undated", "paid"}

Idle == [stage |-> "idle", does |-> "nothing", saw |-> "paid", becomes |-> "paid",
         pending |-> 0, alone |-> TRUE]

RowsOf(ledger) == ledger["due"] + ledger["later"] + ledger["undated"] + ledger["paid"]

(* Without a charge, the fee agreed is what is owed.  A charge makes the   *)
(* matricula overdue from the day it falls due, one without a date never.  *)
Derive(ledger, agreed) ==
    LET charged == ledger["due"] + ledger["later"] + ledger["undated"]
        owed == IF charged > 0 THEN charged ELSE agreed
    IN  CASE owed <= ledger["paid"] -> "paid"
          [] owed > ledger["paid"] /\ ledger["due"] > ledger["paid"] -> "overdue"
          [] OTHER -> "pending"

With(ledger, move) == IF move \in Moves THEN [ledger EXCEPT ![move] = @ + 1] ELSE ledger

(* A matricula with a fee is created with its charge. *)
Init ==
    /\ \E opened \in {"none", "due", "later", "undated"} :
          rows = With([m \in Moves |-> 0], opened)
    /\ fee = RowsOf(rows)
    /\ status = Derive(rows, fee)
    /\ invoiced = 0
    /\ work = [r \in Requests |-> Idle]
    /\ doubt = FALSE

Locked == \E r \in Requests : work[r].stage = "locked"
Moving == \E r \in Requests : work[r].stage = "derived" /\ work[r].does \in Moves

(* Whoever has read by now has read something else than there is. *)
Overtaken(those) ==
    [r \in Requests |-> IF work[r].stage \in those THEN [work[r] EXCEPT !.alone = FALSE]
                                                   ELSE work[r]]

(* POST /payments with a charge or a payment, and either sweep: the        *)
(* matricula is loaded, with the status it has.                            *)
Load(r, does) ==
    /\ work[r].stage = "idle"
    /\ work' = [work EXCEPT ![r] = [Idle EXCEPT !.stage = "read", !.does = does, !.saw = status]]
    /\ UNCHANGED <<rows, fee, status, invoiced, doubt>>

(* A slip: the movement is not in the database when the status is derived. *)
DeriveUnflushed(r) ==
    /\ work[r].stage = "read"
    /\ work[r].does \in Moves => ~Locked /\ RowsOf(rows) < MaxRows
    /\ work' = [work EXCEPT ![r].stage = "derived", ![r].becomes = Derive(rows, fee)]
    /\ UNCHANGED <<rows, fee, status, invoiced, doubt>>

(* The movement goes in first, and waits there for whoever has locked the  *)
(* matricula; then the status is derived from it and from what others have *)
(* committed.                                                              *)
Refresh(r) ==
    /\ work[r].stage = "read"
    /\ work[r].does \in Moves => ~Locked /\ RowsOf(rows) < MaxRows
    /\ work' = [work EXCEPT ![r].stage = "derived",
                            ![r].becomes = Derive(With(rows, work[r].does), fee)]
    /\ UNCHANGED <<rows, fee, status, invoiced, doubt>>

(* A status equal to the one loaded is not written.  The last to write     *)
(* stands.                                                                 *)
Commit(r) ==
    /\ work[r].stage = "derived" /\ RowsOf(With(rows, work[r].does)) <= MaxRows
    /\ work[r].becomes # work[r].saw => ~Locked
    /\ rows' = With(rows, work[r].does)
    /\ status' = IF work[r].becomes # work[r].saw THEN work[r].becomes ELSE status
    /\ work' = [Overtaken({"read", "derived"}) EXCEPT ![r] = Idle]
    /\ doubt' = ~work[r].alone
    /\ UNCHANGED <<fee, invoiced>>

(* A slip: the matricula is read without its lock. *)
LockNobody(r) ==
    /\ work[r].stage = "idle"
    /\ work' = [work EXCEPT ![r] = [Idle EXCEPT !.stage = "locked", !.does = "invoice",
                   !.pending = IF rows["paid"] > invoiced THEN rows["paid"] - invoiced ELSE 0]]
    /\ UNCHANGED <<rows, fee, status, invoiced, doubt>>

(* POST /enrollments/{id}/invoice waits for the movements under way and    *)
(* for the invoices, and then reads what was paid and not invoiced.        *)
LockForInvoice(r) ==
    /\ work[r].stage = "idle" /\ ~Locked /\ ~Moving
    /\ work' = [work EXCEPT ![r] = [Idle EXCEPT !.stage = "locked", !.does = "invoice",
                   !.pending = IF rows["paid"] > invoiced THEN rows["paid"] - invoiced ELSE 0]]
    /\ UNCHANGED <<rows, fee, status, invoiced, doubt>>

(* Nothing paid, or nothing left to invoice, is refused. *)
Issue(r) ==
    /\ work[r].stage = "locked"
    /\ invoiced' = invoiced + work[r].pending
    /\ work' = [work EXCEPT ![r] = Idle]
    /\ UNCHANGED <<rows, fee, status, doubt>>

(* A request that dies takes all it did with it. *)
Fail(r) ==
    /\ work[r].stage # "idle"
    /\ work' = [work EXCEPT ![r] = Idle]
    /\ UNCHANGED <<rows, fee, status, invoiced, doubt>>

(* PATCH /enrollments/{id} may set the fee, or the status itself, and      *)
(* derives nothing.                                                        *)
Amend ==
    /\ ~Locked
    /\ \/ \E amount \in {0, 1} : fee' = amount /\ UNCHANGED status
       \/ \E s \in {"paid", "pending", "overdue"} : status' = s /\ UNCHANGED fee
    /\ doubt' = TRUE
    /\ work' = Overtaken({"read", "derived"})
    /\ UNCHANGED <<rows, invoiced>>

(* At midnight of the academy. *)
NextDay ==
    /\ rows["later"] > 0
    /\ rows' = [rows EXCEPT !["due"] = @ + rows["later"], !["later"] = 0]
    /\ doubt' = TRUE
    /\ work' = Overtaken({"derived"})
    /\ UNCHANGED <<fee, status, invoiced>>

Next ==
    \/ \E r \in Requests :
          \/ \E does \in Moves \cup {"sweep"} : Load(r, does)
          \/ Refresh(r) \/ Commit(r) \/ LockForInvoice(r) \/ Issue(r) \/ Fail(r)
    \/ Amend \/ NextDay

Spec == Init /\ [][Next]_vars

-----------------------------------------------------------------------------
(* "dos clics seguidos facturaban dos veces el mismo dinero"               *)
(* (routers/payments.py:214): the invoices never add up to more than what  *)
(* was paid, however the requests for them and the payments overlap.       *)
InvoicedOnce == invoiced <= rows["paid"]

(* "a cached summary of the Payment rows" (services/finance.py:3): the     *)
(* status is what the ledger says, and one movement or sweep that nobody   *)
(* overtook makes it so again, after the day has turned, the fee was       *)
(* changed, or two movements have missed each other.                       *)
CacheTells == doubt \/ status = Derive(rows, fee)

-----------------------------------------------------------------------------
(* Why they hold. *)

Statuses == {"paid", "pending", "overdue"}
Works == [stage : {"idle", "read", "derived", "locked"},
          does : Moves \cup {"sweep", "invoice", "nothing"},
          saw : Statuses, becomes : Statuses, pending : Nat, alone : BOOLEAN]

\* The variables hold values of their types.
TypeOK ==
    /\ rows \in [Moves -> Nat] /\ fee \in Nat /\ status \in Statuses /\ invoiced \in Nat
    /\ work \in [Requests -> Works]
    /\ doubt \in BOOLEAN

\* The row of the matricula is locked by one request at a time.
OneLock ==
    \A r, q \in Requests : work[r].stage = "locked" /\ work[q].stage = "locked" => r = q

\* What is about to be invoiced has been paid and is not invoiced yet.
PendingIsPaid ==
    \A r \in Requests : work[r].stage = "locked" => invoiced + work[r].pending <= rows["paid"]

\* What nobody overtook is still as it was read, and as it was derived.
AloneIsFresh ==
    \A r \in Requests : work[r].alone =>
        /\ work[r].stage \in {"read", "derived"} => work[r].saw = status
        /\ work[r].stage = "derived" => work[r].becomes = Derive(With(rows, work[r].does), fee)

LedgerInv == TypeOK /\ OneLock /\ PendingIsPaid /\ AloneIsFresh /\ InvoicedOnce /\ CacheTells
===============================================================================
