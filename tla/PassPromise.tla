---------------------------- MODULE PassPromise -----------------------------
(***************************************************************************)
(* The life of a make-up pass as its owner sees it, without clocks, row    *)
(* locks or requests (backend/app/models/make_up_credit.py and the         *)
(* docstring of mark_makeup_visitor in backend/app/routers/sessions.py):   *)
(*   - a booking names one class, and can be moved or released;            *)
(*   - whoever comes, and whoever booked and does not come, has used it;   *)
(*   - a pass that was used or has expired is never usable again.          *)
(* A pass that two requests handle at the same time is promised nothing.   *)
(***************************************************************************)
CONSTANTS Passes, Classes, NoClass

VARIABLES
    life,    \* life[p]: where pass p is in its life
    class    \* class[p]: the class it is booked for, or was used in

vars == <<life, class>>

Usable == {"available", "booked"}

Init ==
    /\ life = [p \in Passes |-> "unborn"]
    /\ class = [p \in Passes |-> NoClass]

Move(p, to, x) ==
    /\ life' = [life EXCEPT ![p] = to]
    /\ class' = [class EXCEPT ![p] = x]

Issue(P) ==
    /\ \A p \in P : life[p] = "unborn"
    /\ life' = [p \in Passes |-> IF p \in P THEN "available" ELSE life[p]]
    /\ UNCHANGED class

Book(p, x) == life[p] \in Usable /\ Move(p, "booked", x)

Release(p) == life[p] = "booked" /\ Move(p, "available", NoClass)

\* The mark of a visitor can be corrected from present to absent, not back.
Attend(p) == life[p] = "booked" /\ Move(p, "attended", class[p])

Miss(p) == life[p] \in {"booked", "attended"} /\ Move(p, "cancelled", class[p])

End(P, as) ==
    /\ life' = [p \in Passes |-> IF p \in P THEN as ELSE life[p]]
    /\ class' = [p \in Passes |-> IF p \in P THEN NoClass ELSE class[p]]

Expire(P) == (\A p \in P : life[p] \in Usable) /\ End(P, "expired")

Contend(P) == (\A p \in P : life[p] # "unborn") /\ End(P, "contended")

Next ==
    \/ \E P \in SUBSET Passes : Issue(P) \/ Expire(P) \/ Contend(P)
    \/ \E p \in Passes, x \in Classes : Book(p, x)
    \/ \E p \in Passes : Release(p) \/ Attend(p) \/ Miss(p)

Spec == Init /\ [][Next]_vars

=============================================================================
