-------------------------- MODULE DeliveryPromise ---------------------------
(***************************************************************************)
(* What the notification outbox promises, without its clock, its retries,  *)
(* its row locks and its processes (backend/app/models/notification.py and *)
(* the heading of backend/app/services/delivery.py):                       *)
(*   - one attempt at a time for each message;                             *)
(*   - "sent" is written only when the provider has taken the message;     *)
(*   - a message that is sent, failed or expired never moves again, and    *)
(*     one that is being attempted does not expire meanwhile.              *)
(***************************************************************************)
EXTENDS Naturals

CONSTANT Messages

VARIABLES
    status,      \* status[m]: the state of message m
    inFlight,    \* the messages that are being attempted
    taken        \* taken[m]: how often the provider took message m

vars == <<status, inFlight, taken>>

MessageStatus == {"none", "pending", "sent", "failed", "expired"}

Init ==
    /\ status = [m \in Messages |-> "none"]
    /\ inFlight = {}
    /\ taken = [m \in Messages |-> 0]

Queue(M) ==
    /\ \A m \in M : status[m] = "none"
    /\ status' = [m \in Messages |-> IF m \in M THEN "pending" ELSE status[m]]
    /\ UNCHANGED <<inFlight, taken>>

Attempt(m) ==
    /\ status[m] = "pending"
    /\ m \notin inFlight
    /\ inFlight' = inFlight \cup {m}
    /\ UNCHANGED <<status, taken>>

Take(m) ==
    /\ m \in inFlight
    /\ taken' = [taken EXCEPT ![m] = @ + 1]
    /\ UNCHANGED <<status, inFlight>>

Resolve(m, outcome) ==
    /\ m \in inFlight
    /\ outcome = "sent" => taken[m] > 0
    /\ status' = [status EXCEPT ![m] = outcome]
    /\ inFlight' = inFlight \ {m}
    /\ UNCHANGED taken

Expire(M) ==
    /\ \A m \in M : status[m] = "pending" /\ m \notin inFlight
    /\ status' = [m \in Messages |-> IF m \in M THEN "expired" ELSE status[m]]
    /\ UNCHANGED <<inFlight, taken>>

Next ==
    \/ \E M \in SUBSET Messages : Queue(M) \/ Expire(M)
    \/ \E m \in Messages : Attempt(m) \/ Take(m)
    \/ \E m \in Messages, outcome \in {"pending", "sent", "failed"} : Resolve(m, outcome)

Spec == Init /\ [][Next]_vars

=============================================================================
