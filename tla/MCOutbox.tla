------------------------------ MODULE MCOutbox ------------------------------
EXTENDS Outbox

CONSTANTS mail, push, phone

MCDevice == [m \in Messages |-> IF m = push THEN phone ELSE NoDevice]
MCRetryDelay == [n \in 1..(MaxAttempts - 1) |-> n]
=============================================================================
