------------------------------ MODULE MCSeats -------------------------------
EXTENDS Seats, TLC

Symmetry == Permutations(Requests) \cup Permutations(Students)
=============================================================================
