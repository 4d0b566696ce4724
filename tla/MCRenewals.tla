----------------------------- MODULE MCRenewals -----------------------------
EXTENDS Renewals, TLC
CONSTANTS beginners, improvers

MCLevel == beginners :> 1 @@ improvers :> 2

Symmetry == Permutations(Requests) \cup Permutations(Students) \cup Permutations(Asks)
=============================================================================
