---------------------------- MODULE MCWebSession ----------------------------
EXTENDS WebSession, TLC

Symmetry == Permutations(Tabs) \cup Permutations(Users)
=============================================================================
