------------------------------- MODULE MCLeader -------------------------------
EXTENDS LeaderElection, TLC

Symmetry == Permutations(Instances)
===============================================================================
