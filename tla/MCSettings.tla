---------------------------- MODULE MCSettings ----------------------------
EXTENDS Settings, TLC

Symmetry == Permutations(Tasks) \cup Permutations(Accounts) \cup Permutations(Passwords)
============================================================================
