------------------------------ MODULE MCSockets -----------------------------
EXTENDS Sockets, TLC

Symmetry == Permutations(Socks) \cup Permutations(Assocs) \cup Permutations(Tasks)
=============================================================================
