---------------------------- MODULE MCConnPool ----------------------------
EXTENDS ConnPool, TLC

Symmetry == Permutations(Conns) \cup Permutations(Drivers)

===========================================================================
