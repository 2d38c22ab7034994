---------------------------- MODULE MCSockDriver ----------------------------
(* Instances of SockDriver for TLC: Sock structures are interchangeable.    *)
EXTENDS SockDriver, TLC

Symmetry == Permutations(Socks)
=============================================================================
