---------------------------- MODULE MCMemoryPlugin ----------------------------
(* Instances of MemoryPlugin for TLC. *)
EXTENDS MemoryPlugin

CONSTANTS p1, p2, k1, k2, v1, v2

TwoProcs  == {p1, p2}
TwoKeys   == {k1, k2}
TwoValues == {v1, v2}
AllFaults == {"mkdir", "read", "write", "rename", "delete"}

=============================================================================
