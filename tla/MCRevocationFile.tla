--------------------------- MODULE MCRevocationFile ---------------------------
(* Instances of RevocationFile for TLC. *)
EXTENDS RevocationFile, TLC

CONSTANTS bob, l1, l2, c1, c2

OneUser   == {bob}
OneLabel  == {l1}
TwoLabels == {l1, l2}
OneCli    == {c1}
TwoClis   == {c1, c2}
NoTtl     == {}
SomeTtl   == {-1, 0, 1}
ZeroTtl   == {0}

Symmetry == Permutations(TwoClis)

=============================================================================
