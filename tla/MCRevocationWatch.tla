-------------------------- MODULE MCRevocationWatch ---------------------------
(* Instances of RevocationWatch for TLC. *)
EXTENDS RevocationWatch

CONSTANTS bob, l1, r1

OneUser     == {bob}
OneLabel    == {l1}
OneRequest  == {r1}
ZeroTtl     == {0}

=============================================================================
