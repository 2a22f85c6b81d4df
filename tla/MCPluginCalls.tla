---------------------------- MODULE MCPluginCalls -----------------------------
(* Instances of PluginCalls for TLC. *)
EXTENDS PluginCalls

CONSTANTS c1, c2, c3, t1, t2

TwoCalls   == {c1, c2}
ThreeCalls == {c1, c2, c3}
OneTool    == {t1}
TwoTools   == {t1, t2}

=============================================================================
