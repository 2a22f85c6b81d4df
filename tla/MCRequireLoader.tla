--------------------------- MODULE MCRequireLoader ----------------------------
(* Instances of RequireLoader for TLC: the ways in which a few files can      *)
(* require each other.                                                        *)
EXTENDS RequireLoader, TLC

CONSTANTS a, b, c, d, plugin

TwoFiles  == {a, b}
FourFiles == {a, b, c, d}
OnlyD     == {d}
NoFile    == {}

Requires(n) == UNION {[1 .. k -> [op : {"require"}, module : Module]] : k \in 0 .. n}

\* The requires come first, as in the plugins of this repository: a and b
\* require up to two files, c up to one, and d is not there.
RequireFirst ==
    {(a :> p \o <<Export>>) @@ (b :> q \o <<Export>>)
        @@ (c :> r \o <<Export>>) @@ (d :> <<>>) :
        p \in Requires(2), q \in Requires(2), r \in Requires(1)}
RequireOnce  == [Module -> {r \o <<Export>> : r \in Requires(1)}]
\* The assignment comes first.
ExportFirst  == [Module -> {<<Export>> \o r : r \in Requires(1)}]

OneRequire == {r \in Requires(1) : r # <<>>}

=============================================================================
