------------------------------ MODULE MCFiles -------------------------------
(* Files with seven places, the mount "/i", paths that share none, one,    *)
(* all but none of the rest, and more of its characters.                   *)
EXTENDS Files, TLC

CONSTANTS d1, d2, d3

MCRoot == <<"/", "i">>
MCPaths == {<<"x">>, <<"/">>, <<"/", "i">>, <<"/", "s", "d">>, <<"/", "i", "/", "d">>}
MCSymmetry == Permutations({d1, d2, d3})
=============================================================================
