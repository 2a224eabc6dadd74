---------------------------- MODULE MCPrimitives ----------------------------
(***************************************************************************)
(* Primitives for TLC: buckets of Slots slots, so that the first one fills *)
(* while some pointers are still empty.                                    *)
(***************************************************************************)
EXTENDS Primitives, TLC

Pointers == Permutations(Handle)
=============================================================================
