------------------------------- MODULE Stream -------------------------------
(***************************************************************************)
(* A TwStream as its two ends see it: sink->transfer hands over bytes and  *)
(* does not return before the other end is done with them.  Bytes are      *)
(* their ASCII codes.                                                      *)
(***************************************************************************)
EXTENDS Integers, Sequences

VARIABLES
    chars,        \* what is handed over
    transferring  \* is the call under way?

Byte == 0 .. 255

Nul == 0
Newline == 10
Return == 13
Esc == 27
Space == 32
Digits == 48 .. 57

(* sink->transfer(sink, buf, pos), by the one who writes.                  *)
Transfer(bytes) ==
    /\ ~transferring
    /\ chars' = bytes
    /\ transferring' = TRUE

(* Its return, by the one who reads.                                       *)
Transferred ==
    /\ transferring' = FALSE
    /\ chars' = <<>>
=============================================================================
