------------------------------- MODULE Courses ------------------------------
(***************************************************************************)
(* The states a machine goes through while it reads a sequence: what       *)
(* FoldLeft of SequencesExt computes, of every beginning of the sequence,  *)
(* and with a function for each element instead of an operator, which a    *)
(* lemma could not be about.                                               *)
(***************************************************************************)
EXTENDS Integers, Sequences

(* after[k]: the state when the first k elements are read.                 *)
Course(step, base, seq) ==
    LET after[k \in 0 .. Len(seq)] ==
          IF k = 0 THEN base ELSE step[seq[k]][after[k - 1]]
    IN  after

(* The state in the end.                                                   *)
Outcome(step, base, seq) == Course(step, base, seq)[Len(seq)]
=============================================================================
