----------------------------- MODULE AtomicWord -----------------------------
(***************************************************************************)
(* What the TW_...Atomic functions of ppc/misc.S promise to their callers: *)
(* one 32 bit word that threads and interrupt handlers may change at any   *)
(* time, each operation reading and writing the word in a single step and  *)
(* answering from the value it replaced.                                   *)
(*                                                                         *)
(* A flow of control is named by its nesting level: 1 is the interrupted   *)
(* thread, 2 the interrupt handler on top of it, and so on.                *)
(***************************************************************************)
EXTENDS Naturals

CONSTANTS
    Word,            \* the values of the word
    Op,              \* the operations with their arguments
    NoOp,            \* "this flow is in no operation"
    NoReply,         \* "this flow has no answer yet"
    NewValue(_, _),  \* NewValue(op, w): what op makes of the word w
    Reply(_, _),     \* Reply(op, w): what op returns when it finds w
    MaxLevel         \* the deepest nesting of interrupts considered

VARIABLES
    word,     \* the shared word
    pending,  \* pending[l]: the operation flow l is in, or NoOp
    answer    \* answer[l]: what that operation will return, or NoReply

vars == <<word, pending, answer>>

Level == 1 .. MaxLevel

Init ==
    /\ word \in Word
    /\ pending = [l \in Level |-> NoOp]
    /\ answer = [l \in Level |-> NoReply]

Invoke(l, o) ==
    /\ pending[l] = NoOp
    /\ pending' = [pending EXCEPT ![l] = o]
    /\ UNCHANGED <<word, answer>>

(* The whole effect of an operation: there is no step between its read and *)
(* its write.                                                              *)
Commit(l) ==
    /\ pending[l] # NoOp
    /\ answer[l] = NoReply
    /\ word' = NewValue(pending[l], word)
    /\ answer' = [answer EXCEPT ![l] = Reply(pending[l], word)]
    /\ UNCHANGED pending

Finish(l) ==
    /\ answer[l] # NoReply
    /\ pending' = [pending EXCEPT ![l] = NoOp]
    /\ answer' = [answer EXCEPT ![l] = NoReply]
    /\ UNCHANGED word

(* A store that is not one of the atomic operations.                       *)
Store(w) ==
    /\ word' = w
    /\ UNCHANGED <<pending, answer>>

Next ==
    \/ \E l \in Level, o \in Op : Invoke(l, o)
    \/ \E l \in Level : Commit(l) \/ Finish(l)
    \/ \E w \in Word : Store(w)

Spec == Init /\ [][Next]_vars
=============================================================================
