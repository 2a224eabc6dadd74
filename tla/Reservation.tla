---------------------------- MODULE Reservation -----------------------------
(***************************************************************************)
(* The read-modify-write loops of ppc/misc.S (TW_CompareAndSwapAtomic,     *)
(* TW_GetAndSetAtomic, TW_AddAtomic, TW_OrAtomic, TW_XorAtomic and         *)
(* TW_AndAtomic) on the single core: each loads the word with lwarx, which *)
(* sets the processor's one reservation, computes, and stores with stwcx., *)
(* which takes effect only while the reservation stands, and otherwise     *)
(* starts again.                                                           *)
(*                                                                         *)
(* Nothing but an interrupt comes between the two.  Its entry sequence in  *)
(* ppc/interrupts.S clears the reservation with a stwcx. of its own ("that *)
(* is how we communicate interruption to an atomic operation"), and the    *)
(* handler runs to its end, using the same functions on the same word,     *)
(* before the interrupted flow continues.                                  *)
(*                                                                         *)
(* The functions differ only in the value they store and the value they    *)
(* return: NewValue and Reply.  AtomicFunctions defines both for the       *)
(* functions of misc.S.                                                    *)
(***************************************************************************)
EXTENDS Naturals

CONSTANTS
    Word, Op, NoOp, NoReply, NewValue(_, _), Reply(_, _), MaxLevel

ASSUME LevelAssumption == MaxLevel \in Nat \ {0}

ASSUME OpAssumption ==
    /\ NoOp \notin Op
    /\ \A o \in Op, w \in Word : NewValue(o, w) \in Word
    /\ \A o \in Op, w \in Word : Reply(o, w) # NoReply

VARIABLES
    word,      \* the shared word in memory
    reserved,  \* the processor's reservation for it
    level,     \* the flow that runs: the flows below it are interrupted
    pc,        \* pc[l]: the instruction flow l is at
    op,        \* op[l]: the function and arguments flow l is executing
    loaded     \* loaded[l]: the register lwarx filled

vars == <<word, reserved, level, pc, op, loaded>>

Level == 1 .. MaxLevel

Init ==
    /\ word \in Word
    /\ reserved = FALSE
    /\ level = 1
    /\ pc = [l \in Level |-> "idle"]
    /\ op = [l \in Level |-> NoOp]
    /\ loaded = [l \in Level |-> word]

Invoke(o) ==
    /\ pc[level] = "idle"
    /\ pc' = [pc EXCEPT ![level] = "lwarx"]
    /\ op' = [op EXCEPT ![level] = o]
    /\ UNCHANGED <<word, reserved, level, loaded>>

Lwarx ==
    /\ pc[level] = "lwarx"
    /\ loaded' = [loaded EXCEPT ![level] = word]
    /\ reserved' = TRUE
    /\ pc' = [pc EXCEPT ![level] = "stwcx"]
    /\ UNCHANGED <<word, level, op>>

StwcxSucceeds ==
    /\ pc[level] = "stwcx"
    /\ reserved
    /\ word' = NewValue(op[level], loaded[level])
    /\ reserved' = FALSE
    /\ pc' = [pc EXCEPT ![level] = "done"]
    /\ UNCHANGED <<level, op, loaded>>

(* Mutant of StwcxFails: bne to the stwcx. itself.                         *)
RetriesWithoutLwarx == pc[level] = "stwcx" /\ ~reserved /\ UNCHANGED vars

(* bne back to the first instruction of the function.                      *)
StwcxFails ==
    /\ pc[level] = "stwcx"
    /\ ~reserved
    /\ pc' = [pc EXCEPT ![level] = "lwarx"]
    /\ UNCHANGED <<word, reserved, level, op, loaded>>

(* mr 3, 6 (or 10); blr                                                    *)
Blr ==
    /\ pc[level] = "done"
    /\ pc' = [pc EXCEPT ![level] = "idle"]
    /\ op' = [op EXCEPT ![level] = NoOp]
    /\ UNCHANGED <<word, reserved, level, loaded>>

(* The running flow writes the word outside these functions, as the        *)
(* library does when it hands a slot out or in (TW_ZeroAndFlushBlock, and  *)
(* the first assignment of a new future or queue condition).  An ordinary  *)
(* store leaves the processor's own reservation alone.                     *)
PlainStore(w) ==
    /\ pc[level] = "idle"
    /\ word' = w
    /\ UNCHANGED <<reserved, level, pc, op, loaded>>

(* Mutant of Interrupt: the entry sequence without its stwcx.              *)
InterruptKeepsReservation ==
    /\ level < MaxLevel
    /\ level' = level + 1
    /\ UNCHANGED <<word, reserved, pc, op, loaded>>

(* _tw_interrupt_handler_template: the stwcx. to its scratch area drops    *)
(* whatever reservation the interrupted flow holds.                        *)
Interrupt ==
    /\ level < MaxLevel
    /\ level' = level + 1
    /\ reserved' = FALSE
    /\ UNCHANGED <<word, pc, op, loaded>>

(* Mutant of ReturnFromInterrupt: taken by a flow no interrupt started.    *)
ReturnsTwice ==
    /\ pc[level] = "idle"
    /\ level' = level - 1
    /\ UNCHANGED <<word, reserved, pc, op, loaded>>

(* The end of _tw_interrupt_handler_impl: registers restored, then rfi.    *)
ReturnFromInterrupt ==
    /\ level > 1
    /\ pc[level] = "idle"
    /\ level' = level - 1
    /\ UNCHANGED <<word, reserved, pc, op, loaded>>

Instruction == Lwarx \/ StwcxSucceeds \/ StwcxFails \/ Blr

Next ==
    \/ \E o \in Op : Invoke(o)
    \/ Instruction
    \/ \E w \in Word : PlainStore(w)
    \/ Interrupt
    \/ ReturnFromInterrupt

Spec == Init /\ [][Next]_vars

(* The processor executes, and every handler comes to its end (the         *)
(* handlers of the library have no unbounded loop over atomic functions).  *)
FairSpec == Spec /\ WF_vars(Instruction) /\ SF_vars(ReturnFromInterrupt)

-----------------------------------------------------------------------------
(* PROPERTIES                                                              *)

TypeOK ==
    /\ word \in Word
    /\ reserved \in BOOLEAN
    /\ level \in Level
    /\ pc \in [Level -> {"idle", "lwarx", "stwcx", "done"}]
    /\ op \in [Level -> Op \cup {NoOp}]
    /\ loaded \in [Level -> Word]
    /\ \A l \in Level : op[l] = NoOp <=> pc[l] = "idle"

(* A reservation that stands belongs to the running flow, which is between *)
(* its lwarx and its stwcx., and the word is still what that flow loaded:  *)
(* a store that succeeds never overwrites a value the flow has not seen.   *)
ReservationIsFresh ==
    reserved => pc[level] = "stwcx" /\ loaded[level] = word

(* What each flow is about to return to its caller.                        *)
Answer ==
    [l \in Level |-> IF pc[l] = "done" THEN Reply(op[l], loaded[l])
                                       ELSE NoReply]

(* Every function of the loop takes effect in one step, at its successful  *)
(* stwcx., and answers from the very value it replaced, whatever handlers  *)
(* ran in between: the loops implement AtomicWord.                         *)
Atomic == INSTANCE AtomicWord WITH pending <- op, answer <- Answer

ImplementsAtomicWord == Atomic!Spec

(* A function that is called returns, unless interrupts keep coming for    *)
(* ever: each one costs the interrupted loop at most one more pass.        *)
CallsReturn ==
    \/ []<><<Interrupt>>_vars
    \/ \A l \in Level : pc[l] # "idle" ~> pc[l] = "idle"
=============================================================================
