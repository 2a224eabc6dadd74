----------------------------- MODULE Condition ------------------------------
(***************************************************************************)
(* TW_AwaitCondition of ppc/threading_ppc.c, as steps of the one thread    *)
(* that runs.  A condition is a bit: the waiter sets it, a broadcast       *)
(* clears it, and the waiter polls it until it is clear or the time has    *)
(* come.  Between any two of these steps an interrupt handler may run.     *)
(*                                                                         *)
(* TW_MaybeAutoSwitchContext finds no other runnable thread here (Threads  *)
(* models what it does when there is one), and TW_ScheduleTask turns away  *)
(* any delay short of 2^31 ticks, so Park only lets time pass.             *)
(*                                                                         *)
(* Modules with such a thread extend this one: a step leaves alone         *)
(* whatever they add.                                                      *)
(***************************************************************************)
EXTENDS Naturals

CONSTANT MaxWait  \* bound: the longest timeout, in ticks of the model's clock

ASSUME WaitAssumption == MaxWait \in Nat

VARIABLES
    pc,        \* where the thread is
    mtx,       \* is the mutex that goes with the condition locked?
    wait,      \* bit 0 of the condition: set by a waiter, cleared to wake it
    left,      \* ticks until readyTime
    timedOut   \* what TW_AwaitCondition returned

AwaitPoints == {"release", "arm", "poll", "clock", "park", "relock"}

(* TW_LockMutex by the thread, which waits while the word is set.          *)
ThreadLocks(here, next) ==
    /\ pc = here
    /\ ~mtx
    /\ mtx' = TRUE
    /\ pc' = next
    /\ UNCHANGED <<wait, left, timedOut>>

(* TW_UnlockMutex by the thread.                                           *)
ThreadUnlocks(here, next) ==
    /\ pc = here
    /\ mtx' = FALSE
    /\ pc' = next
    /\ UNCHANGED <<wait, left, timedOut>>

(* Mutant of StartWait: the time is added to the last wait's readyTime.    *)
AddsToDeadline(here, duration) ==
    /\ pc = here
    /\ left' = left + duration
    /\ pc' = "release"
    /\ UNCHANGED <<mtx, wait, timedOut>>

(* readyTime = startTime + deltaTime                                       *)
StartWait(here, duration) ==
    /\ pc = here
    /\ left' = duration
    /\ pc' = "release"
    /\ UNCHANGED <<mtx, wait, timedOut>>

(* Mutant of Arm: the bit is not set.                                      *)
ArmsNothing ==
    /\ pc = "arm"
    /\ pc' = "poll"
    /\ UNCHANGED <<mtx, wait, left, timedOut>>

(* TW_OrAtomic(cv, 1), after the mutex is released                         *)
Arm ==
    /\ pc = "arm"
    /\ wait' = TRUE
    /\ pc' = "poll"
    /\ UNCHANGED <<mtx, left, timedOut>>

Poll ==
    /\ pc = "poll"
    /\ \/ wait /\ pc' = "clock" /\ UNCHANGED timedOut
       \/ ~wait /\ pc' = "relock" /\ timedOut' = FALSE
    /\ UNCHANGED <<mtx, wait, left>>

(* Mutant of Clock: the time is not looked at.                             *)
ClockIsIgnored ==
    /\ pc = "clock"
    /\ pc' = "park"
    /\ UNCHANGED <<mtx, wait, left, timedOut>>

(* currentTime >= readyTime                                                *)
Clock ==
    /\ pc = "clock"
    /\ \/ left > 0 /\ pc' = "park" /\ UNCHANGED timedOut
       \/ left = 0 /\ pc' = "relock" /\ timedOut' = TRUE
    /\ UNCHANGED <<mtx, wait, left>>

Park ==
    /\ pc = "park"
    /\ pc' = "poll"
    /\ UNCHANGED <<mtx, wait, left, timedOut>>

(* The steps of TW_AwaitCondition after StartWait; its caller goes on at   *)
(* resume, holding the mutex again.                                        *)
AwaitCondition(resume) ==
    \/ ThreadUnlocks("release", "arm")
    \/ Arm
    \/ Poll
    \/ Clock
    \/ Park
    \/ ThreadLocks("relock", resume)

(* The time base counts on, whatever the processor does.                   *)
Tick ==
    /\ left > 0
    /\ left' = left - 1
    /\ UNCHANGED <<pc, mtx, wait, timedOut>>

(* TW_AndAtomic(cv, 0xFFFFfffe), by an interrupt handler                   *)
BroadcastCondition == wait' = FALSE
=============================================================================
