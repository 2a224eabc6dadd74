----------------------------- MODULE VideoWait ------------------------------
(***************************************************************************)
(* TW_AwaitVideoVBlank against vblank_handler (ppc/video.c): a thread that *)
(* waits for the next frame, and the interrupt that counts frames and      *)
(* broadcasts, without taking the mutex the thread holds while it looks at *)
(* the counter.                                                            *)
(*                                                                         *)
(* Of the frame counter only its distance from the value the thread        *)
(* compares it with matters; it is kept up to MaxElapsed (it would take    *)
(* more than two years at 60 frames a second for 32 bits to wrap).         *)
(***************************************************************************)
EXTENDS Condition

CONSTANT MaxElapsed  \* bound: frames told apart since the counter was read

ASSUME ElapsedAssumption == MaxElapsed \in Nat \ {0}

VARIABLES
    elapsed,  \* _frame_counter - cur_frame
    changed   \* _changed: the serial poll timing is to be set again

vars == <<pc, mtx, wait, left, timedOut, elapsed, changed>>

(* Before TW_InitVideo has installed the handler.                          *)
Uninitialised ==
    /\ pc = "init"
    /\ mtx = FALSE
    /\ wait = FALSE
    /\ left = 0
    /\ timedOut = FALSE
    /\ elapsed = 0
    /\ changed = FALSE

LockVideo == ThreadLocks("idle", "read") /\ UNCHANGED <<elapsed, changed>>

ReadFrame ==
    /\ pc = "read"
    /\ elapsed' = 0
    /\ pc' = "test"
    /\ UNCHANGED <<mtx, wait, left, timedOut, changed>>

SameFrame ==
    /\ elapsed = 0
    /\ StartWait("test", MaxWait)
    /\ UNCHANGED <<elapsed, changed>>

NewFrame ==
    /\ pc = "test"
    /\ elapsed > 0
    /\ pc' = "unlock"
    /\ UNCHANGED <<mtx, wait, left, timedOut, elapsed, changed>>

UnlockVideo == ThreadUnlocks("unlock", "idle") /\ UNCHANGED <<elapsed, changed>>

AwaitFrame == AwaitCondition("test") /\ UNCHANGED <<elapsed, changed>>

AwaitVideoVBlank ==
    \/ ReadFrame
    \/ SameFrame
    \/ NewFrame
    \/ UnlockVideo
    \/ AwaitFrame

InvalidateVideoTiming ==
    /\ pc = "idle"
    /\ changed' = TRUE
    /\ UNCHANGED <<pc, mtx, wait, left, timedOut, elapsed>>

(* Mutant of VBlank: the frame is not counted.                             *)
VBlankOnlyBroadcasts ==
    /\ changed' = FALSE
    /\ BroadcastCondition
    /\ UNCHANGED <<pc, mtx, left, timedOut, elapsed>>

(* vblank_handler: an interrupt, so no step of the thread comes within it. *)
VBlank ==
    /\ changed' = FALSE
    /\ elapsed' = IF elapsed < MaxElapsed THEN elapsed + 1 ELSE elapsed
    /\ BroadcastCondition
    /\ UNCHANGED <<pc, mtx, left, timedOut>>

Time == Tick /\ UNCHANGED <<elapsed, changed>>

-----------------------------------------------------------------------------
(* PROPERTIES                                                              *)

TypeOK ==
    /\ pc \in {"init", "idle", "read", "test", "unlock"} \cup AwaitPoints
    /\ mtx \in BOOLEAN
    /\ wait \in BOOLEAN
    /\ left \in 0 .. MaxWait
    /\ timedOut \in BOOLEAN
    /\ elapsed \in 0 .. MaxElapsed
    /\ changed \in BOOLEAN

(* A waiter is only ever woken by a frame: if its bit is clear while it    *)
(* polls, or it came back from TW_AwaitCondition without a timeout, the    *)
(* counter has moved.  No broadcast meant for an earlier wait is left over *)
(* to wake it.                                                             *)
WakeMeansNewFrame ==
    /\ (pc = "poll" /\ ~wait) => elapsed > 0
    /\ (pc = "relock" /\ ~timedOut) => elapsed > 0
=============================================================================
