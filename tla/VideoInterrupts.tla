-------------------------- MODULE VideoInterrupts ---------------------------
(***************************************************************************)
(* VideoWait under the interrupt dispatch: init_video installs             *)
(* vblank_handler, frames arrive as raised lines among others, one line is *)
(* served per entry, and the waiting thread runs only while no interrupt   *)
(* is pending.  The program installs handlers of its own for other lines   *)
(* at any time; they take their line down and touch nothing here.          *)
(***************************************************************************)
EXTENDS VideoWait, InterruptLines

CONSTANTS
    UserLines,   \* lines the program installs handlers for
    Raised       \* lines the hardware raises

ASSUME LinesAssumption ==
    /\ UserLines \subseteq Installable \ {"VIDEO"}
    /\ Raised \subseteq LineSet

VARIABLE setting  \* the line whose handler is stored but not yet enabled

NoLine == "none"

interruptVars == <<vars, lineVars, setting>>

InterruptInit ==
    /\ Uninitialised
    /\ LinesInit
    /\ setting = NoLine

(* init_video: with interrupts disabled, so nothing comes within it.       *)
InitVideo ==
    /\ pc = "init"
    /\ setting = NoLine
    /\ pc' = "idle"
    /\ elapsed' = 0
    /\ changed' = TRUE
    /\ StoreHandler("VIDEO", "vblank")
    /\ Enable("VIDEO")
    /\ UNCHANGED <<mtx, wait, left, timedOut, cause, setting>>

(* Mutant of InstallStep: the line is let through before it has a handler. *)
EnablesFirst(l, first) ==
    IF first
    THEN Enable(l) /\ UNCHANGED handlers
    ELSE StoreHandler(l, "user") /\ UNCHANGED <<mask, wiiMask>>

(* TW_SetExternalInterruptHandler stores the handler, then lets the line   *)
(* through.                                                                *)
InstallStep(l, first) ==
    IF first
    THEN StoreHandler(l, "user") /\ UNCHANGED <<mask, wiiMask>>
    ELSE Enable(l) /\ UNCHANGED handlers

(* The program calls it with interrupts enabled.                           *)
BeginInstall(l) ==
    /\ pc \in {"init", "idle"}
    /\ setting = NoLine
    /\ setting' = l
    /\ InstallStep(l, TRUE)
    /\ UNCHANGED <<vars, cause>>

EndInstall ==
    /\ setting # NoLine
    /\ setting' = NoLine
    /\ InstallStep(setting, FALSE)
    /\ UNCHANGED <<vars, cause>>

(* A step of VideoWait's thread                                            *)
Waits(step) == step /\ setting = NoLine /\ UNCHANGED <<lineVars, setting>>

Thread ==
    /\ ~Pending
    /\ \/ InitVideo
       \/ \E l \in UserLines : BeginInstall(l)
       \/ EndInstall
       \/ Waits(LockVideo)
       \/ Waits(AwaitVideoVBlank)
       \/ Waits(InvalidateVideoTiming)

Raise(l) ==
    /\ l \notin cause
    /\ cause' = cause \cup {l}
    /\ UNCHANGED <<vars, mask, wiiMask, handlers, setting>>

(* A device may take its line back before it is served, as the reset       *)
(* button does when it is let go.                                          *)
Withdraw(l) ==
    /\ l \in cause \ {"VIDEO"}
    /\ cause' = cause \ {l}
    /\ UNCHANGED <<vars, mask, wiiMask, handlers, setting>>

(* vblank_handler clears the status bits of the video interface first; the *)
(* program's handlers do the same for their devices.                       *)
TakeDown(l) == cause' = cause \ {l}

ServeVideo ==
    /\ Served("VIDEO")
    /\ handlers["VIDEO"] = "vblank"
    /\ VBlank
    /\ TakeDown("VIDEO")
    /\ UNCHANGED <<mask, wiiMask, handlers, setting>>

ServeUser ==
    /\ \E l \in UserLines :
        /\ Served(l)
        /\ handlers[l] = "user"
        /\ TakeDown(l)
    /\ UNCHANGED <<vars, mask, wiiMask, handlers, setting>>

Dispatch == ServeVideo \/ ServeUser

TimePasses == Time /\ UNCHANGED <<lineVars, setting>>

InterruptNext ==
    \/ Thread
    \/ \E l \in Raised : Raise(l) \/ Withdraw(l)
    \/ Dispatch
    \/ TimePasses

InterruptSpec == InterruptInit /\ [][InterruptNext]_interruptVars

(* An enabled interrupt is taken; a thread that is let run again and again *)
(* gets on with its call; time passes.  Nothing is said of the lines.      *)
InterruptFairSpec ==
    /\ InterruptSpec
    /\ WF_interruptVars(Dispatch)
    /\ WF_interruptVars(TimePasses)
    /\ SF_interruptVars(~Pending /\ EndInstall)
    /\ SF_interruptVars(~Pending /\ Waits(AwaitVideoVBlank))

-----------------------------------------------------------------------------
(* PROPERTIES                                                              *)

LineTypeOK ==
    /\ TypeOK
    /\ LinesTypeOK({"vblank", "user"})
    /\ setting \in UserLines \cup {NoLine}

(* However lines are raised together or one after the other, masked or     *)
(* not, while handlers are being installed: once the hardware is quiet     *)
(* every line that is let through is served, and the thread runs again.    *)
(* Two pending lines cost two entries; neither is forgotten.               *)
InterruptsDrain ==
    []<><<\E l \in Raised : Raise(l)>>_interruptVars \/ <>[]~Pending

Rested == []<>~Pending

(* The frame that comes between the comparison and the arming of the       *)
(* condition broadcasts to nobody, and the interrupt that brings it may    *)
(* wait behind others.  Even so the call returns, and even if it was the   *)
(* last frame ever: the timeout makes up for the lost wakeup.              *)
LostWakeupIsRecovered ==
    Rested => ((pc \in {"test"} \cup AwaitPoints /\ elapsed > 0) ~> pc = "idle")

(* While the display keeps raising its line, and the processor finds time  *)
(* between interrupts, every call returns.                                 *)
FramesEndTheWait ==
    (Rested /\ []<><<Raise("VIDEO")>>_interruptVars)
        => (pc \notin {"init", "idle"} ~> pc = "idle")
=============================================================================
