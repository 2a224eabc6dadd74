------------------------------- MODULE Future -------------------------------
(***************************************************************************)
(* A future (common/structures.c) from its creation to its destruction, as *)
(* the ...FileSync functions of common/file.c use it: the thread creates   *)
(* it, hands it to a file operation, and waits; the completion handler     *)
(* reaches it, either at once in the thread (default and SD card           *)
(* operations) or later in the interrupt handler (IOS operations).         *)
(*                                                                         *)
(* An interrupt handler runs to its end before the thread goes on.  One    *)
(* that finds the future's mutex taken by the very thread it interrupted   *)
(* spins in TW_LockMutex, and neither of them moves again.                 *)
(***************************************************************************)
EXTENDS Condition

VARIABLES
    done,     \* bit 1 of the condition's word: the future is reached
    result,   \* the two words of the answer, "initial" or "answer"
    error,
    request,  \* is an operation under way whose interrupt is still to come?
    reach,    \* where TW_ReachFuture is, "off" when it does not run
    inIsr,    \* does it run in the interrupt handler?
    mode,     \* the thread's call: AwaitFuture, AwaitFutureForTheNext, Peek
    isDone,   \* its local variables
    gotResult,
    gotError

condVars == <<pc, mtx, wait, left, timedOut>>
futureVars == <<done, result, error, request, reach, inIsr>>
callVars == <<mode, isDone, gotResult, gotError>>
vars == <<condVars, futureVars, callVars>>

Init ==
    /\ pc = "idle"
    /\ mtx = FALSE
    /\ wait = FALSE
    /\ left = 0
    /\ timedOut = FALSE
    /\ done = FALSE
    /\ result = "initial"
    /\ error = "initial"
    /\ request = FALSE
    /\ reach = "off"
    /\ inIsr = FALSE
    /\ mode = "await"
    /\ isDone = FALSE
    /\ gotResult = "initial"
    /\ gotError = "initial"

ThreadRuns == reach = "off"

(* TW_CreateFuture(0, 0): a zeroed mutex and a zeroed condition.           *)
CreateFuture ==
    /\ pc = "idle"
    /\ pc' = "submit"
    /\ mtx' = FALSE
    /\ wait' = FALSE
    /\ done' = FALSE
    /\ result' = "initial"
    /\ error' = "initial"
    /\ UNCHANGED <<left, timedOut, request, reach, inIsr>> /\ UNCHANGED callVars

(* Mutant of Submit: an operation that was answered at once is submitted   *)
(* to the device all the same.                                             *)
AnswersAtOnceToo ==
    /\ pc = "submit"
    /\ pc' = "call"
    /\ request' = TRUE
    /\ reach' \in {"off", "lock"}
    /\ UNCHANGED <<mtx, wait, left, timedOut, done, result, error, inIsr>> /\ UNCHANGED callVars

(* file->read, write, seek and so on: some call the completion handler     *)
(* before they return, others leave it to an interrupt.                    *)
Submit ==
    /\ pc = "submit"
    /\ pc' = "call"
    /\ \/ /\ reach' = "lock"
          /\ UNCHANGED request
       \/ /\ request' = TRUE
          /\ UNCHANGED reach
    /\ UNCHANGED <<mtx, wait, left, timedOut, done, result, error, inIsr>> /\ UNCHANGED callVars

Call(m) ==
    /\ ThreadRuns
    /\ pc = "call"
    /\ pc' = "lock"
    /\ mode' = m
    /\ UNCHANGED <<mtx, wait, left, timedOut, isDone, gotResult, gotError>> /\ UNCHANGED futureVars

LockFuture == ThreadLocks("lock", "test") /\ UNCHANGED futureVars /\ UNCHANGED callVars

(* while ((cvValue & 2) == 0), which TW_PeekFuture does not have           *)
IsReached ==
    /\ pc = "test"
    /\ done \/ mode = "peek"
    /\ pc' = "isDone"
    /\ UNCHANGED <<mtx, wait, left, timedOut>> /\ UNCHANGED futureVars /\ UNCHANGED callVars

(* TW_AwaitFuture passes a timeout of 0, with which TW_AwaitCondition only *)
(* releases the mutex, looks once, and takes it again.                     *)
NotReached ==
    /\ ~done
    /\ mode # "peek"
    /\ StartWait("test", IF mode = "await" THEN 0 ELSE MaxWait)
    /\ UNCHANGED futureVars /\ UNCHANGED callVars

(* Mutant of Resume: TW_AwaitFuture gives up after a timeout, too.         *)
EveryTimeoutBreaks ==
    /\ pc = "resume"
    /\ pc' = IF timedOut THEN "isDone" ELSE "test"
    /\ UNCHANGED <<mtx, wait, left, timedOut>> /\ UNCHANGED futureVars /\ UNCHANGED callVars

(* if (timedOut) break;                                                    *)
Resume ==
    /\ pc = "resume"
    /\ pc' = IF mode = "next" /\ timedOut THEN "isDone" ELSE "test"
    /\ UNCHANGED <<mtx, wait, left, timedOut>> /\ UNCHANGED futureVars /\ UNCHANGED callVars

ReadDone ==
    /\ pc = "isDone"
    /\ isDone' = done
    /\ pc' = "result"
    /\ UNCHANGED <<mtx, wait, left, timedOut, mode, gotResult, gotError>> /\ UNCHANGED futureVars

ReadResult ==
    /\ pc = "result"
    /\ gotResult' = result
    /\ pc' = "error"
    /\ UNCHANGED <<mtx, wait, left, timedOut, mode, isDone, gotError>> /\ UNCHANGED futureVars

ReadError ==
    /\ pc = "error"
    /\ gotError' = error
    /\ pc' = "unlock"
    /\ UNCHANGED <<mtx, wait, left, timedOut, mode, isDone, gotResult>> /\ UNCHANGED futureVars

UnlockFuture ==
    ThreadUnlocks("unlock", "returned") /\ UNCHANGED futureVars /\ UNCHANGED callVars

(* The caller destroys a future it has seen reached, as the ...FileSync    *)
(* functions do, or calls again.                                           *)
Return ==
    /\ pc = "returned"
    /\ pc' \in IF isDone THEN {"idle", "call"} ELSE {"call"}
    /\ isDone' = FALSE
    /\ gotResult' = "initial"
    /\ gotError' = "initial"
    /\ UNCHANGED <<mtx, wait, left, timedOut, mode>> /\ UNCHANGED futureVars

AwaitStep == AwaitCondition("resume") /\ UNCHANGED futureVars /\ UNCHANGED callVars

WaitingCall ==
    /\ ThreadRuns
    /\ \/ LockFuture \/ IsReached \/ NotReached \/ AwaitStep \/ Resume
       \/ ReadDone \/ ReadResult \/ ReadError \/ UnlockFuture

Thread ==
    \/ ThreadRuns /\ (CreateFuture \/ Submit \/ Return)
    \/ \E m \in {"await", "next", "peek"} : Call(m)
    \/ WaitingCall

(* The reply arrives: the interrupt handler calls the completion handler.  *)
Interrupt ==
    /\ request
    /\ reach = "off"
    /\ request' = FALSE
    /\ reach' = "lock"
    /\ inIsr' = TRUE
    /\ UNCHANGED <<done, result, error>> /\ UNCHANGED condVars /\ UNCHANGED callVars

-----------------------------------------------------------------------------
(* TW_ReachFuture, in the thread or in the handler.                        *)

(* Mutant of ReachLocks: the handler does not look at the mutex.           *)
ReachDoesNotWait ==
    /\ reach = "lock"
    /\ mtx' = TRUE
    /\ reach' = "result"
    /\ UNCHANGED <<pc, wait, left, timedOut, done, result, error, request, inIsr>> /\ UNCHANGED callVars

(* TW_LockMutex: the exchange takes a free mutex; while it is taken, the   *)
(* loop around it exchanges a 1 for a 1.                                   *)
ReachLocks ==
    /\ reach = "lock"
    /\ mtx' = TRUE
    /\ reach' = IF mtx THEN "lock" ELSE "result"
    /\ UNCHANGED <<pc, wait, left, timedOut, done, result, error, request, inIsr>> /\ UNCHANGED callVars

ReachStoresResult ==
    /\ reach = "result"
    /\ result' = "answer"
    /\ reach' = "error"
    /\ UNCHANGED <<done, error, request, inIsr>> /\ UNCHANGED condVars /\ UNCHANGED callVars

ReachStoresError ==
    /\ reach = "error"
    /\ error' = "answer"
    /\ reach' = "mark"
    /\ UNCHANGED <<done, result, request, inIsr>> /\ UNCHANGED condVars /\ UNCHANGED callVars

(* Mutant of ReachMarks: the waiter is woken, the future not marked.       *)
ReachWakesOnly ==
    /\ reach = "mark"
    /\ wait' = FALSE
    /\ reach' = "unlock"
    /\ UNCHANGED <<pc, mtx, left, timedOut, done, result, error, request, inIsr>> /\ UNCHANGED callVars

(* Mutant of ReachUnlocks: the mutex stays locked.                         *)
ReachKeepsMutex ==
    /\ reach = "unlock"
    /\ reach' = "off"
    /\ inIsr' = FALSE
    /\ UNCHANGED <<pc, mtx, wait, left, timedOut, done, result, error, request>> /\ UNCHANGED callVars

(* TW_GetAndSetAtomic(future, 3): both bits of the word, the done bit and  *)
(* the bit whose clearing would wake a waiter.                             *)
ReachMarks ==
    /\ reach = "mark"
    /\ done' = TRUE
    /\ wait' = TRUE
    /\ reach' = "unlock"
    /\ UNCHANGED <<pc, mtx, left, timedOut, result, error, request, inIsr>> /\ UNCHANGED callVars

ReachUnlocks ==
    /\ reach = "unlock"
    /\ mtx' = FALSE
    /\ reach' = "off"
    /\ inIsr' = FALSE
    /\ UNCHANGED <<pc, wait, left, timedOut, done, result, error, request>> /\ UNCHANGED callVars

ReachFuture ==
    \/ ReachLocks
    \/ ReachStoresResult
    \/ ReachStoresError
    \/ ReachMarks
    \/ ReachUnlocks

Time == Tick /\ UNCHANGED futureVars /\ UNCHANGED callVars

Next == Thread \/ Interrupt \/ ReachFuture \/ Time

Spec == Init /\ [][Next]_vars

(* The processor executes the call and the handler, every reply arrives,   *)
(* and time passes.                                                        *)
FairSpec ==
    /\ Spec
    /\ WF_vars(WaitingCall)
    /\ WF_vars(ReachFuture)
    /\ WF_vars(Interrupt)
    /\ WF_vars(Time)

-----------------------------------------------------------------------------
(* PROPERTIES                                                              *)

InCall == pc \notin {"idle", "submit", "call", "returned"}

(* The variables are in their ranges, and an operation is answered once:   *)
(* while TW_ReachFuture runs no interrupt is awaited for it, and one that  *)
(* the thread makes itself is over before the thread's own call begins.    *)
TypeOK ==
    /\ pc \in {"idle", "submit", "call", "lock", "test", "resume", "isDone",
               "result", "error", "unlock", "returned"} \cup AwaitPoints
    /\ mtx \in BOOLEAN
    /\ wait \in BOOLEAN
    /\ left \in 0 .. MaxWait
    /\ timedOut \in BOOLEAN
    /\ done \in BOOLEAN
    /\ result \in {"initial", "answer"}
    /\ error \in {"initial", "answer"}
    /\ request \in BOOLEAN
    /\ reach \in {"off", "lock", "result", "error", "mark", "unlock"}
    /\ inIsr \in BOOLEAN
    /\ mode \in {"await", "next", "peek"}
    /\ isDone \in BOOLEAN
    /\ gotResult \in {"initial", "answer"}
    /\ gotError \in {"initial", "answer"}
    /\ request => reach = "off"
    /\ (reach # "off" /\ ~inIsr) => pc = "call"

(* A call that reports the future as reached returns both words of the     *)
(* answer, and TW_AwaitFuture always reports it: no half written pair and  *)
(* no value from before the answer gets out, wherever the interrupt fell.  *)
AnswerIsWhole ==
    pc = "returned" =>
        /\ isDone => gotResult = "answer" /\ gotError = "answer"
        /\ mode = "await" => isDone

(* A timeout that races a late answer is reported consistently: what a     *)
(* call is about to return is what the future is as long as the call holds *)
(* the mutex, and the words it read belong to that.                        *)
VerdictIsCurrent ==
    pc = "unlock" => isDone = done /\ gotResult = result /\ gotError = error

(* The mutex's one holder: the handler waits for it only when the thread   *)
(* it interrupted is inside its own critical section, and nobody holds it  *)
(* once the thread is out of the call and the handler is done.             *)
HandlerSpins == inIsr /\ reach = "lock" /\ mtx

SpinMeansHolder ==
    /\ HandlerSpins => pc \in {"test", "release", "resume", "isDone",
                               "result", "error", "unlock"}
    /\ (mtx /\ reach = "off") => InCall

(* Every call comes to its end, unless the reply's interrupt fell while    *)
(* the thread held the mutex, in which case the machine stands still.      *)
CallsReturnOrHandlerSpins ==
    (InCall ~> ~InCall) \/ <>[]HandlerSpins
=============================================================================
