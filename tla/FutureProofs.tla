---------------------------- MODULE FutureProofs ----------------------------
(***************************************************************************)
(* For any timeout, whatever call the thread makes and wherever the        *)
(* interrupt falls: the mutex is held by at most one of the thread and     *)
(* TW_ReachFuture, so an answer is never read half written and a verdict   *)
(* is never out of date.                                                   *)
(***************************************************************************)
EXTENDS Future, TLAPS

ThreadHolds ==
    pc \in {"test", "release", "resume", "isDone", "result", "error", "unlock"}

ReachHolds == reach \in {"result", "error", "mark", "unlock"}

(* The mutex has exactly one holder while it is set, and none otherwise.   *)
OneHolder ==
    /\ mtx <=> (ThreadHolds \/ ReachHolds)
    /\ ~(ThreadHolds /\ ReachHolds)

(* The words are stored before the done bit, and an operation is answered  *)
(* once: an answer under way, or one in, excludes another.                 *)
AnswerOrder ==
    /\ reach \in {"error", "mark", "unlock"} => result = "answer"
    /\ reach \in {"mark", "unlock"} => error = "answer"
    /\ done => result = "answer" /\ error = "answer"
    /\ done => ~request /\ reach \in {"off", "unlock"}
    /\ request => reach = "off"
    /\ (reach # "off" /\ ~inIsr) => pc = "call"
    /\ pc \in {"idle", "submit"} => ~request /\ reach = "off"
    /\ pc = "submit" => ~done

(* What the call has read so far agrees with the future.                   *)
ReadSoFar ==
    /\ (pc = "isDone" /\ mode = "await") => done
    /\ pc \in {"result", "error", "unlock"} => isDone = done
    /\ (pc \in {"result", "error", "unlock"} /\ mode = "await") => isDone
    /\ pc \in {"error", "unlock"} => gotResult = result
    /\ pc = "unlock" => gotError = error
    /\ pc = "returned" => done \/ ~isDone

(* TypeOK in the two parts that the provers treat differently.             *)
PlacesOK ==
    /\ pc \in {"idle", "submit", "call", "lock", "test", "resume", "isDone",
               "result", "error", "unlock", "returned"} \cup AwaitPoints
    /\ result \in {"initial", "answer"}
    /\ error \in {"initial", "answer"}
    /\ reach \in {"off", "lock", "result", "error", "mark", "unlock"}
    /\ mode \in {"await", "next", "peek"}
    /\ gotResult \in {"initial", "answer"}
    /\ gotError \in {"initial", "answer"}

FlagsOK ==
    /\ mtx \in BOOLEAN
    /\ wait \in BOOLEAN
    /\ timedOut \in BOOLEAN
    /\ done \in BOOLEAN
    /\ request \in BOOLEAN
    /\ inIsr \in BOOLEAN
    /\ isDone \in BOOLEAN

LeftOK == left \in 0 .. MaxWait

(* The inductive invariant.  AnswerIsWhole follows from what the call read *)
(* under the mutex, which needs to know that nobody else held it then and  *)
(* in which order TW_ReachFuture stores.                                   *)
IInv == PlacesOK /\ FlagsOK /\ LeftOK /\ OneHolder /\ AnswerOrder /\ ReadSoFar /\ AnswerIsWhole

(* Nothing is held, asked for or answered at first.                        *)
LEMMA InitIInv == Init => IInv
<1> SUFFICES ASSUME Init PROVE IInv
  OBVIOUS
<1>1. PlacesOK
  BY DEF Init, PlacesOK
<1>2. FlagsOK
  BY DEF Init, FlagsOK
<1>3. LeftOK
  BY WaitAssumption DEF Init, LeftOK
<1>4. OneHolder /\ AnswerOrder
  BY DEF Init, OneHolder, AnswerOrder, ThreadHolds, ReachHolds
<1>5. ReadSoFar /\ AnswerIsWhole
  BY DEF Init, ReadSoFar, AnswerIsWhole
<1> QED
  BY <1>1, <1>2, <1>3, <1>4, <1>5 DEF IInv

(* Program counters and words stay within their types.                     *)
LEMMA StepPlaces == PlacesOK /\ [Next]_vars => PlacesOK'
<1> SUFFICES ASSUME PlacesOK, [Next]_vars PROVE PlacesOK'
  OBVIOUS
<1> USE DEF PlacesOK, AwaitPoints
<1>1. CASE ThreadRuns /\ CreateFuture
  BY <1>1 DEF CreateFuture, callVars
<1>2. CASE ThreadRuns /\ Submit
  BY <1>2 DEF Submit, callVars
<1>3. CASE ThreadRuns /\ Return
  BY <1>3 DEF Return, futureVars
<1>4. CASE \E m \in {"await", "next", "peek"} : Call(m)
  BY <1>4 DEF Call, futureVars
<1>5. CASE ThreadRuns /\ (LockFuture \/ UnlockFuture)
  BY <1>5 DEF LockFuture, UnlockFuture, ThreadLocks, ThreadUnlocks, futureVars, callVars
<1>6. CASE ThreadRuns /\ (IsReached \/ Resume)
  BY <1>6 DEF IsReached, Resume, futureVars, callVars
<1>7. CASE ThreadRuns /\ NotReached
  BY <1>7 DEF NotReached, StartWait, futureVars, callVars
<1>8. CASE ThreadRuns /\ AwaitStep
  BY <1>8 DEF AwaitStep, AwaitCondition, ThreadLocks, ThreadUnlocks, Arm, Poll, Clock, Park,
              futureVars, callVars
<1>9. CASE ThreadRuns /\ (ReadDone \/ ReadResult \/ ReadError)
  BY <1>9 DEF ReadDone, ReadResult, ReadError, futureVars
<1>10. CASE Interrupt
  BY <1>10 DEF Interrupt, condVars, callVars
<1>11. CASE ReachLocks \/ ReachUnlocks
  BY <1>11 DEF ReachLocks, ReachUnlocks, callVars
<1>12. CASE ReachStoresResult \/ ReachStoresError
  BY <1>12 DEF ReachStoresResult, ReachStoresError, condVars, callVars
<1>13. CASE ReachMarks
  BY <1>13 DEF ReachMarks, callVars
<1>14. CASE Time
  BY <1>14 DEF Time, Tick, futureVars, callVars
<1>15. CASE UNCHANGED vars
  BY <1>15 DEF vars, condVars, futureVars, callVars
<1> QED
  BY <1>1, <1>2, <1>3, <1>4, <1>5, <1>6, <1>7, <1>8, <1>9, <1>10, <1>11, <1>12, <1>13, <1>14, <1>15
     DEF Next, Thread, WaitingCall, ReachFuture

(* Flags stay Boolean.                                                     *)
LEMMA StepFlags == FlagsOK /\ [Next]_vars => FlagsOK'
<1> SUFFICES ASSUME FlagsOK, [Next]_vars PROVE FlagsOK'
  OBVIOUS
<1> USE DEF FlagsOK
<1>1. CASE ThreadRuns /\ CreateFuture
  BY <1>1 DEF CreateFuture, callVars
<1>2. CASE ThreadRuns /\ Submit
  BY <1>2 DEF Submit, callVars
<1>3. CASE ThreadRuns /\ Return
  BY <1>3 DEF Return, futureVars
<1>4. CASE \E m \in {"await", "next", "peek"} : Call(m)
  BY <1>4 DEF Call, futureVars
<1>5. CASE ThreadRuns /\ (LockFuture \/ UnlockFuture)
  BY <1>5 DEF LockFuture, UnlockFuture, ThreadLocks, ThreadUnlocks, futureVars, callVars
<1>6. CASE ThreadRuns /\ (IsReached \/ Resume)
  BY <1>6 DEF IsReached, Resume, futureVars, callVars
<1>7. CASE ThreadRuns /\ NotReached
  BY <1>7 DEF NotReached, StartWait, futureVars, callVars
<1>8. CASE ThreadRuns /\ AwaitStep
  BY <1>8 DEF AwaitStep, AwaitCondition, ThreadLocks, ThreadUnlocks, Arm, Poll, Clock, Park,
              futureVars, callVars
<1>9. CASE ThreadRuns /\ (ReadDone \/ ReadResult \/ ReadError)
  BY <1>9 DEF ReadDone, ReadResult, ReadError, futureVars
<1>10. CASE Interrupt
  BY <1>10 DEF Interrupt, condVars, callVars
<1>11. CASE ReachLocks \/ ReachUnlocks
  BY <1>11 DEF ReachLocks, ReachUnlocks, callVars
<1>12. CASE ReachStoresResult \/ ReachStoresError
  BY <1>12 DEF ReachStoresResult, ReachStoresError, condVars, callVars
<1>13. CASE ReachMarks
  BY <1>13 DEF ReachMarks, callVars
<1>14. CASE Time
  BY <1>14 DEF Time, Tick, futureVars, callVars
<1>15. CASE UNCHANGED vars
  BY <1>15 DEF vars, condVars, futureVars, callVars
<1> QED
  BY <1>1, <1>2, <1>3, <1>4, <1>5, <1>6, <1>7, <1>8, <1>9, <1>10, <1>11, <1>12, <1>13, <1>14, <1>15
     DEF Next, Thread, WaitingCall, ReachFuture

(* The countdown stays within its bound: only a new wait and the clock     *)
(* change it.                                                              *)
LEMMA StepLeft == LeftOK /\ [Next]_vars => LeftOK'
<1> SUFFICES ASSUME LeftOK, [Next]_vars PROVE LeftOK'
  OBVIOUS
<1>1. CASE NotReached
  BY <1>1, WaitAssumption DEF NotReached, StartWait, LeftOK
<1>2. CASE Time
  BY <1>2, WaitAssumption DEF Time, Tick, LeftOK
<1>3. CASE UNCHANGED left
  BY <1>3 DEF LeftOK
<1>4. NotReached \/ Time \/ UNCHANGED left
  BY DEF Next, Thread, WaitingCall, ReachFuture, vars, condVars, CreateFuture, Submit, Return,
         Call, LockFuture, UnlockFuture, ThreadLocks, ThreadUnlocks, IsReached, Resume,
         AwaitStep, AwaitCondition, Arm, Poll, Clock, Park, ReadDone, ReadResult, ReadError,
         Interrupt, ReachLocks, ReachUnlocks, ReachStoresResult, ReachStoresError, ReachMarks
<1> QED
  BY <1>1, <1>2, <1>3, <1>4

(* The mutex is taken only when nobody holds it and released only by its   *)
(* holder.                                                                 *)
LEMMA StepHolder ==
  PlacesOK /\ OneHolder /\ AnswerOrder /\ [Next]_vars
  => OneHolder'
<1> SUFFICES ASSUME PlacesOK, OneHolder, AnswerOrder,
                    [Next]_vars
             PROVE  OneHolder'
  OBVIOUS
<1> USE DEF PlacesOK, OneHolder, AnswerOrder, ThreadHolds, ReachHolds, ThreadRuns
<1>1. CASE ThreadRuns /\ CreateFuture
  BY <1>1 DEF CreateFuture, callVars
<1>2. CASE ThreadRuns /\ Submit
  BY <1>2 DEF Submit, callVars
<1>3. CASE ThreadRuns /\ Return
  BY <1>3 DEF Return, futureVars
<1>4. CASE \E m \in {"await", "next", "peek"} : Call(m)
  BY <1>4 DEF Call, futureVars
<1>5. CASE ThreadRuns /\ (LockFuture \/ UnlockFuture)
  BY <1>5 DEF LockFuture, UnlockFuture, ThreadLocks, ThreadUnlocks, futureVars, callVars
<1>6. CASE ThreadRuns /\ (IsReached \/ Resume)
  BY <1>6 DEF IsReached, Resume, futureVars, callVars
<1>7. CASE ThreadRuns /\ NotReached
  BY <1>7 DEF NotReached, StartWait, futureVars, callVars
<1>8. CASE ThreadRuns /\ AwaitStep
  BY <1>8 DEF AwaitStep, AwaitCondition, ThreadLocks, ThreadUnlocks, Arm, Poll, Clock, Park,
              futureVars, callVars
<1>9. CASE ThreadRuns /\ (ReadDone \/ ReadResult \/ ReadError)
  BY <1>9 DEF ReadDone, ReadResult, ReadError, futureVars
<1>10. CASE Interrupt
  BY <1>10 DEF Interrupt, condVars, callVars
<1>11. CASE ReachLocks \/ ReachUnlocks
  BY <1>11 DEF ReachLocks, ReachUnlocks, callVars
<1>12. CASE ReachStoresResult \/ ReachStoresError
  BY <1>12 DEF ReachStoresResult, ReachStoresError, condVars, callVars
<1>13. CASE ReachMarks
  BY <1>13 DEF ReachMarks, callVars
<1>14. CASE Time
  BY <1>14 DEF Time, Tick, futureVars, callVars
<1>15. CASE UNCHANGED vars
  BY <1>15 DEF vars, condVars, futureVars, callVars
<1> QED
  BY <1>1, <1>2, <1>3, <1>4, <1>5, <1>6, <1>7, <1>8, <1>9, <1>10, <1>11, <1>12, <1>13, <1>14, <1>15
     DEF Next, Thread, WaitingCall, ReachFuture

(* Words before the done bit, and one answer to a request.                 *)
LEMMA StepOrder ==
  PlacesOK /\ OneHolder /\ AnswerOrder /\ ReadSoFar /\ [Next]_vars
  => AnswerOrder'
<1> SUFFICES ASSUME PlacesOK, OneHolder, AnswerOrder, ReadSoFar,
                    [Next]_vars
             PROVE  AnswerOrder'
  OBVIOUS
<1> USE DEF PlacesOK, OneHolder, AnswerOrder, ReadSoFar, ThreadHolds, ReachHolds, ThreadRuns
<1>1. CASE ThreadRuns /\ CreateFuture
  BY <1>1 DEF CreateFuture, callVars
<1>2. CASE ThreadRuns /\ Submit
  BY <1>2 DEF Submit, callVars
<1>3. CASE ThreadRuns /\ Return
  BY <1>3 DEF Return, futureVars
<1>4. CASE \E m \in {"await", "next", "peek"} : Call(m)
  BY <1>4 DEF Call, futureVars
<1>5. CASE ThreadRuns /\ (LockFuture \/ UnlockFuture)
  BY <1>5 DEF LockFuture, UnlockFuture, ThreadLocks, ThreadUnlocks, futureVars, callVars
<1>6. CASE ThreadRuns /\ (IsReached \/ Resume)
  BY <1>6 DEF IsReached, Resume, futureVars, callVars
<1>7. CASE ThreadRuns /\ NotReached
  BY <1>7 DEF NotReached, StartWait, futureVars, callVars
<1>8. CASE ThreadRuns /\ AwaitStep
  BY <1>8 DEF AwaitStep, AwaitCondition, ThreadLocks, ThreadUnlocks, Arm, Poll, Clock, Park,
              futureVars, callVars
<1>9. CASE ThreadRuns /\ (ReadDone \/ ReadResult \/ ReadError)
  BY <1>9 DEF ReadDone, ReadResult, ReadError, futureVars
<1>10. CASE Interrupt
  BY <1>10 DEF Interrupt, condVars, callVars
<1>11. CASE ReachLocks \/ ReachUnlocks
  BY <1>11 DEF ReachLocks, ReachUnlocks, callVars
<1>12. CASE ReachStoresResult \/ ReachStoresError
  BY <1>12 DEF ReachStoresResult, ReachStoresError, condVars, callVars
<1>13. CASE ReachMarks
  BY <1>13 DEF ReachMarks, callVars
<1>14. CASE Time
  BY <1>14 DEF Time, Tick, futureVars, callVars
<1>15. CASE UNCHANGED vars
  BY <1>15 DEF vars, condVars, futureVars, callVars
<1> QED
  BY <1>1, <1>2, <1>3, <1>4, <1>5, <1>6, <1>7, <1>8, <1>9, <1>10, <1>11, <1>12, <1>13, <1>14, <1>15
     DEF Next, Thread, WaitingCall, ReachFuture

(* What was read stays current, because the reader holds the mutex.        *)
LEMMA StepRead ==
  PlacesOK /\ OneHolder /\ AnswerOrder /\ ReadSoFar /\ [Next]_vars
  => ReadSoFar'
<1> SUFFICES ASSUME PlacesOK, OneHolder, AnswerOrder, ReadSoFar,
                    [Next]_vars
             PROVE  ReadSoFar'
  OBVIOUS
<1> USE DEF PlacesOK, OneHolder, AnswerOrder, ReadSoFar, ThreadHolds, ReachHolds, ThreadRuns
<1>1. CASE ThreadRuns /\ CreateFuture
  BY <1>1 DEF CreateFuture, callVars
<1>2. CASE ThreadRuns /\ Submit
  BY <1>2 DEF Submit, callVars
<1>3. CASE ThreadRuns /\ Return
  BY <1>3 DEF Return, futureVars
<1>4. CASE \E m \in {"await", "next", "peek"} : Call(m)
  BY <1>4 DEF Call, futureVars
<1>5. CASE ThreadRuns /\ (LockFuture \/ UnlockFuture)
  BY <1>5 DEF LockFuture, UnlockFuture, ThreadLocks, ThreadUnlocks, futureVars, callVars
<1>6. CASE ThreadRuns /\ (IsReached \/ Resume)
  BY <1>6 DEF IsReached, Resume, futureVars, callVars
<1>7. CASE ThreadRuns /\ NotReached
  BY <1>7 DEF NotReached, StartWait, futureVars, callVars
<1>8. CASE ThreadRuns /\ AwaitStep
  BY <1>8 DEF AwaitStep, AwaitCondition, ThreadLocks, ThreadUnlocks, Arm, Poll, Clock, Park,
              futureVars, callVars
<1>9. CASE ThreadRuns /\ (ReadDone \/ ReadResult \/ ReadError)
  BY <1>9 DEF ReadDone, ReadResult, ReadError, futureVars
<1>10. CASE Interrupt
  BY <1>10 DEF Interrupt, condVars, callVars
<1>11. CASE ReachLocks \/ ReachUnlocks
  BY <1>11 DEF ReachLocks, ReachUnlocks, callVars
<1>12. CASE ReachStoresResult \/ ReachStoresError
  BY <1>12 DEF ReachStoresResult, ReachStoresError, condVars, callVars
<1>13. CASE ReachMarks
  BY <1>13 DEF ReachMarks, callVars
<1>14. CASE Time
  BY <1>14 DEF Time, Tick, futureVars, callVars
<1>15. CASE UNCHANGED vars
  BY <1>15 DEF vars, condVars, futureVars, callVars
<1> QED
  BY <1>1, <1>2, <1>3, <1>4, <1>5, <1>6, <1>7, <1>8, <1>9, <1>10, <1>11, <1>12, <1>13, <1>14, <1>15
     DEF Next, Thread, WaitingCall, ReachFuture

(* So a call that reports an answer returns all of it.                     *)
LEMMA StepWhole ==
  PlacesOK /\ OneHolder /\ AnswerOrder /\ ReadSoFar /\ AnswerIsWhole /\ [Next]_vars
  => AnswerIsWhole'
<1> SUFFICES ASSUME PlacesOK, OneHolder, AnswerOrder, ReadSoFar, AnswerIsWhole,
                    [Next]_vars
             PROVE  AnswerIsWhole'
  OBVIOUS
<1> USE DEF PlacesOK, OneHolder, AnswerOrder, ReadSoFar, AnswerIsWhole, ThreadHolds,
           ReachHolds, ThreadRuns
<1>1. CASE ThreadRuns /\ CreateFuture
  BY <1>1 DEF CreateFuture, callVars
<1>2. CASE ThreadRuns /\ Submit
  BY <1>2 DEF Submit, callVars
<1>3. CASE ThreadRuns /\ Return
  BY <1>3 DEF Return, futureVars
<1>4. CASE \E m \in {"await", "next", "peek"} : Call(m)
  BY <1>4 DEF Call, futureVars
<1>5. CASE ThreadRuns /\ (LockFuture \/ UnlockFuture)
  BY <1>5 DEF LockFuture, UnlockFuture, ThreadLocks, ThreadUnlocks, futureVars, callVars
<1>6. CASE ThreadRuns /\ (IsReached \/ Resume)
  BY <1>6 DEF IsReached, Resume, futureVars, callVars
<1>7. CASE ThreadRuns /\ NotReached
  BY <1>7 DEF NotReached, StartWait, futureVars, callVars
<1>8. CASE ThreadRuns /\ AwaitStep
  BY <1>8 DEF AwaitStep, AwaitCondition, ThreadLocks, ThreadUnlocks, Arm, Poll, Clock, Park,
              futureVars, callVars
<1>9. CASE ThreadRuns /\ (ReadDone \/ ReadResult \/ ReadError)
  BY <1>9 DEF ReadDone, ReadResult, ReadError, futureVars
<1>10. CASE Interrupt
  BY <1>10 DEF Interrupt, condVars, callVars
<1>11. CASE ReachLocks \/ ReachUnlocks
  BY <1>11 DEF ReachLocks, ReachUnlocks, callVars
<1>12. CASE ReachStoresResult \/ ReachStoresError
  BY <1>12 DEF ReachStoresResult, ReachStoresError, condVars, callVars
<1>13. CASE ReachMarks
  BY <1>13 DEF ReachMarks, callVars
<1>14. CASE Time
  BY <1>14 DEF Time, Tick, futureVars, callVars
<1>15. CASE UNCHANGED vars
  BY <1>15 DEF vars, condVars, futureVars, callVars
<1> QED
  BY <1>1, <1>2, <1>3, <1>4, <1>5, <1>6, <1>7, <1>8, <1>9, <1>10, <1>11, <1>12, <1>13, <1>14, <1>15
     DEF Next, Thread, WaitingCall, ReachFuture

(* The invariant holds in every state.                                     *)
LEMMA InvariantHolds == Spec => []IInv
<1>1. IInv /\ [Next]_vars => IInv'
  BY StepPlaces, StepFlags, StepLeft, StepHolder, StepOrder, StepRead, StepWhole DEF IInv
<1> QED
  BY <1>1, InitIInv, PTL DEF Spec

(* All variables stay within their types.                                  *)
THEOREM TypeCorrect == Spec => []TypeOK
<1>1. IInv => TypeOK
  BY DEF IInv, TypeOK, PlacesOK, FlagsOK, LeftOK, AnswerOrder
<1> QED
  BY <1>1, InvariantHolds, PTL

(* No call returns half an answer, and TW_AwaitFuture never returns        *)
(* without one.                                                            *)
THEOREM AnswersAreWhole == Spec => []AnswerIsWhole
<1>1. IInv => AnswerIsWhole
  BY DEF IInv
<1> QED
  BY <1>1, InvariantHolds, PTL

(* What a call is about to report is true when it releases the mutex.      *)
THEOREM VerdictsAreCurrent == Spec => []VerdictIsCurrent
<1>1. IInv => VerdictIsCurrent
  BY DEF IInv, ReadSoFar, VerdictIsCurrent
<1> QED
  BY <1>1, InvariantHolds, PTL

(* The handler spins only against the thread it interrupted, and the mutex *)
(* is never left locked.                                                   *)
THEOREM SpinningNeedsAHolder == Spec => []SpinMeansHolder
<1>1. IInv => SpinMeansHolder
  BY DEF IInv, OneHolder, AnswerOrder, ThreadHolds, ReachHolds, SpinMeansHolder, HandlerSpins,
         InCall
<1> QED
  BY <1>1, InvariantHolds, PTL
=============================================================================
