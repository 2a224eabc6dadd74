----------------------- MODULE VideoInterruptsProofs ------------------------
(***************************************************************************)
(* For any timeout, any number of frames told apart and any set of lines,  *)
(* raised and served in any order: nothing but a frame wakes the thread    *)
(* that waits for one.                                                     *)
(***************************************************************************)
EXTENDS VideoInterrupts, TLAPS

(* The type invariant in the parts that the provers treat differently.     *)
PlacesOK ==
    pc \in {"init", "idle", "read", "test", "unlock"} \cup AwaitPoints

FlagsOK ==
    /\ mtx \in BOOLEAN
    /\ wait \in BOOLEAN
    /\ timedOut \in BOOLEAN
    /\ changed \in BOOLEAN

CountsOK ==
    /\ left \in 0 .. MaxWait
    /\ elapsed \in 0 .. MaxElapsed

RegistersOK ==
    /\ LinesTypeOK({"vblank", "user"})
    /\ setting \in UserLines \cup {NoLine}

LEMMA TypeInParts == LineTypeOK <=> PlacesOK /\ FlagsOK /\ CountsOK /\ RegistersOK
BY DEF LineTypeOK, TypeOK, PlacesOK, FlagsOK, CountsOK, RegistersOK

(* Wherever a waiter is between arming and its way out, its bit is set or  *)
(* a frame has come.                                                       *)
ClearMeansNewFrame ==
    /\ pc \in {"poll", "clock", "park"} /\ ~wait => elapsed > 0
    /\ pc = "relock" /\ ~timedOut => elapsed > 0

LEMMA PlacesInit == InterruptInit => PlacesOK
BY DEF InterruptInit, Uninitialised, PlacesOK

LEMMA PlacesStep == PlacesOK /\ [InterruptNext]_interruptVars => PlacesOK'
<1>. SUFFICES ASSUME PlacesOK, [InterruptNext]_interruptVars PROVE PlacesOK' OBVIOUS
<1>. USE DEF PlacesOK, AwaitPoints
<1>1. CASE InitVideo BY <1>1 DEF InitVideo
<1>2. CASE AwaitVideoVBlank
  BY <1>2 DEF AwaitVideoVBlank, ReadFrame, SameFrame, NewFrame, UnlockVideo,
     AwaitFrame, AwaitCondition, ThreadLocks, ThreadUnlocks, StartWait,
     Arm, Poll, Clock, Park
<1>3. CASE LockVideo BY <1>3 DEF LockVideo, ThreadLocks
<1>4. CASE VBlank BY <1>4 DEF VBlank
<1>5. CASE Time BY <1>5 DEF Time, Tick
<1>6. CASE InvalidateVideoTiming BY <1>6 DEF InvalidateVideoTiming
<1>7. CASE UNCHANGED pc BY <1>7
<1>. QED BY <1>1, <1>2, <1>3, <1>4, <1>5, <1>6, <1>7
     DEF InterruptNext, Thread, Waits, Raise, Withdraw, Dispatch, ServeVideo,
         ServeUser, TimePasses, BeginInstall, EndInstall, interruptVars, vars

LEMMA FlagsInit == InterruptInit => FlagsOK
BY DEF InterruptInit, Uninitialised, FlagsOK

LEMMA FlagsStep == FlagsOK /\ [InterruptNext]_interruptVars => FlagsOK'
<1>. SUFFICES ASSUME FlagsOK, [InterruptNext]_interruptVars PROVE FlagsOK' OBVIOUS
<1>. USE DEF FlagsOK
<1>1. CASE InitVideo BY <1>1 DEF InitVideo
<1>2. CASE AwaitVideoVBlank
  BY <1>2 DEF AwaitVideoVBlank, ReadFrame, SameFrame, NewFrame, UnlockVideo,
     AwaitFrame, AwaitCondition, ThreadLocks, ThreadUnlocks, StartWait,
     Arm, Poll, Clock, Park
<1>3. CASE LockVideo BY <1>3 DEF LockVideo, ThreadLocks
<1>4. CASE VBlank BY <1>4 DEF VBlank, BroadcastCondition
<1>5. CASE Time BY <1>5 DEF Time, Tick
<1>6. CASE InvalidateVideoTiming BY <1>6 DEF InvalidateVideoTiming
<1>7. CASE UNCHANGED vars BY <1>7 DEF vars
<1>. QED BY <1>1, <1>2, <1>3, <1>4, <1>5, <1>6, <1>7
     DEF InterruptNext, Thread, Waits, Raise, Withdraw, Dispatch, ServeVideo,
         ServeUser, TimePasses, BeginInstall, EndInstall, interruptVars

LEMMA CountsInit == InterruptInit => CountsOK
BY WaitAssumption, ElapsedAssumption DEF InterruptInit, Uninitialised, CountsOK

LEMMA CountsStep == CountsOK /\ [InterruptNext]_interruptVars => CountsOK'
<1>. SUFFICES ASSUME CountsOK, [InterruptNext]_interruptVars PROVE CountsOK' OBVIOUS
<1>. USE WaitAssumption, ElapsedAssumption DEF CountsOK
<1>1. CASE InitVideo BY <1>1 DEF InitVideo
<1>2. CASE AwaitVideoVBlank
  <2>1. CASE ReadFrame BY <2>1 DEF ReadFrame
  <2>2. CASE SameFrame BY <2>2 DEF SameFrame, StartWait
  <2>3. CASE NewFrame BY <2>3 DEF NewFrame
  <2>4. CASE UnlockVideo BY <2>4 DEF UnlockVideo, ThreadUnlocks
  <2>5. CASE AwaitFrame
    BY <2>5 DEF AwaitFrame, AwaitCondition, ThreadLocks, ThreadUnlocks,
       Arm, Poll, Clock, Park
  <2>. QED BY <1>2, <2>1, <2>2, <2>3, <2>4, <2>5 DEF AwaitVideoVBlank
<1>3. CASE LockVideo BY <1>3 DEF LockVideo, ThreadLocks
<1>4. CASE VBlank BY <1>4 DEF VBlank
<1>5. CASE Time BY <1>5 DEF Time, Tick
<1>6. CASE InvalidateVideoTiming BY <1>6 DEF InvalidateVideoTiming
<1>7. CASE UNCHANGED vars BY <1>7 DEF vars
<1>. QED BY <1>1, <1>2, <1>3, <1>4, <1>5, <1>6, <1>7
     DEF InterruptNext, Thread, Waits, Raise, Withdraw, Dispatch, ServeVideo,
         ServeUser, TimePasses, BeginInstall, EndInstall, interruptVars

LEMMA VideoIsInstallable == "VIDEO" \in Installable /\ UserLines \subseteq Installable
<1>1. Ordered[5] = "VIDEO" /\ 5 \in DOMAIN Ordered BY DEF Ordered
<1>2. "VIDEO" \in LineSet BY <1>1 DEF LineSet
<1>. QED BY <1>2, LinesAssumption DEF Installable

LEMMA RegistersInit == InterruptInit => RegistersOK
BY DEF InterruptInit, LinesInit, RegistersOK, LinesTypeOK

LEMMA RegistersStep == RegistersOK /\ [InterruptNext]_interruptVars => RegistersOK'
<1>. SUFFICES ASSUME RegistersOK, [InterruptNext]_interruptVars PROVE RegistersOK'
  OBVIOUS
<1>. USE DEF RegistersOK, LinesTypeOK
<1>0. "STARLET_TIMER" \in WiiLineSet
  <2>1. OrderedWii[1] = "STARLET_TIMER" /\ 1 \in DOMAIN OrderedWii BY DEF OrderedWii
  <2>. QED BY <2>1 DEF WiiLineSet
<1>1. CASE InitVideo
  BY <1>0, <1>1, VideoIsInstallable DEF InitVideo, StoreHandler, Enable
<1>2. ASSUME NEW l \in UserLines, BeginInstall(l) PROVE RegistersOK'
  BY <1>2, VideoIsInstallable DEF BeginInstall, InstallStep, StoreHandler
<1>3. CASE EndInstall BY <1>0, <1>3 DEF EndInstall, InstallStep, Enable
<1>4. ASSUME NEW l \in Raised, Raise(l) PROVE RegistersOK'
  BY <1>4, LinesAssumption DEF Raise
<1>5. ASSUME NEW l \in Raised, Withdraw(l) PROVE RegistersOK'
  BY <1>5 DEF Withdraw
<1>6. CASE ServeVideo BY <1>6 DEF ServeVideo, TakeDown
<1>7. CASE ServeUser BY <1>7 DEF ServeUser, TakeDown
<1>8. CASE UNCHANGED <<lineVars, setting>> BY <1>8 DEF lineVars
<1>. QED BY <1>1, <1>2, <1>3, <1>4, <1>5, <1>6, <1>7, <1>8
     DEF InterruptNext, Thread, Waits, Dispatch, TimePasses, interruptVars

(* The state of the wait and of the interrupt registers keeps its types.   *)
THEOREM TypeCorrect == InterruptSpec => []LineTypeOK
<1>1. InterruptInit => LineTypeOK
  BY PlacesInit, FlagsInit, CountsInit, RegistersInit, TypeInParts
<1>2. LineTypeOK /\ [InterruptNext]_interruptVars => LineTypeOK'
  <2>1. (PlacesOK /\ FlagsOK /\ CountsOK /\ RegistersOK)' => LineTypeOK'
    BY DEF LineTypeOK, TypeOK, PlacesOK, FlagsOK, CountsOK, RegistersOK
  <2>. QED BY <2>1, PlacesStep, FlagsStep, CountsStep, RegistersStep, TypeInParts
<1>. QED BY <1>1, <1>2, PTL DEF InterruptSpec

(* A frame counts before it broadcasts, a waiter arms before it looks.     *)
LEMMA ClearStep ==
    LineTypeOK /\ ClearMeansNewFrame /\ [InterruptNext]_interruptVars
        => ClearMeansNewFrame'
<1>. SUFFICES ASSUME CountsOK, ClearMeansNewFrame, [InterruptNext]_interruptVars
     PROVE ClearMeansNewFrame'
  BY TypeInParts
<1>. USE DEF ClearMeansNewFrame
<1>1. CASE InitVideo BY <1>1 DEF InitVideo
<1>2. CASE AwaitVideoVBlank
  <2>1. CASE ReadFrame BY <2>1 DEF ReadFrame
  <2>2. CASE SameFrame BY <2>2 DEF SameFrame, StartWait
  <2>3. CASE NewFrame BY <2>3 DEF NewFrame
  <2>4. CASE UnlockVideo BY <2>4 DEF UnlockVideo, ThreadUnlocks
  <2>5. CASE AwaitFrame
    <3>1. CASE Arm BY <3>1 DEF Arm
    <3>2. CASE Poll BY <2>5, <3>2 DEF AwaitFrame, Poll
    <3>3. CASE Clock BY <2>5, <3>3 DEF AwaitFrame, Clock
    <3>4. CASE Park BY <2>5, <3>4 DEF AwaitFrame, Park
    <3>5. CASE ThreadUnlocks("release", "arm") BY <3>5 DEF ThreadUnlocks
    <3>6. CASE ThreadLocks("relock", "test") BY <3>6 DEF ThreadLocks
    <3>. QED BY <2>5, <3>1, <3>2, <3>3, <3>4, <3>5, <3>6
         DEF AwaitFrame, AwaitCondition
  <2>. QED BY <1>2, <2>1, <2>2, <2>3, <2>4, <2>5 DEF AwaitVideoVBlank
<1>3. CASE LockVideo BY <1>3 DEF LockVideo, ThreadLocks
<1>4. CASE VBlank
  <2>1. elapsed' > 0
    BY <1>4, ElapsedAssumption DEF VBlank, CountsOK
  <2>. QED BY <2>1
<1>5. CASE Time BY <1>5 DEF Time, Tick
<1>6. CASE InvalidateVideoTiming BY <1>6 DEF InvalidateVideoTiming
<1>7. CASE UNCHANGED vars BY <1>7 DEF vars
<1>. QED BY <1>1, <1>2, <1>3, <1>4, <1>5, <1>6, <1>7
     DEF InterruptNext, Thread, Waits, Raise, Withdraw, Dispatch, ServeVideo,
         ServeUser, TimePasses, BeginInstall, EndInstall, interruptVars

(* Whatever is raised, served and installed around it, a waiter is woken   *)
(* by a frame and by nothing else.                                         *)
THEOREM OnlyFramesWake == InterruptSpec => []WakeMeansNewFrame
<1>1. InterruptInit => ClearMeansNewFrame
  BY DEF InterruptInit, Uninitialised, ClearMeansNewFrame
<1>2. ClearMeansNewFrame => WakeMeansNewFrame
  BY DEF ClearMeansNewFrame, WakeMeansNewFrame
<1>. QED BY <1>1, <1>2, TypeCorrect, ClearStep, PTL DEF InterruptSpec
=============================================================================
