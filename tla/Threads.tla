------------------------------ MODULE Threads -------------------------------
(***************************************************************************)
(* The thread table of ppc/threading_ppc.c: TW_StartThread, the switch     *)
(* that a thread makes when it has to wait (TW_MaybeAutoSwitchContext),    *)
(* the one it makes when it ends (TW_EndThisThread), and how both restore  *)
(* a context (ppc/interrupts.S), with interrupts between their steps.      *)
(*                                                                         *)
(* A flow is what the processor executes: a stack and a place in the       *)
(* program.  It is named by the thread it was started as, so the table is  *)
(* in order when _tw_cur_thread names the flow that runs and the register  *)
(* area of every other thread holds that thread's own flow.                *)
(*                                                                         *)
(* Interrupts come while MSR[EE] is set; a handler may start threads and   *)
(* allocate too.  The entry sequence has one scratch area and one stack:   *)
(* an interrupt in a handler leaves nothing to return to, and what the     *)
(* processor does from there on is not modelled.  Neither is               *)
(* TW_THREAD_FLAG_WAITING, which nothing reads, nor an allocation that     *)
(* fails, nor the scheduled tasks, none of which _tw_dispatch_handler ever *)
(* finds (_tw_highest_schedule stays 0).                                   *)
(***************************************************************************)
EXTENDS Naturals

CONSTANTS
    MaxThreads,  \* TW_PPC_MAX_THREADS
    MaxStarts,   \* bound: calls of TW_StartThread
    MainEnds,    \* may the first flow call TW_EndThisThread?
    None         \* no thread, no flow

ASSUME ThreadsAssumption ==
    /\ MaxThreads \in Nat \ {0}
    /\ MaxStarts \in Nat
    /\ MainEnds \in BOOLEAN

Thread == 0 .. MaxThreads - 1

ASSUME NoneAssumption == None \notin Thread

(* 1 is the thread, 2 the handler on top of it.                            *)
Level == {1, 2}

VARIABLES
    active,    \* the threads with TW_THREAD_FLAG_ACTIVE
    running,   \* the threads with TW_THREAD_FLAG_RUNNING
    count,     \* _tw_thread_count
    furnished, \* the slots whose stack and register area are allocated
    cur,       \* _tw_cur_thread
    saved,     \* saved[t]: the flow in t's register area, None before any
    midway,    \* the areas that TW_SwitchContext saved to
    flow,      \* the flow the processor executes, None if it is lost
    ending,    \* the flows that are in the loop of TW_EndThisThread
    restore,   \* how far the context of cur is restored, "no" if none is
    ee,        \* MSR[EE]
    level,     \* 1, or 2 in an interrupt handler
    starting,  \* starting[l]: the slot TW_StartThread has claimed at level l
    lacks,     \* lacks[l]: the allocations it has still to make
    heap,      \* the level that holds the heap's mutex, 0 if none
    starts,    \* how often TW_StartThread was called
    mishaps    \* history: what has gone wrong

table == <<active, running, count, furnished>>
cpu == <<cur, saved, midway, flow, ending, restore>>
calls == <<starting, lacks, heap, starts>>
vars == <<table, cpu, ee, level, calls, mishaps>>

(* "wait": a wait while another thread was runnable; "srr": an interrupt   *)
(* after mtsrr0 and before the rfi of a restore; "nested": an interrupt in *)
(* a handler; "spin": a handler waits for the heap of the thread below it. *)
Mishap == {"wait", "srr", "nested", "spin"}

(* TW_SetupThreading                                                       *)
Init ==
    /\ active = {0}
    /\ running = {0}
    /\ count = 1
    /\ furnished = {0}
    /\ cur = 0
    /\ saved = [t \in Thread |-> None]
    /\ midway = {}
    /\ flow = 0
    /\ ending = {}
    /\ restore = "no"
    /\ ee = TRUE
    /\ level = 1
    /\ starting = [l \in Level |-> None]
    /\ lacks = [l \in Level |-> 0]
    /\ heap = 0
    /\ starts = 0
    /\ mishaps = {}

(* A flow entered through registers nobody ever saved, or through a        *)
(* spoiled SRR0, runs off; what it does is not modelled.                   *)
InThread == level = 1 /\ restore = "no" /\ flow \notin ending \cup {None}
InHandler == level = 2 /\ mishaps \cap {"nested", "spin"} = {}
InProgram == InThread \/ InHandler

(* Between its library calls.                                              *)
Free == starting[level] = None /\ heap # level

-----------------------------------------------------------------------------
(* TW_StartThread: two sections with interrupts disabled, and between them *)
(* one with interrupts enabled, in which a slot that is used for the first *)
(* time gets a stack and a register area.                                  *)

(* Mutant of FirstFree: a slot is free until it is filled in.              *)
FirstIdle(t) ==
    /\ t \in Thread \ ({0} \cup running)
    /\ \A u \in Thread \ ({0} \cup running) : t <= u

FirstFree(t) ==
    /\ t \in Thread \ ({0} \cup active)
    /\ \A u \in Thread \ ({0} \cup active) : t <= u

(* Mutants of CountAfter: starts counted, or the highest index.            *)
CountOfStarts(t) == count + 1
HighestIndex(t) == IF t >= count THEN t ELSE count

CountAfter(t) == IF t >= count THEN t + 1 ELSE count

(* Mutant of ClaimSlot: TW_THREAD_FLAG_RUNNING is set with the claim.      *)
ClaimRunning ==
    /\ InProgram /\ Free
    /\ starts < MaxStarts
    /\ starts' = starts + 1
    /\ \E t \in Thread :
          /\ FirstFree(t)
          /\ active' = active \cup {t}
          /\ running' = running \cup {t}
          /\ count' = CountAfter(t)
          /\ starting' = [starting EXCEPT ![level] = t]
          /\ lacks' = [lacks EXCEPT ![level] = IF t \in furnished THEN 0 ELSE 2]
    /\ ee' = TRUE
    /\ UNCHANGED <<furnished, cpu, level, heap, mishaps>>

ClaimSlot ==
    /\ InProgram /\ Free
    /\ starts < MaxStarts
    /\ starts' = starts + 1
    /\ \E t \in Thread :
          /\ FirstFree(t)
          /\ active' = active \cup {t}
          /\ count' = CountAfter(t)
          /\ starting' = [starting EXCEPT ![level] = t]
          /\ lacks' = [lacks EXCEPT ![level] = IF t \in furnished THEN 0 ELSE 2]
    /\ ee' = TRUE
    /\ UNCHANGED <<running, furnished, cpu, level, heap, mishaps>>

(* Every slot is taken: it returns 0.                                      *)
NoSlot ==
    /\ InProgram /\ Free
    /\ starts < MaxStarts
    /\ starts' = starts + 1
    /\ Thread \subseteq {0} \cup active
    /\ ee' = TRUE
    /\ UNCHANGED <<table, cpu, level, starting, lacks, heap, mishaps>>

(* TW_AllocateHeapObject, for a thread that is started or for the program: *)
(* it takes the heap's mutex, which in a thread nobody else can hold.      *)
WantsHeap == heap # level /\ (starting[level] # None => lacks[level] > 0)

LockHeap ==
    /\ InProgram /\ WantsHeap
    /\ heap = 0
    /\ heap' = level
    /\ UNCHANGED <<table, cpu, ee, level, starting, lacks, starts, mishaps>>

UnlockHeap ==
    /\ InProgram
    /\ heap = level
    /\ heap' = 0
    /\ lacks' = [lacks EXCEPT ![level] = IF @ > 0 THEN @ - 1 ELSE 0]
    /\ UNCHANGED <<table, cpu, ee, level, starting, starts, mishaps>>

(* In a handler the thread below may hold it, and cannot go on.            *)
SpinForHeap ==
    /\ InHandler /\ WantsHeap
    /\ heap # 0
    /\ mishaps' = mishaps \cup {"spin"}
    /\ UNCHANGED <<table, cpu, ee, level, calls>>

FillSlot ==
    /\ InProgram
    /\ starting[level] # None
    /\ lacks[level] = 0
    /\ saved' = [saved EXCEPT ![starting[level]] = starting[level]]
    /\ midway' = midway \ {starting[level]}
    /\ furnished' = furnished \cup {starting[level]}
    /\ running' = running \cup {starting[level]}
    /\ starting' = [starting EXCEPT ![level] = None]
    /\ ee' = TRUE
    /\ UNCHANGED <<active, count, cur, flow, ending, restore, level, lacks, heap, starts, mishaps>>

-----------------------------------------------------------------------------
(* A context is restored in three steps with interrupts enabled: cur is    *)
(* set ("area"), SRR0 and SRR1 are loaded ("srr"), and the rfi goes where  *)
(* they say, with interrupts disabled.                                     *)

Runnable == {t \in running : t < count}

(* The code that restores is the thread's or a spinning handler's.         *)
Restores == level = 1 \/ ("spin" \in mishaps /\ "nested" \notin mishaps)

LoadSrr ==
    /\ Restores
    /\ restore = "area"
    /\ restore' = "srr"
    /\ UNCHANGED <<table, cur, saved, midway, flow, ending, ee, level, calls, mishaps>>

(* A flow that TW_SwitchContext saved is in its loop ("back"); a handler's *)
(* comes back to itself.                                                   *)
Rfi ==
    /\ Restores
    /\ restore = "srr"
    /\ flow' = IF level = 1 THEN saved[cur] ELSE flow
    /\ ending' = IF level = 1 THEN ending \ {flow} ELSE ending
    /\ restore' = IF cur \in midway THEN "back" ELSE "no"
    /\ ee' = FALSE
    /\ UNCHANGED <<table, cur, saved, midway, level, calls, mishaps>>

(* An interrupt left its own return address in SRR0: the rfi goes into the *)
(* restoring code once more, with the registers already exchanged.         *)
RfiAstray ==
    /\ Restores
    /\ restore = "spoiled"
    /\ flow' = None
    /\ ending' = ending \ {flow}
    /\ restore' = "no"
    /\ ee' \in BOOLEAN
    /\ UNCHANGED <<table, cur, saved, midway, level, calls, mishaps>>

-----------------------------------------------------------------------------
(* TW_MaybeAutoSwitchContext, which is called over and over in a wait for  *)
(* a mutex or a condition: in a thread for any, in a handler for the heap. *)

(* Mutant of FirstOther: the loop starts after the current thread.         *)
FirstAbove(t) ==
    /\ t \in Runnable /\ t > cur
    /\ \A u \in Runnable : u > cur => t <= u

FirstOther(t) ==
    /\ t \in Runnable \ {cur}
    /\ \A u \in Runnable \ {cur} : t <= u

NextOther(t) ==
    /\ t \in Runnable /\ t > cur
    /\ \A u \in Runnable : u > cur => t <= u

Waits ==
    \/ InThread /\ Free
    \/ level = 2 /\ Restores /\ restore = "no"

(* _tw_cur_thread is set before it is used to name the register area to    *)
(* save to, so the switch saves to the very area it then loads from.       *)
SwitchTo(t) ==
    /\ cur' = t
    /\ saved' = [saved EXCEPT ![t] = IF level = 1 THEN flow ELSE None]
    /\ midway' = midway \cup {t}
    /\ restore' = "area"
    /\ mishaps' = mishaps \cup {"wait"}
    /\ ee' = TRUE
    /\ UNCHANGED <<table, flow, ending, level, calls>>

BeginSwitch == Waits /\ \E t \in Thread : FirstOther(t) /\ SwitchTo(t)

(* The loop goes on from there: from thread to thread, in ascending order. *)
SwitchOn ==
    /\ Restores
    /\ restore = "back"
    /\ \E t \in Thread : NextOther(t) /\ SwitchTo(t)

EndSwitch ==
    /\ \/ Restores /\ restore = "back" /\ \A t \in Runnable : t <= cur
       \/ Waits /\ Runnable \subseteq {cur}
    /\ restore' = "no"
    /\ ee' = TRUE
    /\ UNCHANGED <<table, cur, saved, midway, flow, ending, level, calls, mishaps>>

MaybeAutoSwitchContext == BeginSwitch \/ SwitchOn \/ EndSwitch

-----------------------------------------------------------------------------
(* A thread's function returns into TW_EndThisThread, the first flow's     *)
(* into TW_Exit.                                                           *)
BeginEnd ==
    /\ InThread /\ Free
    /\ flow # 0 \/ MainEnds
    /\ ending' = ending \cup {flow}
    /\ UNCHANGED <<table, cur, saved, midway, flow, restore, ee, level, calls, mishaps>>

InEnd == level = 1 /\ restore = "no" /\ flow \in ending

(* _maybe_auto_enter_context: the first other runnable thread takes over.  *)
(* The slot is handed back while the flow that ends still runs.            *)
EnterNext ==
    /\ InEnd
    /\ \E t \in Thread :
          /\ FirstOther(t)
          /\ active' = active \ {cur}
          /\ running' = running \ {cur}
          /\ cur' = t
    /\ restore' = "area"
    /\ ee' = TRUE
    /\ UNCHANGED <<count, furnished, saved, midway, flow, ending, level, calls, mishaps>>

(* None is: TW_EndThisThread tries again, with interrupts enabled.         *)
NoneToEnter ==
    /\ InEnd
    /\ Runnable \subseteq {cur}
    /\ ee' = TRUE
    /\ UNCHANGED <<table, cpu, level, calls, mishaps>>

EndThisThread == BeginEnd \/ EnterNext \/ NoneToEnter

-----------------------------------------------------------------------------
(* The processor overwrites SRR0 and SRR1 when it takes the interrupt.     *)
Interrupt ==
    /\ ee
    /\ level = 1
    /\ level' = 2
    /\ ee' = FALSE
    /\ restore' = IF restore = "srr" THEN "spoiled" ELSE restore
    /\ mishaps' = IF restore = "srr" THEN mishaps \cup {"srr"} ELSE mishaps
    /\ UNCHANGED <<table, cur, saved, midway, flow, ending, calls>>

NestedInterrupt ==
    /\ ee
    /\ level = 2
    /\ "nested" \notin mishaps
    /\ mishaps' = mishaps \cup {"nested"}
    /\ UNCHANGED <<table, cpu, ee, level, calls>>

ReturnFromInterrupt ==
    /\ InHandler /\ Free
    /\ level' = 1
    /\ ee' = TRUE
    /\ UNCHANGED <<table, cpu, calls, mishaps>>

StartThread == ClaimSlot \/ NoSlot \/ FillSlot
AllocateHeapObject == LockHeap \/ UnlockHeap \/ SpinForHeap
RestoreContext == LoadSrr \/ Rfi \/ RfiAstray

Next ==
    \/ StartThread
    \/ AllocateHeapObject
    \/ MaybeAutoSwitchContext
    \/ EndThisThread
    \/ RestoreContext
    \/ Interrupt
    \/ NestedInterrupt
    \/ ReturnFromInterrupt

Spec == Init /\ [][Next]_vars

(* Started threads come to their end, TW_StartThread and handlers too, and *)
(* the processor executes the code of the library.                         *)
FairSpec ==
    /\ Spec
    /\ SF_vars((LockHeap \/ SpinForHeap) /\ starting[level] # None)
    /\ SF_vars(UnlockHeap)
    /\ SF_vars(FillSlot)
    /\ SF_vars(BeginEnd)
    /\ SF_vars(EnterNext)
    /\ SF_vars(RestoreContext)
    /\ SF_vars(ReturnFromInterrupt)

-----------------------------------------------------------------------------
(* PROPERTIES                                                              *)

TypeOK ==
    /\ active \subseteq Thread
    /\ running \subseteq Thread
    /\ count \in 1 .. MaxThreads
    /\ furnished \subseteq Thread
    /\ cur \in Thread
    /\ saved \in [Thread -> Thread \cup {None}]
    /\ midway \subseteq Thread
    /\ flow \in Thread \cup {None}
    /\ ending \subseteq Thread
    /\ restore \in {"no", "area", "srr", "spoiled", "back"}
    /\ ee \in BOOLEAN
    /\ level \in Level
    /\ starting \in [Level -> Thread \cup {None}]
    /\ lacks \in [Level -> 0 .. 2]
    /\ heap \in {0} \cup Level
    /\ starts \in 0 .. MaxStarts
    /\ mishaps \subseteq Mishap

(* As long as no thread has had to wait while another was runnable, no     *)
(* restore was interrupted after mtsrr0 and no handler was, the table is   *)
(* in order: the current thread is the one that runs or, while the one     *)
(* before it is still on its way out, has its own flow in its area; and    *)
(* whichever runnable thread is entered next goes on where it was itself,  *)
(* on its own stack.                                                       *)
EveryoneKeepsTheirFlow ==
    mishaps \subseteq {"spin"} =>
        /\ cur = flow \/ (restore # "no" /\ flow \in ending /\ saved[cur] = cur)
        /\ \A t \in running \ {cur} : saved[t] = t

(* A slot whose stack is still being allocated belongs to one call of      *)
(* TW_StartThread, is marked so that no other takes it, and cannot be      *)
(* entered before it is filled in.                                         *)
ClaimsAreExclusive ==
    \A l \in Level : starting[l] # None =>
        /\ starting[l] \in active \ running
        /\ \A k \in Level : starting[k] = starting[l] => k = l

(* Up to the first contended wait nobody loses the runnable mark but the   *)
(* thread whose own flow has ended; and every runnable thread is within    *)
(* the part of the table that the loops look at, always.                   *)
OnlyTheEndedLeave ==
    [][ /\ \A t \in running \ running' :
              mishaps' \ {"spin"} # {} \/ (t = flow /\ flow \in ending)
        /\ \A t \in running' : t < count'
      ]_vars

(* If every flow ends sooner or later, a thread that TW_StartThread has a  *)
(* slot for runs, unless something goes wrong: a lower numbered thread     *)
(* goes first, but only finitely many are started.                         *)
StartedThreadsRun ==
    <>(mishaps # {}) \/ \A t \in Thread : t \in active ~> (flow = t /\ cur = t)

(* "fromCtx, toCtx": the thread that waits hands over to the one it names  *)
(* current; only those "further down the list" are starved.                *)
WaitingHandsOver ==
    [][ (Rfi /\ level = 1 /\ flow \notin ending) => flow' = cur ]_vars
=============================================================================
