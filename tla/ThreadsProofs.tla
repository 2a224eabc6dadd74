---------------------------- MODULE ThreadsProofs ---------------------------
(***************************************************************************)
(* For a table of any size and any number of starts: slots are claimed by  *)
(* one call at a time, and until something goes wrong (a contended wait,   *)
(* an interrupt late in a restore or inside a handler) the table is in     *)
(* order, also in the window in which a thread that has handed back its    *)
(* slot is still on its way to the next one.                               *)
(***************************************************************************)
EXTENDS Threads, TLAPS

(* Who is runnable was claimed, and the loops look at all who were.        *)
TableInOrder ==
    /\ running \subseteq active
    /\ \A t \in active : t < count

(* A handler's call is under way in a handler only, and a flow that ends   *)
(* has no call under way and does not hold the heap; a handler that spins  *)
(* never returns.                                                          *)
ClaimsAreNested ==
    /\ level = 1 => starting[2] = None
    /\ ending \subseteq {flow}
    /\ ending # {} => starting[1] = None /\ heap # 1
    /\ "spin" \in mishaps => level = 2

Inv ==
    /\ TypeOK
    /\ TableInOrder
    /\ ClaimsAreNested
    /\ ClaimsAreExclusive

Calm == mishaps \subseteq {"spin"}

(* Until something goes wrong, the only restores are those of threads that *)
(* end, and they restore what the thread itself left in its area.          *)
RestoresOwnFlow ==
    /\ restore \in {"no", "area", "srr"}
    /\ restore = "no" => cur = flow
    /\ restore # "no" => /\ flow \in ending
                         /\ saved[cur] = cur
                         /\ heap # 1
                         /\ "spin" \notin mishaps

OrderInv ==
    Calm => /\ midway = {}
            /\ RestoresOwnFlow
            /\ cur \in running
            /\ \A t \in running \ {cur} : saved[t] = t

LEMMA InitInv == Init => Inv /\ OrderInv
<1>. SUFFICES ASSUME Init PROVE Inv /\ OrderInv OBVIOUS
<1>. USE ThreadsAssumption DEF Init
<1>1. TypeOK
  <2>1. 0 \in Thread /\ 1 \in 1 .. MaxThreads /\ 0 \in 0 .. MaxStarts
    BY DEF Thread
  <2>2. /\ saved \in [Thread -> Thread \cup {None}]
        /\ starting \in [Level -> Thread \cup {None}]
        /\ lacks \in [Level -> 0 .. 2]
    OBVIOUS
  <2>. QED BY <2>1, <2>2 DEF TypeOK, Level
<1>2. TableInOrder BY DEF TableInOrder
<1>3. ClaimsAreNested BY DEF ClaimsAreNested, Level
<1>4. ClaimsAreExclusive BY DEF ClaimsAreExclusive
<1>5. OrderInv BY DEF OrderInv, RestoresOwnFlow
<1>. QED BY <1>1, <1>2, <1>3, <1>4, <1>5 DEF Inv

(* _tw_thread_count takes in the slot that was claimed.                    *)
LEMMA CountCovers ==
    ASSUME TypeOK, NEW t \in Thread
    PROVE  /\ CountAfter(t) \in 1 .. MaxThreads
           /\ t < CountAfter(t)
           /\ count <= CountAfter(t)
BY ThreadsAssumption DEF TypeOK, Thread, CountAfter

(* The slot is free, so no call has claimed it.                            *)
LEMMA ClaimSlotKeeps == Inv /\ ClaimSlot => Inv'
<1>. SUFFICES ASSUME Inv, ClaimSlot PROVE Inv' OBVIOUS
<1>1. PICK t \in Thread :
        /\ t \notin active
        /\ active' = active \cup {t}
        /\ count' = CountAfter(t)
        /\ starting' = [starting EXCEPT ![level] = t]
        /\ lacks' = [lacks EXCEPT ![level] = IF t \in furnished THEN 0 ELSE 2]
  BY DEF ClaimSlot, FirstFree
<1>2. /\ UNCHANGED <<running, furnished, level, heap, mishaps>>
      /\ UNCHANGED <<cur, saved, midway, flow, ending, restore>>
      /\ ee' = TRUE
      /\ starts' = starts + 1 /\ starts < MaxStarts
      /\ level = 2 \/ flow \notin ending
      /\ level \in Level
      /\ starting \in [Level -> Thread \cup {None}]
      /\ lacks \in [Level -> 0 .. 2]
  BY DEF ClaimSlot, cpu, InProgram, InThread, InHandler, Inv, TypeOK
<1>3. TypeOK'
  <2>1. starts' \in 0 .. MaxStarts
    BY <1>2, ThreadsAssumption DEF Inv, TypeOK
  <2>2. lacks' \in [Level -> 0 .. 2] BY <1>1, <1>2
  <2>3. starting' \in [Level -> Thread \cup {None}] BY <1>1, <1>2
  <2>4. count' \in 1 .. MaxThreads BY <1>1, CountCovers DEF Inv
  <2>5. active' \subseteq Thread BY <1>1 DEF Inv, TypeOK
  <2>. QED BY <1>2, <2>1, <2>2, <2>3, <2>4, <2>5 DEF Inv, TypeOK
<1>4. TableInOrder'
  <2>1. \A u \in active : u < CountAfter(t)
    BY CountCovers, ThreadsAssumption DEF Inv, TypeOK, TableInOrder, Thread
  <2>. QED BY <1>1, <1>2, <2>1, CountCovers DEF Inv, TableInOrder
<1>5. ClaimsAreNested'
  BY <1>1, <1>2 DEF Inv, ClaimsAreNested, Level
<1>6. ClaimsAreExclusive'
  <2>1. starting'[level] = t BY <1>1, <1>2
  <2>2. \A l \in Level : l # level => starting'[l] = starting[l] BY <1>1, <1>2
  <2>3. t \notin running BY <1>1 DEF Inv, TableInOrder
  <2>4. \A l \in Level : starting[l] # None => starting[l] # t
    BY <1>1 DEF Inv, ClaimsAreExclusive
  <2>5. t # None BY NoneAssumption
  <2>. QED BY <1>1, <1>2, <2>1, <2>2, <2>3, <2>4, <2>5
       DEF Inv, ClaimsAreExclusive
<1>. QED BY <1>3, <1>4, <1>5, <1>6 DEF Inv

(* The slot that is filled in is no other call's.                          *)
LEMMA FillSlotKeeps == Inv /\ FillSlot => Inv'
<1>. SUFFICES ASSUME Inv, FillSlot PROVE Inv' OBVIOUS
<1>. DEFINE t == starting[level]
<1>1. /\ saved' = [saved EXCEPT ![t] = t]
      /\ midway' = midway \ {t}
      /\ furnished' = furnished \cup {t}
      /\ running' = running \cup {t}
      /\ starting' = [starting EXCEPT ![level] = None]
      /\ ee' = TRUE
      /\ UNCHANGED <<active, count, cur, flow, ending, restore, level>>
      /\ UNCHANGED <<lacks, heap, starts, mishaps>>
      /\ t # None
  BY DEF FillSlot
<1>2. level \in Level /\ starting \in [Level -> Thread \cup {None}]
  BY DEF Inv, TypeOK
<1>3. t \in Thread /\ t \in active /\ t \notin running
  BY <1>1, <1>2 DEF Inv, ClaimsAreExclusive
<1>. HIDE DEF t
<1>4. TypeOK' BY <1>1, <1>2, <1>3 DEF Inv, TypeOK
<1>5. TableInOrder' BY <1>1, <1>3 DEF Inv, TableInOrder
<1>6. ClaimsAreNested' BY <1>1, <1>2 DEF Inv, ClaimsAreNested, Level
<1>7. ClaimsAreExclusive'
  <2>1. starting'[level] = None BY <1>1, <1>2
  <2>2. \A l \in Level : l # level => starting'[l] = starting[l] BY <1>1, <1>2
  <2>3. \A l \in Level : l # level /\ starting[l] # None => starting[l] # t
    BY <1>1, <1>2 DEF Inv, ClaimsAreExclusive, t
  <2>. QED BY <1>1, <2>1, <2>2, <2>3 DEF Inv, ClaimsAreExclusive
<1>. QED BY <1>4, <1>5, <1>6, <1>7 DEF Inv

(* The allocations: a thread that holds the heap is not in its end.        *)
LEMMA AllocateKeeps == Inv /\ AllocateHeapObject => Inv'
<1>. SUFFICES ASSUME Inv, AllocateHeapObject PROVE Inv' OBVIOUS
<1>1. /\ UNCHANGED <<active, running, count, furnished>>
      /\ UNCHANGED <<cur, saved, midway, flow, ending, restore>>
      /\ UNCHANGED <<ee, level, starting, starts>>
  BY DEF AllocateHeapObject, LockHeap, UnlockHeap, SpinForHeap, table, cpu, calls
<1>2. TableInOrder' /\ ClaimsAreExclusive'
  BY <1>1 DEF Inv, TableInOrder, ClaimsAreExclusive
<1>3. CASE LockHeap
  <2>1. heap' = level /\ lacks' = lacks /\ mishaps' = mishaps
        /\ (level = 1 => flow \notin ending)
    BY <1>3 DEF LockHeap, InProgram, InThread, InHandler
  <2>2. TypeOK' BY <1>1, <2>1 DEF Inv, TypeOK
  <2>3. ClaimsAreNested' BY <1>1, <2>1 DEF Inv, ClaimsAreNested
  <2>. QED BY <1>2, <2>2, <2>3 DEF Inv
<1>4. CASE UnlockHeap
  <2>1. heap' = 0 /\ mishaps' = mishaps
        /\ lacks' = [lacks EXCEPT ![level] = IF @ > 0 THEN @ - 1 ELSE 0]
    BY <1>4 DEF UnlockHeap
  <2>2. lacks' \in [Level -> 0 .. 2] BY <2>1 DEF Inv, TypeOK
  <2>3. TypeOK' BY <1>1, <2>1, <2>2 DEF Inv, TypeOK
  <2>4. ClaimsAreNested' BY <1>1, <2>1 DEF Inv, ClaimsAreNested
  <2>. QED BY <1>2, <2>3, <2>4 DEF Inv
<1>5. CASE SpinForHeap
  <2>1. heap' = heap /\ lacks' = lacks /\ mishaps' = mishaps \cup {"spin"}
        /\ level = 2
    BY <1>5 DEF SpinForHeap, InHandler, calls
  <2>2. TypeOK' BY <1>1, <2>1 DEF Inv, TypeOK, Mishap
  <2>3. ClaimsAreNested' BY <1>1, <2>1 DEF Inv, ClaimsAreNested
  <2>. QED BY <1>2, <2>2, <2>3 DEF Inv
<1>. QED BY <1>3, <1>4, <1>5 DEF AllocateHeapObject

LEMMA SwitchKeeps == Inv /\ MaybeAutoSwitchContext => Inv'
<1>. SUFFICES ASSUME Inv, MaybeAutoSwitchContext PROVE Inv' OBVIOUS
<1>1. /\ UNCHANGED <<active, running, count, furnished>>
      /\ UNCHANGED <<flow, ending, level, starting, lacks, heap, starts>>
      /\ ee' = TRUE
  BY DEF MaybeAutoSwitchContext, BeginSwitch, SwitchOn, EndSwitch, SwitchTo, table, calls
<1>2. TableInOrder' /\ ClaimsAreExclusive'
  BY <1>1 DEF Inv, TableInOrder, ClaimsAreExclusive
<1>3. CASE EndSwitch
  <2>1. restore' = "no" /\ UNCHANGED <<cur, saved, midway, mishaps>>
    BY <1>3 DEF EndSwitch
  <2>2. TypeOK' BY <1>1, <2>1 DEF Inv, TypeOK
  <2>3. ClaimsAreNested' BY <1>1, <2>1 DEF Inv, ClaimsAreNested
  <2>. QED BY <1>2, <2>2, <2>3 DEF Inv
<1>4. CASE BeginSwitch \/ SwitchOn
  <2>1. PICK t \in Thread : SwitchTo(t) BY <1>4 DEF BeginSwitch, SwitchOn
  <2>2. /\ cur' = t
        /\ saved' = [saved EXCEPT ![t] = IF level = 1 THEN flow ELSE None]
        /\ midway' = midway \cup {t}
        /\ restore' = "area"
        /\ mishaps' = mishaps \cup {"wait"}
    BY <2>1 DEF SwitchTo
  <2>3. saved' \in [Thread -> Thread \cup {None}] BY <2>2 DEF Inv, TypeOK
  <2>4. TypeOK' BY <1>1, <2>2, <2>3 DEF Inv, TypeOK, Mishap
  <2>5. ClaimsAreNested' BY <1>1, <2>2 DEF Inv, ClaimsAreNested
  <2>. QED BY <1>2, <2>4, <2>5 DEF Inv
<1>. QED BY <1>3, <1>4 DEF MaybeAutoSwitchContext

LEMMA RestoreKeeps == Inv /\ RestoreContext => Inv'
<1>. SUFFICES ASSUME Inv, RestoreContext PROVE Inv' OBVIOUS
<1>1. /\ UNCHANGED <<active, running, count, furnished>>
      /\ UNCHANGED <<cur, saved, midway, level>>
      /\ UNCHANGED <<starting, lacks, heap, starts, mishaps>>
  BY DEF RestoreContext, LoadSrr, Rfi, RfiAstray, table, calls
<1>2. /\ ee' \in BOOLEAN
      /\ restore' \in {"no", "srr", "back"}
      /\ flow' \in {flow, saved[cur], None}
      /\ \/ flow' = flow /\ ending' = ending
         \/ ending' = ending \ {flow}
  BY DEF RestoreContext, LoadSrr, Rfi, RfiAstray, Inv, TypeOK
<1>3. ending' \in {ending, {}} /\ ending' \subseteq {flow'}
  BY <1>2 DEF Inv, ClaimsAreNested
<1>4. TypeOK' BY <1>1, <1>2, <1>3 DEF Inv, TypeOK
<1>5. ClaimsAreNested' BY <1>1, <1>3 DEF Inv, ClaimsAreNested
<1>. QED BY <1>1, <1>4, <1>5 DEF Inv, TableInOrder, ClaimsAreExclusive

LEMMA BeginEndKeeps == Inv /\ BeginEnd => Inv'
<1>. SUFFICES ASSUME Inv, BeginEnd PROVE Inv' OBVIOUS
<1>1. /\ ending' = ending \cup {flow} /\ flow \notin ending \cup {None}
      /\ starting[1] = None /\ heap # 1
      /\ UNCHANGED <<active, running, count, furnished>>
      /\ UNCHANGED <<cur, saved, midway, flow, restore, ee, level>>
      /\ UNCHANGED <<starting, lacks, heap, starts, mishaps>>
  BY DEF BeginEnd, InThread, Free, table, calls
<1>2. TypeOK' BY <1>1 DEF Inv, TypeOK
<1>3. ClaimsAreNested' BY <1>1 DEF Inv, ClaimsAreNested
<1>. QED BY <1>1, <1>2, <1>3 DEF Inv, TableInOrder, ClaimsAreExclusive

(* No start is under way when a thread leaves the table, in a handler or   *)
(* in the thread, so it takes nobody's claim along.                        *)
LEMMA NoClaimAtTheEnd ==
    ASSUME Inv, level = 1, flow \in ending
    PROVE  \A l \in Level : starting[l] = None
BY DEF Inv, ClaimsAreNested, Level

LEMMA EnterNextKeeps == Inv /\ EnterNext => Inv'
<1>. SUFFICES ASSUME Inv, EnterNext PROVE Inv' OBVIOUS
<1>1. PICK t \in Thread :
        /\ active' = active \ {cur}
        /\ running' = running \ {cur}
        /\ cur' = t
  BY DEF EnterNext
<1>2. /\ level = 1 /\ flow \in ending
      /\ restore' = "area" /\ ee' = TRUE
      /\ UNCHANGED <<count, furnished, saved, midway, flow, ending, level>>
      /\ UNCHANGED <<starting, lacks, heap, starts, mishaps>>
  BY DEF EnterNext, InEnd, calls
<1>3. \A l \in Level : starting'[l] = None BY <1>2, NoClaimAtTheEnd
<1>4. TypeOK' BY <1>1, <1>2 DEF Inv, TypeOK
<1>5. TableInOrder' BY <1>1, <1>2 DEF Inv, TableInOrder
<1>6. ClaimsAreNested' BY <1>2 DEF Inv, ClaimsAreNested
<1>7. ClaimsAreExclusive' BY <1>3 DEF ClaimsAreExclusive
<1>. QED BY <1>4, <1>5, <1>6, <1>7 DEF Inv

LEMMA InterruptKeeps ==
    Inv /\ (Interrupt \/ NestedInterrupt \/ ReturnFromInterrupt) => Inv'
<1>. SUFFICES ASSUME Inv, Interrupt \/ NestedInterrupt \/ ReturnFromInterrupt
     PROVE  Inv'
  OBVIOUS
<1>1. /\ UNCHANGED <<active, running, count, furnished>>
      /\ UNCHANGED <<cur, saved, midway, flow, ending>>
      /\ UNCHANGED <<starting, lacks, heap, starts>>
  BY DEF Interrupt, NestedInterrupt, ReturnFromInterrupt, table, cpu, calls
<1>2. /\ level' \in Level /\ ee' \in BOOLEAN
      /\ mishaps' \in {mishaps, mishaps \cup {"srr"}, mishaps \cup {"nested"}}
      /\ restore' \in {restore, "spoiled"}
  BY DEF Interrupt, NestedInterrupt, ReturnFromInterrupt, cpu, Level, Inv, TypeOK
<1>3. /\ level' = 1 => starting[2] = None
      /\ "spin" \in mishaps' => level' = 2
  BY DEF Interrupt, NestedInterrupt, ReturnFromInterrupt, InHandler, Free, Inv,
         ClaimsAreNested
<1>4. TypeOK' BY <1>1, <1>2 DEF Inv, TypeOK, Mishap
<1>5. ClaimsAreNested' BY <1>1, <1>3 DEF Inv, ClaimsAreNested
<1>. QED BY <1>1, <1>4, <1>5 DEF Inv, TableInOrder, ClaimsAreExclusive

(* The calls that find no slot, and no thread to enter.                    *)
LEMMA FailureKeeps == Inv /\ (NoSlot \/ NoneToEnter) => Inv'
<1>. SUFFICES ASSUME Inv, NoSlot \/ NoneToEnter PROVE Inv' OBVIOUS
<1>1. /\ UNCHANGED <<active, running, count, furnished>>
      /\ UNCHANGED <<cur, saved, midway, flow, ending, restore>>
      /\ UNCHANGED <<level, starting, lacks, heap, mishaps>>
      /\ ee' = TRUE
  BY DEF NoSlot, NoneToEnter, table, cpu, calls
<1>2. starts' \in 0 .. MaxStarts
  BY ThreadsAssumption DEF NoSlot, NoneToEnter, calls, Inv, TypeOK
<1>3. TypeOK' BY <1>1, <1>2 DEF Inv, TypeOK
<1>. QED BY <1>1, <1>3 DEF Inv, TableInOrder, ClaimsAreNested, ClaimsAreExclusive

LEMMA StutterKeeps == Inv /\ UNCHANGED vars => Inv'
BY DEF vars, table, cpu, calls, Inv, TypeOK, TableInOrder, ClaimsAreNested,
       ClaimsAreExclusive

LEMMA InvHolds == Spec => []Inv
<1>1. Inv /\ [Next]_vars => Inv'
  BY ClaimSlotKeeps, FillSlotKeeps, AllocateKeeps, SwitchKeeps, RestoreKeeps,
     BeginEndKeeps, EnterNextKeeps, InterruptKeeps, FailureKeeps, StutterKeeps
  DEF Next, StartThread, EndThisThread
<1>. QED BY <1>1, InitInv, PTL DEF Spec

(* The table, the processor and the calls keep their types.                *)
THEOREM TypeCorrect == Spec => []TypeOK
<1>1. Inv => TypeOK BY DEF Inv
<1>. QED BY <1>1, InvHolds, PTL

(* However calls of TW_StartThread in threads and handlers interleave, and *)
(* threads end meanwhile: a claimed slot is one call's, marked, and not    *)
(* entered before it is filled in.                                         *)
THEOREM SlotsAreExclusive == Spec => []ClaimsAreExclusive
<1>1. Inv => ClaimsAreExclusive BY DEF Inv
<1>. QED BY <1>1, InvHolds, PTL

-----------------------------------------------------------------------------
(* The order of the table.                                                 *)

(* Nothing that has gone wrong is undone.                                  *)
LEMMA MishapsGrow == [Next]_vars => mishaps \subseteq mishaps'
BY DEF Next, StartThread, ClaimSlot, NoSlot, FillSlot, AllocateHeapObject, LockHeap,
       UnlockHeap, SpinForHeap, MaybeAutoSwitchContext, BeginSwitch, SwitchOn,
       EndSwitch, SwitchTo, EndThisThread, BeginEnd, EnterNext, NoneToEnter,
       RestoreContext, LoadSrr, Rfi, RfiAstray, Interrupt, NestedInterrupt,
       ReturnFromInterrupt, vars, calls

(* The thread that is chosen has its own flow in its area, and the slot    *)
(* that is handed back is the one of the thread that ends.                 *)
LEMMA EnterNextOrders == Inv /\ OrderInv /\ Calm /\ EnterNext => OrderInv'
<1>. SUFFICES ASSUME Inv, OrderInv, Calm, EnterNext PROVE OrderInv' OBVIOUS
<1>1. PICK t \in Thread :
        t \in running /\ t # cur /\ running' = running \ {cur} /\ cur' = t
  BY DEF EnterNext, FirstOther, Runnable
<1>2. /\ level = 1 /\ flow \in ending /\ restore' = "area"
      /\ UNCHANGED <<saved, midway, flow, ending, heap, mishaps>>
  BY DEF EnterNext, InEnd, calls
<1>3. heap # 1 /\ "spin" \notin mishaps BY <1>2 DEF Inv, ClaimsAreNested
<1>4. midway = {} /\ \A u \in running \ {cur} : saved[u] = u BY DEF OrderInv
<1>5. RestoresOwnFlow' BY <1>1, <1>2, <1>3, <1>4 DEF RestoresOwnFlow
<1>. QED BY <1>1, <1>2, <1>4, <1>5 DEF OrderInv

(* The slot that is filled in is not one that runs, or is being restored.  *)
LEMMA FillSlotOrders == Inv /\ OrderInv /\ Calm /\ FillSlot => OrderInv'
<1>. SUFFICES ASSUME Inv, OrderInv, Calm, FillSlot PROVE OrderInv' OBVIOUS
<1>. DEFINE t == starting[level]
<1>1. /\ saved' = [saved EXCEPT ![t] = t]
      /\ midway' = midway \ {t}
      /\ running' = running \cup {t}
      /\ UNCHANGED <<cur, flow, ending, restore, heap, mishaps>>
      /\ t # None
  BY DEF FillSlot
<1>2. t \in Thread /\ t \notin running
  BY <1>1 DEF Inv, TypeOK, ClaimsAreExclusive
<1>3. running \subseteq Thread /\ saved \in [Thread -> Thread \cup {None}]
  BY DEF Inv, TypeOK
<1>4. /\ midway = {} /\ cur \in running /\ RestoresOwnFlow
      /\ \A u \in running \ {cur} : saved[u] = u
  BY DEF OrderInv
<1>. HIDE DEF t
<1>5. \A u \in running : saved'[u] = saved[u] BY <1>1, <1>2, <1>3
<1>6. saved'[t] = t BY <1>1, <1>2, <1>3
<1>7. RestoresOwnFlow' BY <1>1, <1>4, <1>5 DEF RestoresOwnFlow
<1>. QED BY <1>1, <1>4, <1>5, <1>6, <1>7 DEF OrderInv

(* The rfi of TW_EnterContext goes where the entered thread was.           *)
LEMMA RestoreOrders == Inv /\ OrderInv /\ Calm /\ RestoreContext => OrderInv'
<1>. SUFFICES ASSUME Inv, OrderInv, Calm, RestoreContext PROVE OrderInv' OBVIOUS
<1>1. UNCHANGED <<running, cur, saved, midway, level, heap, mishaps>>
  BY DEF RestoreContext, LoadSrr, Rfi, RfiAstray, table, calls
<1>2. /\ midway = {} /\ cur \in running /\ RestoresOwnFlow
      /\ \A u \in running \ {cur} : saved[u] = u
  BY DEF OrderInv
<1>3. CASE LoadSrr
  <2>1. restore = "area" /\ restore' = "srr" /\ UNCHANGED <<flow, ending>>
    BY <1>3 DEF LoadSrr
  <2>2. RestoresOwnFlow' BY <1>1, <1>2, <2>1 DEF RestoresOwnFlow
  <2>. QED BY <1>1, <1>2, <2>2 DEF OrderInv
<1>4. CASE Rfi
  <2>1. restore = "srr" BY <1>4 DEF Rfi
  <2>2. saved[cur] = cur /\ "spin" \notin mishaps
    BY <1>2, <2>1 DEF RestoresOwnFlow
  <2>3. level = 1 BY <1>4, <2>2 DEF Rfi, Restores
  <2>4. flow' = cur /\ restore' = "no" BY <1>2, <1>4, <2>2, <2>3 DEF Rfi
  <2>5. RestoresOwnFlow' BY <1>1, <2>4 DEF RestoresOwnFlow
  <2>. QED BY <1>1, <1>2, <2>5 DEF OrderInv
<1>5. CASE RfiAstray BY <1>2, <1>5 DEF RfiAstray, RestoresOwnFlow
<1>. QED BY <1>3, <1>4, <1>5 DEF RestoreContext

(* Neither calls nor interrupts touch the areas; a handler that spins      *)
(* found the heap held, so nothing was being restored below it.            *)
LEMMA OthersOrder ==
    ASSUME Inv, OrderInv, Calm, Calm',
           \/ ClaimSlot \/ NoSlot \/ AllocateHeapObject \/ BeginEnd
           \/ NoneToEnter \/ EndSwitch \/ Interrupt \/ ReturnFromInterrupt
    PROVE  OrderInv'
<1>1. /\ midway = {} /\ cur \in running /\ RestoresOwnFlow
      /\ \A u \in running \ {cur} : saved[u] = u
  BY DEF OrderInv
<1>2. UNCHANGED <<running, cur, saved, midway, flow>>
  BY DEF ClaimSlot, NoSlot, AllocateHeapObject, LockHeap, UnlockHeap, SpinForHeap,
         BeginEnd, NoneToEnter, EndSwitch, Interrupt, ReturnFromInterrupt, table, cpu
<1>3. RestoresOwnFlow'
  <2>1. CASE ClaimSlot \/ NoSlot \/ NoneToEnter \/ ReturnFromInterrupt
    <3>1. UNCHANGED <<restore, ending, heap, mishaps>>
      BY <2>1 DEF ClaimSlot, NoSlot, NoneToEnter, ReturnFromInterrupt, cpu, calls
    <3>. QED BY <1>1, <1>2, <3>1 DEF RestoresOwnFlow
  <2>2. CASE LockHeap
    <3>1. UNCHANGED <<restore, ending, mishaps>> /\ heap' = level
          /\ (level = 1 => restore = "no")
      BY <2>2 DEF LockHeap, InProgram, InThread, InHandler, cpu
    <3>. QED BY <1>1, <1>2, <3>1 DEF RestoresOwnFlow
  <2>3. CASE UnlockHeap
    <3>1. UNCHANGED <<restore, ending, mishaps>> /\ heap' = 0
      BY <2>3 DEF UnlockHeap, cpu
    <3>. QED BY <1>1, <1>2, <3>1 DEF RestoresOwnFlow
  <2>4. CASE SpinForHeap
    <3>1. UNCHANGED <<restore, ending>> /\ heap \notin {0, 2}
      BY <2>4 DEF SpinForHeap, InHandler, WantsHeap, cpu
    <3>2. heap = 1 BY <3>1 DEF Inv, TypeOK, Level
    <3>3. restore = "no" BY <1>1, <3>2 DEF RestoresOwnFlow
    <3>. QED BY <1>1, <1>2, <3>1, <3>3 DEF RestoresOwnFlow
  <2>5. CASE BeginEnd
    <3>1. restore = "no" /\ restore' = restore
      BY <2>5 DEF BeginEnd, InThread
    <3>. QED BY <1>1, <1>2, <3>1 DEF RestoresOwnFlow
  <2>6. CASE EndSwitch
    <3>1. restore = "no" /\ restore' = "no"
      BY <2>6, <1>1 DEF EndSwitch, Waits, InThread, RestoresOwnFlow
    <3>. QED BY <1>1, <1>2, <3>1 DEF RestoresOwnFlow
  <2>7. CASE Interrupt
    <3>1. restore # "srr" BY <2>7 DEF Interrupt, Calm
    <3>2. UNCHANGED <<restore, ending, heap, mishaps>>
      BY <2>7, <3>1 DEF Interrupt, calls
    <3>. QED BY <1>1, <1>2, <3>2 DEF RestoresOwnFlow
  <2>. QED BY <2>1, <2>2, <2>3, <2>4, <2>5, <2>6, <2>7 DEF AllocateHeapObject
<1>. QED BY <1>1, <1>2, <1>3 DEF OrderInv

LEMMA OrderStep == Inv /\ OrderInv /\ [Next]_vars => OrderInv'
<1>. SUFFICES ASSUME Inv, OrderInv, [Next]_vars, Calm' PROVE OrderInv'
  BY DEF OrderInv, Calm
<1>1. Calm BY MishapsGrow DEF Calm
<1>2. CASE BeginSwitch \/ SwitchOn
  BY <1>2 DEF BeginSwitch, SwitchOn, SwitchTo, Calm
<1>3. CASE NestedInterrupt BY <1>3 DEF NestedInterrupt, Calm
<1>4. CASE UNCHANGED vars
  BY <1>4 DEF vars, table, cpu, calls, OrderInv, RestoresOwnFlow, Calm
<1>. QED BY <1>1, <1>2, <1>3, <1>4, EnterNextOrders, FillSlotOrders, RestoreOrders,
            OthersOrder
     DEF Next, StartThread, MaybeAutoSwitchContext, EndThisThread

LEMMA OrderHolds == Spec => [](Inv /\ OrderInv)
<1>. QED BY InitInv, OrderStep, InvHolds, PTL DEF Spec

(* Until something goes wrong, _tw_cur_thread names the flow that runs, or *)
(* the thread that the ending flow is about to enter, and every other      *)
(* runnable thread's area holds its own flow.                              *)
THEOREM TableKeepsFlows == Spec => []EveryoneKeepsTheirFlow
<1>1. OrderInv => EveryoneKeepsTheirFlow
  BY DEF OrderInv, Calm, RestoresOwnFlow, EveryoneKeepsTheirFlow
<1>. QED BY <1>1, OrderHolds, PTL

(* Nobody but the thread whose flow has ended leaves the table, and the    *)
(* loops look at everybody who is in it.                                   *)
THEOREM NobodyElseLeaves == Spec => OnlyTheEndedLeave
<1>1. Inv /\ Inv' /\ OrderInv /\ [Next]_vars =>
        [ /\ \A t \in running \ running' :
                 mishaps' \ {"spin"} # {} \/ (t = flow /\ flow \in ending)
          /\ \A t \in running' : t < count' ]_vars
  <2>. SUFFICES ASSUME Inv, Inv', OrderInv, Next
       PROVE  /\ \A t \in running \ running' :
                     mishaps' \ {"spin"} # {} \/ (t = flow /\ flow \in ending)
              /\ \A t \in running' : t < count'
    OBVIOUS
  <2>1. \A t \in running' : t < count' BY DEF Inv, TableInOrder
  <2>2. CASE EnterNext
    <3>1. /\ running' = running \ {cur} /\ mishaps' = mishaps
          /\ flow \in ending /\ restore = "no"
      BY <2>2 DEF EnterNext, InEnd
    <3>2. Calm => cur = flow BY <3>1 DEF OrderInv, RestoresOwnFlow
    <3>. QED BY <2>1, <3>1, <3>2 DEF Calm
  <2>3. CASE running \subseteq running' BY <2>1, <2>3
  <2>. QED BY <2>2, <2>3
       DEF Next, StartThread, ClaimSlot, NoSlot, FillSlot, AllocateHeapObject, LockHeap,
           UnlockHeap, SpinForHeap, MaybeAutoSwitchContext, BeginSwitch, SwitchOn,
           EndSwitch, SwitchTo, EndThisThread, BeginEnd, NoneToEnter, RestoreContext,
           LoadSrr, Rfi, RfiAstray, Interrupt, NestedInterrupt, ReturnFromInterrupt, table
<1>. QED BY <1>1, InvHolds, OrderHolds, PTL DEF Spec, OnlyTheEndedLeave
=============================================================================
