-------------------------- MODULE PrimitivesProofs --------------------------
(***************************************************************************)
(* For buckets of any size and any number of pointers: until the slab      *)
(* grows, its bit field tells exactly which slots are still held, so no    *)
(* slot is handed out twice, the guard of the slab is never disturbed, and *)
(* no create call zeroes a word that somebody relies on.                   *)
(***************************************************************************)
EXTENDS Primitives, TLAPS

(* Why NoAlias is inductive: a slot that is held is marked, so it is not   *)
(* among the free ones that TW_AddSb256Item chooses from; and the guard's  *)
(* own slot is marked and held by no pointer, so nobody locks it.          *)
Tidy ==
    /\ Prims \in used
    /\ ~word[Prims]
    /\ \A h \in Handle : ItemsOf(h) \subseteq used \ {Prims}
    /\ NoAlias

(* A slot that is still to be zeroed is its create call's own, and the     *)
(* program does nothing with it before; every other word tells its holder. *)
Told ==
    /\ \A h \in Handle : dirty[h] # NoItem =>
          dirty[h] \in ItemsOf(h) /\ making[h] # "nothing"
    /\ \A h \in Handle : handle[h] = Nothing => making[h] = "nothing"
    /\ \A h \in Handle : ~Made(h) => marks[h] = {}
    /\ \A h \in Handle : \A part \in {"mtx", "cv"} :
          handle[h][part] \notin {NoItem, dirty[h]} =>
              (word[handle[h][part]] <=> part \in marks[h])

IInv == TypeOK /\ (buckets = 1 => Tidy /\ Told)

-----------------------------------------------------------------------------
(* TW_AddSb256Item returns one of the slots of the buckets in the list,    *)
(* and the list never shrinks.                                             *)
LEMMA AddedIsItem ==
  ASSUME NEW u \in SUBSET Item, NEW n \in 1 .. MaxBuckets,
         NEW i \in AddSb256Item(u, n)
  PROVE  /\ i \in Item
         /\ UsedAfterAdd(u, i) \in SUBSET Item
         /\ BucketsAfterAdd(u, n) \in Nat
         /\ BucketsAfterAdd(u, n) >= n
<1>1. <<n, Slots - 1>> \in Item
  BY SlotsAssumption DEF Item, Slot
<1>2. i \in Item
  BY <1>1 DEF AddSb256Item, Free
<1> QED
  BY <1>2, SlotsAssumption DEF UsedAfterAdd, BucketsAfterAdd

(* As long as the list does not grow, the slot it returns was free.        *)
LEMMA AddedIsFree ==
  ASSUME NEW u \in SUBSET Item, NEW n \in 1 .. MaxBuckets,
         NEW i \in AddSb256Item(u, n), BucketsAfterAdd(u, n) = 1
  PROVE  n = 1 /\ i \notin u
<1>1. Free(u, n) # {}
  BY SlotsAssumption DEF BucketsAfterAdd
<1> QED
  BY <1>1 DEF BucketsAfterAdd, AddSb256Item, Free

(* Pointer h gets a free slot for one of its parts, and the others keep    *)
(* theirs.                                                                 *)
LEMMA TakenSlot ==
  ASSUME TypeOK, NEW h \in Handle, NEW part \in {"mtx", "cv"}, TakeSlot(h, part),
         handle[h][part] = NoItem
  PROVE  \E i \in AddSb256Item(used, buckets) :
           /\ i \in Item
           /\ used' = UsedAfterAdd(used, i)
           /\ dirty' = [dirty EXCEPT ![h] = i]
           /\ handle'[h][part] = i
           /\ \A q \in {"mtx", "cv"} : q # part => handle'[h][q] = handle[h][q]
           /\ ItemsOf(h)' = ItemsOf(h) \cup {i}
           /\ \A g \in Handle : g # h => handle'[g] = handle[g] /\ ItemsOf(g)' = ItemsOf(g)
           /\ handle' \in [Handle -> Owned]
<1>1. PICK i \in AddSb256Item(used, buckets) :
           /\ used' = UsedAfterAdd(used, i)
           /\ handle' = [handle EXCEPT ![h] = [@ EXCEPT ![part] = i]]
           /\ dirty' = [dirty EXCEPT ![h] = i]
  BY DEF TakeSlot
<1>2. i \in Item /\ i # NoItem
  <2>1. used \in SUBSET Item /\ buckets \in 1 .. MaxBuckets BY DEF TypeOK
  <2>2. i \in Item BY <1>1, <2>1, AddedIsItem
  <2>. QED BY <2>2, NoItemAssumption
<1>3. \A g \in Handle : g # h => handle'[g] = handle[g]
  BY <1>1 DEF TypeOK
<1>4. \A g \in Handle : g # h => ItemsOf(g)' = ItemsOf(g)
  BY <1>3 DEF ItemsOf
<1>5. CASE part = "mtx"
  <2>1. handle[h].mtx = NoItem /\ handle[h] \in Owned BY <1>5 DEF TypeOK
  <2>2. handle'[h].mtx = i /\ handle'[h].cv = handle[h].cv /\ handle'[h] \in Owned
    BY <1>1, <1>2, <1>5, <2>1 DEF TypeOK, Owned
  <2>3. ItemsOf(h)' = ItemsOf(h) \cup {i}
    BY <1>2, <2>1, <2>2 DEF ItemsOf
  <2>4. handle' \in [Handle -> Owned]
    BY <1>1, <1>3, <2>2 DEF TypeOK
  <2>. QED BY <1>1, <1>2, <1>3, <1>4, <1>5, <2>2, <2>3, <2>4
<1>6. CASE part = "cv"
  <2>1. handle[h].cv = NoItem /\ handle[h] \in Owned BY <1>6 DEF TypeOK
  <2>2. handle'[h].cv = i /\ handle'[h].mtx = handle[h].mtx /\ handle'[h] \in Owned
    BY <1>1, <1>2, <1>6, <2>1 DEF TypeOK, Owned
  <2>3. ItemsOf(h)' = ItemsOf(h) \cup {i}
    BY <1>2, <2>1, <2>2 DEF ItemsOf
  <2>4. handle' \in [Handle -> Owned]
    BY <1>1, <1>3, <2>2 DEF TypeOK
  <2>. QED BY <1>1, <1>2, <1>3, <1>4, <1>6, <2>2, <2>3, <2>4
<1>. QED BY <1>5, <1>6

(* Taking a slot for a part that has none keeps the invariant: the slot    *)
(* was nobody's, and nobody's word changes.                                *)
LEMMA TakeKeeps ==
  ASSUME IInv, NEW h \in Handle, NEW part \in {"mtx", "cv"}, TakeSlot(h, part),
         handle[h][part] = NoItem, ~Made(h), dirty[h] = NoItem \/ handle[h] = Nothing,
         NEW k \in {"mutex", "condition", "future"},
         making' = [making EXCEPT ![h] = k]
  PROVE  IInv'
<1>0. TypeOK /\ (buckets = 1 => Tidy /\ Told)
  BY DEF IInv
<1>1. PICK i \in AddSb256Item(used, buckets) :
           /\ i \in Item
           /\ used' = UsedAfterAdd(used, i)
           /\ dirty' = [dirty EXCEPT ![h] = i]
           /\ handle'[h][part] = i
           /\ \A q \in {"mtx", "cv"} : q # part => handle'[h][q] = handle[h][q]
           /\ ItemsOf(h)' = ItemsOf(h) \cup {i}
           /\ \A g \in Handle : g # h => handle'[g] = handle[g] /\ ItemsOf(g)' = ItemsOf(g)
           /\ handle' \in [Handle -> Owned]
  BY <1>0, TakenSlot
<1>2. /\ word' = word /\ marks' = marks
      /\ buckets' = BucketsAfterAdd(used, buckets)
      /\ BucketsAfterAdd(used, buckets) <= MaxBuckets
  BY DEF TakeSlot
<1>3. TypeOK'
  <2>1. /\ used' \in SUBSET Item
        /\ BucketsAfterAdd(used, buckets) \in Nat
        /\ BucketsAfterAdd(used, buckets) >= buckets
    BY <1>0, <1>1, AddedIsItem DEF TypeOK
  <2>2. buckets' \in 1 .. MaxBuckets
    BY <1>0, <1>2, <2>1, SlotsAssumption DEF TypeOK
  <2>3. making' \in [Handle -> {"nothing", "mutex", "condition", "future"}]
    BY <1>0 DEF TypeOK
  <2>4. dirty' \in [Handle -> Item \cup {NoItem}]
    BY <1>0, <1>1 DEF TypeOK
  <2>. QED BY <1>0, <1>1, <1>2, <2>1, <2>2, <2>3, <2>4 DEF TypeOK
<1>4. ASSUME buckets' = 1 PROVE Tidy' /\ Told'
  <2>1. buckets = 1 /\ i \notin used
    BY <1>0, <1>1, <1>2, <1>4, AddedIsFree DEF TypeOK
  <2>2. Tidy /\ Told BY <1>0, <2>1
  <2>3. i # Prims /\ i # NoItem BY <1>1, <2>1, <2>2, NoItemAssumption DEF Tidy
  <2>4. used' = used \cup {i} BY <1>1 DEF UsedAfterAdd
  <2>5. \A g \in Handle : ItemsOf(g) \subseteq used \ {Prims} BY <2>2 DEF Tidy
  <2>6. \A g \in Handle : ItemsOf(g)' \subseteq used' \ {Prims}
    BY <1>1, <2>3, <2>4, <2>5
  <2>7. \A f, g \in Handle : f # g => ItemsOf(f)' \cap ItemsOf(g)' = {}
    BY <1>1, <2>1, <2>2, <2>5 DEF Tidy, NoAlias
  <2>8. \A g \in Handle : handle'[g].cv # NoItem => handle'[g].mtx # handle'[g].cv
    <3>1. ASSUME NEW g \in Handle, g # h, handle'[g].cv # NoItem
          PROVE  handle'[g].mtx # handle'[g].cv
      BY <1>1, <2>2, <3>1 DEF Tidy, NoAlias
    <3>2. i \notin ItemsOf(h) BY <2>1, <2>5
    <3>3. handle'[h].cv # NoItem => handle'[h].mtx # handle'[h].cv
      <4>1. CASE part = "mtx"
        <5>1. handle'[h].mtx = i /\ handle'[h].cv = handle[h].cv BY <1>1, <4>1
        <5>. QED BY <3>2, <5>1 DEF ItemsOf
      <4>2. CASE part = "cv"
        <5>1. handle'[h].cv = i /\ handle'[h].mtx = handle[h].mtx BY <1>1, <4>2
        <5>. QED BY <2>3, <3>2, <5>1 DEF ItemsOf
      <4>. QED BY <4>1, <4>2
    <3>. QED BY <3>1, <3>3
  <2>9. Tidy'
    BY <1>2, <2>2, <2>4, <2>6, <2>7, <2>8 DEF Tidy, NoAlias, Prims
  <2>10. handle[h] # Nothing => making[h] # "nothing" BY DEF Made
  <2>11. handle'[h] # Nothing
    <3>1. Nothing.mtx = NoItem /\ Nothing.cv = NoItem BY DEF Nothing
    <3>2. Nothing[part] = NoItem BY <3>1
    <3>. QED BY <1>1, <2>3, <3>2
  <2>12. dirty'[h] = i /\ making'[h] = k /\ i \in ItemsOf(h)' /\ marks'[h] = {}
    BY <1>0, <1>1, <1>2, <2>2 DEF TypeOK, Told
  <2>13. \A g \in Handle : g # h => dirty'[g] = dirty[g] /\ making'[g] = making[g]
                                   /\ (Made(g)' <=> Made(g))
    BY <1>0, <1>1 DEF TypeOK, Made
  <2>14. ASSUME NEW q \in {"mtx", "cv"}, handle'[h][q] \notin {NoItem, dirty'[h]}
         PROVE  ~word'[handle'[h][q]]
    <3>1. q # part BY <1>1, <2>12, <2>14
    <3>2. handle'[h][q] = handle[h][q] BY <1>1, <3>1
    <3>3. handle[h] # Nothing
      <4>1. Nothing.mtx = NoItem /\ Nothing.cv = NoItem BY DEF Nothing
      <4>. QED BY <2>14, <3>2, <4>1
    <3>4. dirty[h] = NoItem BY <3>3
    <3>5. marks[h] = {} BY <2>2 DEF Told
    <3>. QED BY <1>2, <2>2, <2>14, <3>2, <3>4, <3>5 DEF Told
  <2>15. Told'
    <3>1. ASSUME NEW g \in Handle, g # h
          PROVE  /\ dirty'[g] # NoItem =>
                       dirty'[g] \in ItemsOf(g)' /\ making'[g] # "nothing"
                 /\ handle'[g] = Nothing => making'[g] = "nothing"
                 /\ ~Made(g)' => marks'[g] = {}
                 /\ \A q \in {"mtx", "cv"} :
                       handle'[g][q] \notin {NoItem, dirty'[g]} =>
                           (word'[handle'[g][q]] <=> q \in marks'[g])
      BY <1>1, <1>2, <2>2, <2>13, <3>1 DEF Told
    <3>2. \A q \in {"mtx", "cv"} :
             handle'[h][q] \notin {NoItem, dirty'[h]} =>
                 (word'[handle'[h][q]] <=> q \in marks'[h])
      BY <2>12, <2>14
    <3>3. dirty'[h] \in ItemsOf(h)' /\ making'[h] # "nothing"
      BY <2>12
    <3>4. Nothing' = Nothing BY DEF Nothing
    <3>. QED BY <2>11, <2>12, <3>1, <3>2, <3>3, <3>4 DEF Told
  <2>. QED BY <2>9, <2>15
<1>. QED BY <1>3, <1>4 DEF IInv

(* Giving back one of its slots, and forgetting the other, keeps the       *)
(* invariant.                                                              *)
LEMMA GiveBackKeeps ==
  ASSUME IInv, NEW h \in Handle, NEW i \in ItemsOf(h), Made(h), GiveBack(h, i)
  PROVE  IInv'
<1>0. TypeOK /\ (buckets = 1 => Tidy /\ Told)
  BY DEF IInv
<1>1. /\ used' = used \ {i}
      /\ handle' = [handle EXCEPT ![h] = Nothing]
      /\ marks' = [marks EXCEPT ![h] = {}]
      /\ buckets' = buckets /\ word' = word /\ making' = making /\ dirty' = dirty
  BY DEF GiveBack, UsedAfterRemove, creates
<1>2. Nothing \in Owned BY DEF Nothing, Owned
<1>3. TypeOK' BY <1>0, <1>1, <1>2 DEF TypeOK
<1>4. ASSUME buckets' = 1 PROVE Tidy' /\ Told'
  <2>1. Tidy /\ Told BY <1>0, <1>1, <1>4
  <2>2. ItemsOf(h)' = {} /\ handle'[h] = Nothing
    BY <1>0, <1>1 DEF TypeOK, ItemsOf, Nothing
  <2>3. \A g \in Handle : g # h =>
           handle'[g] = handle[g] /\ ItemsOf(g)' = ItemsOf(g) /\ marks'[g] = marks[g]
    BY <1>0, <1>1 DEF TypeOK, ItemsOf
  <2>4. i # Prims /\ \A g \in Handle : g # h => i \notin ItemsOf(g)
    BY <2>1 DEF Tidy, NoAlias
  <2>5. \A g \in Handle : ItemsOf(g)' \subseteq used' \ {Prims}
    BY <1>1, <2>1, <2>2, <2>3, <2>4 DEF Tidy
  <2>6. \A f, g \in Handle : f # g => ItemsOf(f)' \cap ItemsOf(g)' = {}
    BY <2>1, <2>2, <2>3 DEF Tidy, NoAlias
  <2>7. \A g \in Handle : handle'[g].cv # NoItem => handle'[g].mtx # handle'[g].cv
    BY <2>1, <2>2, <2>3 DEF Tidy, NoAlias, Nothing
  <2>8. Tidy' BY <1>1, <2>1, <2>4, <2>5, <2>6, <2>7 DEF Tidy, NoAlias, Prims
  <2>9. making[h] = "nothing" /\ dirty[h] = NoItem
    BY <2>1 DEF Made, Told
  <2>10. marks'[h] = {} BY <1>0, <1>1 DEF TypeOK
  <2>11. \A q \in {"mtx", "cv"} : Nothing[q] = NoItem BY DEF Nothing
  <2>12. ASSUME NEW g \in Handle, g # h
         PROVE  /\ dirty'[g] # NoItem =>
                      dirty'[g] \in ItemsOf(g)' /\ making'[g] # "nothing"
                /\ handle'[g] = Nothing => making'[g] = "nothing"
                /\ ~Made(g)' => marks'[g] = {}
                /\ \A q \in {"mtx", "cv"} :
                      handle'[g][q] \notin {NoItem, dirty'[g]} =>
                          (word'[handle'[g][q]] <=> q \in marks'[g])
    BY <1>1, <2>1, <2>3, <2>12 DEF Told, Made
  <2>13. Nothing' = Nothing BY DEF Nothing
  <2>14. Told'
    BY <1>1, <2>2, <2>9, <2>10, <2>11, <2>12, <2>13 DEF Told
  <2>. QED BY <2>8, <2>14
<1>. QED BY <1>3, <1>4 DEF IInv

(* Changing the word of one of h's slots keeps the slab tidy, and what the *)
(* other words tell: they lie in other slots.                              *)
LEMMA WordKeeps ==
  ASSUME TypeOK, Tidy, NEW h \in Handle, NEW i \in ItemsOf(h), NEW b \in BOOLEAN,
         word' = [word EXCEPT ![i] = b],
         used' = used, handle' = handle
  PROVE  /\ Tidy'
         /\ word'[i] = b
         /\ \A j \in Item : j # i => word'[j] = word[j]
         /\ \A g \in Handle : \A q \in {"mtx", "cv"} :
               handle[g][q] # NoItem /\ (g # h \/ handle[g][q] # i) =>
                   word'[handle[g][q]] = word[handle[g][q]]
<1>1. i \in Item /\ i # Prims BY DEF ItemsOf, TypeOK, Owned, Tidy
<1>2. word'[i] = b /\ \A j \in Item : j # i => word'[j] = word[j]
  BY <1>1 DEF TypeOK
<1>3. Prims \in Item BY DEF Tidy, TypeOK
<1>4. Tidy' BY <1>1, <1>2, <1>3 DEF Tidy, NoAlias, ItemsOf, Prims
<1>5. ASSUME NEW g \in Handle, NEW q \in {"mtx", "cv"}, handle[g][q] # NoItem,
             g # h \/ handle[g][q] # i
      PROVE  word'[handle[g][q]] = word[handle[g][q]]
  <2>1. handle[g].mtx \in Item \cup {NoItem} /\ handle[g].cv \in Item \cup {NoItem}
    BY DEF TypeOK, Owned
  <2>2. handle[g][q] \in ItemsOf(g) /\ handle[g][q] \in Item
    BY <1>5, <2>1 DEF ItemsOf
  <2>3. handle[g][q] # i BY <1>5, <2>2 DEF Tidy, NoAlias
  <2>. QED BY <1>2, <2>2, <2>3
<1>. QED BY <1>2, <1>4, <1>5

(* A step of pointer h that changes the word of slot i, one of its own, to *)
(* what h's marks say, and nothing of the other pointers.                  *)
LEMMA WordStepKeeps ==
  ASSUME TypeOK, Tidy, Told, NEW h \in Handle, NEW i \in ItemsOf(h), NEW b \in BOOLEAN,
         word' = [word EXCEPT ![i] = b],
         used' = used, handle' = handle,
         \A g \in Handle : g # h => /\ making'[g] = making[g]
                                   /\ dirty'[g] = dirty[g]
                                   /\ marks'[g] = marks[g],
         handle[h] # Nothing, dirty'[h] = NoItem,
         making'[h] = "nothing" \/ marks'[h] = {},
         \A q \in {"mtx", "cv"} : handle[h][q] = i => (b <=> q \in marks'[h]),
         \A q \in {"mtx", "cv"} : handle[h][q] \notin {NoItem, i} =>
            (word[handle[h][q]] <=> q \in marks'[h])
  PROVE  Tidy' /\ Told'
<1>1. /\ Tidy'
      /\ word'[i] = b
      /\ \A g \in Handle : \A q \in {"mtx", "cv"} :
            handle[g][q] # NoItem /\ (g # h \/ handle[g][q] # i) =>
                word'[handle[g][q]] = word[handle[g][q]]
  BY WordKeeps
<1>2. ASSUME NEW g \in Handle, g # h
      PROVE  /\ dirty'[g] # NoItem =>
                   dirty'[g] \in ItemsOf(g)' /\ making'[g] # "nothing"
             /\ handle'[g] = Nothing => making'[g] = "nothing"
             /\ ~Made(g)' => marks'[g] = {}
  BY <1>2 DEF Told, Made, ItemsOf
<1>3. ASSUME NEW g \in Handle, g # h, NEW q \in {"mtx", "cv"},
             handle'[g][q] \notin {NoItem, dirty'[g]}
      PROVE  word'[handle'[g][q]] <=> q \in marks'[g]
  <2>1. word'[handle[g][q]] = word[handle[g][q]] BY <1>1, <1>3
  <2>. QED BY <1>3, <2>1 DEF Told
<1>4. ASSUME NEW q \in {"mtx", "cv"}, handle'[h][q] \notin {NoItem, dirty'[h]}
      PROVE  word'[handle'[h][q]] <=> q \in marks'[h]
  <2>1. CASE handle[h][q] = i BY <1>1, <2>1
  <2>2. CASE handle[h][q] # i
    <3>1. word'[handle[h][q]] = word[handle[h][q]] BY <1>1, <1>4, <2>2
    <3>. QED BY <1>4, <2>2, <3>1
  <2>. QED BY <2>1, <2>2
<1>5. handle'[h] # Nothing' /\ (~Made(h)' => marks'[h] = {})
  BY DEF Made, Nothing
<1>6. Nothing' = Nothing BY DEF Nothing
<1>. QED BY <1>1, <1>2, <1>3, <1>4, <1>5, <1>6 DEF Told

-----------------------------------------------------------------------------
(* After TW_SetupThreading only the guard is marked, and nothing is held.  *)
LEMMA InitIInv == Init => IInv
<1> SUFFICES ASSUME Init PROVE IInv
  OBVIOUS
<1>1. Prims \in Item
  BY SlotsAssumption DEF Prims, Item, Slot
<1>2. 1 \in 1 .. MaxBuckets
  BY SlotsAssumption
<1>3. Nothing \in Owned
  BY DEF Nothing, Owned
<1>4. TypeOK
  BY <1>1, <1>2, <1>3 DEF Init, TypeOK
<1>5. \A h \in Handle : ItemsOf(h) = {} /\ handle[h] = Nothing
  BY DEF Init, ItemsOf, Nothing
<1>6. \A q \in {"mtx", "cv"} : Nothing[q] = NoItem
  BY DEF Nothing
<1>7. ~word[Prims]
  BY <1>1 DEF Init
<1>8. Tidy
  <2>1. \A h \in Handle : handle[h].cv = NoItem BY <1>5 DEF Nothing
  <2>. QED BY <1>5, <1>7, <2>1 DEF Tidy, NoAlias, Init
<1>9. Told
  BY <1>5, <1>6 DEF Told, Init
<1> QED
  BY <1>4, <1>8, <1>9 DEF IInv

LEMMA CreateKeeps ==
  ASSUME IInv, NEW h \in Handle, Create(h)
  PROVE  IInv'
<1>0. TypeOK /\ (buckets = 1 => Tidy /\ Told)
  BY DEF IInv
<1>1. \A q \in {"mtx", "cv"} : Nothing[q] = NoItem
  BY DEF Nothing
<1>2. CASE CreateMutex(h)
  BY <1>1, <1>2, TakeKeeps DEF CreateMutex, Unmade, Made
<1>3. CASE CreateCondition(h)
  BY <1>1, <1>3, TakeKeeps DEF CreateCondition, Unmade, Made
<1>4. CASE CreateFuture(h)
  BY <1>1, <1>4, TakeKeeps DEF CreateFuture, Unmade, Made
<1>5. CASE CreateItsCondition(h)
  <2>1. /\ making[h] = "future" /\ handle[h].cv = NoItem /\ dirty[h] = NoItem
        /\ TakeSlot(h, "cv") /\ making' = making
    BY <1>5 DEF CreateItsCondition
  <2>2. making' = [making EXCEPT ![h] = "future"] BY <1>0, <2>1 DEF TypeOK
  <2>. QED BY <2>1, <2>2, TakeKeeps DEF Made
<1>6. CASE ZeroSlot(h)
  <2>1. /\ dirty[h] # NoItem
        /\ word' = [word EXCEPT ![dirty[h]] = FALSE]
        /\ dirty' = [dirty EXCEPT ![h] = NoItem]
        /\ making' = [making EXCEPT ![h] = IF @ = "future" THEN @ ELSE "nothing"]
        /\ used' = used /\ buckets' = buckets /\ handle' = handle /\ marks' = marks
    BY <1>6 DEF ZeroSlot, ZeroBlock, slab
  <2>2. TypeOK' BY <1>0, <2>1 DEF TypeOK
  <2>3. ASSUME buckets' = 1 PROVE Tidy' /\ Told'
    <3>1. Tidy /\ Told BY <1>0, <2>1, <2>3
    <3>2. dirty[h] \in ItemsOf(h) /\ making[h] # "nothing" BY <2>1, <3>1 DEF Told
    <3>3. marks[h] = {} /\ handle[h] # Nothing BY <3>1, <3>2 DEF Told, Made
    <3>4. dirty'[h] = NoItem BY <1>0, <2>1 DEF TypeOK
    <3>5. \A g \in Handle : g # h => making'[g] = making[g] /\ dirty'[g] = dirty[g]
                                     /\ marks'[g] = marks[g]
      BY <1>0, <2>1 DEF TypeOK
    <3>6. \A q \in {"mtx", "cv"} : handle[h][q] \notin {NoItem, dirty[h]} =>
             (word[handle[h][q]] <=> q \in marks'[h])
      BY <2>1, <3>1 DEF Told
    <3>7. \A q \in {"mtx", "cv"} : handle[h][q] = dirty[h] => (FALSE <=> q \in marks'[h])
      BY <2>1, <3>3
    <3>. QED BY <1>0, <2>1, <3>1, <3>2, <3>3, <3>4, <3>5, <3>6, <3>7, WordStepKeeps
  <2>. QED BY <2>2, <2>3 DEF IInv
<1>7. CASE ClearFuture(h)
  <2>1. /\ making[h] = "future" /\ handle[h].cv # NoItem /\ dirty[h] = NoItem
        /\ word' = [word EXCEPT ![handle[h].cv] = FALSE]
        /\ making' = [making EXCEPT ![h] = "nothing"]
        /\ used' = used /\ buckets' = buckets /\ handle' = handle
        /\ dirty' = dirty /\ marks' = marks
    BY <1>7 DEF ClearFuture, ZeroBlock, slab
  <2>2. TypeOK' BY <1>0, <2>1 DEF TypeOK
  <2>3. ASSUME buckets' = 1 PROVE Tidy' /\ Told'
    <3>1. Tidy /\ Told BY <1>0, <2>1, <2>3
    <3>2. handle[h].cv \in ItemsOf(h) BY <2>1 DEF ItemsOf
    <3>3. marks[h] = {} /\ handle[h] # Nothing BY <2>1, <3>1 DEF Told, Made
    <3>4. dirty'[h] = NoItem BY <2>1
    <3>5. \A g \in Handle : g # h => making'[g] = making[g] /\ dirty'[g] = dirty[g]
                                     /\ marks'[g] = marks[g]
      BY <1>0, <2>1 DEF TypeOK
    <3>6. \A q \in {"mtx", "cv"} : handle[h][q] \notin {NoItem, handle[h].cv} =>
             (word[handle[h][q]] <=> q \in marks'[h])
      BY <2>1, <3>1 DEF Told
    <3>7. \A q \in {"mtx", "cv"} : handle[h][q] = handle[h].cv => (FALSE <=> q \in marks'[h])
      BY <2>1, <3>3
    <3>. QED BY <1>0, <2>1, <3>1, <3>2, <3>3, <3>4, <3>5, <3>6, <3>7, WordStepKeeps
  <2>. QED BY <2>2, <2>3 DEF IInv
<1>. QED BY <1>2, <1>3, <1>4, <1>5, <1>6, <1>7 DEF Create

LEMMA DestroyKeeps ==
  ASSUME IInv, NEW h \in Handle, Destroy(h)
  PROVE  IInv'
<1>1. PICK i \in {handle[h].mtx, handle[h].cv} : Made(h) /\ GiveBack(h, i) /\ i # NoItem
  <2>1. handle[h] # Nothing => handle[h].mtx # NoItem \/ handle[h].cv # NoItem
    BY DEF IInv, TypeOK, Owned, Nothing
  <2>. QED BY <2>1 DEF Destroy, DestroyMutex, DestroyCondition, DestroyFuture, Made
<1>2. i \in ItemsOf(h) BY <1>1 DEF ItemsOf
<1>. QED BY <1>1, <1>2, GiveBackKeeps

(* A holder's lock, unlock or mark goes into its marks as into the word.   *)
LEMMA UseKeeps ==
  ASSUME IInv, NEW h \in Handle, Use(h)
  PROVE  IInv'
<1>0. TypeOK /\ (buckets = 1 => Tidy /\ Told)
  BY DEF IInv
<1>1. /\ Made(h)
      /\ used' = used /\ buckets' = buckets /\ handle' = handle
      /\ making' = making /\ dirty' = dirty
  BY DEF Use, LockMutex, UnlockMutex, MarkCondition, slab, creates
<1>2. PICK p \in {"mtx", "cv"} :
        \E b \in BOOLEAN :
          /\ word' = [word EXCEPT ![handle[h][p]] = b]
          /\ marks' = [marks EXCEPT ![h] = IF b THEN @ \cup {p} ELSE @ \ {p}]
          /\ handle[h][p] # NoItem
  BY DEF Use, LockMutex, UnlockMutex, MarkCondition
<1>3. PICK b \in BOOLEAN :
        /\ word' = [word EXCEPT ![handle[h][p]] = b]
        /\ marks' = [marks EXCEPT ![h] = IF b THEN @ \cup {p} ELSE @ \ {p}]
        /\ handle[h][p] # NoItem
  BY <1>2
<1>. DEFINE i == handle[h][p]
<1>4. i \in ItemsOf(h) BY <1>3 DEF ItemsOf
<1>5. marks'[h] = IF b THEN marks[h] \cup {p} ELSE marks[h] \ {p}
  BY <1>0, <1>3 DEF TypeOK
<1>6. TypeOK'
  <2>1. marks' \in [Handle -> SUBSET {"mtx", "cv"}] BY <1>0, <1>3 DEF TypeOK
  <2>2. word' \in [Item -> BOOLEAN] BY <1>0, <1>3 DEF TypeOK
  <2>. QED BY <1>0, <1>1, <2>1, <2>2 DEF TypeOK
<1>7. ASSUME buckets' = 1 PROVE Tidy' /\ Told'
  <2>1. Tidy /\ Told BY <1>0, <1>1, <1>7
  <2>2. making[h] = "nothing" /\ dirty[h] = NoItem /\ handle[h] # Nothing
    BY <1>1, <2>1 DEF Made, Told
  <2>3. \A g \in Handle : g # h => making'[g] = making[g] /\ dirty'[g] = dirty[g]
                                   /\ marks'[g] = marks[g]
    BY <1>0, <1>1, <1>3 DEF TypeOK
  <2>4. \A q \in {"mtx", "cv"} : q # p => handle[h][q] # i
    BY <1>3, <2>1 DEF Tidy, NoAlias
  <2>5. \A q \in {"mtx", "cv"} : handle[h][q] = i => (b <=> q \in marks'[h])
    BY <1>5, <2>4
  <2>6. ASSUME NEW q \in {"mtx", "cv"}, handle[h][q] \notin {NoItem, i}
        PROVE  word[handle[h][q]] <=> q \in marks'[h]
    <3>1. q # p BY <2>6
    <3>2. q \in marks'[h] <=> q \in marks[h] BY <1>5, <3>1
    <3>. QED BY <2>1, <2>2, <2>6, <3>2 DEF Told
  <2>. HIDE DEF i
  <2>7. word' = [word EXCEPT ![i] = b] BY <1>3 DEF i
  <2>. QED BY <1>0, <1>1, <1>4, <2>1, <2>2, <2>3, <2>5, <2>6, <2>7, WordStepKeeps
<1>. QED BY <1>6, <1>7 DEF IInv

LEMMA StutterKeeps == IInv /\ UNCHANGED vars => IInv'
<1>. SUFFICES ASSUME IInv, UNCHANGED vars PROVE IInv' OBVIOUS
<1>1. /\ used' = used /\ buckets' = buckets /\ word' = word /\ handle' = handle
      /\ making' = making /\ dirty' = dirty /\ marks' = marks
  BY DEF vars, slab, creates
<1>2. TypeOK' BY <1>1 DEF IInv, TypeOK
<1>3. Tidy => Tidy' BY <1>1 DEF Tidy, NoAlias, ItemsOf, Prims
<1>4. Told => Told' BY <1>1 DEF Told, Made, ItemsOf, Nothing
<1>. QED BY <1>1, <1>2, <1>3, <1>4 DEF IInv

(* The invariant holds in every state.                                     *)
LEMMA InvariantHolds == Spec => []IInv
<1>1. IInv /\ [Next]_vars => IInv'
  BY CreateKeeps, DestroyKeeps, UseKeeps, StutterKeeps DEF Next
<1>. QED BY <1>1, InitIInv, PTL DEF Spec

(* Bit fields, bucket count, slots, words and pointers stay in their types. *)
THEOREM TypeCorrect == Spec => []TypeOK
  BY InvariantHolds, PTL DEF IInv

(* No slot of the first bucket is handed out while somebody holds it.      *)
THEOREM FirstBucketNeverAliases == Spec => []NoAliasInFirstBucket
<1>1. IInv => NoAliasInFirstBucket
  BY DEF IInv, Tidy, NoAliasInFirstBucket
<1> QED
  BY <1>1, InvariantHolds, PTL

(* While the first bucket serves, no program can take the slab's guard, so *)
(* no create or destroy call can be made to wait.                          *)
THEOREM CreationNeverWaits == Spec => []GuardStaysFree
<1>1. IInv => GuardStaysFree
  BY DEF IInv, Tidy, GuardStaysFree, GuardIsFree
<1> QED
  BY <1>1, InvariantHolds, PTL

(* While the first bucket serves, and however create calls that have yet   *)
(* to zero their slots overlap with others' calls: a primitive starts out  *)
(* clear, and nobody but its holder changes its word.                      *)
THEOREM WordsAreTheirHolders == Spec => []WordsTellTheirHolders
<1>1. IInv => WordsTellTheirHolders
  <2>. SUFFICES ASSUME IInv, buckets = 1, NEW h \in Handle, Made(h),
                       NEW part \in {"mtx", "cv"}, handle[h][part] # NoItem
                PROVE  word[handle[h][part]] <=> part \in marks[h]
    BY DEF WordsTellTheirHolders
  <2>1. Told BY DEF IInv
  <2>2. dirty[h] = NoItem BY <2>1 DEF Told, Made
  <2>. QED BY <2>1, <2>2 DEF Told
<1>. QED BY <1>1, InvariantHolds, PTL
=============================================================================
