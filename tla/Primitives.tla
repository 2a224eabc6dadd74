----------------------------- MODULE Primitives -----------------------------
(***************************************************************************)
(* Where mutexes, conditions, futures and queues live: every one of them   *)
(* is a 32 byte slot of the slab _tw_threading_primitives                  *)
(* (common/structures.c, ppc/threading_ppc.c), a list of buckets of 32     *)
(* slots whose first bucket is static.  The slab is guarded by             *)
(* _tw_threading_prims_mtx, itself the first slot it ever hands out.       *)
(*                                                                         *)
(* What a create or destroy call does under the guard is one step; callers *)
(* that find the guard taken spin until it is free.  A create zeroes its   *)
(* slot after it has released the guard, so other calls, of handlers that  *)
(* interrupt it or of other threads, come between the two; they interleave *)
(* in any order here.  A handler that needs the guard in the middle of a   *)
(* section spins for ever, as the one of Future does.  A queue is created  *)
(* and destroyed exactly as a future is; it is a future here.              *)
(***************************************************************************)
EXTENDS Naturals, FiniteSets

CONSTANTS
    Slots,       \* slots of a bucket: 32
    MaxBuckets,  \* bound: buckets the heap has room for
    Handle,      \* the pointers a program keeps its primitives in
    NoItem       \* "this pointer has no such slot"

ASSUME SlotsAssumption ==
    /\ Slots \in Nat \ {0}
    /\ MaxBuckets \in Nat \ {0}

VARIABLES
    used,     \* the slots whose usedBitField bit is set
    buckets,  \* the number of buckets in the list
    word,     \* word[i]: is the low word of slot i (lock, wait, done) not 0?
    handle,   \* handle[h]: the slots of the primitive that pointer h holds
    making,   \* making[h]: what a create call for h is making, or "nothing"
    dirty,    \* dirty[h]: the slot that call has still to zero, or NoItem
    marks     \* history: marks[h]: what h's holder has locked, or marked

slab == <<used, buckets>>
creates == <<making, dirty>>
vars == <<slab, word, handle, creates, marks>>

Slot == 0 .. Slots - 1

Item == (1 .. MaxBuckets) \X Slot

ASSUME NoItemAssumption == NoItem \notin Item

Nothing == [mtx |-> NoItem, cv |-> NoItem]

(* _tw_threading_prims_mtx: the highest slot of the first bucket.          *)
Prims == <<1, Slots - 1>>

ItemsOf(h) == {handle[h].mtx, handle[h].cv} \ {NoItem}

-----------------------------------------------------------------------------
(* The slab, as functions of the bit fields u and the number of buckets n. *)

Free(u, n) == {i \in Item : i[1] <= n} \ u

(* Mutant of AddSb256Item: the first slot of a full bucket is 32, not 31.  *)
SlotPastTheEnd(u, n) ==
    IF Free(u, n) = {} THEN {<<n, Slots>>}
    ELSE {i \in Free(u, n) :
            \A j \in Free(u, n) : i[1] < j[1] \/ (i[1] = j[1] /\ i[2] >= j[2])}

(* The slot TW_AddSb256Item returns, as a set of one: of the first bucket  *)
(* with room the highest free slot, as the leading zeros of the inverted   *)
(* bit field are counted.  When every bucket is full it links a new one,   *)
(* but leaves its bucket pointer on the old one and flag at 0, which is    *)
(* the old bucket's highest slot.                                          *)
AddSb256Item(u, n) ==
    IF Free(u, n) = {}
    THEN {<<n, Slots - 1>>}
    ELSE {i \in Free(u, n) :
            \A j \in Free(u, n) : i[1] < j[1] \/ (i[1] = j[1] /\ i[2] >= j[2])}

(* Mutant of UsedAfterAdd: the slot's bit is not set.                      *)
UsedAfterLook(u, i) == u

UsedAfterAdd(u, i) == u \cup {i}

BucketsAfterAdd(u, n) == IF Free(u, n) = {} THEN n + 1 ELSE n

UsedAfterRemove(u, i) == u \ {i}

(* Mutant of ZeroBlock: the slot keeps what its last owner left.           *)
KeepBlock(w, i) == w

(* TW_ZeroAndFlushBlock, on a slot that was just handed out.               *)
ZeroBlock(w, i) == [w EXCEPT ![i] = FALSE]

-----------------------------------------------------------------------------
(* Mutant of Init: the guard's slot is not taken out of the slab.          *)
GuardOutsideSlab ==
    /\ used = {}
    /\ buckets = 1
    /\ word = [i \in Item |-> FALSE]
    /\ handle = [h \in Handle |-> Nothing]
    /\ making = [h \in Handle |-> "nothing"]
    /\ dirty = [h \in Handle |-> NoItem]
    /\ marks = [h \in Handle |-> {}]

(* TW_SetupThreading, on static memory that is all zeros.                  *)
Init ==
    /\ used = {Prims}
    /\ buckets = 1
    /\ word = [i \in Item |-> FALSE]
    /\ handle = [h \in Handle |-> Nothing]
    /\ making = [h \in Handle |-> "nothing"]
    /\ dirty = [h \in Handle |-> NoItem]
    /\ marks = [h \in Handle |-> {}]

(* TW_LockMutex(_tw_threading_prims_mtx) ... TW_UnlockMutex: the guard has *)
(* to be found free, and is free again afterwards.                         *)
GuardIsFree == ~word[Prims]

(* A create call up to the release of the guard.                           *)
TakeSlot(h, part) ==
    /\ GuardIsFree
    /\ BucketsAfterAdd(used, buckets) <= MaxBuckets
    /\ \E i \in AddSb256Item(used, buckets) :
          /\ used' = UsedAfterAdd(used, i)
          /\ handle' = [handle EXCEPT ![h] = [@ EXCEPT ![part] = i]]
          /\ dirty' = [dirty EXCEPT ![h] = i]
    /\ buckets' = BucketsAfterAdd(used, buckets)
    /\ UNCHANGED <<word, marks>>

Unmade(h) == handle[h] = Nothing

CreateMutex(h) ==
    /\ Unmade(h)
    /\ TakeSlot(h, "mtx")
    /\ making' = [making EXCEPT ![h] = "mutex"]

CreateCondition(h) ==
    /\ Unmade(h)
    /\ TakeSlot(h, "cv")
    /\ making' = [making EXCEPT ![h] = "condition"]

(* A mutex, then a condition, whose slot is then the future (or queue) too *)
(* and whose word is cleared once more.                                    *)
CreateFuture(h) ==
    /\ Unmade(h)
    /\ TakeSlot(h, "mtx")
    /\ making' = [making EXCEPT ![h] = "future"]

CreateItsCondition(h) ==
    /\ making[h] = "future"
    /\ handle[h].cv = NoItem
    /\ dirty[h] = NoItem
    /\ TakeSlot(h, "cv")
    /\ UNCHANGED making

ClearFuture(h) ==
    /\ making[h] = "future"
    /\ handle[h].cv # NoItem
    /\ dirty[h] = NoItem
    /\ word' = ZeroBlock(word, handle[h].cv)
    /\ making' = [making EXCEPT ![h] = "nothing"]
    /\ UNCHANGED <<slab, handle, dirty, marks>>

(* The create call's last step, after the guard was released.              *)
ZeroSlot(h) ==
    /\ dirty[h] # NoItem
    /\ word' = ZeroBlock(word, dirty[h])
    /\ dirty' = [dirty EXCEPT ![h] = NoItem]
    /\ making' = [making EXCEPT ![h] = IF @ = "future" THEN @ ELSE "nothing"]
    /\ UNCHANGED <<slab, handle, marks>>

(* The program has a pointer once the create has returned it.              *)
Made(h) == handle[h] # Nothing /\ making[h] = "nothing"

(* Whatever h's holder left locked or marked stays so in the slot.         *)
GiveBack(h, i) ==
    /\ GuardIsFree
    /\ used' = UsedAfterRemove(used, i)
    /\ handle' = [handle EXCEPT ![h] = Nothing]
    /\ marks' = [marks EXCEPT ![h] = {}]
    /\ UNCHANGED <<buckets, word, creates>>

DestroyMutex(h) ==
    /\ Made(h)
    /\ handle[h].cv = NoItem
    /\ GiveBack(h, handle[h].mtx)

DestroyCondition(h) ==
    /\ Made(h)
    /\ handle[h].mtx = NoItem
    /\ GiveBack(h, handle[h].cv)

(* TW_DestroyFuture and TW_DestroyQueue give back the condition's slot and *)
(* forget the mutex's.                                                     *)
DestroyFuture(h) ==
    /\ Made(h)
    /\ handle[h].mtx # NoItem
    /\ handle[h].cv # NoItem
    /\ GiveBack(h, handle[h].cv)

LockMutex(h) ==
    /\ Made(h) /\ handle[h].mtx # NoItem
    /\ ~word[handle[h].mtx]
    /\ word' = [word EXCEPT ![handle[h].mtx] = TRUE]
    /\ marks' = [marks EXCEPT ![h] = @ \cup {"mtx"}]
    /\ UNCHANGED <<slab, handle, creates>>

UnlockMutex(h) ==
    /\ Made(h) /\ handle[h].mtx # NoItem
    /\ "mtx" \in marks[h]
    /\ word' = [word EXCEPT ![handle[h].mtx] = FALSE]
    /\ marks' = [marks EXCEPT ![h] = @ \ {"mtx"}]
    /\ UNCHANGED <<slab, handle, creates>>

(* The wait and done bits of a condition or future: TW_AwaitCondition      *)
(* that times out, or TW_ReachFuture, leaves the word set.                 *)
MarkCondition(h) ==
    /\ Made(h) /\ handle[h].cv # NoItem
    /\ word' = [word EXCEPT ![handle[h].cv] = TRUE]
    /\ marks' = [marks EXCEPT ![h] = @ \cup {"cv"}]
    /\ UNCHANGED <<slab, handle, creates>>

Create(h) ==
    \/ CreateMutex(h) \/ CreateCondition(h) \/ CreateFuture(h)
    \/ CreateItsCondition(h) \/ ZeroSlot(h) \/ ClearFuture(h)

Destroy(h) == DestroyMutex(h) \/ DestroyCondition(h) \/ DestroyFuture(h)

Use(h) == LockMutex(h) \/ UnlockMutex(h) \/ MarkCondition(h)

Next == \E h \in Handle : Create(h) \/ Destroy(h) \/ Use(h)

Spec == Init /\ [][Next]_vars

-----------------------------------------------------------------------------
(* PROPERTIES                                                              *)

Owned == [mtx : Item \cup {NoItem}, cv : Item \cup {NoItem}]

TypeOK ==
    /\ used \subseteq Item
    /\ buckets \in 1 .. MaxBuckets
    /\ word \in [Item -> BOOLEAN]
    /\ handle \in [Handle -> Owned]
    /\ making \in [Handle -> {"nothing", "mutex", "condition", "future"}]
    /\ dirty \in [Handle -> Item \cup {NoItem}]
    /\ marks \in [Handle -> SUBSET {"mtx", "cv"}]

(* No two primitives share a slot, no future has its mutex in its own      *)
(* slot, and no primitive is the slab's own guard.                         *)
NoAlias ==
    /\ \A h \in Handle : Prims \notin ItemsOf(h)
    /\ \A g, h \in Handle : g # h => ItemsOf(g) \cap ItemsOf(h) = {}
    /\ \A h \in Handle : handle[h].cv # NoItem => handle[h].mtx # handle[h].cv

(* While the first bucket still serves, the bit fields keep track of the   *)
(* slots: whatever is created and destroyed in whatever order,             *)
(* TW_AddSb256Item hands out no slot that somebody still holds.            *)
NoAliasInFirstBucket == buckets = 1 => NoAlias

(* Whenever the program is outside the create and destroy functions the    *)
(* slab's guard is free, so none of them ever waits: no call of            *)
(* TW_LockMutex or TW_ZeroAndFlushBlock reaches the guard's slot by        *)
(* another name.                                                           *)
GuardStaysFree == buckets = 1 => GuardIsFree

(* While the first bucket serves, the word of a primitive tells what its   *)
(* holder did with it since it was created and nothing else: it starts out *)
(* unlocked, not waited for and not done, even in a slot whose last owner  *)
(* left it locked or done; and no create call that still has to zero its   *)
(* slot, after the guard was released, unlocks anybody's mutex.            *)
WordsTellTheirHolders ==
    buckets = 1 =>
        \A h \in Handle : Made(h) =>
            \A part \in {"mtx", "cv"} :
                handle[h][part] # NoItem =>
                    (word[handle[h][part]] <=> part \in marks[h])
=============================================================================
