-------------------------------- MODULE Heap --------------------------------
(***************************************************************************)
(* The heap allocator of common/structures.c on one stretch of memory:     *)
(* TW_AllocateHeapObject, TW_ReallocateHeapObject and TW_FreeHeapObject.   *)
(* Every object follows its header, a pair of links: next, and prev, of    *)
(* which only the least significant bit is ever read: the object has been  *)
(* freed.  New objects are placed after the last one as long as there is   *)
(* room; then the list is searched for one that was freed.                 *)
(*                                                                         *)
(* Addresses are relative to startAddr, sizes in bytes of a small heap.    *)
(* The allocator's mutex is held throughout a call, so nothing else        *)
(* happens during a search.  Where a header is read that nobody has        *)
(* written, or one is written outside the heap, the model goes no further: *)
(* astray.  One heap only: the second one of the Wii is not modelled.      *)
(***************************************************************************)
EXTENDS Integers

CONSTANTS
    Header,    \* the size of a header: 8
    Align,     \* sizes are rounded up to multiples of this: 4
    Capacity,  \* the size of the heap
    MaxSize,   \* bound: the largest object asked for
    Owner,     \* the pointers the program keeps objects in
    None       \* the null pointer

ASSUME HeapAssumption ==
    /\ Header \in Nat \ {0}
    /\ Align \in Nat \ {0}
    /\ Capacity \in Nat
    /\ MaxSize \in Nat \ {0}
    /\ None \notin Int

VARIABLES
    last,       \* alloc->last
    next,       \* next[h]: the link of the header at h, None if zeroed
    freed,      \* the headers whose mark is set
    object,     \* object[o]: the address of o's object
    size,       \* size[o]: the size o asked for
    who,        \* on whose behalf a call places an object, and of what size
    need,
    tail,       \* local to its search: where a new header would have gone
    scan,       \* the header the search looks at, None outside a search
    overrated,  \* history: was an object said to reach to the heap's end?
    astray

list == <<last, next, freed>>
owned == <<object, size>>
call == <<who, need, tail, scan>>
vars == <<list, owned, call, overrated, astray>>

(* Where a header fits in front of the heap's end.                         *)
Place == {h \in 0 .. Capacity : h + Header <= Capacity}

Size == 1 .. MaxSize

(* Mutant of Rounded: size & ~3.                                           *)
RoundedDown(s) == (s \div Align) * Align

(* (size + 3) & ~3                                                         *)
Rounded(s) == ((s + Align - 1) \div Align) * Align

(* The end of an object of s bytes behind the header at h.                 *)
EndOf(h, s) == h + Header + Rounded(s)

(* Mutant of HasRoom: only the header's place is looked at.                *)
StartsInside(h, s) == h < Capacity

(* next + sizeof(TwHeapBlockHeader) > (unsigned)alloc->startAddr + ...     *)
HasRoom(h, s) == EndOf(h, s) + Header <= Capacity

(* alloc->last ? alloc->last->next : alloc->first                          *)
Tail == IF last = None THEN 0 ELSE next[last]

Init ==
    /\ last = None
    /\ next = [h \in Place |-> None]
    /\ freed = {}
    /\ object = [o \in Owner |-> None]
    /\ size = [o \in Owner |-> 0]
    /\ who = None
    /\ need = 0
    /\ tail = None
    /\ scan = None
    /\ overrated = FALSE
    /\ astray = FALSE

Idle == who = None /\ ~astray

Placing == who # None /\ tail = None /\ ~astray

Searching == tail # None /\ ~astray

-----------------------------------------------------------------------------
(* TW_DetermineHeapObjectMaximumSize, for the object behind the header h.  *)

Rest(h) == Capacity - (h + Header) - Header

(* A freed neighbour is taken out of the list, and its own link is zeroed  *)
(* before the loop looks at it: it, too, ends at the heap's end.           *)
Absorbs(h) == h # last /\ next[h] # None /\ next[h] \in freed

ReachesTheEnd(h) == h = last \/ next[h] = None \/ Absorbs(h)

(* With a neighbour in use the answer is the header's own address less     *)
(* that of its object.                                                     *)
MaximumSize(h) == IF ReachesTheEnd(h) THEN Rest(h) ELSE -Header

NextAfter(h) ==
    IF Absorbs(h)
    THEN [next EXCEPT ![h] = next[next[h]], ![next[h]] = None]
    ELSE next

FreedAfter(h) == IF Absorbs(h) THEN freed \ {next[h]} ELSE freed

Measure(h) ==
    /\ next' = NextAfter(h)
    /\ overrated' = (overrated \/ ReachesTheEnd(h))
    /\ UNCHANGED last

-----------------------------------------------------------------------------
(* TW_AllocateHeapObject, for a pointer that holds nothing.                *)
Allocate(o, s) ==
    /\ Idle
    /\ object[o] = None
    /\ who' = o
    /\ need' = s
    /\ UNCHANGED <<tail, scan, overrated, astray>>
    /\ UNCHANGED list /\ UNCHANGED owned

(* TW_ReallocateHeapObject: in place if the object is large enough.        *)
Reallocate(o, s) ==
    /\ Idle
    /\ object[o] # None
    /\ LET h == object[o] - Header
       IN  /\ Measure(h)
           /\ freed' = FreedAfter(h)
           /\ \/ /\ s <= MaximumSize(h)
                 /\ size' = [size EXCEPT ![o] = s]
                 /\ UNCHANGED <<who, need>>
              \/ /\ s > MaximumSize(h)
                 /\ who' = o
                 /\ need' = s
                 /\ UNCHANGED size
    /\ UNCHANGED <<object, tail, scan, astray>>

(* TW_FreeHeapObject                                                       *)
Free(o) ==
    /\ Idle
    /\ object[o] # None
    /\ freed' = freed \cup {object[o] - Header}
    /\ object' = [object EXCEPT ![o] = None]
    /\ size' = [size EXCEPT ![o] = 0]
    /\ UNCHANGED <<last, next, overrated, astray>> /\ UNCHANGED call

-----------------------------------------------------------------------------
(* _tw_allocate_heap_object                                                *)

Return ==
    /\ who' = None
    /\ need' = 0
    /\ tail' = None
    /\ scan' = None

(* The object behind h is handed out; the one it replaces is freed.        *)
Give(h) ==
    /\ object' = [object EXCEPT ![who] = h + Header]
    /\ size' = [size EXCEPT ![who] = need]
    /\ Return

Replaced == IF object[who] = None THEN {} ELSE {object[who] - Header}

(* There is room after the last object.                                    *)
Append ==
    /\ Placing
    /\ Tail # None
    /\ HasRoom(Tail, need)
    /\ next' = [next EXCEPT ![Tail] = EndOf(Tail, need)]
    /\ freed' = (freed \ {Tail}) \cup Replaced
    /\ last' = Tail
    /\ Give(Tail)
    /\ UNCHANGED <<overrated, astray>>

BeginSearch ==
    /\ Placing
    /\ Tail # None
    /\ ~HasRoom(Tail, need)
    /\ tail' = Tail
    /\ scan' = 0
    /\ UNCHANGED <<who, need, overrated, astray>>
    /\ UNCHANGED list /\ UNCHANGED owned

(* _tw_search_for_suitable_block, from alloc->first along the links        *)
InList(h) == h \in Place /\ last # None /\ h # tail

(* Mutant of InUse: the link is followed for freed objects only.           *)
StaysAtObject ==
    /\ Searching
    /\ InList(scan)
    /\ scan \notin freed
    /\ UNCHANGED vars

InUse ==
    /\ Searching
    /\ InList(scan)
    /\ scan \notin freed
    /\ scan' = next[scan]
    /\ UNCHANGED <<who, need, tail, overrated, astray>>
    /\ UNCHANGED list /\ UNCHANGED owned

TooSmall ==
    /\ Searching
    /\ InList(scan)
    /\ scan \in freed
    /\ MaximumSize(scan) < Rounded(need)
    /\ Measure(scan)
    /\ freed' = FreedAfter(scan)
    /\ scan' = NextAfter(scan)[scan]
    /\ UNCHANGED <<who, need, tail, astray>> /\ UNCHANGED owned

(* The object is handed out, its mark as it was; the header that is        *)
(* written is the one at the tail.                                         *)
Found ==
    /\ Searching
    /\ InList(scan)
    /\ scan \in freed
    /\ MaximumSize(scan) >= Rounded(need)
    /\ tail \in Place
    /\ next' = [NextAfter(scan) EXCEPT ![tail] = EndOf(tail, need)]
    /\ freed' = (FreedAfter(scan) \ {tail}) \cup Replaced
    /\ last' = tail
    /\ overrated' = TRUE
    /\ Give(scan)
    /\ UNCHANGED astray

(* Behind the last object lies a header that nobody wrote; if it happens   *)
(* to be zero the search ends there, and the call returns null.            *)
NotFound ==
    /\ Searching
    /\ ~InList(scan)
    /\ Return
    /\ UNCHANGED <<overrated, astray>> /\ UNCHANGED list /\ UNCHANGED owned

(* A header is written behind the heap's end or, where the last one was    *)
(* absorbed, to address 0 of the machine; or the search follows a link     *)
(* that nobody wrote.                                                      *)
GoAstray ==
    /\ \/ Placing /\ Tail = None
       \/ Searching /\ scan # None /\ ~InList(scan)
       \/ /\ Searching
          /\ InList(scan) /\ scan \in freed
          /\ MaximumSize(scan) >= Rounded(need)
          /\ tail \notin Place
    /\ astray' = TRUE
    /\ UNCHANGED overrated
    /\ UNCHANGED list /\ UNCHANGED owned /\ UNCHANGED call

PlaceObject ==
    \/ Append
    \/ BeginSearch
    \/ InUse
    \/ TooSmall
    \/ Found
    \/ NotFound
    \/ GoAstray

Next ==
    \/ \E o \in Owner, s \in Size : Allocate(o, s) \/ Reallocate(o, s)
    \/ \E o \in Owner : Free(o)
    \/ PlaceObject

Spec == Init /\ [][Next]_vars

(* The processor executes the call.                                        *)
FairSpec == Spec /\ WF_vars(PlaceObject)

-----------------------------------------------------------------------------
(* PROPERTIES                                                              *)

Links == Nat \cup {None}

TypeOK ==
    /\ last \in Place \cup {None}
    /\ next \in [Place -> Links]
    /\ freed \subseteq Place
    /\ object \in [Owner -> Links]
    /\ size \in [Owner -> 0 .. MaxSize]
    /\ who \in Owner \cup {None}
    /\ need \in 0 .. MaxSize
    /\ tail \in Links
    /\ scan \in Links
    /\ overrated \in BOOLEAN
    /\ astray \in BOOLEAN

(* What o may write to, and the header in front of it.                     *)
Extent(o) == (object[o] - Header) .. (object[o] + size[o] - 1)

Live == {o \in Owner : object[o] # None}

Disjoint ==
    /\ \A o \in Live : Extent(o) \subseteq 0 .. Capacity - 1
    /\ \A o, p \in Live : o # p => Extent(o) \cap Extent(p) = {}

(* As long as no object was said to reach to the heap's end, everybody's   *)
(* object is in the heap and apart from all others and their headers, and  *)
(* its mark is clear: no sequence of calls hands out memory in use.        *)
ObjectsAreApart ==
    ~overrated =>
        /\ Disjoint
        /\ \A o \in Live : object[o] - Header \notin freed

(* The search ends: links lead onwards, also after objects were merged and *)
(* handed out again, so no call goes round in circles with the allocator's *)
(* mutex held.                                                             *)
CallsEnd == who # None ~> (who = None \/ astray)
=============================================================================
