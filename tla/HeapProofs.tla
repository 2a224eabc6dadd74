----------------------------- MODULE HeapProofs -----------------------------
(***************************************************************************)
(* Proofs about Heap: as long as no object was said to reach to the heap's *)
(* end, objects are apart, for every heap, alignment and program.          *)
(***************************************************************************)
EXTENDS Heap, TLAPS

(* TypeOK in parts, with two facts more: every object has a place for its  *)
(* header, and a search is on somebody's behalf.                           *)
ListOK ==
    /\ last \in Place \cup {None}
    /\ next \in [Place -> Links]
    /\ freed \subseteq Place

OwnedOK ==
    /\ object \in [Owner -> Links]
    /\ size \in [Owner -> 0 .. MaxSize]
    /\ \A o \in Live : object[o] - Header \in Place

CallOK ==
    /\ who \in Owner \cup {None}
    /\ need \in 0 .. MaxSize
    /\ tail \in Links
    /\ scan \in Links
    /\ tail # None => who # None

FlagsOK == overrated \in BOOLEAN /\ astray \in BOOLEAN

Types == ListOK /\ OwnedOK /\ CallOK /\ FlagsOK

(* Everything handed out lies below the place of the next header, and in   *)
(* the heap.                                                               *)
BelowTail ==
    /\ Tail # None
    /\ \A o \in Live : /\ object[o] + Rounded(size[o]) <= Tail
                       /\ object[o] + Rounded(size[o]) <= Capacity

(* Of two objects one ends before the other's header.                      *)
Apart(o, p) ==
    \/ object[o] + Rounded(size[o]) <= object[p] - Header
    \/ object[p] + Rounded(size[p]) <= object[o] - Header

AllApart == \A o, p \in Live : o # p => Apart(o, p)

LiveAreUnmarked == \A o \in Live : object[o] - Header \notin freed

(* The inductive invariant.  Its second half says nothing once an object   *)
(* was overrated, which that history never forgets.                        *)
Orderly == BelowTail /\ AllApart /\ LiveAreUnmarked

IInv == Types /\ (~overrated => Orderly)

(* Rounding up is by whole units of Align and never below the size.        *)
LEMMA RoundedIsEnough ==
  ASSUME NEW s \in Nat
  PROVE  Rounded(s) \in Nat /\ s <= Rounded(s)
<1> DEFINE n == s + Align - 1
<1>1. Align \in Nat /\ Align > 0
  BY HeapAssumption
<1>2. n \in Nat
  BY <1>1
<1>3. n \div Align \in Nat /\ n % Align \in 0 .. Align - 1 /\ n = Align * (n \div Align) + (n % Align)
  BY <1>1, <1>2
<1>4. Align * (n \div Align) = (n \div Align) * Align
  BY <1>1, <1>3
<1>5. (n \div Align) * Align \in Nat
  BY <1>1, <1>3
<1>6. (n \div Align) * Align >= s
  BY <1>1, <1>3, <1>4, <1>5
<1> QED
  BY <1>5, <1>6 DEF Rounded

(* Where an object was not said to reach to the end, measuring it changed  *)
(* nothing.                                                                *)
LEMMA MeasuringIsHarmless ==
  ASSUME NEW h, ~ReachesTheEnd(h)
  PROVE  NextAfter(h) = next /\ FreedAfter(h) = freed /\ MaximumSize(h) = -Header
BY DEF ReachesTheEnd, NextAfter, FreedAfter, MaximumSize

(* The list that measuring leaves is a list.                               *)
LEMMA MeasuredList ==
  ASSUME ListOK, NEW h \in Place
  PROVE  NextAfter(h) \in [Place -> Links] /\ FreedAfter(h) \subseteq Place
<1>1. next \in [Place -> Links] /\ freed \subseteq Place
  BY DEF ListOK
<1>2. Absorbs(h) => next[h] \in Place /\ next[next[h]] \in Links
  BY <1>1 DEF Absorbs
<1>3. None \in Links
  BY DEF Links
<1> QED
  BY <1>1, <1>2, <1>3 DEF NextAfter, FreedAfter

LEMMA InitIInv == Init => IInv
<1> SUFFICES ASSUME Init PROVE IInv
  OBVIOUS
<1> USE DEF Init
<1>1. Live = {}
  BY DEF Live
<1>2. ListOK
  BY DEF ListOK, Links
<1>3. OwnedOK
  BY <1>1, HeapAssumption DEF OwnedOK, Links
<1>4. CallOK
  BY HeapAssumption DEF CallOK, Links
<1>5. FlagsOK
  BY DEF FlagsOK
<1>6. Orderly
  BY <1>1, HeapAssumption DEF Orderly, BelowTail, AllApart, LiveAreUnmarked, Tail
<1> QED
  BY <1>2, <1>3, <1>4, <1>5, <1>6 DEF IInv, Types

(* An object handed out has a place for its header.                        *)
LEMMA GiveOwned ==
  ASSUME Types, who # None, NEW h \in Place, Give(h)
  PROVE  OwnedOK' /\ CallOK'
<1> USE DEF Types
<1>1. object' = [object EXCEPT ![who] = h + Header] /\ size' = [size EXCEPT ![who] = need]
  BY DEF Give
<1>2. who \in Owner /\ need \in 0 .. MaxSize
  BY DEF CallOK
<1>3. h \in Nat /\ h + Header \in Nat /\ (h + Header) - Header = h
  BY HeapAssumption DEF Place
<1>4. object' \in [Owner -> Links] /\ size' \in [Owner -> 0 .. MaxSize]
  BY <1>1, <1>2, <1>3 DEF OwnedOK, Links
<1>5. ASSUME NEW o \in Owner, object'[o] # None PROVE object'[o] - Header \in Place
  <2>1. CASE o = who
    BY <1>1, <1>2, <1>3, <2>1 DEF OwnedOK
  <2>2. CASE o # who
    BY <1>1, <1>5, <2>2 DEF OwnedOK, Live
  <2> QED
    BY <2>1, <2>2
<1>6. OwnedOK'
  BY <1>4, <1>5 DEF OwnedOK, Live
<1>7. CallOK'
  BY HeapAssumption DEF Give, Return, CallOK, Links
<1> QED
  BY <1>6, <1>7

(* The header of the object that is replaced has a place, too.             *)
LEMMA ReplacedPlaces ==
  ASSUME Types, who # None
  PROVE  Replaced \subseteq Place
BY DEF Types, Replaced, OwnedOK, Live, CallOK

(* An object at the tail: the header, the object and the next header fit.  *)
LEMMA RoomAtTheTail ==
  ASSUME Types, Append
  PROVE  /\ Tail \in Place
         /\ EndOf(Tail, need) \in Nat
         /\ EndOf(Tail, need) = Tail + Header + Rounded(need)
         /\ EndOf(Tail, need) <= Capacity
<1>1. Tail \in Nat
  BY HeapAssumption DEF Types, ListOK, Tail, Append, Links
<1>2. Rounded(need) \in Nat
  BY RoundedIsEnough, HeapAssumption DEF Types, CallOK
<1>3. Tail + Header + Rounded(need) + Header <= Capacity
  BY DEF Append, HasRoom, EndOf
<1> QED
  BY <1>1, <1>2, <1>3, HeapAssumption DEF Place, EndOf

LEMMA AppendTypes ==
  ASSUME Types, Append
  PROVE  Types'
<1>1. who # None /\ Give(Tail)
  BY DEF Append, Placing
<1>2. OwnedOK' /\ CallOK'
  BY <1>1, RoomAtTheTail, GiveOwned
<1>3. Replaced \subseteq Place
  BY <1>1, ReplacedPlaces
<1>4. ListOK'
  BY <1>3, RoomAtTheTail DEF Append, ListOK, Links, Types
<1>5. FlagsOK'
  BY DEF Append, FlagsOK, Types
<1> QED
  BY <1>2, <1>4, <1>5 DEF Types

(* What the search finds was in the list; the header written has a place.  *)
LEMMA FoundTypes ==
  ASSUME Types, Found
  PROVE  Types'
<1>1. scan \in Place /\ tail \in Place
  BY DEF Found, InList
<1>2. who # None /\ Give(scan)
  BY DEF Found, Searching, Types, CallOK
<1>3. OwnedOK' /\ CallOK'
  BY <1>1, <1>2, GiveOwned
<1>4. Replaced \subseteq Place
  BY <1>2, ReplacedPlaces
<1>5. EndOf(tail, need) \in Nat
  <2>1. tail \in Nat /\ Rounded(need) \in Nat
    BY <1>1, RoundedIsEnough, HeapAssumption DEF Types, CallOK, Place
  <2> QED
    BY <2>1, HeapAssumption DEF EndOf
<1>6. NextAfter(scan) \in [Place -> Links] /\ FreedAfter(scan) \subseteq Place
  BY <1>1, MeasuredList DEF Types
<1>7. ListOK'
  BY <1>1, <1>4, <1>5, <1>6 DEF Found, ListOK, Links
<1>8. FlagsOK'
  BY DEF Found, FlagsOK, Types
<1> QED
  BY <1>3, <1>7, <1>8 DEF Types

LEMMA AllocateTypes ==
  ASSUME Types, NEW o \in Owner, NEW s \in Size, Allocate(o, s)
  PROVE  Types'
<1>1. ListOK' /\ OwnedOK' /\ FlagsOK'
  BY DEF Types, ListOK, OwnedOK, FlagsOK, Live, Allocate, list, owned
<1>2. tail = None
  BY DEF Types, CallOK, Allocate, Idle
<1>3. CallOK'
  BY <1>2 DEF Types, CallOK, Allocate, Size
<1> QED
  BY <1>1, <1>3 DEF Types

LEMMA ReallocateTypes ==
  ASSUME Types, NEW o \in Owner, NEW s \in Size, Reallocate(o, s)
  PROVE  Types'
<1> DEFINE h == object[o] - Header
<1>1. h \in Place
  BY DEF Reallocate, Types, OwnedOK, Live
<1>2. /\ next' = NextAfter(h) /\ freed' = FreedAfter(h) /\ last' = last
      /\ overrated' = (overrated \/ ReachesTheEnd(h))
  BY DEF Reallocate, Measure
<1>3. ListOK'
  BY <1>1, <1>2, MeasuredList DEF Types, ListOK
<1>4. size' \in [Owner -> 0 .. MaxSize] /\ object' = object
  <2>1. size' = size \/ size' = [size EXCEPT ![o] = s]
    BY DEF Reallocate
  <2>2. s \in 0 .. MaxSize
    BY DEF Size
  <2> QED
    BY <2>1, <2>2 DEF Reallocate, Types, OwnedOK
<1>5. OwnedOK'
  BY <1>4 DEF Types, OwnedOK, Live
<1>6. CallOK'
  <2>1. /\ who' \in Owner \cup {None} /\ need' \in 0 .. MaxSize
        /\ tail' = tail /\ scan' = scan
    BY DEF Reallocate, Types, CallOK, Size
  <2>2. tail # None => who # None
    BY DEF Types, CallOK
  <2>3. tail = None
    BY <2>2 DEF Reallocate, Idle
  <2> QED
    BY <2>1, <2>3 DEF Types, CallOK
<1>7. FlagsOK'
  <2>1. ReachesTheEnd(h) \in BOOLEAN
    BY DEF ReachesTheEnd, Absorbs
  <2> QED
    BY <1>2, <2>1, Zenon DEF Types, FlagsOK, Reallocate
<1> QED
  BY <1>3, <1>5, <1>6, <1>7 DEF Types

LEMMA FreeTypes ==
  ASSUME Types, NEW o \in Owner, Free(o)
  PROVE  Types'
<1>1. object[o] - Header \in Place
  BY DEF Free, Types, OwnedOK, Live
<1>2. ListOK'
  BY <1>1 DEF Types, ListOK, Free
<1>3. OwnedOK'
  <2>1. object' \in [Owner -> Links] /\ size' \in [Owner -> 0 .. MaxSize]
    BY HeapAssumption DEF Types, OwnedOK, Free, Links
  <2>2. ASSUME NEW p \in Owner, object'[p] # None PROVE object'[p] - Header \in Place
    <3>1. p # o /\ object'[p] = object[p]
      BY <2>2 DEF Free, Types, OwnedOK
    <3> QED
      BY <2>2, <3>1 DEF Types, OwnedOK, Live
  <2> QED
    BY <2>1, <2>2 DEF OwnedOK, Live
<1>4. CallOK' /\ FlagsOK'
  BY DEF Types, CallOK, FlagsOK, Free, call
<1> QED
  BY <1>2, <1>3, <1>4 DEF Types

(* The rest of a search moves no object.                                   *)
LEMMA SearchTypes ==
  ASSUME Types, BeginSearch \/ InUse \/ TooSmall \/ NotFound \/ GoAstray \/ UNCHANGED vars
  PROVE  Types'
<1>1. OwnedOK'
  <2>1. UNCHANGED owned
    BY DEF BeginSearch, InUse, TooSmall, NotFound, GoAstray, vars
  <2> QED
    BY <2>1 DEF owned, Types, OwnedOK, Live
<1>2. CASE BeginSearch
  <2>1. Tail \in Links /\ Tail # None /\ 0 \in Links
    BY <1>2 DEF BeginSearch, Tail, Types, ListOK, Links
  <2>2. ListOK' /\ FlagsOK'
    BY <1>2 DEF Types, ListOK, FlagsOK, BeginSearch, list
  <2>3. CallOK'
    BY <1>2, <2>1 DEF Types, CallOK, BeginSearch, Placing
  <2> QED
    BY <1>1, <2>2, <2>3 DEF Types
<1>3. CASE InUse
  <2>1. next[scan] \in Links
    BY <1>3 DEF InUse, InList, Types, ListOK
  <2>2. ListOK' /\ FlagsOK'
    BY <1>3 DEF Types, ListOK, FlagsOK, InUse, list
  <2>3. CallOK'
    BY <1>3, <2>1 DEF Types, CallOK, InUse
  <2> QED
    BY <1>1, <2>2, <2>3 DEF Types
<1>4. CASE TooSmall
  <2>1. scan \in Place
    BY <1>4 DEF TooSmall, InList
  <2>2. NextAfter(scan) \in [Place -> Links] /\ FreedAfter(scan) \subseteq Place
    BY <2>1, MeasuredList DEF Types
  <2>3. /\ next' = NextAfter(scan) /\ freed' = FreedAfter(scan) /\ last' = last
        /\ overrated' = (overrated \/ ReachesTheEnd(scan))
        /\ scan' = NextAfter(scan)[scan]
        /\ UNCHANGED <<who, need, tail, astray>>
    BY <1>4 DEF TooSmall, Measure
  <2>4. ListOK'
    BY <2>2, <2>3 DEF Types, ListOK
  <2>5. CallOK'
    BY <2>1, <2>2, <2>3 DEF Types, CallOK
  <2>6. ReachesTheEnd(scan) \in BOOLEAN
    BY DEF ReachesTheEnd, Absorbs
  <2>7. FlagsOK'
    BY <2>3, <2>6, Zenon DEF Types, FlagsOK
  <2> QED
    BY <1>1, <2>4, <2>5, <2>7 DEF Types
<1>5. CASE NotFound
  <2>1. ListOK' /\ FlagsOK'
    BY <1>5 DEF Types, ListOK, FlagsOK, NotFound, list
  <2>2. CallOK'
    BY <1>5, HeapAssumption DEF NotFound, Return, CallOK, Links
  <2> QED
    BY <1>1, <2>1, <2>2 DEF Types
<1>6. CASE GoAstray
  BY <1>1, <1>6 DEF Types, ListOK, CallOK, FlagsOK, GoAstray, list, call
<1>7. CASE UNCHANGED vars
  BY <1>1, <1>7 DEF Types, ListOK, CallOK, FlagsOK, vars, list, call
<1> QED
  BY <1>2, <1>3, <1>4, <1>5, <1>6, <1>7

LEMMA StepTypes ==
  ASSUME Types, [Next]_vars
  PROVE  Types'
<1>1. ASSUME NEW o \in Owner, NEW s \in Size, Allocate(o, s) \/ Reallocate(o, s)
      PROVE  Types'
  BY <1>1, AllocateTypes, ReallocateTypes
<1>2. ASSUME NEW o \in Owner, Free(o)
      PROVE  Types'
  BY <1>2, FreeTypes
<1>3. CASE Append
  BY <1>3, AppendTypes
<1>4. CASE Found
  BY <1>4, FoundTypes
<1>5. CASE BeginSearch \/ InUse \/ TooSmall \/ NotFound \/ GoAstray \/ UNCHANGED vars
  BY <1>5, SearchTypes
<1> QED
  BY <1>1, <1>2, <1>3, <1>4, <1>5 DEF Next, PlaceObject

(* Where an object lies, in numbers.                                       *)
LEMMA ObjectNumbers ==
  ASSUME Types, NEW o \in Live
  PROVE  /\ object[o] \in Nat
         /\ object[o] - Header \in Place
         /\ size[o] \in Nat
         /\ Rounded(size[o]) \in Nat
         /\ size[o] <= Rounded(size[o])
<1>1. object[o] \in Nat /\ object[o] - Header \in Place /\ size[o] \in 0 .. MaxSize
  BY DEF Types, OwnedOK, Live, Links
<1>2. size[o] \in Nat
  BY <1>1, HeapAssumption
<1> QED
  BY <1>1, <1>2, RoundedIsEnough

LEMMA OrderlyUnchanged ==
  ASSUME Orderly, UNCHANGED list, UNCHANGED owned
  PROVE  Orderly'
<1>1. UNCHANGED last /\ UNCHANGED next /\ UNCHANGED freed /\ UNCHANGED object /\ UNCHANGED size
  BY DEF list, owned
<1> QED
  BY <1>1 DEF Orderly, BelowTail, AllApart, LiveAreUnmarked, Live, Apart, Tail

LEMMA FreeOrderly ==
  ASSUME Types, Orderly, NEW o \in Owner, Free(o)
  PROVE  Orderly'
<1>1. /\ UNCHANGED last /\ UNCHANGED next
      /\ freed' = freed \cup {object[o] - Header}
      /\ o \in Live
  BY DEF Free, Live
<1>2. ASSUME NEW p \in Owner, object'[p] # None
      PROVE  /\ p \in Live /\ p # o
             /\ object'[p] = object[p] /\ size'[p] = size[p]
  <2>1. object \in [Owner -> Links] /\ size \in [Owner -> 0 .. MaxSize]
    BY DEF Types, OwnedOK
  <2>2. p # o
    BY <1>2, <2>1 DEF Free
  <2> QED
    BY <1>2, <2>1, <2>2 DEF Free, Live
<1>3. BelowTail'
  BY <1>1, <1>2 DEF Orderly, BelowTail, Live, Tail
<1>4. AllApart'
  BY <1>2 DEF Orderly, AllApart, Live, Apart
<1>5. LiveAreUnmarked'
  <2>1. ASSUME NEW p \in Owner, object'[p] # None PROVE object'[p] - Header \notin freed'
    <3>1. p \in Live /\ p # o /\ object'[p] = object[p]
      BY <1>2, <2>1
    <3>2. Apart(p, o)
      BY <1>1, <3>1 DEF Orderly, AllApart
    <3>3. object[p] - Header # object[o] - Header
      BY <1>1, <3>1, <3>2, ObjectNumbers, HeapAssumption DEF Apart
    <3> QED
      BY <1>1, <3>1, <3>3 DEF Orderly, LiveAreUnmarked
  <2> QED
    BY <2>1 DEF LiveAreUnmarked, Live
<1> QED
  BY <1>3, <1>4, <1>5 DEF Orderly

(* The object at the tail is behind everything that was handed out, and    *)
(* the tail moves behind it.                                               *)
LEMMA AppendOrderly ==
  ASSUME Types, Orderly, Append
  PROVE  Orderly'
<1> DEFINE T == Tail
           E == EndOf(T, need)
<1> USE HeapAssumption
<1>1. /\ T \in Place /\ T \in Nat /\ E \in Nat
      /\ E = T + Header + Rounded(need) /\ E <= Capacity
  BY RoomAtTheTail DEF Place
<1>2. /\ last' = T /\ next' = [next EXCEPT ![T] = E]
      /\ freed' = (freed \ {T}) \cup Replaced
      /\ object' = [object EXCEPT ![who] = T + Header]
      /\ size' = [size EXCEPT ![who] = need]
  BY DEF Append, Give
<1>3. who \in Owner
  BY DEF Append, Placing, Types, CallOK
<1>4. /\ object'[who] = T + Header /\ size'[who] = need
      /\ \A o \in Owner : o # who => object'[o] = object[o] /\ size'[o] = size[o]
  BY <1>2, <1>3 DEF Types, OwnedOK
<1>5. Tail' = E
  <2>1. T # None /\ next'[T] = E
    BY <1>1, <1>2 DEF Types, ListOK
  <2> QED
    BY <1>2, <2>1 DEF Tail
<1>6. \A o \in Live : object[o] + Rounded(size[o]) <= T
  BY DEF Orderly, BelowTail
<1>7. Rounded(need) \in Nat
  BY RoundedIsEnough DEF Types, CallOK
<1>8. ASSUME NEW o \in Owner, object'[o] # None, o # who
      PROVE  o \in Live /\ object'[o] = object[o] /\ size'[o] = size[o]
  BY <1>4, <1>8 DEF Live
<1>9. BelowTail'
  <2>1. E # None
    BY <1>1
  <2>2. ASSUME NEW o \in Owner, object'[o] # None
        PROVE  object'[o] + Rounded(size'[o]) <= E
    <3>1. CASE o = who
      BY <1>1, <1>4, <1>7, <3>1
    <3>2. CASE o # who
      BY <1>1, <1>6, <1>7, <1>8, <2>2, <3>2, ObjectNumbers
    <3> QED
      BY <3>1, <3>2
  <2>3. ASSUME NEW o \in Owner, object'[o] # None
        PROVE  object'[o] + Rounded(size'[o]) <= Capacity
    <3>1. CASE o = who
      BY <1>1, <1>4, <1>7, <3>1
    <3>2. CASE o # who
      BY <1>8, <2>3, <3>2 DEF Orderly, BelowTail
    <3> QED
      BY <3>1, <3>2
  <2>4. \A o \in Live' : o \in Owner /\ object'[o] # None
    BY DEF Live
  <2> QED
    BY <1>5, <2>1, <2>2, <2>3, <2>4 DEF BelowTail
<1>10. AllApart'
  <2>1. ASSUME NEW o \in Owner, object'[o] # None, o # who
        PROVE  object'[o] + Rounded(size'[o]) <= object'[who] - Header
    BY <1>1, <1>4, <1>6, <1>8, <2>1
  <2>2. ASSUME NEW o \in Owner, object'[o] # None, o # who,
               NEW p \in Owner, object'[p] # None, p # who, o # p
        PROVE  Apart(o, p)'
    BY <1>8, <2>2 DEF Orderly, AllApart, Apart
  <2> QED
    BY <2>1, <2>2 DEF AllApart, Apart, Live
<1>11. LiveAreUnmarked'
  <2>1. Replaced = IF object[who] = None THEN {} ELSE {object[who] - Header}
    BY DEF Replaced
  <2>2. T \notin Replaced
    <3>1. object[who] # None => object[who] - Header # T
      <4>1. ASSUME object[who] # None PROVE object[who] - Header # T
        <5>1. who \in Live
          BY <1>3, <4>1 DEF Live
        <5> QED
          BY <1>1, <1>6, <5>1, ObjectNumbers
      <4> QED
        BY <4>1
    <3> QED
      BY <2>1, <3>1
  <2>3. ASSUME NEW o \in Live, o # who
        PROVE  object[o] - Header \notin Replaced
    <3>1. ASSUME object[who] # None PROVE object[o] - Header # object[who] - Header
      <4>1. who \in Live /\ Apart(o, who)
        BY <1>3, <2>3, <3>1 DEF Live, Orderly, AllApart
      <4> QED
        BY <4>1, ObjectNumbers DEF Apart
    <3> QED
      BY <2>1, <3>1
  <2>4. ASSUME NEW o \in Owner, object'[o] # None
        PROVE  object'[o] - Header \notin freed'
    <3>1. CASE o = who
      <4>1. object'[o] - Header = T
        BY <1>1, <1>4, <3>1
      <4> QED
        BY <1>2, <2>2, <4>1
    <3>2. CASE o # who
      <4>1. o \in Live /\ object'[o] = object[o]
        BY <1>8, <2>4, <3>2
      <4>2. object[o] - Header \notin freed
        BY <4>1 DEF Orderly, LiveAreUnmarked
      <4> QED
        BY <1>2, <2>3, <3>2, <4>1, <4>2
    <3> QED
      BY <3>1, <3>2
  <2> QED
    BY <2>4 DEF LiveAreUnmarked, Live
<1> QED
  BY <1>9, <1>10, <1>11 DEF Orderly

(* Where nothing was said to reach to the end, reallocating and searching  *)
(* leave the list and the objects as they are.                             *)
LEMMA ReallocateOrderly ==
  ASSUME Types, Orderly, NEW o \in Owner, NEW s \in Size, Reallocate(o, s), ~overrated'
  PROVE  Orderly'
<1> DEFINE h == object[o] - Header
<1>1. ~ReachesTheEnd(h)
  BY DEF Reallocate, Measure
<1>2. next' = next /\ freed' = freed /\ last' = last /\ object' = object /\ MaximumSize(h) = -Header
  BY <1>1, MeasuringIsHarmless DEF Reallocate, Measure
<1>3. s > MaximumSize(h)
  BY <1>2, HeapAssumption DEF Size
<1>4. ~(s <= MaximumSize(h))
  BY <1>2, <1>3, HeapAssumption DEF Size
<1>5. size' = size
  BY <1>4 DEF Reallocate
<1> QED
  BY <1>2, <1>5, OrderlyUnchanged DEF list, owned

LEMMA TooSmallOrderly ==
  ASSUME Types, Orderly, TooSmall, ~overrated'
  PROVE  Orderly'
<1>1. ~ReachesTheEnd(scan)
  BY DEF TooSmall, Measure
<1>2. next' = next /\ freed' = freed /\ last' = last /\ UNCHANGED owned
  BY <1>1, MeasuringIsHarmless DEF TooSmall, Measure
<1> QED
  BY <1>2, OrderlyUnchanged DEF list

LEMMA StepIInv ==
  ASSUME IInv, [Next]_vars
  PROVE  IInv'
<1>1. Types'
  BY StepTypes DEF IInv
<1>2. ASSUME ~overrated' PROVE Orderly'
  <2>1. overrated => overrated'
    <3>1. CASE \E o \in Owner, s \in Size : Allocate(o, s) \/ Reallocate(o, s)
      BY <3>1 DEF Allocate, Reallocate, Measure
    <3>2. CASE \E o \in Owner : Free(o)
      BY <3>2 DEF Free
    <3>3. CASE PlaceObject
      BY <3>3 DEF PlaceObject, Append, BeginSearch, InUse, TooSmall, Found, NotFound, GoAstray, Measure
    <3>4. CASE UNCHANGED vars
      BY <3>4 DEF vars
    <3> QED
      BY <3>1, <3>2, <3>3, <3>4 DEF Next
  <2>2. Types /\ Orderly
    BY <1>2, <2>1 DEF IInv
  <2>3. ASSUME NEW o \in Owner, NEW s \in Size, Allocate(o, s)
        PROVE  Orderly'
    BY <2>2, <2>3, OrderlyUnchanged DEF Allocate
  <2>4. ASSUME NEW o \in Owner, NEW s \in Size, Reallocate(o, s)
        PROVE  Orderly'
    BY <1>2, <2>2, <2>4, ReallocateOrderly
  <2>5. ASSUME NEW o \in Owner, Free(o)
        PROVE  Orderly'
    BY <2>2, <2>5, FreeOrderly
  <2>6. CASE Append
    BY <2>2, <2>6, AppendOrderly
  <2>7. CASE BeginSearch \/ InUse \/ NotFound \/ GoAstray
    BY <2>2, <2>7, OrderlyUnchanged DEF BeginSearch, InUse, NotFound, GoAstray
  <2>8. CASE TooSmall
    BY <1>2, <2>2, <2>8, TooSmallOrderly
  <2>9. ~Found
    BY <1>2 DEF Found
  <2>10. CASE UNCHANGED vars
    BY <2>2, <2>10, OrderlyUnchanged DEF vars
  <2> QED
    BY <2>3, <2>4, <2>5, <2>6, <2>7, <2>8, <2>9, <2>10 DEF Next, PlaceObject
<1> QED
  BY <1>1, <1>2 DEF IInv

LEMMA IInvAlways == Spec => []IInv
BY InitIInv, StepIInv, PTL DEF Spec

(* Every call leaves the allocator's variables in their ranges.            *)
THEOREM TypeCorrect == Spec => []TypeOK
<1>1. IInv => TypeOK
  BY DEF IInv, Types, ListOK, OwnedOK, CallOK, FlagsOK, TypeOK
<1> QED
  BY <1>1, IInvAlways, PTL

(* In any heap and for any number of pointers, TW_Allocate, TW_Reallocate  *)
(* and TW_Free hand out objects that lie in the heap, apart from all       *)
(* others and their headers and with clear marks, as long as no object was *)
(* said to reach to the heap's end.                                        *)
THEOREM ObjectsStayApart == Spec => []ObjectsAreApart
<1>1. ASSUME IInv, ~overrated
      PROVE  Disjoint /\ \A o \in Live : object[o] - Header \notin freed
  <2>1. Types /\ Orderly
    BY <1>1 DEF IInv
  <2>2. \A o \in Live : /\ object[o] \in Nat /\ size[o] \in Nat
                        /\ Rounded(size[o]) \in Nat /\ size[o] <= Rounded(size[o])
                        /\ object[o] - Header \in Nat
    BY <2>1, ObjectNumbers DEF Place
  <2>3. ASSUME NEW o \in Live PROVE Extent(o) \subseteq 0 .. Capacity - 1
    <3>1. object[o] + Rounded(size[o]) <= Capacity
      BY <2>1 DEF Orderly, BelowTail
    <3> QED
      BY <2>2, <3>1, HeapAssumption DEF Extent
  <2>4. ASSUME NEW o \in Live, NEW p \in Live, o # p PROVE Extent(o) \cap Extent(p) = {}
    <3>1. Apart(o, p)
      BY <2>1, <2>4 DEF Orderly, AllApart
    <3>2. ASSUME NEW a \in Extent(o), a \in Extent(p) PROVE FALSE
      <4>1. /\ a \in Int
            /\ object[o] - Header <= a /\ a <= object[o] + size[o] - 1
            /\ object[p] - Header <= a /\ a <= object[p] + size[p] - 1
        BY <2>2, <3>2, HeapAssumption DEF Extent
      <4> QED
        BY <2>2, <3>1, <4>1, HeapAssumption DEF Apart
    <3> QED
      BY <3>2
  <2> QED
    BY <2>1, <2>3, <2>4 DEF Disjoint, Orderly, LiveAreUnmarked
<1>2. IInv => ObjectsAreApart
  BY <1>1 DEF ObjectsAreApart
<1> QED
  BY <1>2, IInvAlways, PTL
=============================================================================
