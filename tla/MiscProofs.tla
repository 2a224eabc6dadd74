----------------------------- MODULE MiscProofs -----------------------------
(***************************************************************************)
(* The routines of ppc/misc.S, each kind for itself.                       *)
(*                                                                         *)
(* For any set of words, any functions in the shape of NewValue and Reply, *)
(* and any nesting of interrupts, the lwarx/stwcx. loops are atomic:       *)
(* ReservationIsFresh is inductive, and with it every step of Reservation  *)
(* is a step of AtomicWord or leaves its state alone.                      *)
(*                                                                         *)
(* For a memory of any size and bytes of any kind, TW_CopyBytes moves,     *)
(* however its source and destination overlap, and TW_FillBytes fills what *)
(* it is given and nothing else.  Each loop has its invariant: what lies   *)
(* behind it is done, what lies before it is as the call found it, and so  *)
(* is the byte it reads next.                                              *)
(*                                                                         *)
(* For a memory and cache lines of any size, TW_SyncAfterWrite and         *)
(* TW_SyncBeforeRead do what they are for, whatever the processor loads    *)
(* and writes back meanwhile.                                              *)
(***************************************************************************)
EXTENDS Reservation, Bytes, DataCache, TLAPS

-----------------------------------------------------------------------------
(* Reservation                                                             *)

(* The inductive invariant.  TypeOK alone does not exclude a reservation   *)
(* left over from before an interrupt; ReservationIsFresh does, and needs  *)
(* the types only to know that a store puts a Word back.                   *)
IInv == TypeOK /\ ReservationIsFresh

(* The loops start without a reservation and with every flow idle.         *)
LEMMA InitIInv == Init => IInv
<1> SUFFICES ASSUME Init PROVE IInv
  OBVIOUS
<1>1. 1 \in Level
  BY LevelAssumption DEF Level
<1>2. reserved = FALSE
  BY DEF Init
<1> QED
  BY <1>1, <1>2, OpAssumption DEF Init, IInv, TypeOK, ReservationIsFresh

(* Every instruction, store, interrupt and return keeps the types and the  *)
(* freshness of the reservation.                                           *)
LEMMA StepIInv == IInv /\ [Next]_vars => IInv'
<1> SUFFICES ASSUME IInv, [Next]_vars PROVE IInv'
  OBVIOUS
<1> USE LevelAssumption, OpAssumption DEF IInv, TypeOK, ReservationIsFresh, Level
<1>1. ASSUME NEW o \in Op, Invoke(o) PROVE IInv'
  BY <1>1 DEF Invoke
<1>2. CASE Lwarx
  BY <1>2 DEF Lwarx
<1>3. CASE StwcxSucceeds
  <2>1. op[level] \in Op
    BY <1>3 DEF StwcxSucceeds
  <2>2. NewValue(op[level], loaded[level]) \in Word
    BY <2>1
  <2> QED
    BY <1>3, <2>2 DEF StwcxSucceeds
<1>4. CASE StwcxFails
  BY <1>4 DEF StwcxFails
<1>5. CASE Blr
  BY <1>5 DEF Blr
<1>6. ASSUME NEW w \in Word, PlainStore(w) PROVE IInv'
  BY <1>6 DEF PlainStore
<1>7. CASE Interrupt
  <2>1. level' \in Level
    BY <1>7 DEF Interrupt
  <2>2. reserved' = FALSE
    BY <1>7 DEF Interrupt
  <2> QED
    BY <1>7, <2>1, <2>2, Zenon DEF Interrupt
<1>8. CASE ReturnFromInterrupt
  BY <1>8 DEF ReturnFromInterrupt
<1>9. CASE UNCHANGED vars
  BY <1>9 DEF vars
<1> QED
  BY <1>1, <1>2, <1>3, <1>4, <1>5, <1>6, <1>7, <1>8, <1>9 DEF Next, Instruction

(* The invariant holds in every state.                                     *)
LEMMA InvariantHolds == Spec => []IInv
  BY InitIInv, StepIInv, PTL DEF Spec

(* The registers of every flow and the word stay within their types.       *)
THEOREM TypeCorrect == Spec => []TypeOK
  BY InvariantHolds, PTL DEF IInv

(* A store that takes effect replaces the value its flow loaded: the       *)
(* reservation that allows it is dropped by every interrupt in between.    *)
THEOREM StoresAreFresh == Spec => []ReservationIsFresh
  BY InvariantHolds, PTL DEF IInv

(* The initial states are initial states of AtomicWord.                    *)
LEMMA InitImplements == Init => Atomic!Init
  BY DEF Init, Atomic!Init, Level, Atomic!Level, Answer

(* Each step is a step of AtomicWord: a call starts an operation, the      *)
(* successful stwcx. is its whole effect, blr ends it, a plain store is a  *)
(* store, and every other instruction, an interrupt and its return are     *)
(* invisible.                                                              *)
LEMMA StepImplements == IInv /\ [Next]_vars => [Atomic!Next]_(Atomic!vars)
<1> SUFFICES ASSUME IInv, [Next]_vars PROVE [Atomic!Next]_(Atomic!vars)
  OBVIOUS
<1> USE LevelAssumption, OpAssumption DEF IInv, TypeOK
<1>0. level \in Atomic!Level
  BY DEF Level, Atomic!Level
<1>1. ASSUME NEW o \in Op, Invoke(o) PROVE Atomic!Invoke(level, o)
  <2>1. Answer' = Answer
    BY <1>1 DEF Invoke, Answer
  <2> QED
    BY <1>1, <2>1 DEF Invoke, Atomic!Invoke
<1>2. CASE Lwarx
  <2>1. Answer' = Answer
    BY <1>2 DEF Lwarx, Answer
  <2> QED
    BY <1>2, <2>1 DEF Lwarx, Atomic!vars
<1>3. CASE StwcxSucceeds
  <2>1. op[level] # NoOp
    BY <1>3 DEF StwcxSucceeds
  <2>2. word' = NewValue(op[level], word) /\ loaded[level] = word
    BY <1>3 DEF StwcxSucceeds, ReservationIsFresh
  <2>3. Answer[level] = NoReply
    BY <1>3 DEF StwcxSucceeds, Answer
  <2>4. Answer' = [Answer EXCEPT ![level] = Reply(op[level], word)]
    BY <1>3, <2>2 DEF StwcxSucceeds, Answer
  <2>5. Atomic!Commit(level)
    BY <1>3, <2>1, <2>2, <2>3, <2>4 DEF StwcxSucceeds, Atomic!Commit
  <2> QED
    BY <2>5, <1>0 DEF Atomic!Next
<1>4. CASE StwcxFails
  <2>1. Answer' = Answer
    BY <1>4 DEF StwcxFails, Answer
  <2> QED
    BY <1>4, <2>1 DEF StwcxFails, Atomic!vars
<1>5. CASE Blr
  <2>1. op[level] \in Op
    BY <1>5 DEF Blr
  <2>2. Answer[level] # NoReply
    BY <1>5, <2>1 DEF Blr, Answer
  <2>3. Answer' = [Answer EXCEPT ![level] = NoReply]
    BY <1>5 DEF Blr, Answer
  <2>4. Atomic!Finish(level)
    BY <1>5, <2>2, <2>3 DEF Blr, Atomic!Finish
  <2> QED
    BY <2>4, <1>0 DEF Atomic!Next
<1>6. ASSUME NEW w \in Word, PlainStore(w) PROVE Atomic!Store(w)
  BY <1>6 DEF PlainStore, Atomic!Store, Answer
<1>7. CASE Interrupt
  BY <1>7 DEF Interrupt, Atomic!vars, Answer
<1>8. CASE ReturnFromInterrupt
  BY <1>8 DEF ReturnFromInterrupt, Atomic!vars, Answer
<1>9. CASE UNCHANGED vars
  BY <1>9 DEF vars, Atomic!vars, Answer
<1> QED
  BY <1>1, <1>2, <1>3, <1>4, <1>5, <1>6, <1>7, <1>8, <1>9, <1>0
     DEF Next, Instruction, Atomic!Next

(* The loops of misc.S implement atomic operations on the word.            *)
THEOREM LoopsAreAtomic == Spec => ImplementsAtomicWord
  BY InvariantHolds, InitImplements, StepImplements, PTL
     DEF Spec, ImplementsAtomicWord, Atomic!Spec

-----------------------------------------------------------------------------
(* Bytes                                                                   *)

MemoryOK ==
    /\ mem \in [Address -> Byte]
    /\ old \in [Address -> Byte]

(* The arguments of a call that copies.                                    *)
Copying ==
    /\ call.dst \in Address
    /\ call.src \in Address
    /\ call.len \in Nat
    /\ call.dst + call.len <= Addresses
    /\ call.src + call.len <= Addresses

(* The bytes from a to b have arrived, and no others.                      *)
Arrived(a, b) ==
    \A x \in Address :
        mem[x] = IF a <= x /\ x <= b THEN old[call.src + (x - call.dst)] ELSE old[x]

ForwardOK ==
    at = "forward" =>
        /\ Copying
        /\ GoesForward(call.dst, call.src, call.len)
        /\ to \in Int
        /\ call.dst - 1 <= to
        /\ to < call.dst - 1 + call.len
        /\ from = call.src + (to - call.dst)
        /\ end = call.dst - 1 + call.len
        /\ Arrived(call.dst, to)

BackwardOK ==
    at = "backward" =>
        /\ Copying
        /\ call.src < call.dst
        /\ to \in Int
        /\ call.dst < to
        /\ to <= call.dst + call.len
        /\ from = call.src + (to - call.dst)
        /\ end = call.dst
        /\ Arrived(to, call.dst + call.len - 1)

CopiedOK ==
    at = "copied" => Copying /\ Arrived(call.dst, call.dst + call.len - 1)

(* The bytes from the destination to b hold the byte of the fill.          *)
FilledTo(b) ==
    \A x \in Address :
        mem[x] = IF call.dst <= x /\ x <= b THEN call.src ELSE old[x]

FillOK ==
    at = "fill" =>
        /\ call.dst \in Address
        /\ call.len \in Nat
        /\ call.dst + call.len <= Addresses
        /\ call.src \in Byte
        /\ to \in Int
        /\ call.dst - 1 <= to
        /\ to = call.dst - 1 \/ to < call.dst - 1 + call.len
        /\ from = call.src
        /\ end = call.dst - 1 + call.len
        /\ FilledTo(to)

FilledOK ==
    at = "filled" =>
        /\ call.dst \in Address
        /\ call.len \in Nat
        /\ FilledTo(IF call.len = 0 THEN call.dst ELSE call.dst + call.len - 1)

BytesInv ==
    /\ MemoryOK
    /\ ForwardOK
    /\ BackwardOK
    /\ CopiedOK
    /\ FillOK
    /\ FilledOK

(* A call that copies begins with nothing arrived.                         *)
LEMMA CopyBytesKeeps ==
    ASSUME BytesInv, NEW dst \in Address, NEW src \in Address, NEW len \in 0 .. Addresses,
           Inside(dst, len), Inside(src, len), CopyBytes(dst, src, len)
    PROVE  BytesInv'
<1>. USE BytesAssumption DEF Address
<1>1. MemoryOK' BY DEF BytesInv, MemoryOK, CopyBytes, Begin
<1>2. Copying' /\ call'.dst = dst /\ call'.src = src /\ call'.len = len
  BY DEF Copying, CopyBytes, Begin, Inside
<1>3. mem' = mem /\ old' = mem BY DEF CopyBytes, Begin
<1>4. CASE len = 0 \/ dst = src
  <2>1. at' = "copied" BY <1>4 DEF CopyBytes, Begin
  <2>2. Arrived(call.dst, call.dst + call.len - 1)'
    BY <1>2, <1>3, <1>4 DEF Arrived
  <2>. QED BY <1>1, <1>2, <2>1, <2>2
       DEF BytesInv, ForwardOK, BackwardOK, CopiedOK, FillOK, FilledOK
<1>5. CASE ~(len = 0 \/ dst = src) /\ GoesForward(dst, src, len)
  <2>1. /\ at' = "forward"
        /\ to' = dst - 1
        /\ from' = src - 1
        /\ end' = dst - 1 + len
    BY <1>5 DEF CopyBytes, Begin
  <2>2. Arrived(call.dst, to)' BY <1>2, <1>3, <2>1 DEF Arrived
  <2>3. ForwardOK' BY <1>2, <1>5, <2>1, <2>2 DEF ForwardOK, GoesForward
  <2>. QED BY <1>1, <2>1, <2>3
       DEF BytesInv, BackwardOK, CopiedOK, FillOK, FilledOK
<1>6. CASE ~(len = 0 \/ dst = src) /\ ~GoesForward(dst, src, len)
  <2>1. /\ at' = "backward"
        /\ to' = dst + len
        /\ from' = src + len
        /\ end' = dst
    BY <1>6 DEF CopyBytes, Begin
  <2>2. Arrived(to, call.dst + call.len - 1)' BY <1>2, <1>3, <2>1 DEF Arrived
  <2>3. BackwardOK' BY <1>2, <1>6, <2>1, <2>2 DEF BackwardOK, GoesForward
  <2>. QED BY <1>1, <2>1, <2>3
       DEF BytesInv, ForwardOK, CopiedOK, FillOK, FilledOK
<1>. QED BY <1>4, <1>5, <1>6

(* The byte that is read next has not been written over, since the         *)
(* destination lies below the source, or past all of it.                   *)
LEMMA ForwardKeeps == BytesInv /\ Forward => BytesInv'
<1>. SUFFICES ASSUME BytesInv, Forward PROVE BytesInv' OBVIOUS
<1>. USE BytesAssumption DEF Address
<1>1. /\ Copying /\ GoesForward(call.dst, call.src, call.len)
      /\ to \in Int /\ call.dst - 1 <= to /\ to < call.dst - 1 + call.len
      /\ from = call.src + (to - call.dst)
      /\ end = call.dst - 1 + call.len
      /\ Arrived(call.dst, to)
  BY DEF BytesInv, ForwardOK, Forward
<1>2. /\ mem' = [mem EXCEPT ![to + 1] = mem[from + 1]]
      /\ to' = to + 1 /\ from' = from + 1 /\ end' = end
      /\ call' = call /\ old' = old
      /\ at' = IF to + 1 < end THEN "forward" ELSE "copied"
  BY DEF Forward
<1>3. to + 1 \in Address /\ from + 1 \in Address
  BY <1>1 DEF Copying
<1>4. MemoryOK' BY <1>2, <1>3 DEF BytesInv, MemoryOK
<1>5. mem[from + 1] = old[call.src + (to + 1 - call.dst)]
  <2>1. ~(call.dst <= from + 1 /\ from + 1 <= to)
    BY <1>1 DEF GoesForward, Copying
  <2>2. mem[from + 1] = old[from + 1] BY <1>1, <1>3, <2>1 DEF Arrived
  <2>. QED BY <1>1, <2>2 DEF Copying
<1>6. Arrived(call.dst, to)'
  <2>. SUFFICES ASSUME NEW x \in Address
       PROVE mem'[x] = IF call.dst <= x /\ x <= to + 1
                       THEN old[call.src + (x - call.dst)] ELSE old[x]
    BY <1>2 DEF Arrived
  <2>1. CASE x = to + 1
    <3>1. mem'[x] = mem[from + 1] BY <2>1, <1>2, <1>3 DEF BytesInv, MemoryOK
    <3>. QED BY <3>1, <2>1, <1>1, <1>5 DEF Copying
  <2>2. CASE x # to + 1
    <3>1. mem'[x] = mem[x] BY <2>2, <1>2, <1>3 DEF BytesInv, MemoryOK
    <3>. QED BY <3>1, <2>2, <1>1 DEF Arrived, Copying
  <2>. QED BY <2>1, <2>2
<1>7. ForwardOK' BY <1>1, <1>2, <1>6 DEF ForwardOK, Copying
<1>8. CopiedOK'
  <2>. SUFFICES ASSUME at' = "copied" PROVE CopiedOK' BY DEF CopiedOK
  <2>1. to' = call.dst + call.len - 1 BY <1>1, <1>2 DEF Copying
  <2>. QED BY <1>1, <1>2, <1>6, <2>1 DEF CopiedOK, Copying, Arrived
<1>. QED BY <1>2, <1>4, <1>7, <1>8 DEF BytesInv, BackwardOK, FillOK, FilledOK

(* From the end, the byte that is read next lies below all that is written.*)
LEMMA BackwardKeeps == BytesInv /\ Backward => BytesInv'
<1>. SUFFICES ASSUME BytesInv, Backward PROVE BytesInv' OBVIOUS
<1>. USE BytesAssumption DEF Address
<1>1. /\ Copying /\ call.src < call.dst
      /\ to \in Int /\ call.dst < to /\ to <= call.dst + call.len
      /\ from = call.src + (to - call.dst)
      /\ end = call.dst
      /\ Arrived(to, call.dst + call.len - 1)
  BY DEF BytesInv, BackwardOK, Backward
<1>2. /\ mem' = [mem EXCEPT ![to - 1] = mem[from - 1]]
      /\ to' = to - 1 /\ from' = from - 1 /\ end' = end
      /\ call' = call /\ old' = old
      /\ at' = IF to - 1 > end THEN "backward" ELSE "copied"
  BY DEF Backward
<1>3. to - 1 \in Address /\ from - 1 \in Address
  BY <1>1 DEF Copying
<1>4. MemoryOK' BY <1>2, <1>3 DEF BytesInv, MemoryOK
<1>5. mem[from - 1] = old[call.src + (to - 1 - call.dst)]
  <2>1. ~(to <= from - 1) BY <1>1 DEF Copying
  <2>2. mem[from - 1] = old[from - 1] BY <1>1, <1>3, <2>1 DEF Arrived
  <2>. QED BY <1>1, <2>2 DEF Copying
<1>6. Arrived(to, call.dst + call.len - 1)'
  <2>. SUFFICES ASSUME NEW x \in Address
       PROVE mem'[x] = IF to - 1 <= x /\ x <= call.dst + call.len - 1
                       THEN old[call.src + (x - call.dst)] ELSE old[x]
    BY <1>2 DEF Arrived
  <2>1. CASE x = to - 1
    <3>1. mem'[x] = mem[from - 1] BY <2>1, <1>2, <1>3 DEF BytesInv, MemoryOK
    <3>. QED BY <3>1, <2>1, <1>1, <1>5 DEF Copying
  <2>2. CASE x # to - 1
    <3>1. mem'[x] = mem[x] BY <2>2, <1>2, <1>3 DEF BytesInv, MemoryOK
    <3>. QED BY <3>1, <2>2, <1>1 DEF Arrived, Copying
  <2>. QED BY <2>1, <2>2
<1>7. BackwardOK' BY <1>1, <1>2, <1>6 DEF BackwardOK, Copying
<1>8. CopiedOK'
  <2>. SUFFICES ASSUME at' = "copied" PROVE CopiedOK' BY DEF CopiedOK
  <2>1. ~(to - 1 > end) BY <1>2
  <2>2. call.dst \in Int BY <1>1 DEF Copying
  <2>3. to' = call.dst BY <1>1, <1>2, <2>1, <2>2
  <2>. QED BY <1>1, <1>2, <1>6, <2>3 DEF CopiedOK, Copying, Arrived
<1>. QED BY <1>2, <1>4, <1>7, <1>8 DEF BytesInv, ForwardOK, FillOK, FilledOK

(* A fill begins with nothing filled.                                      *)
LEMMA FillBytesKeeps ==
    ASSUME BytesInv, NEW dst \in Address, NEW byte \in Byte, NEW len \in 0 .. Addresses,
           Inside(dst, len), FillBytes(dst, byte, len)
    PROVE  BytesInv'
<1>. USE BytesAssumption DEF Address
<1>1. MemoryOK' BY DEF BytesInv, MemoryOK, FillBytes, Begin
<1>2. /\ at' = "fill" /\ mem' = mem /\ old' = mem
      /\ call'.dst = dst /\ call'.src = byte /\ call'.len = len
      /\ to' = dst - 1 /\ from' = byte /\ end' = dst - 1 + len
  BY DEF FillBytes, Begin
<1>3. FilledTo(to)' BY <1>2 DEF FilledTo
<1>4. FillOK' BY <1>2, <1>3 DEF FillOK, Inside
<1>. QED BY <1>1, <1>2, <1>4 DEF BytesInv, ForwardOK, BackwardOK, CopiedOK, FilledOK

LEMMA FillKeeps == BytesInv /\ Fill => BytesInv'
<1>. SUFFICES ASSUME BytesInv, Fill PROVE BytesInv' OBVIOUS
<1>. USE BytesAssumption DEF Address
<1>1. /\ call.dst \in Address /\ call.len \in Nat
      /\ call.dst + call.len <= Addresses /\ call.src \in Byte
      /\ to \in Int /\ call.dst - 1 <= to
      /\ to = call.dst - 1 \/ to < call.dst - 1 + call.len
      /\ from = call.src
      /\ end = call.dst - 1 + call.len
      /\ FilledTo(to)
  BY DEF BytesInv, FillOK, Fill
<1>2. /\ mem' = [mem EXCEPT ![to + 1] = from]
      /\ to' = to + 1 /\ from' = from /\ end' = end
      /\ call' = call /\ old' = old
      /\ at' = IF to + 1 < end THEN "fill" ELSE "filled"
  BY DEF Fill
<1>3. to + 1 \in Address BY <1>1
<1>4. MemoryOK' BY <1>1, <1>2, <1>3 DEF BytesInv, MemoryOK
<1>5. FilledTo(to)'
  <2>. SUFFICES ASSUME NEW x \in Address
       PROVE mem'[x] = IF call.dst <= x /\ x <= to + 1 THEN call.src ELSE old[x]
    BY <1>2 DEF FilledTo
  <2>1. CASE x = to + 1
    <3>1. mem'[x] = call.src BY <2>1, <1>1, <1>2, <1>3 DEF BytesInv, MemoryOK
    <3>. QED BY <3>1, <2>1, <1>1
  <2>2. CASE x # to + 1
    <3>1. mem'[x] = mem[x] BY <2>2, <1>2, <1>3 DEF BytesInv, MemoryOK
    <3>. QED BY <3>1, <2>2, <1>1 DEF FilledTo
  <2>. QED BY <2>1, <2>2
<1>6. FillOK' BY <1>1, <1>2, <1>5 DEF FillOK
<1>7. FilledOK'
  <2>. SUFFICES ASSUME at' = "filled" PROVE FilledOK' BY DEF FilledOK
  <2>1. to' = IF call.len = 0 THEN call.dst ELSE call.dst + call.len - 1
    BY <1>1, <1>2
  <2>. QED BY <1>1, <1>2, <1>5, <2>1 DEF FilledOK, FilledTo
<1>. QED BY <1>2, <1>4, <1>6, <1>7 DEF BytesInv, ForwardOK, BackwardOK, CopiedOK

LEMMA BytesInvHolds == BytesSpec => []BytesInv
<1>1. BytesInit => BytesInv
  BY DEF BytesInit, BytesInv, MemoryOK, ForwardOK, BackwardOK, CopiedOK, FillOK, FilledOK
<1>2. BytesInv /\ [BytesNext]_bytesVars => BytesInv'
  <2>. SUFFICES ASSUME BytesInv, [BytesNext]_bytesVars PROVE BytesInv' OBVIOUS
  <2>1. CASE \E dst, src \in Address, len \in 0 .. Addresses :
               Inside(dst, len) /\ Inside(src, len) /\ CopyBytes(dst, src, len)
    BY <2>1, CopyBytesKeeps
  <2>2. CASE \E dst \in Address, byte \in Byte, len \in 0 .. Addresses :
               Inside(dst, len) /\ FillBytes(dst, byte, len)
    BY <2>2, FillBytesKeeps
  <2>3. CASE Forward BY <2>3, ForwardKeeps
  <2>4. CASE Backward BY <2>4, BackwardKeeps
  <2>5. CASE Fill BY <2>5, FillKeeps
  <2>6. CASE Return
    BY <2>6 DEF Return, BytesInv, MemoryOK, ForwardOK, BackwardOK, CopiedOK, FillOK, FilledOK
  <2>7. CASE UNCHANGED bytesVars
    BY <2>7 DEF bytesVars, BytesInv, MemoryOK, ForwardOK, BackwardOK, CopiedOK, FillOK,
                FilledOK, Copying, Arrived, FilledTo
  <2>. QED BY <2>1, <2>2, <2>3, <2>4, <2>5, <2>6, <2>7 DEF BytesNext
<1>. QED BY <1>1, <1>2, PTL DEF BytesSpec

(* TW_CopyBytes is memmove: whatever the addresses and the length, the     *)
(* bytes that arrive are those the call found, and no other is touched.    *)
THEOREM CopyIsMove == BytesSpec => []CopiesAreMoves
<1>1. BytesInv => CopiesAreMoves
  <2>. SUFFICES ASSUME BytesInv, at = "copied" PROVE mem = Moved BY DEF CopiesAreMoves
  <2>. USE BytesAssumption DEF Address
  <2>1. Copying /\ Arrived(call.dst, call.dst + call.len - 1) BY DEF BytesInv, CopiedOK
  <2>2. \A x \in Address : mem[x] = Moved[x]
    BY <2>1 DEF Moved, Target, Arrived, Copying
  <2>3. mem = [x \in Address |-> mem[x]] BY DEF BytesInv, MemoryOK
  <2>4. Moved = [x \in Address |-> Moved[x]] BY DEF Moved
  <2>. QED BY <2>2, <2>3, <2>4
<1>. QED BY <1>1, BytesInvHolds, PTL

(* TW_FillBytes fills the bytes it is given, one if it is given none, and  *)
(* no other.                                                               *)
THEOREM FillIsExact == BytesSpec => []FillsStayInside
<1>1. BytesInv => FillsStayInside
  <2>. SUFFICES ASSUME BytesInv, at = "filled" PROVE mem = Filled BY DEF FillsStayInside
  <2>. USE BytesAssumption DEF Address
  <2>1. /\ call.dst \in Address /\ call.len \in Nat
        /\ FilledTo(IF call.len = 0 THEN call.dst ELSE call.dst + call.len - 1)
    BY DEF BytesInv, FilledOK
  <2>2. \A x \in Address : mem[x] = Filled[x] BY <2>1 DEF Filled, Target, FilledTo
  <2>3. mem = [x \in Address |-> mem[x]] BY DEF BytesInv, MemoryOK
  <2>4. Filled = [x \in Address |-> Filled[x]] BY DEF Filled
  <2>. QED BY <2>2, <2>3, <2>4
<1>. QED BY <1>1, BytesInvHolds, PTL

-----------------------------------------------------------------------------
(* DataCache                                                               *)

(* The loop has the lines of the buffer before it, and leaves none out.    *)
LoopOK ==
    /\ line \in Nat /\ endLine \in Nat
    /\ buffer \subseteq Cell
    /\ phase = "idle" => buffer = {}
    /\ \A c \in buffer : LineOf(c) < endLine
    /\ phase = "device" => \A c \in buffer : LineOf(c) >= line
    /\ phase \in {"handed", "filled"} => line = endLine

LinesOK ==
    /\ phase \in {"idle", "flushing", "handed", "device", "dropping", "filled"}
    /\ spoiled \in BOOLEAN
    /\ ram \in [Cell -> Value]
    /\ state \in [Line -> States]
    /\ cached \in [Cell -> Value]
    /\ stored \in [Cell -> Value]

(* Memory that a device has, or has had and the loop has not come to.      *)
Out(c) == c \in buffer /\ phase \in {"device", "dropping", "filled"}

(* A clean line is as it is in memory, except where a device has filled it *)
(* and the loop has not come to it.                                        *)
CleanOK ==
    \A c \in Cell :
        state[LineOf(c)] = "clean" =>
            cached[c] = ram[c] \/ (phase = "dropping" /\ c \in buffer /\ LineOf(c) >= line)

(* What is no device's reads as it was stored.                             *)
StoredOK == \A c \in Cell : ~Out(c) => Viewed[c] = stored[c]

(* Behind the loop of TW_SyncAfterWrite, memory is as it was stored.       *)
FlushedOK ==
    phase \in {"flushing", "handed"} =>
        \A c \in buffer : LineOf(c) < line => ram[c] = stored[c]

(* A buffer that was not spoiled is nowhere dirty, *)
DeviceOK ==
    phase = "device" /\ ~spoiled => \A c \in buffer : state[LineOf(c)] # "dirty"

(* and reads as the device filled it behind the loop of TW_SyncBeforeRead. *)
AnswerOK ==
    phase \in {"dropping", "filled"} /\ ~spoiled =>
        \A c \in buffer :
            IF LineOf(c) < line
            THEN Viewed[c] = "device"
            ELSE state[LineOf(c)] # "dirty" /\ ram[c] = "device"

CacheInv ==
    /\ LoopOK
    /\ LinesOK
    /\ CleanOK
    /\ StoredOK
    /\ FlushedOK
    /\ DeviceOK
    /\ AnswerOK

LEMMA LineFacts == \A c \in Cell : LineOf(c) \in Nat /\ LineOf(c) \in Line
BY CacheAssumption DEF Cell, Line, LineOf

LEMMA LoopEnds ==
    ASSUME NEW ptr \in Cell, NEW size \in 1 .. Cells, ptr + size <= Cells
    PROVE  /\ LineOf(ptr) \in Nat
           /\ PastTheEnd(ptr, size) \in Nat
           /\ ptr .. ptr + size - 1 \subseteq Cell
           /\ \A c \in ptr .. ptr + size - 1 :
                  LineOf(ptr) <= LineOf(c) /\ LineOf(c) < PastTheEnd(ptr, size)
<1>1. ptr .. ptr + size - 1 \subseteq Cell BY CacheAssumption DEF Cell
<1>2. LineOf(ptr) \in Nat /\ PastTheEnd(ptr, size) \in Nat
  BY CacheAssumption DEF Cell, LineOf, PastTheEnd
<1>3. ASSUME NEW c \in ptr .. ptr + size - 1 PROVE LineOf(ptr) <= LineOf(c)
  BY CacheAssumption DEF Cell, LineOf
<1>4. ASSUME NEW c \in ptr .. ptr + size - 1 PROVE LineOf(c) < PastTheEnd(ptr, size)
  BY CacheAssumption DEF Cell, LineOf, PastTheEnd
<1>. QED BY <1>1, <1>2, <1>3, <1>4

-----------------------------------------------------------------------------
(* What each operation on a line does to a cell and to how it reads.       *)

LEMMA Reads ==
    ASSUME NEW c \in Cell, LinesOK
    PROVE  /\ ram[c] \in Value
           /\ state[LineOf(c)] \in States
           /\ Viewed[c] = IF state[LineOf(c)] = "absent" THEN ram[c] ELSE cached[c]
BY LineFacts DEF LinesOK, Viewed

LEMMA DropEffect ==
    ASSUME LinesOK, NEW l, Drop(l)
    PROVE  /\ state' \in [Line -> States]
           /\ cached' \in [Cell -> Value]
           /\ \A c \in Cell :
                IF LineOf(c) = l
                THEN state'[LineOf(c)] = "absent"
                ELSE state'[LineOf(c)] = state[LineOf(c)] /\ cached'[c] = cached[c]
BY LineFacts DEF LinesOK, Drop, Overlaid, Nothing, States, Value

LEMMA FlushEffect ==
    ASSUME LinesOK, NEW l, Flush(l)
    PROVE  /\ ram' \in [Cell -> Value]
           /\ state' \in [Line -> States]
           /\ cached' \in [Cell -> Value]
           /\ \A c \in Cell :
                IF LineOf(c) = l
                THEN /\ state'[LineOf(c)] = "absent"
                     /\ ram'[c] = IF state[LineOf(c)] = "dirty" THEN cached[c] ELSE ram[c]
                     /\ Viewed'[c] = ram'[c]
                ELSE /\ state'[LineOf(c)] = state[LineOf(c)]
                     /\ ram'[c] = ram[c]
                     /\ cached'[c] = cached[c]
                     /\ Viewed'[c] = Viewed[c]
<1>1. Drop(l) BY DEF Flush
<1>2. /\ ram' \in [Cell -> Value]
      /\ \A c \in Cell :
            IF LineOf(c) = l
            THEN ram'[c] = IF state[LineOf(c)] = "dirty" THEN cached[c] ELSE ram[c]
            ELSE ram'[c] = ram[c]
  BY DEF LinesOK, Flush, Overlaid
<1>. QED BY <1>1, <1>2, DropEffect DEF Viewed

-----------------------------------------------------------------------------
LEMMA CacheInitInv == CacheInit => CacheInv
<1>. SUFFICES ASSUME CacheInit PROVE CacheInv OBVIOUS
<1>1. LinesOK BY DEF LinesOK, CacheInit, Nothing, Value, States
<1>2. LoopOK BY DEF LoopOK, CacheInit
<1>3. \A c \in Cell : state[LineOf(c)] = "absent" BY LineFacts DEF CacheInit
<1>4. CleanOK BY <1>3 DEF CleanOK
<1>5. StoredOK BY <1>3 DEF StoredOK, Viewed, CacheInit
<1>. QED BY <1>1, <1>2, <1>4, <1>5
     DEF CacheInv, FlushedOK, DeviceOK, AnswerOK, CacheInit

LEMMA EvictKeeps == CacheInv /\ Evict => CacheInv'
<1>. SUFFICES ASSUME CacheInv, Evict PROVE CacheInv' OBVIOUS
<1>1. PICK l \in Line : Flush(l) BY DEF Evict
<1>2. /\ phase' = phase /\ buffer' = buffer /\ line' = line /\ endLine' = endLine
      /\ stored' = stored /\ spoiled' = spoiled
  BY DEF Evict, loop
<1>3. LinesOK /\ LinesOK' BY <1>1, <1>2, FlushEffect DEF CacheInv, LinesOK
<1>4. LoopOK' BY <1>2 DEF CacheInv, LoopOK
<1>5. CleanOK' BY <1>1, <1>2, <1>3, FlushEffect DEF CacheInv, CleanOK
<1>6. StoredOK'
  <2>. SUFFICES ASSUME NEW c \in Cell, ~Out(c), LineOf(c) = l
       PROVE  ram'[c] = stored[c]
    BY <1>1, <1>2, <1>3, FlushEffect DEF CacheInv, StoredOK, Out
  <2>1. Viewed[c] = stored[c] BY DEF CacheInv, StoredOK
  <2>2. state[LineOf(c)] = "clean" => cached[c] = ram[c]
    BY DEF CacheInv, CleanOK, Out
  <2>. QED BY <1>1, <1>3, <2>1, <2>2, Reads, FlushEffect DEF States
<1>7. FlushedOK'
  <2>. SUFFICES ASSUME phase \in {"flushing", "handed"},
                       NEW c \in buffer, LineOf(c) < line
       PROVE  ram'[c] = stored[c]
    BY <1>2 DEF FlushedOK
  <2>1. c \in Cell /\ ~Out(c) BY DEF CacheInv, LoopOK, Out
  <2>2. ram[c] = stored[c] /\ Viewed[c] = stored[c]
    BY <2>1 DEF CacheInv, FlushedOK, StoredOK
  <2>. QED BY <1>1, <1>3, <2>1, <2>2, Reads, FlushEffect
<1>8. DeviceOK'
  BY <1>1, <1>2, <1>3, FlushEffect DEF CacheInv, LoopOK, DeviceOK
<1>9. AnswerOK'
  <2>. SUFFICES ASSUME phase \in {"dropping", "filled"}, ~spoiled, NEW c \in buffer
       PROVE  IF LineOf(c) < line
              THEN Viewed'[c] = "device"
              ELSE state'[LineOf(c)] # "dirty" /\ ram'[c] = "device"
    BY <1>2 DEF AnswerOK
  <2>1. c \in Cell BY DEF CacheInv, LoopOK
  <2>2. IF LineOf(c) < line
        THEN Viewed[c] = "device"
        ELSE state[LineOf(c)] # "dirty" /\ ram[c] = "device"
    BY DEF CacheInv, AnswerOK
  <2>3. state[LineOf(c)] = "clean" /\ LineOf(c) < line => cached[c] = ram[c]
    BY <2>1, LineFacts DEF CacheInv, CleanOK, LoopOK
  <2>. QED BY <1>1, <1>3, <2>1, <2>2, <2>3, Reads, FlushEffect DEF States
<1>. QED BY <1>3, <1>4, <1>5, <1>6, <1>7, <1>8, <1>9 DEF CacheInv

(* A line that comes into the cache is clean.                              *)
LEMMA LoadKeeps == CacheInv /\ Load => CacheInv'
<1>. SUFFICES ASSUME CacheInv, Load PROVE CacheInv' OBVIOUS
<1>1. PICK l \in Line :
        /\ state[l] = "absent"
        /\ state' = [state EXCEPT ![l] = "clean"]
        /\ cached' = Overlaid(cached, l, ram)
  BY DEF Load
<1>2. /\ phase' = phase /\ buffer' = buffer /\ line' = line /\ endLine' = endLine
      /\ stored' = stored /\ spoiled' = spoiled /\ ram' = ram
  BY DEF Load, loop
<1>3. LinesOK /\ LinesOK'
  BY <1>1, <1>2 DEF CacheInv, LinesOK, Overlaid, States
<1>4. \A c \in Cell :
        /\ Viewed'[c] = Viewed[c]
        /\ state'[LineOf(c)] = IF LineOf(c) = l THEN "clean" ELSE state[LineOf(c)]
        /\ cached'[c] = IF LineOf(c) = l THEN ram[c] ELSE cached[c]
  BY <1>1, <1>2, <1>3, LineFacts DEF LinesOK, Overlaid, Viewed
<1>5. LoopOK' BY <1>2 DEF CacheInv, LoopOK
<1>6. CleanOK' BY <1>2, <1>4 DEF CacheInv, CleanOK
<1>7. StoredOK' BY <1>2, <1>4 DEF CacheInv, StoredOK, Out
<1>8. FlushedOK' BY <1>2 DEF CacheInv, FlushedOK
<1>9. buffer \subseteq Cell BY DEF CacheInv, LoopOK
<1>10. DeviceOK' BY <1>2, <1>4, <1>9 DEF CacheInv, DeviceOK
<1>11. AnswerOK' BY <1>2, <1>4, <1>9 DEF CacheInv, AnswerOK
<1>. QED BY <1>3, <1>5, <1>6, <1>7, <1>8, <1>10, <1>11 DEF CacheInv

(* A store dirties its line; where that line is a device's, the transfer   *)
(* is spoiled.                                                             *)
LEMMA StoreKeeps == CacheInv /\ Store => CacheInv'
<1>. SUFFICES ASSUME CacheInv, Store PROVE CacheInv' OBVIOUS
<1>1. PICK s \in Cell \ buffer :
        /\ cached' = [Overlaid(cached, LineOf(s), Viewed) EXCEPT ![s] = "program"]
        /\ state' = [state EXCEPT ![LineOf(s)] = "dirty"]
        /\ stored' = [stored EXCEPT ![s] = "program"]
        /\ spoiled' = (spoiled \/ LineOf(s) \in LinesOut)
  BY DEF Store
<1>2. /\ phase' = phase /\ buffer' = buffer /\ line' = line /\ endLine' = endLine
      /\ ram' = ram
  BY DEF Store, loop
<1>3. LinesOK BY DEF CacheInv
<1>4. \A c \in Cell : Viewed[c] \in Value BY <1>3 DEF LinesOK, Viewed
<1>5. LinesOK'
  <2>1. spoiled' \in BOOLEAN BY <1>1, <1>3, Zenon DEF LinesOK
  <2>2. state' \in [Line -> States] BY <1>1, <1>3 DEF LinesOK, States
  <2>3. cached' \in [Cell -> Value]
    BY <1>1, <1>3, <1>4 DEF LinesOK, Overlaid, Value
  <2>4. stored' \in [Cell -> Value] BY <1>1, <1>3 DEF LinesOK, Value
  <2>. QED BY <1>2, <1>3, <2>1, <2>2, <2>3, <2>4 DEF LinesOK
<1>6. \A c \in Cell :
        /\ state'[LineOf(c)] = IF LineOf(c) = LineOf(s) THEN "dirty" ELSE state[LineOf(c)]
        /\ LineOf(c) # LineOf(s) => cached'[c] = cached[c]
        /\ LineOf(c) = LineOf(s) /\ c # s => cached'[c] = Viewed[c]
        /\ c = s => cached'[c] = "program"
  BY <1>1, <1>3, LineFacts DEF LinesOK, Overlaid
<1>7. \A c \in Cell : Viewed'[c] = IF c = s THEN "program" ELSE Viewed[c]
  BY <1>2, <1>6 DEF Viewed
<1>8. buffer \subseteq Cell /\ s \notin buffer /\ s \in Cell
  BY <1>1 DEF CacheInv, LoopOK
<1>9. LoopOK' BY <1>2 DEF CacheInv, LoopOK
<1>10. CleanOK' BY <1>2, <1>6 DEF CacheInv, CleanOK
<1>11. StoredOK'
  BY <1>1, <1>2, <1>3, <1>7 DEF CacheInv, StoredOK, Out, LinesOK
<1>12. FlushedOK'
  BY <1>1, <1>2, <1>3, <1>8 DEF CacheInv, FlushedOK, LinesOK
<1>13. DeviceOK'
  <2>. SUFFICES ASSUME phase = "device", ~spoiled', NEW c \in buffer
       PROVE  state'[LineOf(c)] # "dirty"
    BY <1>2 DEF DeviceOK
  <2>1. ~spoiled /\ LineOf(s) # LineOf(c)
    BY <1>1 DEF LinesOut, BufferLines
  <2>. QED BY <1>6, <1>8, <2>1 DEF CacheInv, DeviceOK
<1>14. AnswerOK'
  <2>. SUFFICES ASSUME phase \in {"dropping", "filled"}, ~spoiled', NEW c \in buffer
       PROVE  IF LineOf(c) < line
              THEN Viewed'[c] = "device"
              ELSE state'[LineOf(c)] # "dirty" /\ ram[c] = "device"
    BY <1>2 DEF AnswerOK
  <2>1. ~spoiled BY <1>1
  <2>2. c \in Cell /\ c # s BY <1>8
  <2>3. ~(LineOf(c) < line) => phase = "dropping" /\ LineOf(c) >= line
    BY <2>2, LineFacts DEF CacheInv, LoopOK
  <2>4. ~(LineOf(c) < line) => LineOf(s) # LineOf(c)
    BY <1>1, <2>3 DEF LinesOut, BufferLines
  <2>. QED BY <1>6, <1>7, <2>1, <2>2, <2>4 DEF CacheInv, AnswerOK
<1>. QED BY <1>5, <1>9, <1>10, <1>11, <1>12, <1>13, <1>14 DEF CacheInv

LEMMA SyncAfterWriteKeeps ==
    ASSUME CacheInv, NEW ptr \in Cell, NEW size \in 1 .. Cells, ptr + size <= Cells,
           SyncAfterWrite(ptr, size)
    PROVE  CacheInv'
<1>1. /\ phase = "idle" /\ phase' = "flushing"
      /\ buffer' = ptr .. ptr + size - 1
      /\ line' = LineOf(ptr)
      /\ endLine' = PastTheEnd(ptr, size)
      /\ ram' = ram /\ state' = state /\ cached' = cached
      /\ stored' = stored /\ spoiled' = spoiled
  BY DEF SyncAfterWrite, BeginLoop, memory
<1>2. Viewed' = Viewed BY <1>1 DEF Viewed
<1>3. LoopOK' BY <1>1, LoopEnds DEF LoopOK
<1>4. LinesOK' BY <1>1 DEF CacheInv, LinesOK
<1>5. CleanOK' BY <1>1 DEF CacheInv, CleanOK
<1>6. StoredOK' BY <1>1, <1>2 DEF CacheInv, StoredOK, Out
<1>7. FlushedOK'
  BY <1>1, LineFacts, LoopEnds DEF FlushedOK
<1>. QED BY <1>1, <1>3, <1>4, <1>5, <1>6, <1>7 DEF CacheInv, DeviceOK, AnswerOK

(* The loop writes what was stored: dirty lines now, the others were       *)
(* written before.                                                         *)
LEMMA FlushLineKeeps == CacheInv /\ FlushLine => CacheInv'
<1>. SUFFICES ASSUME CacheInv, FlushLine PROVE CacheInv' OBVIOUS
<1>1. /\ phase = "flushing"
      /\ line' = line + 1
      /\ phase' = IF line + 1 = endLine THEN "handed" ELSE "flushing"
      /\ buffer' = buffer /\ endLine' = endLine /\ spoiled' = spoiled
      /\ stored' = stored
      /\ Flush(line)
  BY DEF FlushLine, Advance
<1>2. LinesOK /\ line \in Nat BY DEF CacheInv, LoopOK
<1>3. LinesOK' BY <1>1, <1>2, FlushEffect DEF LinesOK
<1>4. LoopOK' BY <1>1 DEF CacheInv, LoopOK
<1>5. \A c \in Cell : state[LineOf(c)] = "clean" => cached[c] = ram[c]
  BY <1>1 DEF CacheInv, CleanOK
<1>6. \A c \in Cell : Viewed[c] = stored[c]
  BY <1>1 DEF CacheInv, StoredOK, Out
<1>7. \A c \in Cell : LineOf(c) = line => ram'[c] = stored[c]
  BY <1>1, <1>2, <1>5, <1>6, Reads, FlushEffect DEF States
<1>8. CleanOK' BY <1>1, <1>2, <1>5, FlushEffect DEF CleanOK
<1>9. StoredOK' BY <1>1, <1>2, <1>6, <1>7, FlushEffect DEF StoredOK
<1>10. FlushedOK'
  <2>. SUFFICES ASSUME NEW c \in buffer, LineOf(c) < line + 1
       PROVE  ram'[c] = stored[c]
    BY <1>1 DEF FlushedOK
  <2>1. c \in Cell BY DEF CacheInv, LoopOK
  <2>2. LineOf(c) = line \/ LineOf(c) < line BY <1>2, <2>1, LineFacts
  <2>3. LineOf(c) < line => ram[c] = stored[c] BY <1>1 DEF CacheInv, FlushedOK
  <2>4. LineOf(c) # line => ram'[c] = ram[c] BY <1>1, <1>2, <2>1, FlushEffect
  <2>. QED BY <1>2, <1>7, <2>1, <2>2, <2>3, <2>4, LineFacts
<1>. QED BY <1>1, <1>3, <1>4, <1>8, <1>9, <1>10 DEF CacheInv, DeviceOK, AnswerOK

LEMMA DeviceTookKeeps == CacheInv /\ DeviceTook => CacheInv'
<1>. SUFFICES ASSUME CacheInv, DeviceTook PROVE CacheInv' OBVIOUS
<1>1. /\ phase = "handed" /\ phase' = "idle" /\ buffer' = {}
      /\ ram' = ram /\ state' = state /\ cached' = cached
      /\ line' = line /\ endLine' = endLine
      /\ stored' = stored /\ spoiled' = spoiled
  BY DEF DeviceTook, memory, loop
<1>2. Viewed' = Viewed BY <1>1 DEF Viewed
<1>3. LoopOK' /\ LinesOK' BY <1>1 DEF CacheInv, LoopOK, LinesOK
<1>4. CleanOK' BY <1>1 DEF CacheInv, CleanOK
<1>5. StoredOK' BY <1>1, <1>2 DEF CacheInv, StoredOK, Out
<1>. QED BY <1>1, <1>3, <1>4, <1>5 DEF CacheInv, FlushedOK, DeviceOK, AnswerOK

LEMMA AskDeviceKeeps ==
    ASSUME CacheInv, NEW ptr \in Cell, NEW size \in 1 .. Cells, ptr + size <= Cells,
           AskDevice(ptr, size)
    PROVE  CacheInv'
<1>1. /\ phase = "idle" /\ phase' = "device"
      /\ buffer' = ptr .. ptr + size - 1
      /\ line' = LineOf(ptr)
      /\ endLine' = PastTheEnd(ptr, size)
      /\ ram' = ram /\ state' = state /\ cached' = cached
      /\ stored' = stored
      /\ spoiled' = \E c \in ptr .. ptr + size - 1 : state[LineOf(c)] = "dirty"
  BY DEF AskDevice, BeginLoop, memory
<1>2. Viewed' = Viewed BY <1>1 DEF Viewed
<1>3. LoopOK'
  <2>1. \A c \in ptr .. ptr + size - 1 : LineOf(c) >= LineOf(ptr)
    BY LineFacts, LoopEnds
  <2>. QED BY <1>1, <2>1, LoopEnds DEF LoopOK
<1>4. LinesOK'
  <2>1. spoiled' \in BOOLEAN BY <1>1, Zenon
  <2>. QED BY <1>1, <2>1 DEF CacheInv, LinesOK
<1>5. CleanOK' BY <1>1 DEF CacheInv, CleanOK
<1>6. StoredOK' BY <1>1, <1>2 DEF CacheInv, StoredOK, Out
<1>7. DeviceOK' BY <1>1 DEF DeviceOK
<1>. QED BY <1>1, <1>3, <1>4, <1>5, <1>6, <1>7 DEF CacheInv, FlushedOK, AnswerOK

(* The device fills the buffer behind the back of the cache.               *)
LEMMA DeviceAnswersKeeps == CacheInv /\ DeviceAnswers => CacheInv'
<1>. SUFFICES ASSUME CacheInv, DeviceAnswers PROVE CacheInv' OBVIOUS
<1>1. /\ phase = "device" /\ phase' = "dropping"
      /\ ram' = [c \in Cell |-> IF c \in buffer THEN "device" ELSE ram[c]]
      /\ state' = state /\ cached' = cached /\ buffer' = buffer
      /\ line' = line /\ endLine' = endLine
      /\ stored' = stored /\ spoiled' = spoiled
  BY DEF DeviceAnswers, loop
<1>2. buffer \subseteq Cell /\ line \in Nat
      /\ \A c \in buffer : LineOf(c) >= line
  BY <1>1 DEF CacheInv, LoopOK
<1>3. LoopOK' BY <1>1 DEF CacheInv, LoopOK
<1>4. LinesOK' BY <1>1 DEF CacheInv, LinesOK, Value
<1>5. CleanOK' BY <1>1, <1>2 DEF CacheInv, CleanOK
<1>6. StoredOK'
  <2>1. \A c \in Cell \ buffer : Viewed'[c] = Viewed[c] BY <1>1 DEF Viewed
  <2>. QED BY <1>1, <2>1 DEF CacheInv, StoredOK, Out
<1>7. AnswerOK'
  <2>1. \A c \in buffer : ~(LineOf(c) < line) BY <1>2, LineFacts
  <2>. QED BY <1>1, <1>2, <2>1 DEF CacheInv, DeviceOK, AnswerOK
<1>. QED BY <1>1, <1>3, <1>4, <1>5, <1>6, <1>7 DEF CacheInv, FlushedOK, DeviceOK

(* A line is dropped: the first without writing it, so that stores to      *)
(* cells that share it are taken back, and the others with.                *)
LEMMA DropLineKeeps == CacheInv /\ DropLine => CacheInv'
<1>. SUFFICES ASSUME CacheInv, DropLine PROVE CacheInv' OBVIOUS
<1>1. /\ phase = "dropping"
      /\ line' = line + 1
      /\ phase' = IF line + 1 = endLine THEN "filled" ELSE "dropping"
      /\ buffer' = buffer /\ endLine' = endLine /\ spoiled' = spoiled
  BY DEF DropLine, Advance
<1>2. LinesOK /\ line \in Nat /\ buffer \subseteq Cell
  BY DEF CacheInv, LoopOK
<1>3. LoopOK' BY <1>1 DEF CacheInv, LoopOK
<1>4. \A c \in Cell : LineOf(c) < line' <=> LineOf(c) = line \/ LineOf(c) < line
  BY <1>1, <1>2, LineFacts
<1>5. \A c \in Cell :
        /\ state[LineOf(c)] = "clean" /\ LineOf(c) < line => cached[c] = ram[c]
        /\ state[LineOf(c)] = "clean" /\ c \notin buffer => cached[c] = ram[c]
  BY <1>2, LineFacts DEF CacheInv, CleanOK
<1>6. ~spoiled =>
        \A c \in buffer :
            IF LineOf(c) < line
            THEN Viewed[c] = "device"
            ELSE state[LineOf(c)] # "dirty" /\ ram[c] = "device"
  BY <1>1 DEF CacheInv, AnswerOK
<1>7. \A c \in Cell \ buffer : Viewed[c] = stored[c]
  BY DEF CacheInv, StoredOK, Out
<1>8. ASSUME /\ LinesOK'
             /\ \A c \in Cell :
                  IF LineOf(c) = line
                  THEN /\ state'[LineOf(c)] = "absent"
                       /\ Viewed'[c] = ram'[c]
                       /\ c \notin buffer => ram'[c] = stored'[c]
                       /\ state[LineOf(c)] # "dirty" => ram'[c] = ram[c]
                  ELSE /\ state'[LineOf(c)] = state[LineOf(c)]
                       /\ ram'[c] = ram[c]
                       /\ cached'[c] = cached[c]
                       /\ Viewed'[c] = Viewed[c]
                       /\ stored'[c] = stored[c]
      PROVE  CacheInv'
  <2>1. CleanOK'
    <3>. SUFFICES ASSUME NEW c \in Cell, state'[LineOf(c)] = "clean", cached'[c] # ram'[c]
         PROVE  phase' = "dropping" /\ c \in buffer /\ LineOf(c) >= line'
      BY <1>1 DEF CleanOK
    <3>1. LineOf(c) # line /\ state[LineOf(c)] = "clean" /\ cached[c] # ram[c]
      BY <1>8
    <3>2. c \in buffer /\ ~(LineOf(c) < line') BY <1>4, <1>5, <3>1
    <3>3. LineOf(c) >= line' BY <1>1, <1>2, <3>2, LineFacts
    <3>4. line' # endLine BY <1>1, <1>2, <3>2, LineFacts DEF CacheInv, LoopOK
    <3>. QED BY <1>1, <3>2, <3>3, <3>4
  <2>2. StoredOK' BY <1>1, <1>7, <1>8 DEF StoredOK, Out
  <2>3. AnswerOK'
    <3>. SUFFICES ASSUME ~spoiled, NEW c \in buffer
         PROVE  IF LineOf(c) < line'
                THEN Viewed'[c] = "device"
                ELSE state'[LineOf(c)] # "dirty" /\ ram'[c] = "device"
      BY <1>1 DEF AnswerOK
    <3>1. CASE LineOf(c) = line
      <4>1. ~(LineOf(c) < line) BY <1>2, <3>1
      <4>. QED BY <1>2, <1>4, <1>6, <1>8, <3>1, <4>1
    <3>2. CASE LineOf(c) # line BY <1>2, <1>4, <1>6, <1>8, <3>2
    <3>. QED BY <3>1, <3>2
  <2>. QED BY <1>1, <1>3, <1>8, <2>1, <2>2, <2>3 DEF CacheInv, FlushedOK, DeviceOK
<1>9. CASE Invalidate(line) /\ stored' = Overlaid(stored, line, ram)
  <2>1. Drop(line) /\ ram' = ram BY <1>9 DEF Invalidate
  <2>2. /\ stored' \in [Cell -> Value]
        /\ \A c \in Cell : stored'[c] = IF LineOf(c) = line THEN ram[c] ELSE stored[c]
    BY <1>2, <1>9 DEF Overlaid, LinesOK
  <2>3. LinesOK' BY <1>1, <1>2, <2>1, <2>2, DropEffect DEF LinesOK
  <2>4. \A c \in Cell :
          Viewed'[c] = IF LineOf(c) = line THEN ram[c] ELSE Viewed[c]
    BY <1>2, <2>1, DropEffect DEF Viewed
  <2>. QED BY <1>2, <1>8, <2>1, <2>2, <2>3, <2>4, DropEffect
<1>10. CASE Flush(line) /\ UNCHANGED stored
  <2>1. LinesOK' BY <1>1, <1>2, <1>10, FlushEffect DEF LinesOK
  <2>2. ASSUME NEW c \in Cell \ buffer, LineOf(c) = line PROVE ram'[c] = stored[c]
    <3>1. ram'[c] = IF state[LineOf(c)] = "dirty" THEN cached[c] ELSE ram[c]
      BY <1>2, <1>10, <2>2, FlushEffect
    <3>2. state[LineOf(c)] = "clean" => cached[c] = ram[c] BY <1>5
    <3>3. Viewed[c] = stored[c] BY <1>7
    <3>. QED BY <1>2, <3>1, <3>2, <3>3, Reads DEF States
  <2>3. \A c \in Cell :
          LineOf(c) = line /\ state[LineOf(c)] # "dirty" => ram'[c] = ram[c]
    BY <1>2, <1>10, FlushEffect
  <2>. QED BY <1>2, <1>8, <1>10, <2>1, <2>2, <2>3, FlushEffect
<1>. QED BY <1>9, <1>10 DEF DropLine

LEMMA ProgramReadsKeeps == CacheInv /\ ProgramReads => CacheInv'
<1>. SUFFICES ASSUME CacheInv, ProgramReads PROVE CacheInv' OBVIOUS
<1>1. /\ phase = "filled" /\ phase' = "idle" /\ buffer' = {} /\ spoiled' = FALSE
      /\ stored' = [c \in Cell |-> IF c \in buffer THEN Viewed[c] ELSE stored[c]]
      /\ ram' = ram /\ state' = state /\ cached' = cached
      /\ line' = line /\ endLine' = endLine
  BY DEF ProgramReads, memory, loop
<1>2. Viewed' = Viewed BY <1>1 DEF Viewed
<1>3. \A c \in Cell : Viewed[c] \in Value BY DEF CacheInv, LinesOK, Viewed
<1>4. LinesOK' BY <1>1, <1>3 DEF CacheInv, LinesOK
<1>5. LoopOK' BY <1>1 DEF CacheInv, LoopOK
<1>6. CleanOK' BY <1>1 DEF CacheInv, CleanOK
<1>7. StoredOK' BY <1>1, <1>2 DEF CacheInv, StoredOK, Out
<1>. QED BY <1>1, <1>4, <1>5, <1>6, <1>7 DEF CacheInv, FlushedOK, DeviceOK, AnswerOK

LEMMA CacheStutters == CacheInv /\ UNCHANGED cacheVars => CacheInv'
<1>. SUFFICES ASSUME CacheInv, UNCHANGED cacheVars PROVE CacheInv' OBVIOUS
<1>1. UNCHANGED <<ram, state, cached, phase, buffer, line, endLine, stored, spoiled>>
  BY DEF cacheVars, memory, loop
<1>2. Viewed' = Viewed BY <1>1 DEF Viewed
<1>. QED BY <1>1, <1>2
     DEF CacheInv, LoopOK, LinesOK, CleanOK, StoredOK, Out, FlushedOK, DeviceOK, AnswerOK

LEMMA CacheInvHolds == CacheSpec => []CacheInv
<1>1. CacheInv /\ [CacheNext]_cacheVars => CacheInv'
  BY SyncAfterWriteKeeps, AskDeviceKeeps, FlushLineKeeps, DeviceTookKeeps,
     DeviceAnswersKeeps, DropLineKeeps, ProgramReadsKeeps, StoreKeeps, LoadKeeps,
     EvictKeeps, CacheStutters
  DEF CacheNext
<1>. QED BY <1>1, CacheInitInv, PTL DEF CacheSpec

(* Whatever the processor loads and writes back meanwhile and whoever      *)
(* stores to the neighbours: when TW_SyncAfterWrite is done, memory holds  *)
(* what the program stored, in lines of any size.                          *)
THEOREM FlushedReachesDevice == CacheSpec => []DeviceSeesWrites
<1>1. CacheInv => DeviceSeesWrites
  <2>. SUFFICES ASSUME CacheInv, phase = "handed", NEW c \in buffer
       PROVE  ram[c] = stored[c]
    BY DEF DeviceSeesWrites
  <2>1. LineOf(c) < line BY DEF CacheInv, LoopOK
  <2>. QED BY <2>1 DEF CacheInv, FlushedOK
<1>. QED BY <1>1, CacheInvHolds, PTL

(* When TW_SyncBeforeRead is done, loads give what the device wrote, if no *)
(* line of the buffer was dirty while the device had it.                   *)
THEOREM AnswerReachesProgram == CacheSpec => []ProgramSeesAnswer
<1>1. CacheInv => ProgramSeesAnswer
  <2>. SUFFICES ASSUME CacheInv, phase = "filled", ~spoiled, NEW c \in buffer
       PROVE  Viewed[c] = "device"
    BY DEF ProgramSeesAnswer
  <2>1. LineOf(c) < line BY DEF CacheInv, LoopOK
  <2>. QED BY <2>1 DEF CacheInv, AnswerOK
<1>. QED BY <1>1, CacheInvHolds, PTL
=============================================================================
