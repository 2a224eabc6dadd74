-------------------------------- MODULE Bytes --------------------------------
(***************************************************************************)
(* TW_CopyBytes and TW_FillBytes (ppc/misc.S), one byte a step.            *)
(*                                                                         *)
(* Addresses are those of one stretch of memory; compared as signed words  *)
(* they are in order, since the memory of the machine lies in one half of  *)
(* the address space.                                                      *)
(***************************************************************************)
EXTENDS Integers

CONSTANTS
    Addresses,  \* bound: the size of the memory
    Byte

ASSUME BytesAssumption == Addresses \in Nat

VARIABLES
    mem,   \* the memory
    at,    \* "idle", or the loop that runs
    to,    \* r3: where the next byte goes, or went
    from,  \* r4: where it comes from, or the byte to fill with
    end,   \* r7, r6: where the loop stops
    call,  \* history: the arguments of the call
    old    \* history: the memory as the call found it

bytesVars == <<mem, at, to, from, end, call, old>>

Address == 0 .. Addresses - 1

(* The n bytes at a lie in the memory.                                     *)
Inside(a, n) == a \in Address /\ n \in 0 .. Addresses - a

BytesInit ==
    /\ mem \in [Address -> Byte]
    /\ at = "idle"
    /\ to = 0
    /\ from = 0
    /\ end = 0
    /\ call = [dst |-> 0, src |-> 0, len |-> 0]
    /\ old = mem

Begin(loop, dst, src, len) ==
    /\ at = "idle"
    /\ at' = loop
    /\ call' = [dst |-> dst, src |-> src, len |-> len]
    /\ old' = mem
    /\ UNCHANGED mem

(* Mutant of GoesForward: only the order of the two is looked at.          *)
ForwardToTheLeft(dst, src, len) == src < dst

(* A destination above the source, and less than the length above it, is   *)
(* copied from the end.                                                    *)
GoesForward(dst, src, len) == dst < src \/ dst - src >= len

(* TW_CopyBytes up to its loops: nothing to do for no bytes, or in place.  *)
CopyBytes(dst, src, len) ==
    \/ /\ len = 0 \/ dst = src
       /\ Begin("copied", dst, src, len)
       /\ UNCHANGED <<to, from, end>>
    \/ /\ len > 0 /\ dst # src
       /\ GoesForward(dst, src, len)
       /\ Begin("forward", dst, src, len)
       /\ to' = dst - 1
       /\ from' = src - 1
       /\ end' = dst - 1 + len
    \/ /\ len > 0 /\ dst # src
       /\ ~GoesForward(dst, src, len)
       /\ Begin("backward", dst, src, len)
       /\ to' = dst + len
       /\ from' = src + len
       /\ end' = dst

Forward ==
    /\ at = "forward"
    /\ mem' = [mem EXCEPT ![to + 1] = mem[from + 1]]
    /\ to' = to + 1
    /\ from' = from + 1
    /\ at' = IF to + 1 < end THEN "forward" ELSE "copied"
    /\ UNCHANGED <<end, call, old>>

Backward ==
    /\ at = "backward"
    /\ mem' = [mem EXCEPT ![to - 1] = mem[from - 1]]
    /\ to' = to - 1
    /\ from' = from - 1
    /\ at' = IF to - 1 > end THEN "backward" ELSE "copied"
    /\ UNCHANGED <<end, call, old>>

(* Mutant of FillBytes: the end is computed from the first byte itself.    *)
FillsOneMore(dst, byte, len) ==
    /\ Begin("fill", dst, byte, len)
    /\ to' = dst - 1
    /\ from' = byte
    /\ end' = dst + len

(* TW_FillBytes stores before it compares: at least one byte.              *)
FillBytes(dst, byte, len) ==
    /\ Begin("fill", dst, byte, len)
    /\ to' = dst - 1
    /\ from' = byte
    /\ end' = dst - 1 + len

Fill ==
    /\ at = "fill"
    /\ mem' = [mem EXCEPT ![to + 1] = from]
    /\ to' = to + 1
    /\ at' = IF to + 1 < end THEN "fill" ELSE "filled"
    /\ UNCHANGED <<from, end, call, old>>

Return ==
    /\ at \in {"copied", "filled"}
    /\ at' = "idle"
    /\ call' = [dst |-> 0, src |-> 0, len |-> 0]
    /\ old' = mem
    /\ UNCHANGED <<mem, to, from, end>>

BytesNext ==
    \/ \E dst, src \in Address, len \in 0 .. Addresses :
          Inside(dst, len) /\ Inside(src, len) /\ CopyBytes(dst, src, len)
    \/ \E dst \in Address, byte \in Byte, len \in 0 .. Addresses :
          Inside(dst, len) /\ FillBytes(dst, byte, len)
    \/ Forward
    \/ Backward
    \/ Fill
    \/ Return

BytesSpec == BytesInit /\ [][BytesNext]_bytesVars

-----------------------------------------------------------------------------
(* PROPERTIES                                                              *)

Target(len) == call.dst .. call.dst + len - 1

Moved == [a \in Address |->
            IF a \in Target(call.len) THEN old[call.src + (a - call.dst)] ELSE old[a]]

(* A fill of no bytes fills one.                                           *)
Filled == [a \in Address |->
            IF a \in Target(IF call.len = 0 THEN 1 ELSE call.len)
            THEN call.src ELSE old[a]]

(* However source and destination overlap, and from whichever side, the    *)
(* bytes that arrive are those that were there when the call began, and no *)
(* other byte is touched: memmove, as the tests take it to be.             *)
CopiesAreMoves == at = "copied" => mem = Moved

(* A fill changes what it was given, and one byte if that is nothing.      *)
FillsStayInside == at = "filled" => mem = Filled
=============================================================================
