-------------------------- MODULE AtomicFunctions ---------------------------
(***************************************************************************)
(* The arithmetic between the lwarx and the stwcx. of the atomic functions *)
(* of ppc/misc.S, on words of Width bits (32 on the processor).  An        *)
(* operation is a record: the function's name fn and its arguments.        *)
(***************************************************************************)
EXTENDS Integers, Bitwise

CONSTANT Width

ASSUME WidthAssumption == Width \in Nat \ {0}

MaxWord == 2 ^ Width - 1

Bits == 0 .. MaxWord

(* neg, add and sub keep the low Width bits.                               *)
Wrap(n) == n % 2 ^ Width

CasOp(mask, expected, new) ==
    [fn |-> "cas", mask |-> mask, expected |-> expected, new |-> new]

UnaryOp(fn, value) == [fn |-> fn, value |-> value]

(* 1 when the masked bits of w and of the expected value differ, else 0:   *)
(* the top bit of (difference | -difference).                              *)
CasDiffers(o, w) ==
    LET difference == Wrap((w & o.mask) - (o.expected & o.mask))
    IN  (difference | Wrap(-difference)) \div 2 ^ (Width - 1)

(* Register 10 of TW_CompareAndSwapAtomic: the all-ones-or-zero mask of a  *)
(* difference, plus one.                                                   *)
CasReturns(o, w) == Wrap(Wrap(-CasDiffers(o, w)) + 1)

(* Mutant of CasStores: the two masks exchanged.                           *)
CasStoresSwapped(o, w) ==
    LET differs == CasDiffers(o, w)
    IN  (Wrap(-differs) & o.new) | (Wrap(differs - 1) & w)

(* (newValue & equal) | (oldValue & different), without a branch.          *)
CasStores(o, w) ==
    LET differs == CasDiffers(o, w)
    IN  (Wrap(differs - 1) & o.new) | (Wrap(-differs) & w)

AtomicNewValue(o, w) ==
    CASE o.fn = "cas" -> CasStores(o, w)
      [] o.fn = "getAndSet" -> o.value
      [] o.fn = "add" -> Wrap(w + o.value)
      [] o.fn = "or" -> w | o.value
      [] o.fn = "xor" -> w ^^ o.value
      [] o.fn = "and" -> w & o.value

(* Every function but the compare-and-swap returns the word it found.      *)
AtomicReply(o, w) == IF o.fn = "cas" THEN CasReturns(o, w) ELSE w
=============================================================================
