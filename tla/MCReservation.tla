--------------------------- MODULE MCReservation ----------------------------
(***************************************************************************)
(* Reservation with the functions of misc.S, for TLC: every function once  *)
(* as it is used by the library (locks, counters, bits), and calls of      *)
(* TW_CompareAndSwapAtomic that differ in what is masked and expected.     *)
(***************************************************************************)
EXTENDS Reservation, AtomicFunctions

MCCasOp ==
    {CasOp(mask, expected, 1) : mask \in {2, MaxWord}, expected \in {1, 2}}

MCOp ==
    MCCasOp \cup
    {UnaryOp("getAndSet", 1), UnaryOp("add", 1), UnaryOp("or", 1),
     UnaryOp("xor", MaxWord), UnaryOp("and", MaxWord - 1)}

(* A word on which all masked bits agree with the expected value is        *)
(* replaced and 1 returned; any other is stored back as it was and 0       *)
(* returned: what the signature of TW_CompareAndSwapAtomic promises of the *)
(* branch-free arithmetic between its lwarx and its stwcx.                 *)
CasMeetsItsSignature ==
    [][ LET o == op[level]
            Agrees(w) == o.mask & w = o.mask & o.expected
        IN  (StwcxSucceeds /\ o.fn = "cas") =>
                /\ word' = IF Agrees(word) THEN o.new ELSE word
                /\ (Reply(o, loaded[level]) = 1) <=> Agrees(word)
      ]_vars
=============================================================================
