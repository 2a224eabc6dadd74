---------------------------- MODULE IntegerField ----------------------------
(***************************************************************************)
(* TW_WriteInteger of common/strformat.c: an integer as a field of bytes.  *)
(* A call is a record: value, size, signed (for which the code passes one  *)
(* bit less, an odd number), base, width and the set of flags.  The size   *)
(* is the number of values that so many bits have, 2^bits.  The caller's   *)
(* buffer of MaxField bytes cuts the field.                                *)
(***************************************************************************)
EXTENDS Courses

CONSTANT MaxField  \* NUMERIC_BUFFER

ASSUME FieldAssumption == MaxField \in Nat \ {0}

Zero == 48
Blank == 32

Most(a, b) == IF a > b THEN a ELSE b

Repeat(b, n) == [k \in 1 .. Most(n, 0) |-> b]

Cut(field) == SubSeq(field, 1, IF Len(field) < MaxField THEN Len(field) ELSE MaxField)

(* Mutant of IsNegative: value >> bits after bits was rounded up.          *)
NeverNegative(call) == call.signed /\ call.value >= call.size

(* value >> bits, where bits is that of the sign.                          *)
IsNegative(call) == call.signed /\ call.value >= call.size \div 2

(* ~value + 1, of so many bits                                             *)
Magnitude(call) ==
    (IF IsNegative(call) THEN call.size - call.value ELSE call.value) % call.size

Digit(d, upper) == IF d < 10 THEN Zero + d ELSE (IF upper THEN 55 ELSE 87) + d

(* The digits, the lowest found first and written last.                    *)
DigitsOf(n, base, upper) ==
    LET digits[v \in 0 .. n] ==
          IF v = 0 THEN <<>>
          ELSE Append(digits[v \div base], Digit(v % base, upper))
    IN  digits[n]

Sign(call) == IF IsNegative(call) THEN <<45>> ELSE IF "sign" \in call.flags THEN <<43>> ELSE <<>>

Prefix(call) ==
    IF "alternative" \notin call.flags THEN <<>>
    ELSE IF call.base = 16 THEN <<Zero, IF "upper" \in call.flags THEN 88 ELSE 120>>
    ELSE IF call.base = 8 THEN <<Zero>>
    ELSE <<>>

WriteInteger(call) ==
    IF call.value = 0
    THEN Cut(Repeat(Zero, Most(call.width, 1)))
    ELSE LET digits == DigitsOf(Magnitude(call), call.base, "upper" \in call.flags)
             head == Sign(call) \o Prefix(call)
             fill == call.width - Len(head) - Len(digits)
             isLeft == "left" \in call.flags
             isZero == "zero" \in call.flags
         IN  Cut((IF ~isLeft /\ ~isZero THEN Repeat(Blank, fill) ELSE <<>>)
                 \o head
                 \o (IF ~isLeft /\ isZero THEN Repeat(Zero, fill) ELSE <<>>)
                 \o digits
                 \o (IF isLeft THEN Repeat(Blank, fill) ELSE <<>>))

-----------------------------------------------------------------------------
(* What a reader makes of a field: blanks aside, a sign, 0x, and digits.   *)

FigureOf(b) == IF b \in 48 .. 57 THEN b - 48 ELSE IF b \in 65 .. 70 THEN b - 55 ELSE b - 87

(* Signs, "x", "X" and blanks are no figures.                              *)
Reads(base) ==
    [b \in Nat |-> [n \in Int |->
        IF b \in {Blank, 43, 45, 88, 120} THEN n ELSE base * n + FigureOf(b)]]

(* The first byte that is not blank is "-".                                *)
SaysMinus(field) ==
    \E k \in DOMAIN field : field[k] = 45 /\ \A j \in 1 .. k - 1 : field[j] = Blank

ReadField(field, base) ==
    LET size == Outcome(Reads(base), 0, field)
    IN  IF SaysMinus(field) THEN -size ELSE size

Meant(call) ==
    IF call.signed /\ call.value >= call.size \div 2 THEN call.value - call.size ELSE call.value

(* The field says the number and is exactly as wide as asked for, or as    *)
(* the number needs; only a field larger than the buffer is cut.           *)
ReadsBack(call, field) ==
    \/ Len(field) = MaxField
    \/ /\ ReadField(field, call.base) = Meant(call)
       /\ Len(field) >= call.width
       /\ \/ Len(field) = call.width
          \/ Len(field) = 1
          \/ field[1] # Blank /\ field[Len(field)] # Blank
=============================================================================
