------------------------------- MODULE Format -------------------------------
(***************************************************************************)
(* TW_FormatStringV of common/strformat.c: a format is read byte by byte,  *)
(* the output goes through a buffer of FmtBuffer bytes to a stream.  The   *)
(* arguments of a call are taken from small sets.  How doubles are written *)
(* is left out: their field is some zeros.                                 *)
(***************************************************************************)
EXTENDS Stream, IntegerField

CONSTANTS
    FmtBuffer,  \* FMT_BUFFER
    Formats,    \* the formats of the program,
    Limits,     \* its values for maxOutputSize,
    IntegerArgs,  \* and its arguments: integers,
    StringArgs,    \* strings,
    WidthArgs,     \* and numbers for "*"
    DoubleSizes,
    SizeOf,     \* how many integers of 8, 16, 32, 64 bits there are
    None

ASSUME FormatAssumption ==
    /\ FmtBuffer \in Nat \ {0}
    /\ Formats \subseteq Seq(Byte \ {Nul})
    /\ Limits \subseteq Nat
    /\ IntegerArgs \subseteq Nat
    /\ StringArgs \subseteq Seq(Byte \ {Nul})
    /\ WidthArgs \subseteq Int
    /\ DoubleSizes \subseteq 0 .. MaxField
    /\ SizeOf \in [{8, 16, 32, 64} -> Nat \ {0, 1}]

VARIABLES
    stage,        \* what the call is doing
    str, limit,   \* its parameters
    next,         \* the byte of the format it looks at
    mode,         \* format_mode
    formatFlags, formatBits, minWidth, precision, prev,
    buf, flushes,
    rest,         \* what is left to copy of a field or a string
    meant,        \* history: all bytes of the output so far
    asked         \* history: the integer just written, None otherwise

spec == <<mode, formatFlags, minWidth, precision>>
output == <<buf, flushes, rest, meant>>
formatVars == <<stage, str, limit, next, spec, formatBits, prev, output, asked>>

ResetSpec ==
    /\ mode' = 0
    /\ formatFlags' = {}
    /\ minWidth' = 0
    /\ precision' = 0

FormatInit ==
    /\ stage = "idle"
    /\ str = <<>> /\ limit = 0
    /\ next = 1
    /\ mode = 0 /\ formatFlags = {} /\ minWidth = 0 /\ precision = 0
    /\ formatBits = 0
    /\ prev = Nul
    /\ buf = <<>> /\ flushes = 0
    /\ rest = <<>>
    /\ meant = <<>>
    /\ asked = None

(* The caller passes a format and a limit.                                 *)
CallFormat(s, l) ==
    /\ stage = "idle" /\ ~transferring
    /\ stage' = "read"
    /\ str' = s
    /\ limit' = l
    /\ UNCHANGED <<next, spec, formatBits, prev, output, asked, chars, transferring>>

-----------------------------------------------------------------------------
(* One byte of output                                                      *)

IsFull == Len(buf) + 1 > FmtBuffer

(* flushes * FMT_BUFFER + pos                                              *)
Written == flushes * FmtBuffer + Len(buf)

LimitReached == limit > 0 /\ Written >= limit

PassOn ==
    /\ Transfer(buf)
    /\ flushes' = flushes + 1
    /\ buf' = <<>>

Put(b) ==
    /\ buf' = Append(buf, b)
    /\ meant' = Append(meant, b)

(* The byte under way.                                                     *)
c == str[next]

Reading == stage = "read" /\ next <= Len(str)

Percent == 37

IsLiteral == IF c = Percent THEN (mode > 0 \/ prev = 92) ELSE mode = 0

(* All who put a single byte flush the buffer first if it is full.         *)
PutsByte ==
    \/ (Reading /\ IsLiteral)
    \/ (stage = "string" /\ rest # <<>>)
    \/ stage = "end"

Flush ==
    /\ PutsByte
    /\ IsFull
    /\ PassOn
    /\ UNCHANGED <<stage, str, limit, next, spec, formatBits, prev, rest, meant, asked>>

-----------------------------------------------------------------------------
(* The loop over the format                                                *)

PutLiteral ==
    /\ Reading /\ IsLiteral
    /\ ~IsFull /\ ~LimitReached
    /\ Put(c)
    /\ IF c = Percent THEN ResetSpec ELSE UNCHANGED spec
    /\ next' = next + 1
    /\ prev' = c
    /\ UNCHANGED <<stage, str, limit, formatBits, flushes, rest, asked, chars, transferring>>

StopAtLimit ==
    /\ Reading /\ IsLiteral
    /\ ~IsFull /\ LimitReached
    /\ stage' = "end"
    /\ UNCHANGED <<str, limit, next, spec, formatBits, prev, output, asked>>
    /\ UNCHANGED <<chars, transferring>>

PercentBegins ==
    /\ Reading
    /\ c = Percent /\ ~IsLiteral
    /\ mode' = 1
    /\ next' = next + 1
    /\ prev' = c
    /\ UNCHANGED <<stage, str, limit, formatFlags, minWidth, precision, formatBits>>
    /\ UNCHANGED <<output, asked, chars, transferring>>

(* Where the byte belongs to the specification, the loop continues without *)
(* noting it as the previous one.                                          *)
InSpec == Reading /\ c # Percent /\ mode > 0

ContinueSpec ==
    /\ next' = next + 1
    /\ UNCHANGED <<stage, str, limit, prev, output, asked, chars, transferring>>

IsFlag == mode = 1 /\ c \in {45, 43, 32, 35, 48}

Star == 42

IsWidth == mode \in {1, 2} /\ ~IsFlag /\ (c = Star \/ (minWidth >= 0 /\ c \in Digits))

IsDot == mode \in {1, 2} /\ c = 46

IsPrecision == mode = 4 /\ (c = Star \/ (precision >= 0 /\ c \in Digits))

IsLength == ~IsFlag /\ ~IsWidth /\ ~IsDot /\ ~IsPrecision /\ c \in {104, 108} /\ prev # c

TakeFlag ==
    /\ InSpec /\ IsFlag
    /\ formatFlags' = formatFlags \cup {c}
    /\ ContinueSpec
    /\ UNCHANGED <<mode, minWidth, precision, formatBits>>

Extended(n) == IF c = Star THEN -1 ELSE n * 10 + c - 48

TakeWidth ==
    /\ InSpec /\ IsWidth
    /\ mode' = 2
    /\ minWidth' = Extended(minWidth)
    /\ ContinueSpec
    /\ UNCHANGED <<formatFlags, precision, formatBits>>

TakeDot ==
    /\ InSpec /\ IsDot
    /\ mode' = 4
    /\ ContinueSpec
    /\ UNCHANGED <<formatFlags, minWidth, precision, formatBits>>

TakePrecision ==
    /\ InSpec /\ IsPrecision
    /\ precision' = Extended(precision)
    /\ ContinueSpec
    /\ UNCHANGED <<mode, formatFlags, minWidth, formatBits>>

(* "h" or "l", unless repeated                                             *)
TakeLength ==
    /\ InSpec /\ IsLength
    /\ mode' = 5
    /\ formatBits' = IF c = 104 THEN 16 ELSE 32
    /\ ContinueSpec
    /\ UNCHANGED <<formatFlags, minWidth, precision>>

IsConversion == InSpec /\ ~IsFlag /\ ~IsWidth /\ ~IsDot /\ ~IsPrecision /\ ~IsLength

(* "j", "L", "t" and "z" are taken for conversions themselves, with        *)
(* nothing to convert; any other byte resets the length to 32.  A doubled  *)
(* "h" or "l" never gets here, since prev is "%" all along.                *)
BitsNow == IF c = 104 THEN 8 ELSE IF c \in {106, 108, 76} THEN 64 ELSE 32

(* What has been converted is to be copied to the buffer.                  *)
Convert(field, call) ==
    /\ stage' = "copy"
    /\ rest' = field
    /\ meant' = meant \o field
    /\ asked' = call
    /\ UNCHANGED <<buf, flushes>>

EndSpec ==
    /\ ResetSpec
    /\ formatBits' = BitsNow
    /\ next' = next + 1
    /\ prev' = c
    /\ UNCHANGED <<str, limit, chars, transferring>>

WidthChoices == IF minWidth = -1 THEN WidthArgs ELSE {minWidth}

FlagsAmong(names) == {n \in DOMAIN names : names[n] \in formatFlags}

(* d and i                                                                 *)
SignedFlags == FlagsAmong([left |-> 45, sign |-> 43, zero |-> 48])

(* o, u, x and X                                                           *)
UnsignedFlags ==
    FlagsAmong([left |-> 45, sign |-> 43, zero |-> 48, alternative |-> 35])
        \cup (IF c = 88 THEN {"upper"} ELSE {})

BaseNow == IF c = 111 THEN 8 ELSE IF c \in {120, 88} THEN 16 ELSE 10

ConvertInteger ==
    /\ IsConversion
    /\ c \in {100, 105, 111, 117, 120, 88}
    /\ \E v \in IntegerArgs, w \in WidthChoices :
          LET isSigned == c \in {100, 105}
              call == [value |-> v % SizeOf[BitsNow], size |-> SizeOf[BitsNow],
                       signed |-> isSigned, base |-> BaseNow, width |-> w,
                       flags |-> IF isSigned THEN SignedFlags ELSE UnsignedFlags]
          IN  Convert(WriteInteger(call), call)
    /\ EndSpec

NullText == <<40, 110, 117, 108, 108, 41>>

(* p                                                                       *)
ConvertPointer ==
    /\ IsConversion
    /\ c = 112
    /\ \E v \in IntegerArgs, w \in WidthChoices :
          LET call == [value |-> v % SizeOf[32], size |-> SizeOf[32],
                       signed |-> FALSE, base |-> 16, width |-> w, flags |-> {}]
          IN  Convert(IF call.value = 0 THEN NullText ELSE <<Zero, 120>> \o WriteInteger(call), None)
    /\ EndSpec

(* c, and the conversions of doubles                                       *)
ConvertOther ==
    /\ IsConversion
    /\ \/ /\ c = 99
          /\ \E v \in IntegerArgs : Convert(<<v % 256>>, None)
       \/ /\ c \in {97, 65, 101, 69, 102, 70, 103, 71}
          /\ \E n \in DoubleSizes : Convert(Repeat(Zero, n), None)
    /\ EndSpec

(* s: the string is put byte by byte, a null pointer as a field.           *)
ConvertString ==
    /\ IsConversion
    /\ c = 115
    /\ \/ Convert(NullText, None)
       \/ \E s \in StringArgs :
             /\ stage' = "string"
             /\ rest' = s
             /\ UNCHANGED <<buf, flushes, meant, asked>>
    /\ EndSpec

(* n, which stores the count, and whatever is no conversion                *)
ConvertNothing ==
    /\ IsConversion
    /\ c \notin {100, 105, 111, 117, 120, 88, 112, 99, 97, 65, 101, 69, 102, 70, 103, 71, 115}
    /\ Convert(<<>>, None)
    /\ EndSpec

PutStringByte ==
    /\ stage = "string" /\ rest # <<>>
    /\ ~IsFull /\ ~LimitReached
    /\ Put(Head(rest))
    /\ rest' = Tail(rest)
    /\ UNCHANGED <<stage, str, limit, next, spec, formatBits, prev, flushes, asked>>
    /\ UNCHANGED <<chars, transferring>>

EndString ==
    /\ stage = "string"
    /\ \/ rest = <<>>
       \/ ~IsFull /\ LimitReached
    /\ stage' = "read"
    /\ rest' = <<>>
    /\ UNCHANGED <<str, limit, next, spec, formatBits, prev, buf, flushes, meant, asked>>
    /\ UNCHANGED <<chars, transferring>>

LeftInBuffer == FmtBuffer - Len(buf)

(* Mutant of CopyPart: offset is not advanced.                             *)
CopiesAgain ==
    /\ stage = "copy"
    /\ LeftInBuffer < Len(rest)
    /\ PassOn
    /\ asked' = None
    /\ UNCHANGED <<stage, str, limit, next, spec, formatBits, prev, rest, meant>>

(* What fills the buffer is copied to it, but not passed on: pos is what   *)
(* it was before.                                                          *)
CopyPart ==
    /\ stage = "copy"
    /\ LeftInBuffer < Len(rest)
    /\ PassOn
    /\ rest' = SubSeq(rest, LeftInBuffer + 1, Len(rest))
    /\ asked' = None
    /\ UNCHANGED <<stage, str, limit, next, spec, formatBits, prev, meant>>

CopyRest ==
    /\ stage = "copy"
    /\ LeftInBuffer >= Len(rest)
    /\ buf' = buf \o rest
    /\ rest' = <<>>
    /\ stage' = "read"
    /\ asked' = None
    /\ UNCHANGED <<str, limit, next, spec, formatBits, prev, flushes, meant>>
    /\ UNCHANGED <<chars, transferring>>

EndOfFormat ==
    /\ stage = "read" /\ next > Len(str)
    /\ stage' = "end"
    /\ UNCHANGED <<str, limit, next, spec, formatBits, prev, output, asked>>
    /\ UNCHANGED <<chars, transferring>>

(* The terminating zero goes with the last bytes.                          *)
PutEnd ==
    /\ stage = "end"
    /\ ~IsFull
    /\ Transfer(Append(buf, Nul))
    /\ buf' = Append(buf, Nul)
    /\ stage' = "return"
    /\ UNCHANGED <<str, limit, next, spec, formatBits, prev, flushes, rest, meant, asked>>

ReturnCount ==
    /\ stage = "return"
    /\ stage' = "idle"
    /\ str' = <<>> /\ limit' = 0
    /\ next' = 1
    /\ ResetSpec
    /\ formatBits' = 0
    /\ prev' = Nul
    /\ buf' = <<>> /\ flushes' = 0
    /\ rest' = <<>>
    /\ meant' = <<>>
    /\ UNCHANGED <<asked, chars, transferring>>

TW_FormatStringV ==
    /\ ~transferring
    /\ \/ Flush \/ PutLiteral \/ StopAtLimit
       \/ PercentBegins \/ TakeFlag \/ TakeWidth \/ TakeDot \/ TakePrecision \/ TakeLength
       \/ ConvertInteger \/ ConvertPointer \/ ConvertOther \/ ConvertString \/ ConvertNothing
       \/ PutStringByte \/ EndString \/ CopyPart \/ CopyRest
       \/ EndOfFormat \/ PutEnd \/ ReturnCount

-----------------------------------------------------------------------------
(* PROPERTIES                                                              *)

FormatTypeOK ==
    /\ stage \in {"idle", "read", "copy", "string", "end", "return"}
    /\ str \in Seq(Byte) /\ limit \in Nat
    /\ next \in 1 .. Len(str) + 1
    /\ mode \in {0, 1, 2, 4, 5}
    /\ formatFlags \subseteq {45, 43, 32, 35, 48}
    /\ formatBits \in {0, 8, 16, 32, 64}
    /\ minWidth \in Int /\ precision \in Int
    /\ prev \in Byte
    /\ buf \in Seq(Byte) /\ Len(buf) <= FmtBuffer
    /\ flushes \in Nat
    /\ rest \in Seq(Byte)
    /\ meant \in Seq(Byte)

(* While a call converts, what is in the buffer and what is still to be    *)
(* copied is the end of its output, and the count is the length of the     *)
(* output: every flush passes on the output's bytes in order, and what is  *)
(* lost of a field is at the end of a buffer.                              *)
BufferHoldsWhatIsMeant ==
    stage \in {"read", "copy", "end"} =>
        buf \o rest = SubSeq(meant, flushes * FmtBuffer + 1, Len(meant))

(* A field is as wide as asked for, or as the integer needs, and says what *)
(* the integer is.                                                         *)
IntegerReadsBack == asked # None => ReadsBack(asked, rest)
=============================================================================
