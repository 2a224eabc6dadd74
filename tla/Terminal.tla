------------------------------ MODULE Terminal ------------------------------
(***************************************************************************)
(* TW_PrintTerminal of ppc/video.c: text is drawn in spans of one line,    *)
(* and escape sequences, which may arrive in pieces over several calls,    *)
(* are collected in the terminal's buffer and carried out.  The cursor is  *)
(* modelled, and which glyphs come out in which cells of the screen; not   *)
(* what they look like, nor what is on the screen after it is scrolled or  *)
(* cleared.                                                                *)
(***************************************************************************)
EXTENDS Stream, Courses

CONSTANTS
    Cols,     \* TERMINAL_COLS; as many glyphs of width 8 go into 320 words
    Rows,     \* TERMINAL_ROWS
    MaxEsc,   \* TW_MAX_ANSI_ESC
    Flags     \* the sets of flags a terminal may have

ASSUME TerminalAssumption ==
    /\ Cols \in Nat \ {0, 1}
    /\ Rows \in Nat \ {0, 1}
    /\ MaxEsc \in Nat \ {0, 1, 2}
    /\ Flags \subseteq SUBSET {"disableWrap", "disableScroll"}

VARIABLES
    row, column, flags,  \* fields of TwTerminal
    fore, back,          \* colours
    escape,              \* ansiEscBuf, as far as it is filled
    at,                  \* where the call is
    offset,              \* bytes dealt with
    line, col,           \* locals of the loop over a stretch of text:
    home, homeCol,       \* where the next span begins, in chars and in the line
    i,                   \* and the byte it looks at
    escapeBefore,        \* history: escape when the call began
    drawn,               \* history: the spans of this call, as they were drawn
    overwritten          \* has the call written to the main thread's stack?

cursor == <<row, column>>
colours == <<fore, back>>
loop == <<line, col, home, homeCol, i>>
termVars == <<cursor, flags, colours, escape, at, offset, loop, escapeBefore, drawn,
              overwritten>>

(* A colour is the numbers that selected it.                               *)
Default == <<>>

TermInit ==
    /\ row = 0
    /\ column = 0
    /\ flags \in Flags
    /\ fore = Default
    /\ back = Default
    /\ escape = <<>>
    /\ at = "idle"
    /\ offset = 0
    /\ line = 0 /\ col = 0
    /\ home = 0 /\ homeCol = 0
    /\ i = 0
    /\ escapeBefore = <<>>
    /\ drawn = {}
    /\ overwritten = FALSE

-----------------------------------------------------------------------------
(* _tw_handle_ansi_esc                                                     *)

Within(n, limit) == IF n < 0 THEN 0 ELSE IF n >= limit THEN limit - 1 ELSE n

(* Mutant of BoundedColumn: column > TERMINAL_COLS.                        *)
ColumnPastTheEnd(n) == IF n < 0 THEN 0 ELSE IF n > Cols THEN Cols ELSE n

(* BOUNDS_CHECK_COLUMN, BOUNDS_CHECK_ROW                                   *)
BoundedColumn(n) == Within(n, Cols)

BoundedRow(n) == Within(n, Rows)

(* The numbers of a sequence.  A ninth one is added to the eighth, and     *)
(* whatever is neither digit nor semicolon is passed over.                 *)
Numbers(seq) ==
    LET reading == [at : 1 .. 8, nums : [1 .. 8 -> Nat]]
        read == [b \in Byte |-> [r \in reading |->
                   IF b \in Digits
                   THEN [r EXCEPT !.nums[r.at] = 10 * @ + b - 48]
                   ELSE IF b = 59 /\ r.at < 8 THEN [r EXCEPT !.at = @ + 1] ELSE r]]
    IN  Outcome(read, [at |-> 1, nums |-> [k \in 1 .. 8 |-> 0]], seq).nums

AtLeastOne(n) == IF n <= 0 THEN 1 ELSE n

(* The cursor after the final byte f, given the first two numbers.         *)
Moved(f, n, m) ==
    CASE f \in {72, 102} -> <<BoundedRow(n), BoundedColumn(m)>>                \* H f
      [] f = 65 -> <<BoundedRow(row - AtLeastOne(n)), column>>                \* A
      [] f = 70 -> <<BoundedRow(row - AtLeastOne(n)), 0>>                     \* F
      [] f = 66 -> <<BoundedRow(row + AtLeastOne(n)), column>>                \* B
      [] f = 69 -> <<BoundedRow(row + AtLeastOne(n)), 0>>                     \* E
      [] f = 67 -> <<row, BoundedColumn(column + AtLeastOne(n))>>             \* C
      [] f = 68 -> <<row, BoundedColumn(column - AtLeastOne(n))>>             \* D
      [] f = 71 -> <<row, BoundedColumn(n)>>                                  \* G
      [] OTHER -> cursor

(* 38;2;r;g;b;a and 38;5;n, or 48;...: a colour by its numbers.            *)
Chosen(nums, old) ==
    IF nums[2] = 2 THEN SubSeq(nums, 3, 6)
    ELSE IF nums[2] = 5 THEN <<nums[3]>>
    ELSE old

(* The colours after "m".                                                  *)
Coloured(nums) ==
    LET n == nums[1]
    IN  CASE n = 0 -> <<Default, Default>>
          [] n \in 30 .. 37 -> <<<<n - 30>>, back>>
          [] n \in 90 .. 97 -> <<<<n - 90 + 8>>, back>>
          [] n \in 40 .. 47 -> <<fore, <<n - 40>>>>
          [] n \in 100 .. 107 -> <<fore, <<n - 100 + 8>>>>
          [] n = 38 -> <<Chosen(nums, fore), back>>
          [] n = 48 -> <<fore, Chosen(nums, back)>>
          [] n = 39 -> <<Default, back>>
          [] n = 49 -> <<fore, Default>>
          [] OTHER -> colours

(* A sequence is carried out when its final byte f has come.               *)
CarryOut(seq, f) ==
    LET nums == Numbers(seq)
        target == Moved(f, nums[1], nums[2])
        chosen == IF f = 109 THEN Coloured(nums) ELSE colours
    IN  /\ row' = target[1] /\ column' = target[2]
        /\ fore' = chosen[1] /\ back' = chosen[2]

-----------------------------------------------------------------------------
(* TW_PrintTerminal and _tw_read_ansi_esc_bytes, byte by byte              *)

Len0 == Len(chars)

(* chars[k]                                                                *)
At(k) == chars[k + 1]

(* Locals are cleared where they are dead.                                 *)
ClearLoop ==
    /\ line' = 0 /\ col' = 0
    /\ home' = 0 /\ homeCol' = 0
    /\ i' = 0

Begin ==
    /\ at = "idle"
    /\ transferring
    /\ at' = "outer"
    /\ offset' = 0
    /\ drawn' = {}
    /\ escapeBefore' = escape
    /\ UNCHANGED <<cursor, flags, colours, escape, loop, overwritten, chars, transferring>>

Outer == at = "outer" /\ offset < Len0

TakeEscapeByte(new) ==
    /\ escape' = new
    /\ offset' = offset + 1
    /\ UNCHANGED <<flags, at, loop, escapeBefore, drawn, overwritten, chars, transferring>>

EscapeBegins ==
    /\ Outer
    /\ escape = <<>> /\ At(offset) = Esc
    /\ TakeEscapeByte(<<Esc>>)
    /\ UNCHANGED <<cursor, colours>>

EscapeOpens ==
    /\ Outer
    /\ escape = <<Esc>> /\ At(offset) = 91
    /\ TakeEscapeByte(<<Esc, 91>>)
    /\ UNCHANGED <<cursor, colours>>

(* Mutant of EscapeIsNone: the byte that is none of a sequence's is        *)
(* swallowed.                                                              *)
SwallowsByte ==
    /\ Outer
    /\ escape = <<Esc>> /\ At(offset) # 91
    /\ TakeEscapeByte(<<>>)
    /\ UNCHANGED <<cursor, colours>>

(* Mutant of EscapeIsNone: ansiEscLen is not reset.                        *)
KeepsEscape ==
    /\ Outer
    /\ escape = <<Esc>> /\ At(offset) # 91
    /\ UNCHANGED <<termVars, chars, transferring>>

(* Some other byte after ESC: it is text, or another ESC.                  *)
EscapeIsNone ==
    /\ Outer
    /\ escape = <<Esc>> /\ At(offset) # 91
    /\ escape' = <<>>
    /\ UNCHANGED <<cursor, flags, colours, at, offset, loop, escapeBefore, drawn>>
    /\ UNCHANGED <<overwritten, chars, transferring>>

Final(b) == b \in 64 .. 126

(* A sequence that fills the buffer is forgotten.                          *)
EscapeGoesOn ==
    /\ Outer
    /\ Len(escape) >= 2 /\ ~Final(At(offset))
    /\ LET new == Append(escape, At(offset))
       IN  TakeEscapeByte(IF Len(new) >= MaxEsc THEN <<>> ELSE new)
    /\ UNCHANGED <<cursor, colours>>

EscapeEnds ==
    /\ Outer
    /\ Len(escape) >= 2 /\ Final(At(offset))
    /\ CarryOut(escape, At(offset))
    /\ TakeEscapeByte(<<>>)

TextBegins ==
    /\ Outer
    /\ escape = <<>> /\ At(offset) # Esc
    /\ at' = "text"
    /\ line' = row /\ col' = column
    /\ home' = offset /\ homeCol' = column
    /\ i' = offset
    /\ UNCHANGED <<cursor, flags, colours, escape, offset, escapeBefore, drawn>>
    /\ UNCHANGED <<overwritten, chars, transferring>>

Text == at = "text" /\ i < Len0

(* Mutant of LineIsFull: col >= TERMINAL_COLS.                             *)
LineIsOverfull == "disableWrap" \notin flags /\ col >= Cols

LineIsFull == "disableWrap" \notin flags /\ col >= Cols - 1

(* Mutant of GoesOn: the last byte does not end its span.                  *)
GoesOnOverTheLast == At(i) \notin {Esc, Return, Newline} /\ ~LineIsFull

(* The span goes on over byte i; never over the last one.                  *)
GoesOn == i < Len0 - 1 /\ At(i) \notin {Esc, Return, Newline} /\ ~LineIsFull

Advance ==
    /\ Text
    /\ GoesOn
    /\ col' = col + 1
    /\ i' = i + 1
    /\ UNCHANGED <<cursor, flags, colours, escape, at, offset, line, home, homeCol>>
    /\ UNCHANGED <<escapeBefore, drawn, overwritten, chars, transferring>>

(* home_col * font->width is where a span begins, in the words of a line;  *)
(* a glyph is font->width / 2 of them.  So a column is two cells.          *)
Cell(c) == 2 * c

(* How many of the n glyphs of a span from column c TW_DrawAsciiSpan puts  *)
(* on the screen.  The others are cut off at its edge.                     *)
Shown(c, n) ==
    LET room == Cols - Cell(c)
    IN  IF n <= room THEN n ELSE IF room > 0 THEN room ELSE 0

(* TW_DrawAsciiSpan of chars[home .. i - 1] into its line.                 *)
Draw ==
    drawn' = IF i > home
             THEN drawn \cup {[from |-> home, to |-> i - 1, row |-> line % Rows,
                               column |-> homeCol, shown |-> Shown(homeCol, i - home)]}
             ELSE drawn

(* The loop is left with its line and column in the terminal.              *)
LeaveText(newLine, newCol) ==
    /\ row' = newLine /\ column' = newCol
    /\ ClearLoop

TextMeetsEscape ==
    /\ Text
    /\ At(i) = Esc
    /\ Draw
    /\ LeaveText(line, col)
    /\ offset' = i
    /\ at' = "outer"
    /\ UNCHANGED <<flags, colours, escape, escapeBefore, overwritten, chars, transferring>>

LineAfter == IF At(i) = Return THEN line ELSE line + 1

Breaks == Text /\ ~GoesOn /\ At(i) # Esc

(* A new line: by its byte, because the line is full or, whatever it is,   *)
(* for the last byte of the call.  What overflows the last line scrolls:   *)
(* by one line less than it should, so the line is Rows + 1 from then on.  *)
(* It is -1 lines the first time, which fills a line's worth of memory     *)
(* below the frame buffer: there the main thread's stack begins, downwards. *)
NewLine ==
    /\ Breaks
    /\ ~(LineAfter >= Rows /\ "disableScroll" \in flags)
    /\ Draw
    /\ col' = 0
    /\ homeCol' = 0
    /\ home' = IF At(i) \in {Return, Newline} THEN i + 1 ELSE i
    /\ LET scroll == LineAfter - Rows - 1
       IN  IF LineAfter >= Rows
           THEN /\ line' = LineAfter - scroll
                /\ overwritten' = (overwritten \/ scroll < 0)
           ELSE line' = LineAfter /\ UNCHANGED overwritten
    /\ i' = i + 1
    /\ UNCHANGED <<cursor, flags, colours, escape, at, offset, escapeBefore>>
    /\ UNCHANGED <<chars, transferring>>

(* With scrolling disabled the rest of the call is dropped.                *)
GiveUp ==
    /\ Breaks
    /\ LineAfter >= Rows /\ "disableScroll" \in flags
    /\ Draw
    /\ LeaveText(LineAfter, 0)
    /\ at' = "return"
    /\ UNCHANGED <<flags, colours, escape, offset, escapeBefore, overwritten>>
    /\ UNCHANGED <<chars, transferring>>

TextEnds ==
    /\ at = "text" /\ i >= Len0
    /\ LeaveText(line, col)
    /\ offset' = i
    /\ at' = "outer"
    /\ UNCHANGED <<flags, colours, escape, escapeBefore, drawn, overwritten, chars, transferring>>

Finish ==
    /\ \/ at = "return"
       \/ at = "outer" /\ offset >= Len0
    /\ at' = "idle"
    /\ offset' = 0
    /\ escapeBefore' = <<>>
    /\ drawn' = {}
    /\ Transferred
    /\ UNCHANGED <<cursor, flags, colours, escape, loop, overwritten>>

TW_PrintTerminal ==
    \/ Begin
    \/ EscapeBegins \/ EscapeOpens \/ EscapeIsNone \/ EscapeGoesOn \/ EscapeEnds
    \/ TextBegins \/ Advance \/ TextMeetsEscape \/ NewLine \/ GiveUp \/ TextEnds
    \/ Finish

-----------------------------------------------------------------------------
(* PROPERTIES                                                              *)

Span == [from : Nat, to : Nat, row : 0 .. Rows - 1, column : Nat, shown : 0 .. Cols]

TermTypeOK ==
    /\ row \in Nat /\ column \in Nat
    /\ "disableScroll" \notin flags => row <= Rows + 1
    /\ "disableWrap" \notin flags => column < Cols
    /\ flags \in Flags
    /\ fore \in Seq(Nat) /\ back \in Seq(Nat)
    /\ escape \in Seq(Byte) /\ Len(escape) < MaxEsc
    /\ at \in {"idle", "outer", "text", "return", "astray"}
    /\ offset \in 0 .. Len0
    /\ line \in Nat
    /\ col \in Nat
    /\ home \in 0 .. Len0 /\ i \in 0 .. Len0
    /\ homeCol \in Nat
    /\ escapeBefore \in Seq(Byte)
    /\ drawn \subseteq Span
    /\ overwritten \in BOOLEAN

(* The state of a terminal that gets its bytes one at a time: a sequence   *)
(* is what it has so far of one.                                           *)
Hear(e, b) ==
    IF Len(e) <= 1
    THEN IF b = Esc THEN <<Esc>> ELSE IF e = <<Esc>> /\ b = 91 THEN <<Esc, 91>> ELSE <<>>
    ELSE IF Final(b) \/ Len(e) + 1 = MaxEsc THEN <<>> ELSE Append(e, b)

(* What the terminal should have collected after k bytes of the call.      *)
Heard(k) ==
    Course([b \in Byte |-> [e \in Seq(Byte) |-> Hear(e, b)]], escapeBefore, chars)[k]

IsText(k) ==
    LET e == Heard(k)
    IN  /\ Len(e) <= 1
        /\ At(k) \notin {Esc, Return, Newline}
        /\ ~(e = <<Esc>> /\ At(k) = 91)

(* However an escape sequence is spread over calls, and whatever surrounds *)
(* it, the terminal has collected of it what came, in order.               *)
EscapesFollowBytes ==
    at = "outer" =>
        \/ escape = Heard(offset)
        \/ /\ escape = <<>> /\ Heard(offset) = <<Esc>>  \* EscapeIsNone
           /\ offset < Len0 /\ At(offset) # 91

(* Of the bytes dealt with, those that are text are given to               *)
(* TW_DrawAsciiSpan, each once, but never the last byte of a call; what is *)
(* given comes out on the screen if its cell is left of the edge.          *)
OnlyTheLastIsPassedOver ==
    at = "outer" =>
        /\ UNION {(s.from .. s.to) : s \in drawn} =
               {k \in 0 .. offset - 1 : IsText(k)} \ {Len0 - 1}
        /\ \A s, t \in drawn : s # t => (s.from .. s.to) \cap (t.from .. t.to) = {}
        /\ \A s \in drawn : \A k \in s.from .. s.to :
               k < s.from + s.shown <=> Cell(s.column) + k - s.from < Cols

(* A terminal that wraps loses at most as many glyphs of a span at the     *)
(* right edge as the span's column: none of a line that begins at the left *)
(* edge, however long the text.                                            *)
EdgeTakesAtMostTheColumn ==
    "disableWrap" \notin flags =>
        \A s \in drawn : s.to + 1 - s.from - s.shown <= s.column
=============================================================================
