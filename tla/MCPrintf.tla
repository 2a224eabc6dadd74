------------------------------ MODULE MCPrintf ------------------------------
(***************************************************************************)
(* Printf with short formats and writes of a piece or two, so that escape  *)
(* sequences are split over calls in every way.                            *)
(***************************************************************************)
EXTENDS Printf

g == 103  \* a glyph

(* Text, and sequences whole, in parts and broken off.                     *)
MCWrites == {
    <<g, g, g, g, g, g>>,
    <<g, Newline, Return, g>>,
    <<Esc>>,
    <<91>>,                             \* [
    <<50, 59, 51, 72, g, g, g, g, g, g>>,  \* 2;3H and glyphs
    <<Esc, 91, 51, 49, 109, Esc, g>>}   \* ESC[31m ESCg

Conversions == {
    <<37, 100>>,                  \* %d
    <<37, 45, 43, 42, 105>>,      \* %-+*i
    <<37, 48, 53, 100>>,          \* %05d
    <<37, 35, 120>>,              \* %#x
    <<37, 104, 111>>,             \* %ho
    <<37, 112>>,                  \* %p
    <<37, 46, 50, 102>>,          \* %.2f
    <<37, 99>>,                   \* %c
    <<37, 115>>,                  \* %s
    <<92, 37, 37, 37, 110>>}      \* \%%%n

MCFormats == Conversions \cup {<<g, Newline, 37, 115, g>>, <<Esc, 91>> \o <<37, 100, 72>>}

MCStrings == {<<>>, <<g, Newline, g>>}

MCWidthArgs == {-1, 4}

MCFlags == {{}, {"disableScroll"}, {"disableWrap"}}

(* Integers of two and of five bits                                        *)
MCSizeOf == [n \in {8, 16, 32, 64} |-> IF n <= 16 THEN 4 ELSE 32]
=============================================================================
