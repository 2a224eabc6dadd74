------------------------------- MODULE Printf -------------------------------
(***************************************************************************)
(* TW_Printf and TW_WriteFileSync to standard output, of                   *)
(* ppc/twilight_ppc.c: what Format passes on, and what the program writes, *)
(* goes to the one Terminal.                                               *)
(***************************************************************************)
EXTENDS Terminal, Format

CONSTANTS
    Writes,  \* what the program writes to the file
    MaxRow   \* bound: no call below this row, where no scrolling keeps it

ASSUME PrintfAssumption == Writes \subseteq Seq(Byte) /\ MaxRow \in Nat

printf == <<chars, transferring>>
vars == <<printf, termVars, formatVars>>

Init ==
    /\ chars = <<>>
    /\ transferring = FALSE
    /\ TermInit
    /\ FormatInit

(* The functions of a call push frames that nothing has overwritten yet.   *)
NewFrames ==
    /\ overwritten' = FALSE
    /\ UNCHANGED <<cursor, flags, colours, escape, at, offset, loop, escapeBefore, drawn>>

(* TW_Printf passes 0 as the limit; a program that calls TW_FormatString    *)
(* with the same stream may pass another.                                  *)
TW_Printf(s, l) ==
    /\ row <= MaxRow
    /\ CallFormat(s, l)
    /\ NewFrames

(* _tw_stdout_file_write                                                   *)
Write(bytes) ==
    /\ row <= MaxRow
    /\ stage = "idle"
    /\ Transfer(bytes)
    /\ NewFrames
    /\ UNCHANGED formatVars

Step ==
    \/ at # "astray" /\ TW_FormatStringV /\ UNCHANGED termVars
    \/ TW_PrintTerminal /\ UNCHANGED formatVars

(* What is on the main thread's stack of a call that has scrolled over it  *)
(* are its variables, which a build without optimisation keeps there, and  *)
(* where its functions return to.  A call by another thread goes on; one   *)
(* by the main thread is lost, now or where it would return.               *)
GoAstray ==
    /\ overwritten
    /\ stage # "idle" \/ transferring
    /\ at # "astray"
    /\ at' = "astray"
    /\ UNCHANGED <<cursor, flags, colours, escape, offset, loop, escapeBefore, drawn, overwritten>>
    /\ UNCHANGED printf /\ UNCHANGED formatVars

Next ==
    \/ \E s \in Formats, l \in Limits : TW_Printf(s, l)
    \/ \E bytes \in Writes : Write(bytes)
    \/ Step
    \/ GoAstray

Spec == Init /\ [][Next]_vars

(* The processor executes the call.                                        *)
FairSpec == Spec /\ WF_vars(Step)

(* The two components' variables are in their ranges.                      *)
TypeOK ==
    /\ chars \in Seq(Byte)
    /\ transferring \in BOOLEAN
    /\ TermTypeOK
    /\ FormatTypeOK

(* Every call returns, whatever is printed, in whatever pieces, unless it  *)
(* has scrolled over the main thread's stack: neither loop goes on without *)
(* dealing with a byte.                                                    *)
CallsReturn ==
    stage # "idle" \/ transferring ~>
        \/ stage = "idle" /\ ~transferring
        \/ overwritten /\ at = "astray"
=============================================================================
