--------------------------- MODULE InterruptLines ----------------------------
(***************************************************************************)
(* The dispatch of external interrupts (ppc/interrupts.c): a cause and a   *)
(* mask register, a table of handlers, and a fixed order in which one line *)
(* is served for each entry.  On the Wii one line, ACR, stands for a       *)
(* second pair of registers with lines of their own.                       *)
(*                                                                         *)
(* A register is the set of the lines whose bits are set.  What raises a   *)
(* line, and what a handler does to take it down again, is left to the     *)
(* modules that extend this one.                                           *)
(***************************************************************************)
EXTENDS Naturals, Sequences

VARIABLES
    cause,     \* lines that are raised
    mask,      \* lines of the first pair that are let through
    wiiMask,   \* lines of the second pair that are let through
    handlers   \* __tw_external_interrupt_handler_table: line -> handler

lineVars == <<cause, mask, wiiMask, handlers>>

NoHandler == "none"

(* The order in which _tw_dispatch_external_interrupt looks at the lines.  *)
Ordered ==
    << "ERROR", "DEBUG", "MEMORY", "RESET", "VIDEO", "PE_TOKEN", "PE_FINISH",
       "HSP", "DSP", "AUDIO", "EXI", "SERIAL", "DVD", "FIFO", "ACR" >>

OrderedWii ==
    << "STARLET_TIMER", "NAND", "AES", "SHA1", "USB_E", "USB_O0", "USB_O1",
       "SD", "WIFI", "GPIO_BROADWAY", "GPIO_STARLET", "MIOS", "WRESET",
       "WDVD", "VWII", "IPC_BROADWAY", "IPC_STARLET" >>

LineSet == {Ordered[i] : i \in DOMAIN Ordered}
WiiLineSet == {OrderedWii[i] : i \in DOMAIN OrderedWii}
Installable == (LineSet \ {"ACR"}) \cup WiiLineSet

LinesInit ==
    /\ cause = {}
    /\ mask = {}
    /\ wiiMask = {}
    /\ handlers = [l \in Installable |-> NoHandler]

LinesTypeOK(Handlers) ==
    /\ cause \subseteq LineSet \cup WiiLineSet
    /\ mask \subseteq LineSet
    /\ wiiMask \subseteq WiiLineSet
    /\ handlers \in [Installable -> Handlers \cup {NoHandler}]

(* Is line l the first in the order that is active?                        *)
IsFirst(l, order, active) ==
    \E i \in DOMAIN order :
        /\ order[i] = l
        /\ l \in active
        /\ \A j \in 1 .. i - 1 : order[j] \notin active

Active == cause \cap mask

WiiActive == cause \cap wiiMask

(* The processor takes the exception before its next instruction.          *)
Pending == Active # {}

(* The line whose entry this is.  It ends the search whether it has a      *)
(* handler or not.                                                         *)
Served(l) == IsFirst(l, Ordered, Active)

ServedWii(l) == Served("ACR") /\ IsFirst(l, OrderedWii, WiiActive)

(* TW_SetExternalInterruptHandler: first the table, then the mask.         *)
StoreHandler(l, handler) == handlers' = [handlers EXCEPT ![l] = handler]

(* 1 << (16 - type) is bit 0 for the first line of the second pair; for    *)
(* all others the shift amount is negative, and slw makes that no bit.     *)
Enable(l) ==
    /\ mask' = mask \cup ({l} \cap LineSet)
    /\ wiiMask' = wiiMask \cup ({l} \cap {"STARLET_TIMER"})
=============================================================================
