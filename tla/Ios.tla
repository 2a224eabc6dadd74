--------------------------------- MODULE Ios --------------------------------
(***************************************************************************)
(* Requests to the second processor of the Wii (ppc/wii/ios.c, ios.S): a   *)
(* request block and a completion context are taken from a ring, the       *)
(* block's address is handed over through a pair of registers, and the     *)
(* answer is to come as an interrupt through the dispatch of external      *)
(* lines.                                                                  *)
(*                                                                         *)
(* One thread calls.  A block is its number in the ring; of a request only *)
(* its method is kept, of an answer that it came.  IOS itself, and how it  *)
(* drives the flags of the control register, is external: it takes what is *)
(* sent, acknowledges it, and replies to every request once.               *)
(***************************************************************************)
EXTENDS InterruptLines, Integers

CONSTANTS
    Slots,    \* request blocks in the ring (32)
    Methods   \* what is asked of an open device, with a completion handler

VARIABLES
    ipc,      \* "idle", or where in its call the thread is
    head,     \* _ios_completion_write_head & 0x1f: the next block to use
    context,  \* _ios_completion_handlers: block -> method of its handler
    block,    \* the block of the call
    message,  \* register 0: the block that is handed over
    flags,    \* register 4: the bits that are set
    answer,   \* register 8: the block that is answered
    working,  \* IOS: requests it has taken and not answered
    opened,   \* has a device been opened?
    reached   \* is the future of the open done?

ringVars == <<head, context, block>>
registers == <<message, flags, answer>>
iosVars == <<ipc, ringVars, registers, working, opened, reached, lineVars>>

NoBlock == -1

IosInit ==
    /\ ipc = "start"
    /\ head = 0
    /\ context = [s \in 0 .. Slots - 1 |-> "none"]
    /\ block = NoBlock
    /\ message = NoBlock
    /\ flags = {}
    /\ answer = NoBlock
    /\ working = {}
    /\ opened = FALSE
    /\ reached = FALSE
    /\ LinesInit

(* The program calls it before it opens anything.                          *)
SetupIos ==
    /\ ipc = "start"
    /\ ipc' = "idle"
    /\ StoreHandler("IPC_BROADWAY", "ios")
    /\ Enable("IPC_BROADWAY")
    /\ UNCHANGED <<ringVars, registers, working, opened, reached, cause>>

(* The next block of the ring, whether its last request was answered or    *)
(* not, and the completion context that goes with it.                      *)
TakeBlock(handler) ==
    /\ head' = (head + 1) % Slots
    /\ block' = head
    /\ context' =
        IF handler = "none" THEN context ELSE [context EXCEPT ![head] = handler]

(* The first half of TW_OpenIosDevice, and of the operations on a device.  *)
Prepare(handler, next) ==
    /\ ipc = "idle"
    /\ TakeBlock(handler)
    /\ ipc' = next
    /\ UNCHANGED <<registers, working, opened, lineVars>>

OpenIosDevice == ~opened /\ Prepare("open", "submit") /\ reached' = FALSE

Operate == \E m \in Methods : opened /\ Prepare(m, "submit") /\ UNCHANGED reached

(* TW_IoctlvRebootIos has no completion context: it polls.                 *)
IoctlvRebootIos == opened /\ Prepare("none", "reboot") /\ UNCHANGED reached

(* The stores to the registers.  The control word is 1, which also clears  *)
(* the bits that ask for interrupts; these are left out, and the line is   *)
(* raised for every acknowledgement and reply.                             *)
HandOver(here, next) ==
    /\ ipc = here
    /\ message' = block
    /\ flags' = flags \cup {"send"}
    /\ ipc' = next
    /\ UNCHANGED <<ringVars, answer, working, opened, reached, lineVars>>

(* A loop that waits for a flag, and the store that clears it.             *)
Poll(here, flag, next) ==
    /\ ipc = here
    /\ flag \in flags
    /\ flags' = flags \ {flag}
    /\ ipc' = next
    /\ UNCHANGED <<ringVars, message, answer, working, opened, reached, lineVars>>

SubmitIosRequest ==
    \/ HandOver("submit", "ack")
    \/ Poll("ack", "ack", IF context[block] = "open" THEN "await" ELSE "idle")

(* The second look is for the acknowledgement of the system that was       *)
(* launched, which is left standing; a reply that comes first means that   *)
(* it was not, and is left standing too.                                   *)
RebootIosSync ==
    \/ HandOver("reboot", "taken")
    \/ Poll("taken", "ack", "launched")
    \/ Poll("replied", "reply", "idle")
    \/ /\ ipc = "launched"
       /\ flags \cap {"ack", "reply"} # {}
       /\ ipc' = IF "reply" \in flags THEN "idle" ELSE "replied"
       /\ UNCHANGED <<ringVars, registers, working, opened, reached, lineVars>>

(* TW_AwaitFuture without a timeout, then the device's number.             *)
OpenEnds ==
    /\ ipc = "await"
    /\ reached
    /\ opened' = TRUE
    /\ ipc' = "idle"
    /\ UNCHANGED <<ringVars, registers, working, reached, lineVars>>

(* TW_InvokeMatchingIosCompletionHandler: the distance, in words, of the   *)
(* physical address that IOS answers with from the virtual one of the ring *)
(* (2^31 bytes above), cut to multiples of 64 although a block has 16.     *)
MatchingIndex(s) == (16 * s - 2^29) \div 64

Invoke(s) ==
    LET index == MatchingIndex(s)
    IN  reached' = IF index \in 0 .. Slots - 1
                   THEN reached \/ context[index] = "open"
                   ELSE reached

(* TW_HandleIosInterrupt                                                   *)
HandleIosInterrupt ==
    /\ flags' = flags \ {"ack", "reply"}
    /\ IF "reply" \in flags THEN Invoke(answer) ELSE UNCHANGED reached
    /\ cause' = cause \ {"ACR", "IPC_BROADWAY"}
    /\ UNCHANGED <<ipc, ringVars, message, answer, working, opened,
                   mask, wiiMask, handlers>>

Dispatch == ServedWii("IPC_BROADWAY") /\ HandleIosInterrupt

IosAcknowledges ==
    /\ "send" \in flags
    /\ flags' = (flags \ {"send"}) \cup {"ack"}
    /\ working' = working \cup {message}
    /\ cause' = cause \cup {"ACR", "IPC_BROADWAY"}
    /\ UNCHANGED <<ipc, ringVars, message, answer, opened, reached,
                   mask, wiiMask, handlers>>

IosLaunched ==
    /\ ipc = "launched"
    /\ flags' = flags \cup {"ack"}
    /\ cause' = cause \cup {"ACR", "IPC_BROADWAY"}
    /\ UNCHANGED <<ipc, ringVars, message, answer, working, opened, reached,
                   mask, wiiMask, handlers>>

IosReplies ==
    /\ "reply" \notin flags
    /\ \E s \in working : working' = working \ {s} /\ answer' = s
    /\ flags' = flags \cup {"reply"}
    /\ cause' = cause \cup {"ACR", "IPC_BROADWAY"}
    /\ UNCHANGED <<ipc, ringVars, message, opened, reached,
                   mask, wiiMask, handlers>>

Calls == ~Pending /\ (SetupIos \/ OpenIosDevice \/ Operate \/ IoctlvRebootIos)
Thread == ~Pending /\ (SubmitIosRequest \/ RebootIosSync \/ OpenEnds)
OtherProcessor == IosAcknowledges \/ IosLaunched \/ IosReplies

IosNext == Calls \/ Thread \/ Dispatch \/ OtherProcessor

(* Both processors go on, and an enabled interrupt is taken.               *)
IosSpec ==
    /\ IosInit
    /\ [][IosNext]_iosVars
    /\ WF_iosVars(Thread)
    /\ WF_iosVars(Dispatch)
    /\ WF_iosVars(OtherProcessor)

-----------------------------------------------------------------------------
(* PROPERTIES                                                              *)

(* With IOS answering everything it is asked, an open comes back.  Each of *)
(* the two masks, and the search for the completion handler, has to let    *)
(* the answer through for that; and the interrupt must not take the        *)
(* acknowledgement away from the loop that polls for it.                   *)
OpenComesBack == ipc \in {"submit", "ack", "await"} ~> ipc = "idle"
=============================================================================
