------------------------------ MODULE DataCache -----------------------------
(***************************************************************************)
(* The loops over cache lines of ppc/misc.S, and what they are for: memory *)
(* that the program shares with a device that does not look into the       *)
(* cache.  A buffer handed to a device is written back first               *)
(* (TW_SyncAfterWrite); one a device has filled is dropped from the cache  *)
(* before it is read (TW_SyncBeforeRead).                                  *)
(*                                                                         *)
(* The processor may load a line at any time, and write one back at any    *)
(* time to make room; interrupt handlers store to memory the buffer does   *)
(* not own.  A cell stands for the bytes that share a fate, a line for the *)
(* 32 bytes of the processor's.                                            *)
(***************************************************************************)
EXTENDS Naturals

CONSTANTS
    Cells,   \* bound: the size of the memory
    LineSize

ASSUME CacheAssumption ==
    /\ LineSize \in Nat \ {0}
    /\ Cells \in Nat /\ Cells % LineSize = 0

VARIABLES
    ram,      \* what the device sees
    state,    \* of each line: is it in the cache, and newer than ram?
    cached,   \* the cells of the lines that are in the cache
    phase,    \* of the transfer
    buffer,   \* its memory
    line,     \* r3, r5 of the loop that runs: the next line and the end
    endLine,
    stored,   \* history: what the program put in each cell, or was left with
    spoiled   \* history: was a line of the buffer dirty while the device had it?

loop == <<line, endLine>>
memory == <<ram, state, cached>>
cacheVars == <<memory, phase, buffer, loop, stored, spoiled>>

Cell == 0 .. Cells - 1
Line == 0 .. (Cells \div LineSize) - 1
States == {"absent", "clean", "dirty"}
Value == {"initial", "program", "device"}

LineOf(c) == c \div LineSize
BufferLines == {LineOf(c) : c \in buffer}

(* What loads by the processor give.                                       *)
Viewed == [c \in Cell |-> IF state[LineOf(c)] = "absent" THEN ram[c] ELSE cached[c]]

(* The lines of a buffer that the device fills, while they may be stale.   *)
LinesOut ==
    CASE phase = "device" -> BufferLines
      [] phase = "dropping" -> {l \in BufferLines : l >= line}
      [] OTHER -> {}

Nothing == [c \in Cell |-> "initial"]

CacheInit ==
    /\ ram = Nothing
    /\ state = [l \in Line |-> "absent"]
    /\ cached = ram
    /\ phase = "idle"
    /\ buffer = {}
    /\ line = 0
    /\ endLine = 0
    /\ stored = ram
    /\ spoiled = FALSE

(* f with the cells of line l as they are in g                             *)
Overlaid(f, l, g) == [c \in Cell |-> IF LineOf(c) = l THEN g[c] ELSE f[c]]

Drop(l) ==
    /\ state' = [state EXCEPT ![l] = "absent"]
    /\ cached' = Overlaid(cached, l, Nothing)

(* dcbf: a dirty line is written to memory, and none stays.                *)
Flush(l) ==
    /\ ram' = IF state[l] = "dirty" THEN Overlaid(ram, l, cached) ELSE ram
    /\ Drop(l)

(* dcbi: the line is dropped, dirty or not.                                *)
Invalidate(l) == Drop(l) /\ UNCHANGED ram

Evict ==
    /\ \E l \in Line : state[l] # "absent" /\ Flush(l)
    /\ UNCHANGED <<phase, buffer, loop, stored, spoiled>>

Load ==
    /\ \E l \in Line :
        /\ state[l] = "absent"
        /\ state' = [state EXCEPT ![l] = "clean"]
        /\ cached' = Overlaid(cached, l, ram)
    /\ UNCHANGED <<ram, phase, buffer, loop, stored, spoiled>>

(* The program stores between transfers, handlers to other memory always.  *)
Store ==
    /\ \E c \in Cell \ buffer :
        /\ cached' = [Overlaid(cached, LineOf(c), Viewed) EXCEPT ![c] = "program"]
        /\ state' = [state EXCEPT ![LineOf(c)] = "dirty"]
        /\ stored' = [stored EXCEPT ![c] = "program"]
        /\ spoiled' = (spoiled \/ LineOf(c) \in LinesOut)
    /\ UNCHANGED <<ram, phase, buffer, loop>>

(* Mutant of PastTheEnd: as many lines as the size alone would fill.       *)
LinesOfSize(ptr, size) == LineOf(ptr) + (size + LineSize - 1) \div LineSize

(* (ptr + size + 0x1f) & ~0x1f                                             *)
PastTheEnd(ptr, size) == (ptr + size + LineSize - 1) \div LineSize

BeginLoop(next, ptr, size) ==
    /\ phase' = next
    /\ buffer' = ptr .. ptr + size - 1
    /\ line' = LineOf(ptr)
    /\ endLine' = PastTheEnd(ptr, size)

Advance(here, next) ==
    /\ phase = here
    /\ line' = line + 1
    /\ phase' = IF line + 1 = endLine THEN next ELSE here
    /\ UNCHANGED <<buffer, endLine, spoiled>>

(* The program hands a buffer of at least one byte to a device.            *)
SyncAfterWrite(ptr, size) ==
    /\ phase = "idle"
    /\ BeginLoop("flushing", ptr, size)
    /\ UNCHANGED <<memory, stored, spoiled>>

FlushLine ==
    /\ Advance("flushing", "handed")
    /\ Flush(line)
    /\ UNCHANGED stored

DeviceTook ==
    /\ phase = "handed"
    /\ phase' = "idle"
    /\ buffer' = {}
    /\ UNCHANGED <<memory, loop, stored, spoiled>>

(* The program asks a device to fill a buffer.                             *)
AskDevice(ptr, size) ==
    /\ phase = "idle"
    /\ BeginLoop("device", ptr, size)
    /\ spoiled' = \E c \in ptr .. ptr + size - 1 : state[LineOf(c)] = "dirty"
    /\ UNCHANGED <<memory, stored>>

DeviceAnswers ==
    /\ phase = "device"
    /\ phase' = "dropping"
    /\ ram' = [c \in Cell |-> IF c \in buffer THEN "device" ELSE ram[c]]
    /\ UNCHANGED <<state, cached, buffer, loop, stored, spoiled>>

(* TW_SyncBeforeRead: its branch back leads into the loop of               *)
(* TW_SyncAfterWrite, so only the first line is invalidated and all others *)
(* are flushed.  A neighbour's store in the first line may be lost.        *)
DropLine ==
    /\ Advance("dropping", "filled")
    /\ \/ /\ line - 1 \notin BufferLines
          /\ Invalidate(line)
          /\ stored' = Overlaid(stored, line, ram)
       \/ /\ line - 1 \in BufferLines
          /\ Flush(line)
          /\ UNCHANGED stored

ProgramReads ==
    /\ phase = "filled"
    /\ phase' = "idle"
    /\ stored' = [c \in Cell |-> IF c \in buffer THEN Viewed[c] ELSE stored[c]]
    /\ buffer' = {}
    /\ spoiled' = FALSE
    /\ UNCHANGED <<memory, loop>>

CacheNext ==
    \/ \E ptr \in Cell, size \in 1 .. Cells :
        /\ ptr + size <= Cells
        /\ SyncAfterWrite(ptr, size) \/ AskDevice(ptr, size)
    \/ FlushLine
    \/ DeviceTook
    \/ DeviceAnswers
    \/ DropLine
    \/ ProgramReads
    \/ Store
    \/ Load
    \/ Evict

CacheSpec == CacheInit /\ [][CacheNext]_cacheVars

-----------------------------------------------------------------------------
(* PROPERTIES                                                              *)

(* The device gets what the program wrote last, to the buffer's last byte: *)
(* not even handlers that store to neighbours in its lines change that.    *)
DeviceSeesWrites ==
    phase = "handed" => \A c \in buffer : ram[c] = stored[c]

(* The program reads what the device wrote, unless a line of the buffer    *)
(* was dirty while the device had it: that line may go over the answer,    *)
(* written back by the processor or by the loop itself.                    *)
ProgramSeesAnswer ==
    phase = "filled" /\ ~spoiled => \A c \in buffer : Viewed[c] = "device"
=============================================================================
