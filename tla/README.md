# A verification project for libtwilight

libtwilight is a C and assembly runtime for GameCube and Wii homebrew: one
PowerPC core, cooperative threads, interrupts as the only preemption, and a
small library (heap, futures, files, formatting, video) on top. This directory
holds TLA+ models of its concurrent core, TLC configurations that check them on
small instances, and TLAPS proofs of what matters most for every instance.
Paths below are relative to the root of the repository.

## Inventory

| Component | State | Operations | Hard behaviour | What makes it correct | Modelled by |
|---|---|---|---|---|---|
| Atomic functions (`ppc/misc.S` 45-121) and interrupt entry (`ppc/interrupts.S` 151-275) | the shared word, the processor's one reservation | compare-and-swap, get-and-set, add, or, xor, and | an interrupt at any instruction, interrupts of interrupts | each call is one step; the reservation is dropped on entry | `Reservation`, `AtomicWord`, `AtomicFunctions` |
| Slab of threading primitives (`common/structures.c` 322-370, `ppc/threading_ppc.c` 273-372) | used bits, list of buckets, the words in the slots, a guard mutex that is itself a slot | create and destroy of mutexes, conditions, futures, queues | a full bucket, recycled slots that were left locked or done | no slot has two owners, the guard is free between calls | `Primitives` |
| Conditions (`ppc/threading_ppc.c` 330-366) | bit 0 of a word, a deadline | await, broadcast | a broadcast between the test and the arming, a timeout | wakeups are not invented, lost ones are made up for | `Condition` |
| Waiting for a frame (`ppc/video.c` 34-52, 165-177) | frame counter, mutex, condition | await, invalidate timing, the interrupt | as above, a display that stops, other interrupts in between | the call ends with a new frame | `VideoWait`, `VideoInterrupts` |
| Futures (`common/structures.c` 372-432, `common/file.c` 107-166) | mutex, done bit, two words | create, await, await with timeout, peek, reach, destroy | completion in the calling thread or in an interrupt at any step | whole answers, consistent timeouts, the call returns | `Future` |
| Threads (`ppc/threading_ppc.c` 42-120, 159-205, `ppc/interrupts.S` 73-134) | thread table, current thread, saved registers, the heap's mutex, MSR[EE], SRR0 and SRR1 | start, allocate, switch while waiting, end, restore a context | interrupts during a start, an allocation, a restore and in handlers; slots recycled; who is entered next | every flow goes on where it was, on its own stack | `Threads` |
| Scheduled tasks (`ppc/threading_ppc.c` 122-157, 207-271) | table of 1024 tasks, decrementer | schedule, dispatch, sleep | timer against table | a task runs once, at its time | not modelled: no task ever runs |
| Interrupt dispatch (`ppc/interrupts.c`) | handler tables, two pairs of mask and cause registers | install, dispatch | several causes at once, installation in two steps | each cause is served | `InterruptLines`, `VideoInterrupts`, `Ios` |
| IOS requests (`ppc/wii/ios.c`, `ios.S`, `es.c`) | ring of 32 requests and completions, acknowledge and reply bits | submit, interrupt, reboot | replies out of order, ring reuse, acknowledge stolen by the handler | a request is answered | `Ios` |
| Files (`common/file.c` 1-105, `common/filesystem.c`) | file table, mount points | set, add, open, close | table full, opens that fail, prefixes of paths | files stay where they are, open devices can be reached | `Files` |
| Heap (`common/structures.c` 3-165) | list of headers, last header, freed marks | allocate, reallocate, free | merging of freed neighbours, a full heap, growth in place | objects are in the heap and apart, a search ends | `Heap` |
| Arrays, queues, maps (`common/structures.c` 167-317, 434-512) | sizes, capacities, positions | append, insert, look up, push, pull | growth failure, full or empty | contents survive, what is pushed is pulled once | not modelled |
| Formatting (`common/strformat.c`) | output buffer, place in the format | format, write an integer or a double | fields across the buffer's end, widths, signs | output is passed on in order, a field says its number | `Format`, `IntegerField`, `Courses`, `Printf` |
| Terminal (`ppc/video.c` 241-289, 291-546) | cursor, colours, part of an escape sequence | print | sequences over several calls, full lines, the screen's right edge, scrolling over the main thread's stack | each byte is either part of a sequence or passed on once, and comes out unless its cell is past the edge | `Terminal`, `Printf` |
| Copying and cache loops (`ppc/misc.S` 162-190, 231-269) | memory, the data cache | copy, fill, write back, drop | overlap, boundaries, lines shared with other data | the result is that of `memmove`; devices and program see each other's bytes | `Bytes`, `DataCache` |
| Serial, SD card, start-up, drawing, tools, stubs | device registers | | | | not modelled: I/O or straight-line code |

Components meet in three ways. Threads call each other's primitives directly.
Interrupt handlers (`vblank_handler`, the IOS completion handler) share words
with the thread they interrupt, through the atomic functions and, for futures,
through a mutex. A thread that has to wait calls `TW_MaybeAutoSwitchContext`,
and only there, or when it ends, another thread gets the processor.

## Modules

`AtomicWord` is the abstract specification: a word, and per flow of control an
operation that commits in one step. `Reservation` is the code: one action per
instruction that matters (`Lwarx`, `StwcxSucceeds`, `StwcxFails`, `Blr`), plus
`Interrupt` (the entry sequence, whose `stwcx.` to its scratch area drops the
reservation) and `ReturnFromInterrupt`. Flows are nesting levels: the flow at
`level` runs, those below are frozen. What is computed between load and store is
the constant operator `NewValue`, what is returned is `Reply`; `AtomicFunctions`
gives both for the six functions, with the branch-free arithmetic of the
compare-and-swap on words of `Width` bits. `PlainStore` is any ordinary store to
the word by the running flow outside the loops. `Atomic!Spec` holds under the
mapping `word <- word, pending <- op, answer <- Answer`.

`Primitives` is the slab. What a create or destroy call does under the guard
mutex is one action (`TakeSlot`, `GiveBack`); `GuardIsFree` is a conjunct of
each, as the code takes the guard and spins while it is taken. A create zeroes
its slot after it has released the guard (`ZeroSlot`, and `ClearFuture` once more
for a future), so the calls of others, threads or handlers, come in between:
`making` and `dirty` say how far each pointer's call is. `AddSb256Item`,
`UsedAfterAdd`, `BucketsAfterAdd`, `UsedAfterRemove` and `ZeroBlock` are the
helpers of `structures.c`, on sets of slots in place of bit fields. A slot's word
is abstracted to whether it is zero; `marks` is history, what a primitive's holder
locked or marked since it was created. The failure of `TW_Allocate` for a second
bucket, which the code does not look at, is not modelled: `MaxBuckets` bounds
the list.

`Condition` holds the steps of `TW_AwaitCondition` for one thread; `VideoWait`
and `Future` extend it. In both no other thread is runnable, so
`TW_MaybeAutoSwitchContext` returns without a switch and `TW_ScheduleTask` turns
every realistic delay away. `Tick` lets time pass between any two steps, as far
as it likes, which also covers the early timeouts that a torn read of the time
base would cause.

`VideoWait` adds the frame counter, as its distance from the value the thread
read, and `vblank_handler` as one action: an interrupt the thread takes no step
within. `Future` adds the future's words, the operation under way and
`TW_ReachFuture` step by step, in the thread or in the handler. While it runs
(`reach # "off"`) the thread below takes no step. The handler
stands for any interrupt handler that calls `TW_ReachFuture`, as the completion
handlers of `file.c` do.

`InterruptLines` is the dispatch of external interrupts: registers as sets of
lines, the two orders of `interrupts.c` as sequences, `Served` and `ServedWii`
for the one line an entry serves. `VideoInterrupts` composes it with `VideoWait`:
`InitVideo` installs the handler with interrupts disabled, the program installs
others in two steps with interrupts enabled, devices raise lines and may take
some back, and the thread runs only while no line that is let through is raised.
A line let through without a handler would be entered for ever (`Dispatch` has no
action for it); `InterruptsDrain` says that none is.

`Ios` extends `InterruptLines` too: a request takes the next block of the ring,
its address goes through the register pair, the submission polls for the
acknowledgement, an open then waits for the answer that `HandleIosInterrupt` is
to bring. The flags are set by IOS and cleared by writing them, whence the relaunch
(`RebootIosSync`) leaves an acknowledgement standing. `MatchingIndex` is the
pointer difference of `ios.c` 78 as the code computes it. The second processor is
external: it takes, acknowledges and answers whatever it is sent. `SetupIos` is
the call of the Wii's start-up code (`ppc/startup.S` 235).

`Files` is the file table under `TW_OpenFileSync`: one mount (`/ios`), the match
of a path with it, and what the filesystem opens as its own decision. Places are
never given back. `given`, `replaced` are history, for the properties.

`Bytes` is `TW_CopyBytes` and `TW_FillBytes`, a step per byte, on one stretch of
memory. `DataCache` is the two cache loops, a step per line, with a processor that
loads and evicts lines whenever it likes and handlers that store to memory outside
the buffer. The loop that drops lines branches back into the one that writes
them back (`misc.S` 187), so `DropLine` drops the first line only. `spoiled` is
history: a line of the buffer was dirty while the device had it.
`ProgramSeesAnswer` excludes that case, since there the code writes the line over
the answer, and in the first line drops the neighbour's store instead.
`MCMemory` runs the two side by side; a behaviour is one of either.

`Threads` is the thread table. A flow (a stack and a place in the program) is
named by the thread it was started as; `saved[t]` is the flow in thread `t`'s
register area. `TW_StartThread` is `ClaimSlot`, the two allocations of a slot
that is used for the first time, each between `LockHeap` and `UnlockHeap`, and
`FillSlot`, with interrupts enabled in between. The program allocates for itself
with the same two actions, in threads and in handlers.

A context is restored in steps, all but the last with interrupts enabled: `cur`
is set and interrupts are let in (`restore = "area"`), `SRR0` and `SRR1` are
loaded (`LoadSrr`), the `rfi` goes where they say (`Rfi`) and leaves interrupts
disabled. `EnterNext` begins one for a thread that ends; it has handed back its
slot by then and still runs. `BeginSwitch` begins one for a thread that waits:
since the switch saves to and loads from the same area, the caller comes back to
itself, its registers end up in every area the loop visits (`SwitchOn`,
`EndSwitch`), and which areas hold such a copy is `midway`.

Four things go wrong in ways that end what can be said of the table. They are
steps of the model like any other, and `mishaps` notes them:

- `"wait"`: a thread had to wait while another was runnable, and overwrote the
  other's registers;
- `"srr"`: an interrupt came between `mtsrr0` and the `rfi` of a restore
  (`ppc/interrupts.S` 130-134) and left its own return address in `SRR0`.
  `RfiAstray` then goes back into the restoring code: neither the flow that ends
  nor the one it chose goes on;
- `"nested"`: an interrupt came while a handler had enabled interrupts, as every
  call of `TW_StartThread` does, and overwrote what the outer return needs. The
  entry sequence has one scratch area and one stack. Two levels are therefore all
  there is, and what the processor does after a nested interrupt is not modelled;
- `"spin"`: a handler wants the heap's mutex while the thread below it holds it
  (`SpinForHeap`). It waits for ever, and its wait switches contexts from inside
  the handler.

`EveryoneKeepsTheirFlow` claims the table up to the first of these, the spin
excepted: it survives that until the wait finds somebody to switch to.
`ClaimsAreExclusive` and the second half of `OnlyTheEndedLeave` claim theirs
throughout. A flow loaded from an area nobody ever saved (`flow = None`) takes no
further step. The waiting flag, which nothing reads, and scheduled tasks, none of
which is ever found, are left out.

`Heap` is the allocator on one stretch of memory. Addresses and sizes are small
numbers, `next[h]` and `h \in freed` are what the code reads of the header at
`h`. A call is `Allocate`, `Reallocate` or `Free`; where it has to place an
object, `Append` or `BeginSearch` follows, and then one step per header the
search looks at (`InUse`, `TooSmall`) up to `Found` or `NotFound`. The
allocator's mutex is held until then, so no other call begins (`Idle`).
`MaximumSize`, `NextAfter` and `FreedAfter` are the answer and the effect of
`TW_DetermineHeapObjectMaximumSize`: it merges at most one freed neighbour,
since it looks next at the very link it has just zeroed, and takes the object to
reach to the heap's end. The variable `overrated` is history: it notes that some
object was answered to reach there. `astray` ends a behaviour where the code
reads a header that nobody wrote or writes one outside the heap. Left out: the
contents of objects, the second heap that the Wii build links behind the first,
and calls for no bytes at all, which fail before they touch the list.

`Printf` puts `Format` and `Terminal` together over `Stream`, a synchronous
`transfer`: while `transferring`, only the terminal takes steps. `Format` is
`TW_FormatStringV`, one action per byte and branch; `buf` holds what the stack
buffer holds below `pos`, and `meant` is history: all the output so far. The
intermediate values 3 and 6 of `format_mode` never outlive a byte and do not
appear. `prev` is `%` throughout a specification, since the loop continues
without updating it: so `hh` and `ll` are single length modifiers twice over, the
following conversion resets the length to 32, and `j`, `L`, `t` and `z` swallow
the conversion. `CopyPart` loses the bytes that fill the buffer, as the code
does. `IntegerField` is `TW_WriteInteger` as a function; the width of its
integers enters as how many values they have (`SizeOf`), 2 to the power of the
bits. Arguments come from small sets; a double is a row of zeros, since how its
digits are computed is left out. `Courses` is what reading a sequence byte by
byte comes to: the parser of a sequence's numbers, the reader of a field and the
terminal that hears one byte at a time are such courses. They and the digits are
recursive functions, not recursive operators, for the proofs.

`Terminal` is `TW_PrintTerminal`, one action per byte: cursor, colours, escape
sequences, and the spans that are given to `TW_DrawAsciiSpan`, with how many of
their glyphs come out; not what glyphs look like. A span's column is passed on
as that many times the font's width, in words of which a glyph takes half as many
(`ppc/video.c` 510, 244-268). So a column is two cells (`Cell`), a span from
column c is cut after as many glyphs as there are cells from 2c to the edge, and
from the middle of the line on nothing is drawn (`Shown`). Every call that does
not end in an escape sequence ends with a new line, drawn or not, and its last
byte is never drawn. With wrapping disabled, a line goes on past the last column;
a call's length bounds how far.

The first scroll is by -1 lines and leaves the row at `Rows + 1` for good. It
fills a text line's worth of memory below the frame buffer, which is where the
main thread's stack begins (`ppc/twilight_ppc.c` 54-60): the frames of the call
that scrolls, if it is the main thread's, are pixels from then on. `NewLine` sets
`overwritten`, and `GoAstray` of `Printf` lets such a call be lost at any moment
up to its return; it need not be, as another thread's stack is elsewhere. A call
that begins later pushes frames of its own (`NewFrames`). The model does not
follow the main thread's older frames, which the scroll may have overwritten too.

Operators introduced by "Mutant of" in a comment are wrong on purpose and used by no
specification. Each differs from a definition of the model as a likely mistake
in the code would, and `PROJECT.json` pairs it with the property that notices.

## Runs

| Run | Module | Shows |
|---|---|---|
| `MCReservation` | `MCReservation` | atomicity, freshness of the reservation, the compare-and-swap arithmetic, termination |
| `MCPrimitives` | `MCPrimitives` | no slot has two owners while the first bucket serves; the guard is free; a primitive's word tells what its holder did |
| `MCPrimitivesAlias` | `MCPrimitives` | violated: past the first bucket a slot in use is handed out |
| `MCVideoInterrupts` | `VideoInterrupts` | wakeups come from frames; a lost wakeup is recovered; the wait ends; pending lines are served |
| `MCFuture` | `Future` | whole answers, current verdicts, who holds the mutex, and that a call ends unless the handler spins |
| `MCThreads` | `Threads` | claims exclusive always; table in order, nobody lost, started threads run up to the first mishap |
| `MCThreadsWaiting` | `Threads` | violated: a waiting thread does not hand over, it overwrites the other's registers |
| `MCHeap` | `Heap` | objects stay apart until one is said to reach to the heap's end; searches end |
| `MCFiles` | `MCFiles` | files stay until they are set; open devices are reachable |
| `MCMemory` | `MCMemory` | copies are moves, fills are exact, the cache loops cover the buffer |
| `MCIos` | `Ios` | violated: opening an IOS device does not return |
| `MCPrintf` | `MCPrintf` | escape sequences are collected in order however they are split; bytes are passed on once and cut only at the edge; the buffer passes the output on in order; integers read back; calls return unless they scroll over the stack |

Bounds, and why they are enough:

- `MCReservation`: words of 2 bits, 2 levels, nine operations. The loop has
  no counter, so two values of the word that differ in masked and unmasked bits
  and one interrupt on top of the thread meet every ordering of two flows; the
  proofs cover deeper nesting, wider words and other operations.
- `MCPrimitives`: buckets of 4 slots, 2 buckets, 2 pointers. Slot 3 is the
  guard, so two futures fill the bucket and more, it empties and is recycled, and
  the second is reached; every step of one create meets every step of another
  call. `MCPrimitivesAlias` needs one pointer and 5 slots: the leak alone
  fills the bucket. Pointers are symmetric in the specification and in every
  property.
- `MCVideoInterrupts`: timeouts of 2 ticks, frames told apart up to 2, a line
  before and one after the video line in the order of service, all three raised
  together or apart. `MCFuture`: 2 ticks, more than the one that distinguishes
  "time left" from "no time".
- `MCFiles`: seven places, four of them free at first, three devices, five paths
  that share none, one, all, and all but nothing of their characters with the
  mount: the table fills with failed opens, with devices, and with both.
- `MCMemory`: five bytes of memory hold copies that overlap by every distance from
  both sides; two lines of two cells hold buffers that begin and end inside and at
  the edge of lines, and the line after the first, which is treated otherwise.
- `MCIos`: a ring of 4; the counterexample is a single open.
- `MCThreads`: 4 slots, 5 starts: the table fills up, slots are recycled twice,
  starts of a thread and of the handler on top of it overlap, and each of the four
  mishaps happens, at every step of a start, an end and a switch.
- `MCHeap`: 15 bytes with headers of 2, objects of up to 3 rounded to 2, 3
  pointers. Three objects fit and fill the heap, so searches begin, freed
  neighbours are merged, objects are reused, and a header falls past the end.

- `MCPrintf`: 3 columns, so that spans come out whole (from column 0), in part
  (from 1) and not at all (from 2); 2 rows, sequences of up to 5 bytes, a buffer of 4
  bytes and fields of up to 6. Lines fill and wrap, the terminal scrolls,
  sequences overflow their buffer, fields are longer than the output's buffer.
  Terminals wrap and scroll, or are told not to do the one or the other.
  Integers have 5 bits for 32 and their limits and signs are met at 0, 5 and 29
  (-3). Twelve formats take every branch of the specification's parser; six
  writes hold text, whole sequences, their two halves and lone `ESC` bytes, in
  any order. `MaxRow` stops calls below row 3, where only a terminal that must
  not scroll gets.

Deadlock is checked except where a behaviour may stop: in `MCThreads` and
`MCThreadsWaiting` a flow loaded from registers nobody saved, or lost in an
interrupted restore, does so with interrupts disabled; in `MCPrimitives` and
`MCPrimitivesAlias` a create that needs a bucket more than `MaxBuckets`; in
`MCHeap` a heap gone astray; `MCIos` waits; in `MCPrintf` no call is made below
`MaxRow`, and a call may be lost in its overwritten frames.

## Fairness

The processor executes: weak fairness of the thread's and the handler's own
instructions (`Instruction`, `WaitingCall`, `ReachFuture`, `PlaceObject`,
`Thread` of `Ios`, and `Step` of `Printf`). In `VideoInterrupts` an enabled
interrupt is taken (`Dispatch`), and the thread's steps get strong fairness, as
interrupts hold it up again and again; that it is let run at all is the premise
`Rested` of the two properties of the wait, and where interrupts stop coming
`InterruptsDrain` gives it.
`ReturnFromInterrupt` and these steps of `Threads` get strong fairness, because
interrupts disable them again and again without keeping the flow from going on
for ever. Time passes (`Time`), by the time base. A submitted request is
answered (`Interrupt` of `Future`, `OtherProcessor` of `Ios`), as the IOS
promises. Nothing is assumed of
the display except where a property says so: `FramesEndTheWait` names the
condition, `LostWakeupIsRecovered` does without. `CallsReturn` of `Reservation`
lets interrupts that never stop be the one excuse. In `Threads` the fair steps are those of the library's code (`LockHeap` or
`SpinForHeap` inside `TW_StartThread`, `UnlockHeap`, `FillSlot`, `EnterNext`,
`RestoreContext`), the handlers' returns, and `BeginEnd`, so `StartedThreadsRun`
speaks of programs whose threads end; that a thread allocates for itself, or waits,
is not fair.

## Proofs

The modules `...Proofs` are checked by TLAPS for every value of the constants,
from the named assumptions only.

- `MiscProofs`, on the routines of `ppc/misc.S`. Of the atomic functions it is
  assumed that the operations map words to words and that no reply is `NoReply`.
  The inductive invariant is `TypeOK /\ ReservationIsFresh`: a standing reservation is the running flow's, at its `stwcx.`, and the word is
  what it loaded. It is inductive because `Interrupt` clears the reservation, so
  a flow never resumes with one. `LoopsAreAtomic` uses it at `StwcxSucceeds`:
  there the word the reply was computed from is the word replaced, which is the
  one `Commit` of `AtomicWord`; every other step is an invocation, a return, a
  store or a stutter.
  Each copying loop has its invariant: what lies behind the loop has arrived, the
  rest is as the call found it. The byte that is read next is not among those
  written, forward because the destination lies below the source or past it,
  backward because it lies above. This holds for memories of any size.
  Of the cache it is assumed that memory is whole lines. `CacheInv` says what a load
  gives: cells that no device has read as they were stored (`StoredOK`), clean
  lines are as in memory except where a device wrote it and the loop has yet to
  come (`CleanOK`), and behind each loop memory, or what the program sees, is as it
  should be (`FlushedOK`, `AnswerOK`). Loads and evictions at any moment keep all of
  this; a store of a handler into a line of the buffer while the device has it sets
  `spoiled`, whose absence is the premise of `ProgramSeesAnswer`.
- `PrimitivesProofs`. `NoAliasInFirstBucket` needs that every owned slot is in
  `used`, that mutex and condition of one primitive differ, and that the guard
  is used and owned by nobody, as long as there is one bucket (`Tidy`). `buckets`
  never shrinks, so a step that ends with one bucket began with one, and
  `AddSb256Item` then returns a slot outside `used`. `GuardStaysFree` follows as
  only owned slots are locked or marked. `WordsTellTheirHolders` needs `Told`: the
  slot a create has yet to zero is its own (so the zeroing, after the guard was
  released, touches nobody else's word), every other owned slot's word tells its
  holder's marks, and there are no marks before the create has returned.
- `FutureProofs`. The strengthening ties together where the thread is, who holds
  the mutex and what the answer words are: done implies both words are the
  answer, outside its last two steps a reach that is past its lock holds the
  mutex, and a thread inside the critical section means the handler is not past
  its lock. `AnswerIsWhole`, `VerdictIsCurrent` and `SpinMeansHolder` follow.
- `HeapProofs`. Assumed: the header's size, the alignment and the largest size
  are positive. `ObjectsStayApart` needs that everything handed out ends below
  the place of the next header (`BelowTail`), that of two objects one ends before
  the other's header, and that marks of live objects are clear. `Append` keeps
  that, as the tail moves behind the new object. The invariant says so only while
  `overrated` is false: then measuring an object changed nothing
  (`MeasuringIsHarmless`), no search found anything, and no object grew in place.
- `VideoInterruptsProofs`. `OnlyFramesWake` needs that wherever a waiter is
  between arming and its way out, its bit is set or a frame has come
  (`ClearMeansNewFrame`): at `clock` and `park` too, where the next poll sees what
  a broadcast did meanwhile.
- `FilesProofs`. A place without a type has no device and was never given to the
  program (`FreePlacesAreEmpty`), so filling one changes no given file and loses no
  device.

- `ThreadsProofs`. Assumed: there is a slot, and `None` is no thread.
  `Inv` adds that runnable threads were claimed and lie below `_tw_thread_count`
  (`TableInOrder`), and that calls of `TW_StartThread` are under way only at levels
  that were entered and in no flow that is ending (`ClaimsAreNested`): a handler that
  returns has finished its calls, so no claim outlives its level, and a thread that
  ends holds none itself. `ClaimsAreExclusive` and `OnlyTheEndedLeave` follow.
  `EveryoneKeepsTheirFlow` is inductive, up to a mishap (`Calm`), with three more
  facts (`OrderInv`): no area holds a copy that a switch left, the current thread is
  runnable, and a restore that is under way is an ending flow's, of an area that
  holds its thread's own flow (`RestoresOwnFlow`). An interrupt may come at each of
  its steps and claim the slot just handed back; that slot is not runnable before
  it is filled, with the new thread's own flow.
- `PrintfProofs`. Assumed: the buffer and the caller's buffer for a field have room
  for a byte, the terminal has two columns and two rows, its escape buffer three
  bytes, formats and strings contain no terminating zero, and integers have at
  least two values. Nothing is assumed of arguments, widths, flags, lengths or
  what the bytes are. The proofs lean on each other in this order:
  - *Recursive functions.* The library's induction theorems take the claim as an
    operator, which the provers cannot instantiate. `WFMin` takes a set instead: a
    claim that fails somewhere has a least number where it fails
    (`LeastNatural`), and the step below that number refutes it. This gives that
    courses and the digits are defined, and what they satisfy byte by byte
    (`CourseIsDefined`, `CourseSteps`, `CourseIsTyped`).
  - *Fields and buffer.* A field is blanks, sign, prefix, zeros, digits, blanks
    (`IsByteOf`); reading passes silently over all but the digits, whose course is
    the number (`AreDigits`), so whatever pads it, it reads back. `FormatInv` has
    this for every field that is being copied (`FieldsReadBack`) and, with
    `Held`, that the flushed buffers, the buffer and what is pending make up the
    output (`NothingIsLostInTheBuffer`). The buffer alone would not do: in the middle
    of a field the output is ahead of it by `Pending`.
  - *Cursor and edge.* `TermInv` bounds the column by how far the span has come:
    without `homeCol + (i - home) <= col + 1` a span's end could lie past its line
    (`SpansFit`, local to the proofs). What is cut off a span that fits its line
    counted in columns is, in cells, at most its column (`LossesAreBounded`).
  - *Escape sequences and spans.* `EscapeInv` says, in the middle of a call, what the
    reference terminal has heard up to there. In a stretch of text no byte since
    has opened a sequence, with one exception: an `ESC` that the next byte proves to
    be none, which the code has dropped and the reference still holds (`Collected`,
    `NoneCollected`). `DrawnInv` says that the spans cover the text behind the call's
    place once (`Covers`), and that in a stretch of text everything from `home` on
    is text that is not drawn yet (`OneByteIsPassedOver`). A call that goes astray
    leaves its last state behind, and the invariants with it (`StrayingKeepsTerm`).

The four invariants of `PrintfProofs` were model-checked with the constants of
`MCPrintf` before they were proved.

Every invariant and every action property of a passing run is stated by a theorem,
with one exception. Only model-checked are:

- all liveness, since fairness and `ENABLED` are beyond the prover:
  `CallsReturn` of `Reservation` and of `Printf`, `LostWakeupIsRecovered`,
  `FramesEndTheWait`, `InterruptsDrain`, `CallsReturnOrHandlerSpins`,
  `StartedThreadsRun` and `CallsEnd`;
- the compare-and-swap arithmetic, `CasMeetsItsSignature`: it is over `Bitwise`,
  which is recursive, and the prover takes no module that reaches one.

## What the violated runs say

- The slab takes flag 0, the top slot, of the full bucket after linking a new
  one (`common/structures.c` 346), against "book-keeping, so we know which slots
  have been used" (`include/twilight.h` 97). In the first bucket that slot is the
  slab's own guard.
- `TW_MaybeAutoSwitchContext` saves to the area it loads from, against the
  comment at `ppc/threading_ppc.c` 183 and the signature at `ppc/interrupts.S` 73.
- Opening an IOS device waits for ever, against "initialise IPC and enable IPC
  interrupts" (`ppc/wii/ios.c` 65): the shift in `ppc/interrupts.c` 139 is by -30,
  so the line's mask bit is not set, and nothing sets the ACR bit of the first mask.
  With both masks repaired in the model the open still hangs, as the interrupt may
  take the acknowledgement from the polling loop, and as the completion's index is
  computed from a physical less a virtual address (`ppc/wii/ios.c` 78).

Six more show in the models, at the premises of properties that hold:

- A completion handler that reaches a future from an interrupt while the thread
  holds its mutex never returns (`HandlerSpins` in `Future`), against "this may not
  be a true deadlock" (`ppc/threading_ppc.c` 300).
- `TW_ReachFuture` sets the bit a broadcast clears, against "broadcast condition
  and set done status" (`common/structures.c` 426): `ReachMarks` sets `wait`, and a
  waiter sits out its time.
- The heap takes the last object to reach to its end, lets it grow in place and
  puts the next object where the old end was, inside an object whose mark says
  that it was never freed (`include/twilight.h` 47): hence `overrated` in
  `ObjectsAreApart`.
- A thread that ends enters the next one with interrupts enabled
  (`ppc/threading_ppc.c` 170), and an interrupt within the last instructions of
  the restore loses both, against "We should have entered another context by now"
  (`ppc/threading_ppc.c` 200): `"srr"` of `Threads`. A handler that starts a thread
  may be lost too, to the heap's mutex or to a second interrupt: `"spin"` and
  `"nested"`.
- Text is spread over twice its columns and cut at the edge: `Shown` of
  `Terminal`, hence the bound in `EdgeTakesAtMostTheColumn`.
- The first scroll writes over the main thread's stack: `overwritten`, hence the
  excuse in `CallsReturn` of `Printf`.

## Not modelled

- Scheduled tasks: `_tw_highest_schedule` stays 0, so `_tw_dispatch_handler` looks
  at no task, and the dispatch calls the timer's handler for exception 8
  (`ppc/interrupts.c` 70) while the decrementer's has the number 9. A model would
  have no step to take. `TW_Sleep` is `TW_AwaitCondition` on a condition of its own.
- Handlers of other exceptions than external interrupts: tables without state.
- Arrays: `TW_ResizeFlexArray` notes the capacity it wanted and allocates the
  size that was needed (`common/structures.c` 241), so the second append writes past
  its memory. `Files` therefore has one mount, and partitions, whose parsers are
  appended to such an array, are left out. Hash maps, queues and buffer streams are
  sequential and used by nothing in the repository.
- `TW_WriteDouble`'s digits, what glyphs look like, serial, SD card, start-up: arithmetic,
  I/O or straight-line code. `TW_SyncAfterWrite` of no bytes at a line's beginning,
  which would go through all of memory.

## Plan

In order:

1. Refinements of abstract specifications for the components that have none: a
   future as a cell that is filled once, the file table as a partial function.
2. The safety half of the liveness properties, as action properties: a step of
   `TW_FormatStringV` or `TW_PrintTerminal` never goes back in its bytes.
3. The contents of objects in `Heap` when they move; arrays over an allocator that
   may fail.
