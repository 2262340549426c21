# ZephOS: a TLA+ verification project

ZephOS is a small preemptive kernel for one ARM Cortex-A9 core (QEMU
vexpress-a9): round-robin tasks, a first-fit heap, a PS/2 keyboard, an LCD and a
FAT32 card. Everything shares one address space; a task enters the kernel with
`svc 0`, an interrupt enters it by itself, and the kernel runs with IRQs masked
until it leaves (`svc.s:27`, `irq.s:4`), with two exceptions this project shows.

Contents: inventory; modules; correspondence with the code; runs; fairness;
theorems; findings; what is not modelled; plan.

## 1. Inventory

| Component | State | Operations | Talks to | What makes it correct |
| --- | --- | --- | --- | --- |
| Tasks and scheduler (`core/task.c`) | `task_table`, `task_count`, `current_task`, the scheduler's static index | `scheduler`, `k_task_create`, `k_tick_handler`, SYS_YIELD, SLEEP, EXIT, SPAWN | called by the dispatcher and the timer ISR; stacks from the heap | only READY tasks run; idle only when none is; nobody starves; sleepers wake, never more than a tick early; exit is final |
| Timer (`Express-A9_timer.c`) | `system_millis`, the pending interrupt | `k_timer1_isr` | wakes sleepers, runs the scheduler | one tick is served per interrupt; ticks expired while one is pending are lost |
| Kernel heap (`core/memory.c`) | the list of block headers | `k_malloc`, `k_free`, the two totals; `memcpy`, `memcmp` | stacks, FILEs, SYS_MALLOC/FREE | blocks tile the heap and lie on words, callers' bytes are disjoint and whole, everything freed is one block again, the totals agree with the search of the next call, the loops end |
| Context switch (`svc.s`, `irq.s`, `task_asm.s`, `k_task_init`) | registers, stacks, each TCB's `sp` | save, switch, restore | the dispatcher and the interrupt handler change `current_task` in between | each task sees a processor of its own; stacks stay balanced |
| Dispatcher (`core/syscall.c`, `include/unistd.c`) | the caller's frame | one case per call | everything above and below | atomic; the result reaches its caller |
| Interrupt controller (`Express-A9_interrupts.c`) | handler table | `k_irq_handler` | timer, keyboard | the device's handler runs once per interrupt |
| Keyboard (`Express-A9_ps2.c`, `core/fifo.c`) | modifiers, pending prefixes, a ring of characters | the IRQ handler, `k_fifo_put`, `k_fifo_get`, LED command | the device, SYS_GETCHAR | characters in order, in the right case, none invented; only the newest dropped |
| FAT32 (`core/filesystem.c`) | the card; one cursor per FILE | `k_fopen`, `k_fread`, `k_fclose`, `k_remove`, `fskip`, `fsetp` | the SD driver; the heap for FILEs | a cursor follows its chain; reads give the file; removal frees all of one file and nothing else, also across failures and resets; what was not read is never taken for the file's |
| SD driver (`drivers/sd.c`) | the controller | read and write a sector, by polling | FAT32 | every loop has a limit; an update changes one word unless its read gave up (a short read reports success: see 7) |
| UART, `printf` (`Express-A9_uart.c`, `strings_common.c`) | the device | `k_vprintf_internal`, `itoa` | everyone | a number that is printed reads back |
| LCD and drawing (`lcd.c`, `draw.c`) | `framebuffer` | `put_pixel`, `draw_line`, `draw_rect` | the display task | lines end, stay in their box, have no gap; no write outside the screen |
| Fonts (`text_render.c`, `file_parser.c`) | one `font_t` and its arrays | `get_font`, `draw_char`, `draw_text` | files, the heap, drawing | what is loaded is what the file says; each character gets its own glyph and box; arrays hold what is written |
| Start-up (`startup.s`, `main.c`, `data_abort.s`) | | set up, then never again | | order of initialisation |

Hard to test here: an interrupt between any two instructions of a task; ticks
lost while a call runs; a task table that changes between two runs of the
scheduler; lists rewired in the middle of a loop; a key spread over several
interrupts; a removal cut short by a failed transfer or a reset; a file removed
while it is open; a card that answers late or never, and a read that gives up and reports
success; offsets, ends and sizes added up by hand. PROJECT.json lists each hazard at its line, with the properties
that cover it or the reason none does.

## 2. Modules

| Module | What it is |
| --- | --- |
| `Task` | task table, scheduler, tick, system calls on tasks |
| `TaskBounds` | `Task` with history variables: how long a task waits, how long it sleeps |
| `TaskProofs` | their theorems |
| `Heap` | `k_malloc` and `k_free`, one turn of a loop a step |
| `Allocator` | what a heap promises: a set of disjoint blocks |
| `HeapImplements` | `Heap` as an implementation of `Allocator` |
| `HeapProofs` | their theorems |
| `Context` | frames, stack pointers, what `svc.s` and `irq.s` do |
| `Processors` | what a context switch promises: registers per task |
| `ContextUnmasked` | `Context` with the calls that enable interrupts inside the kernel |
| `ContextProofs` | their theorems |
| `Keyboard` | interrupt handler, decoder, ring, SYS_GETCHAR |
| `TypedText` | what a keyboard promises: text, typed in order |
| `KeyboardProofs` | their theorems |
| `FileSystem`, `MCFileSystem` | files on a card that may fail, and a small card for TLC |
| `FileService` | what files promise: reads, moves and removals of one step, without a FAT |
| `FileSystemImplements` | `FileSystem` as an implementation of `FileService` |
| `FileSystemProofs` | their theorems |
| `Sd` | a sector read, changed and written back, turn by turn of the polling loops |
| `Draw` | lines and rectangles on the LCD |
| `DrawProofs` | theorems about lines and lemmas about fonts |
| `Font`, `MCFont` | loading a font and drawing text, and small font files for TLC |
| `Memory` | `memcpy` and `memcmp` |
| `Strings` | formatted output |
| `Routines` | `Font`, `Memory`, `Strings` and `Sd` together: one routine at work at a time |
| `RoutinesProofs` | their theorems |
| `Recursion` | lemmas for proofs about loops: induction over the naturals, functions defined by recursion |

`TaskBounds` extends `Task`; `Context` takes from `Task` what the scheduler may
choose (`scheduled` is `CurrentIsRunnable`); the heap is used by tasks and files
through its abstract promise only. `Font` extends `Draw`, whose rectangles it paints;
`Routines` is the sum of the sequential modules, whose variables are disjoint, so
that one specification, one fairness and one run serve them all. Operators called `X_Something`, next to an
operator `X`, are plausible mistakes in `X`: PROJECT.json ("mutants") pairs each
with the property that notices it, and they are used by nothing else.

## 3. Correspondence with the code

**Task.** A task is its index in `task_table`; `state`, `sleep_ticks` and
`start_time` are the TCB's fields, by index. A slot past `task_count` is zeroed
memory, which reads as TASK_READY: `Init` has it so, and the scheduler must never
reach it. `Visit` and `Turns` are the search of `task.c:87-92` (`Visit(k)` the
slot of the k-th turn, `Turns` its `task_count` turns), `scheduler` the whole
function, `k_tick_handler` the loop over sleepers. A handler is one step, because
IRQs are masked; `tick_pending` is the timer's interrupt line, so a tick arrives
at any instant and is lost when one already waits. Init is the end of `main()`.

**TaskBounds** adds four history variables no guard reads: scheduler runs that
passed a READY task over, and for a sleeper what it asked, when, and how many
times the timer expired since. `BSpec => Spec` is proved.

**Heap.** `hdr` is the list: a function from header addresses to headers. `op`
and `curr` are the function running and its local. `k_malloc` begins a search,
`MallocNext` is a turn of line 34, `MallocFound` splits and takes, `MallocFails`
returns NULL; `k_free` marks the block and begins at the list's head, `FreeMerge`
joins a block with the next and stays, `FreeNext` goes on, `FreeDone` ends. `size`
is `(n + 7) & ~7` in the width of `size_t`. `live` records what callers hold.
A caller frees what it was given, once. `k_get_free_heap` and
`k_get_max_free_block` are walks along `next`, as in the code.

**Context.** A frame is what the two entries push: `pc`, `r0`, `cpsr` and `rest`
for r1-r12 and lr. `exception_lr` is the address after the instruction; the two
handlers correct it differently (`svc_return`, `irq_return`). `at` is where the
kernel is. `Save` is an entry, `Restore` an exit, which pops from the stack of
whatever task `current_task` then is. The dispatcher's cases are grouped by what
they do to the frame: `Reply`, `NoReply`, `Reschedule`, `Spawn`. The SPSR an entry
saves is read after `cps 0x1F`, in System mode, where the architecture leaves it
UNPREDICTABLE; the model does what the emulated machine does: it reads what
System mode wrote last (`sys_spsr`). `ContextUnmasked` adds `k_enable_interrupts`, which
`k_free()` and every `k_uart_print()` end in: in the dispatcher (SYS_FREE, SYS_FCLOSE, the
"SD COMMAND FAIL" of `sd.c:98` and `136`) and in the interrupt handler, when the
interrupt is one it does not know.

**Keyboard.** A key is its scan code. `wire` holds presses and releases that are
on their way, `got` how many bytes of the first the handler has read: a byte is an
interrupt, so system calls and further keys come between the bytes of one key.
`Prefix` and `Code` are the two ways through `k_ps2_irq_handler()`. The tables are
the sets of codes with an entry; a read past the end of a table gives NUL or
anything (`JUNK`), as the linker decides. Caps Lock sends two LED bytes; each is
answered with 0xFA, which the handler takes for a key. The answers come before or
after what is already queued. Ctrl, Alt and `is_extended` are written and never
read (`is_extended` is kept in the state, Ctrl and Alt are not).

**FileSystem.** `fat` has every copy of the FAT, `dir` the listed files, `fp` the
one open FILE, `pc` the point the running system call has reached, `seek` the walk
of `sync_file_cluster()`. One turn of a loop is one step, so a reset falls between
any two turns; no other call does, except during `fskip()`/`fsetp()`, which are not
system calls: a removal may fall between two steps of their walk or into one of its
transfers (`sync_read` to `sync_step`). Bytes are places on the card, so that "the right
bytes" means the right places; a cluster below 2 is the FAT (`cluster_to_lba`). A transfer
is done, fails (-1), or is short: it returns 0 with words missing, because it ran out of
turns or because another task used the controller meanwhile. What a short read leaves is
what memory held: `JUNK`, a number nobody knows (any cluster, or past the card), for a
cluster; `JunkByte` for a byte; any of `Sizes` for a size. A removal that writes such words
back overwrites one sector of the FAT, the directory or a sector nobody knows; from then on
the card is `Lost` (`Astray`): nothing is known of any of its entries. `total_to_read`
keeps the wrap-around of 32 bits. `start`, `wanted`, `begun`, `failed` and `fp.file` are
not in the code: properties read them, no guard does.
`FileSystemImplements` says when a call takes effect for `FileService`: a read when its
last byte is there (until then the position is `start`), a move when it sets `fpos` (the
walk that follows may only set `eof`), a removal when the directory is written back. `FileService` says what is
left to promise after a failure: fewer bytes, bytes marked `Unread`, a file opened without
`sure`, a card that is lost; no known byte of another file, ever.

**Sd.** The one read-modify-write of the code, a turn of `mark_cluster_in_fat()`, on
one sector. A step is one turn of a polling loop, which reads the status once: data
may be there or not, and an error may be flagged in the same turn, after the word
was moved. `safety_timeout` is one count for the two loops of a write. The card
programs what it was sent whole, before or when it says so. Word i of the sector is
the number i, so that a word in the wrong place is seen; what `fat_buffer` holds
before the read is `JUNK`.

**Draw.** `line_turn` is a turn of `draw_line()` that goes on, `line_break` its last.
`lit` has the entries of `framebuffer` written. `draw_rect()` is one step; its sides are
unsigned, so a negative one is huge (`Covers`).

**Font.** `raw_file` is a file of bytes and beside it, for the properties only, the face
it was made from. A step of `get_font()` reads one table at the distances the code
adds up. `blocks` has the bytes asked for and written of each array. `font` holds the
fields that are read again; the list behind the range offsets is stored and never read. `draw_char` is one step: search, box, metrics, rectangle,
cursor. Two things look wrong and are what the code does: index_to_loc_format is
read 8 bytes early, and a segment's two ends do not belong to it (`Supports`). The
format's own rule is `Holds` and `GlyphOfFormat`, with the ends and the range offsets.

**Memory.** One turn of a loop is one step; `words` says whether the word loop is still
on. Pointers are places in one small memory, so regions may touch or overlap.

**Strings.** One item of the format is one step; digits are numbers. `itoa10` takes
each power of ten as often as it goes, as `powers` has it.

## 4. Runs

| Run | Instance | States | What it shows |
| --- | --- | --- | --- |
| `task` | 4 slots, 2 boot tasks, sleeps 0..2, clock of 3 values | 87 thousand | who may run, idle only when needed, exit final, no starvation, sleepers wake |
| `task_bounds` | the same | 1.4 million | a READY task is passed over at most `task_count - 1` times; sleeps at most one tick short; the two clocks agree across the wrap |
| `heap` | 84 bytes, header 12, requests 0, 1, 9, 24 | 369 thousand | the list tiles the heap on word boundaries, callers are backed, the totals are right, freed heap is whole, calls return, `Allocator` implemented |
| `context` | 3 tasks, one created later, one idle; 2 values a register, 2 addresses | 58 thousand | balanced stacks; a processor per task |
| `context_flags`, `context_atomic` | the same | | violations |
| `keyboard` | a letter, a plain key with an 0xE0 form, one shift, Caps Lock; ring of 3; 2 events waiting | 715 thousand | types of the state, shift never left on, typed text implemented |
| `files` | files of two clusters (7 of 8 bytes, out of order) and one (full); one copy of the FAT; sectors of 2 bytes, clusters of 4; positions wrap at 8 | 622 thousand | reads, moves, calls that end, `FileService` implemented: see below |
| `files_cards` | the same files, two copies of the FAT | 1.94 million | what removals leave on the card: see below |
| `files_remove` | the same | | violation |
| `routines` | lines of a 6 by 5 grid on a screen of 5 by 4; four font files of six glyphs, one composite; one file has a range offset; 23 texts; memory of 6 bytes and words of 2; 8-bit integers; sectors of 4 words, 6 turns | 55 thousand | see below |
| `font_blocks` | the same fonts | | violation |

Why the bounds are enough.
*Task*: four slots have a running task, one it passes over, one created later and
an unused one; sleeps reach 2, so that a sleeper counts, waits and wakes, and the
clock (3 values) wraps during a sleep. The theorems lift all four bounds.
*Heap*: four blocks of a request of 1 fit (seven of a request of 0, which gets a header
and no bytes), so a free block can have taken neighbours on
either side, both, or none; every request of a byte or more meets holes that fit exactly, that
split and that are too small, and free blocks of no bytes occur. *Context*: three tasks, since a switch has an old and a new
task and a third that must not be touched. *Keyboard*: ring of 3 slots wraps, fills
and drops; two waiting events are enough for answers to overtake a key in the middle
of a prefix. `WireSize` assumes the keyboard's own buffer does not overflow.
*FileSystem*: the two-cluster chain gives a first, a last and an out-of-order link;
reads of 1, 3 and 7 end inside a sector, across sectors, across clusters and past
the file; moves go back (7 wraps round to one less), ahead, to the start and to the second
cluster; with positions that wrap at 8, `fpos + total` wraps as well, and positions past
the end of the full file (4) are reached. One copy of the FAT is enough for reads, which use the first; two
for removals, which write all. The number of failures, short transfers and resets is not
bounded.
*Routines*: the grid has lines of every direction and slope, of one point, and some
that leave the screen; the files have their tables in the usual order, in another
with one more table, one has a range offset and one a format the code refuses; characters are inside, at both
ends of and between segments, in a list and missing from it; glyphs have a width of their own or share the last, and
a box or, being composite, none;
copies have every alignment of both pointers, 0 to 4 bytes, any overlap; every 8-bit
value is printed; 6 turns for 4 words leave room for two late words, and no more.

What `routines` shows. `LineInBox`, `LineNearest`, `LineUnbroken`: a line stays between
its ends, nearest to the ideal line, without gap, inside `framebuffer`. `LoadsFace`,
`DrawsItsGlyph`: what `get_font()` keeps is what the face says; a character strictly inside
a segment without range offset is drawn as its own glyph, one at an end as that or the
missing one, and always in the box of the glyph drawn if that has an outline of its own;
for fonts with long offsets. What it has to except does happen (see 7). `CopiesExactly`, `ComparesBytes`: bytes outside the
destination are never touched, the copy is exact unless the regions overlap ahead,
the sign is that of the first difference. `PrintsNumber`: what is printed is digits of the base that
read back.
`UpdatesOneWord`: an update changes its word of the sector and no other, unless the
read gave up; success means it is on the card, or
that the wait for the card was cut short. `RoutinesReturn`: all of them end, however late the card answers.

What `files_cards` shows. `OthersIntact`: whatever was removed, failed or reset, a file
nobody asked to remove is listed and whole in every copy, until a removal writes words it
has not read (`Lost`); so reads, moves and failed writes alone never harm one.
`ConsistentWithoutFaults`: until something fails, a removal leaves the copies equal and
exactly the listed files' clusters taken.

What `files` shows. `CursorOnChain`: position and cluster of a FILE agree after any
reads and moves, or the cluster is a number that was not read (`JUNK`); a short read never
leads to another known cluster, and a walk that reads all its entries recovers.
`ReadsItsFile`: the bytes read are those at the position, once each; a file removed while
open may give bytes of the FAT but never another file's. Bytes of a sector that was not
read, or of a cluster whose number was not, are whatever memory or the card held there,
perhaps another file's: both are `JunkByte`, and none occurs until something fails.
`CallsReturn`: the loops end, also on chains that were cut or are not the file's; only a
removal that follows numbers it has not read may go on. `ImplementsService`: all a task
sees of this is what `FileService` allows, in which a read gives the next bytes and moves
by as many as it gave, no more than is due, and all of it unless something failed; `eof` is
set only at the end or when something failed, and a file is whole until somebody removes
it or a removal loses the card. To a read that begins past the end more is due than was
asked for: `Due` in `FileService` says so, as the code does.

## 5. Fairness

`task`: the timer keeps expiring and a pending interrupt is taken, because user code
runs with IRQs enabled and the kernel always leaves. No task is assumed to yield,
sleep or exit. `heap`, `files`: a system call that has begun keeps running, since nothing
interrupts it and no other code runs meanwhile. The walk of `fskip()`/`fsetp()` is no system
call and has no fairness. In `files` a reset ends a call too;
no success of a transfer is assumed. `routines`: the routine at work goes on, because
its task runs again (`NoStarvation`) or the kernel cannot be interrupted; no turn of a
polling loop is assumed to find the card ready. `context`, `keyboard`: no fairness, only safety.

## 6. Theorems

TLAPS proves each for every value of the constants; the assumptions named in the
modules are the only ones.

*Task* (`TaskProofs`). `IInv` is `TypeOK`, `CurrentIsRunnable`,
`IdleOnlyWhenNoneReady`, that the search starts inside the used part of the table
(else it could pick a slot past `task_count`), and that the slots past it are still
as .bss left them (else SYS_SPAWN could overwrite a task that exited).
Proved: `TypeCorrect`, `RunsOnlyReady`, `IdlesOnlyIfNeeded`, `ExitIsFinal`.

*TaskBounds*. `BypassBound` is not inductive; `BypassCloser` is: a READY task that
was passed over k times is at distance at most `task_count - k` from the search.
Proved: `BoundsImplementTask`, `BoundedBypass`, `SleepsLongEnough`, `ClocksAgree`.
The last uses `MillisMod > MaxSleep`: the clock wraps, but not twice in one sleep.

*Heap* (`HeapProofs`). `IInv`: the list is typed and tiles
the heap, every byte is in a block, no two free blocks touch behind the cursor of
`k_free`, the search has passed no block that fits, and callers' bytes are backed.
`FreedHeapIsWhole` follows: with no block taken, two blocks would be two free ones
that touch. `HeapAligned` needs only that a split adds a header and a multiple of 8 to
an address on a word. `TotalsAreHonest`: the two totals (`main()` prints the first, nobody calls the second yet) are defined by a walk along
`next`, so the proof goes along the list, an induction on how many blocks are behind
an address: from each block on, the free bytes and those taken (headers included) make up
the rest of the heap, and the largest of a walk bounds every free block on it. `HeapIsAllocator` adds that a refusal means no hole fits. All assume
`NoWrapAssumption` (no request within 7 of 2^32; see 7 for one that is).

*Context*. `IInv`: every TCB points at the one frame of its own stack, in use or
to be written again by the task's next entry, and in User mode it has been popped. `ContextTyped`, `BalancedStacks`,
`ContextIsPerTask` (the refinement of `Processors`).

*Keyboard*. `IInv`: types; the handler's memory of 0xF0 is exactly what it has read
of the first key; and if no shift key is down, either shift is off and none is in
the queue, or the last shift event in the queue is a release. Lemmas turn the ring into a sequence (a put appends, a get takes
the head, full means `FIFO_SIZE - 1` characters). `KeyboardTyped`,
`ShiftIsReleased`, `KeyboardIsTypedText` (the refinement of `TypedText`), for every
ring size, every key set and every bound on the queue.

*Lines* (`DrawProofs`). `IInv` says what the error term means: with a and b the steps
made along x and y, `err = (dx - dy) - a*dy + b*dx`. A coordinate that has reached
its end cannot move while the other has not (`MovesOnlyInside`), hence `StaysInBox`;
and `a*dy - b*dx` stays within half the longer side (`StepsNear`), hence
`PaintsNearest`. Both hold of `DrawSpec`, the moves of `draw_line()` whatever else
paints; the steps of `Routines` that are not its own leave its locals alone.

*Files* (`FileSystemProofs`). All hold with every transfer done, failed or short, and
whatever a short one leaves. The invariant is built in layers, each proved from those
before it. `Shape` says what the locals of a running call can be at each point, so
that every access of the FAT is in range (`FileSystemTyped`). `Safe` says that, until the
card is lost, every entry of every copy is what its file's chain has there or 0, and that a
removal is on its own file's chain or at a number it has not read (`RemovalSparesOthers`):
the walk of `k_remove()` follows the FAT as it finds it, so it stays on its chain because
each entry still is the chain's or free, and chains share no cluster; at `JUNK` it can only
lose the card. `Progress` says how far a removal without failures has come, copy by
copy (`RemovalLeavesConsistent`). `Track` ties the cursor, and the target of a walk, to
the position, unless it is `JUNK`, which nothing but a failure brings
(`CursorFollowsPosition`); `Reads` ties the bytes delivered to the place
the read began (`ReadsGiveTheFile`). `Advanced` adds that `fpos` is as
many bytes past that place, modulo 2^32, whatever became of the chain; with it each handler
is a step of `FileService` or leaves all of it alone (`FileSystemServes`). Assumed: the geometry
(`VolumeAssumption`), chains without a common cluster and sizes that fit them and 32 bits
(`ChainAssumption`), and that no FILE is NULL.

*Routines* (`RoutinesProofs`). For `memcpy()` and `memcmp()` the invariant counts the bytes the
loops are past, whatever mixture of words and bytes brought them there; a copy is exact
for those bytes if the regions do not overlap ahead (`CopyIsExact`), a comparison has met
only equal ones (`CompareIsExact`). For a sector update it says that the buffer holds the
card's words read so far, or that the read gave up, and that the card is old or the
buffer (`UpdatesAreExact`). `LinesAreUnbroken` counts: each step along the longer axis
paints one pixel, and nothing else draws while a line is being drawn. Its lines are those
of `DrawSpec`, which the steps of `Routines` map to (`DrawsAlone`).
`NumbersReadBack`: in base 16 by induction on the number, in base 10 power by power: what
was written so far, times the power, plus what is left, is the argument.
`PowersAssumption` is that the table of powers reaches the largest unsigned int.

*Fonts* (`DrawProofs`, `RoutinesProofs`). What a file says of its face is written in
`Font` from the TrueType format, table by table, as properties of the bytes
(`Directory`, `Glyphs`, `Boxes`, `Characters`, the last with both ends of a segment and
with range offsets); `FontAssumption` is that the files are of that format, have long
offsets and a yMax that is not 0, that the texts are of the font's characters, and, not the
format's but needed for the code to stay inside its arrays, that the number it computes for
a glyph in a segment with a range offset is one the font has (`InFont`). The invariant
`FontInv` says at each point of `get_font()` which part of
the font is already the face's. A table is found whatever the order of the directory
(`TableFound`). If no segment with a range offset has a character (`Plain`) and some segment
has it strictly inside (`Inner`), the first that does gives the glyph of the face, since
segments that hold it agree; if none does, glyph 0 is drawn (`GlyphOf`). `FacesAreLoaded`,
`GlyphsAreDrawn`.

Loops and lists need induction, and the library's theorems of induction take an
operator, which the provers cannot instantiate. `Recursion` states induction for a *set*
of numbers instead, from the library's theorem that `<` is well-founded, and with it the
existence of a function defined by recursion.

Only model-checked: liveness (`NoStarvation`, `SleepersWake`, both `CallsReturn`,
and `RoutinesReturn`), which needs fairness, and the violations.

## 7. Findings

1. `irq.s:18`: the flags saved for an interrupted task are not its own
   (`context_flags`).
2. `memory.c:128`: SYS_FREE and SYS_FCLOSE enable interrupts inside the dispatcher,
   which says of itself that it is atomic (`context_atomic`). `k_uart_print()` does the same
   for a card command that fails (`sd.c:98`, `136`), a SYS_SPAWN out of memory (`task.c:122`)
   and, inside the interrupt handler, an unknown interrupt (`Express-A9_interrupts.c:45`).
3. `filesystem.c:282`: `k_remove()` reports success and loses clusters when a
   transfer fails, or after a reset in the middle and a second try (`files_remove`).
4. `text_render.c:162`: `get_font()` writes one entry per glyph into an array with room
   for one per segment. With the repository's `courier.ttf` that is 2636 bytes into a
   block of 368 at every start, over the header of the free block behind it
   (`font_blocks`). `loca.offsets` is one entry short too (`text_render.c:195`).

Stated in the models, as an exception of a property or an assumption of a theorem:

- A sector read that gives up after a million turns returns 0 with words missing
  (`sd.c:106`, `117`), and so may one another task's transfer falls into (`sd.c:82`). The
  update that follows writes an uninitialized buffer over the other entries of the sector,
  although `filesystem.c:62` says that only the 4 bytes of the cluster change
  (`UpdatesOneWord`, `OthersIntact`); `get_next_cluster()` returns a word nobody read
  (`CursorOnChain`); `k_fread()` gives what its buffer held before, perhaps another file's
  bytes (`ReadsItsFile`).
- A character at an end of a segment, as the space of "Hello World!" is in `courier.ttf`,
  whose first segment is 32 to 126, is drawn as the missing glyph (`text_render.c:238`). In
  a segment with a range offset (160 to 383 there) the code draws another character's
  glyph: the list of line 157 is never read, which the TODO of line 241 admits
  (`DrawsItsGlyph`).
- `memory.c:26`: a request within 7 of 2^32 rounds to 0 and gets a block of no bytes instead
  of NULL (`NoWrapAssumption`); SYS_SPAWN multiplies a stack size by 4 on the way there.
- A position past the end makes `k_fread()` return more than it was asked for
  (`filesystem.c:156`, `Due` in `FileService`).

Seen while reading, with no run: one flag stands for both shift keys (`ps2.c:90`), so
releasing one ends shift while the other is down; `shift_map` is read past its end
(`ps2.c:107`, it has 0x56 entries), and in the repository's `kernel.elf`, where
`scancode_map` begins 0x58 bytes after it, Backspace with shift or Caps Lock types an
apostrophe; `k_malloc(0)` returns NULL when no block is free although `k_get_max_free_block()`
says 0, so a size equal to the largest may fail; `memory.c:38` asks for split offsets that are
multiples of 8, and with a 12-byte header none is; `eof` of a FILE is never cleared
by a move back; a `k_fopen()` out of memory writes at address 0; the head table is read 8 bytes early from its second
date on (`text_render.c:83`), so that `index_to_loc_format` is yMax and fonts of short
offsets are misread; a glyph
without contours reads its box from the start of the file (`text_render.c:255`), and a
negative height makes `draw_rect()` turn for hours; `table_id` and `table_offset` are
never freed; a format that ends in a lone percent is read past its end
(`strings_common.c:66`).

## 8. Not modelled, and why

- The UART itself, `k_uart_print_hex()`, `clear_screen()`, the set-up of LCD and card:
  a fixed list of register writes. `draw_bezier()`: floating point, and no caller.
- A tick inside a system call of `FileSystem`: `k_sd_read_sector()` and
  `k_sd_write_sector()` print when a command fails, which enables interrupts (`sd.c:98`,
  `136`); what that does to the dispatcher is in `ContextUnmasked`, and `FileSystem` assumes
  that no tick falls into what is left of such a call.
- What a `Lost` card holds: which sector a removal has overwritten with what, so nothing is
  said of any file on it.
- In `Sd`, a second transfer that starts before the first is over: what each gets then is up
  to the controller; `FileSystem` lets either be short.
- Fonts without one of the seven tables or without a subtable for platform 3: the code
  goes on with uninitialized values. The box of a glyph that is empty or composite, which
  has none of its own to be drawn in (`Boxes`): of the first the code reads the next
  glyph's, of the second bytes of the start of the file.
- `k_ps2_update_leds()` waits for the transmitter without a limit; the emulated
  machine always has it ready.
- Slots and stacks of tasks that ended are not reclaimed by the code: `SYS_SPAWN` has
  it so, and nothing promises otherwise.
- Files in `FileSystem`: one FILE at a time (FILEs share nothing but the card); the
  directory is one sector and 8.3 names are compared exactly, so a file is its
  entry. `k_malloc` failing in `k_fopen` is left out (it writes through NULL).
  `k_fgetc`, `k_fgets`, `find_free_cluster` have no caller.
- Floating-point registers, which the frame lacks although tasks may use them.
- A stack smaller than a frame given to SYS_SPAWN: needs heap and frames together.
- Timer 2, `k_delay_ms`: never started, never called.

## 9. Plan

`Kernel`: heap, task creation and frames together (small stacks, out of memory, requests
that wrap).
