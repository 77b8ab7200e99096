# psprecomp in TLA+

psprecomp recompiles PSP programs to C ahead of time. Its two halves are a
recompiler (`tools/allegrexrecomp`: container, decryption, decoding, discovery of
functions, emission of C) and a runtime that the emitted C links with (`src/`,
`src/hle/`: guest memory, dispatch, vector unit, and a high-level emulation of the
PSP's kernel and libraries). Three things in it are hard to test. The kernel: with
`PSPRECOMP_REAL_THREADS` every guest thread is a host thread, they share one global
register file and take turns with a baton, guest callbacks run from inside guest
waits, and threads are unwound by `longjmp`. The recompiler: control flow of a
processor with delay slots becomes C functions, gotos and host frames, for programs
nobody has seen. The libraries: tables at their limits, lists and voices that stop
and go on, arithmetic at its edges. This project models all three, checks them with
TLC on small instances, and proves with TLAPS, for every size, the safety of the kernel
and of the libraries that keep tables, queues, lists and voices, and that discovery loses
no branch target.

## Inventory

| Part (source) | State | Operations | Interacts by | What makes it correct |
|---|---|---|---|---|
| CPU baton (`threadman.c` 240-445) | `g_baton_owned`, `g_baton_takes`, `g_current`, `psp_cpu`, `ctx`, `cpu_pending` | acquire, park, handover, release | host mutex and condition variable | one thread in guest code; registers private; a started thread runs before its starter's park ends |
| Thread records (`threadman.c` 110-165, 679-1130) | `g_thread`, stacks, host threads, pins | create, start, exit, terminate, delete, wait for end, reap, reset | baton, SysMem, `longjmp` | a record outlives its host thread and its waiters; joins cannot deadlock; stacks are neither shared nor leaked |
| Waits (`threadman.c` 697-780) | virtual time, ticks | `wait_loop` | every object, deliveries | no lost wakeup, no false timeout |
| Semaphores, event flags, pools (`threadman.c` 1180-1465) | tables of records; waiters hold pointers | create, delete, signal/set/free, poll, wait | `wait_loop`, SysMem | conservation of tokens, events and memory |
| Callbacks (`threadman.c` 1467-1650), sub-interrupts (`intrman.c`) | tables, re-entrance guards, mask depth | create, notify, deliver; register, enable, tick | run guest code inside a wait | no recursion, no lost or doubled notification, nothing inside a critical section |
| User memory (`sysmem.c`) | block table | alloc low/high/aligned/at, free | stacks, pools, guest | blocks disjoint, in the heap, large enough; first fit; termination |
| Discovery (`analyze.c`) | entry, owner and seen maps, queue, cross list, rounds | walk, claim, resolve tables, promote, repeat | decoder, emitter | it ends, and every branch target is the brancher's own or an entry |
| Emission (`emit.c`, `recomp_rt.h`) | labels, slots, bodies | one C construct per control transfer | dispatch, host stack | the C goes where the processor goes, with its `$ra` |
| Integer instructions (`emit.c`, `recomp_rt.h`) | registers, HI/LO | one C expression each | - | each computes the instruction's definition, at every edge |
| Dispatch (`dispatch.c`) | open-addressing table, budget, misses | register, label, lookup, dispatch, reset | every computed call | the last registration is found; labels never shadow entries; a probe ends |
| Trace instruments (`dispatch.c`) | ring, marks, two imbalance tables | enter, mark, note, report | every body | what they report happened, and the worst is kept |
| HLE registry and traps (`hle.c`, `traps.c`) | NID table, missing-call rows, zero history, ceilings | register, call, report | every import | counts add up whatever the order of registration and calls |
| GE (`ge.c`) | list queues, register shadow | enqueue, move stall, walk | guest memory, renderer | a stalled list goes on where it stopped |
| SasCore (`sascore.c`) | voices, grain | key on/off, pause, render | guest memory | a voice plays the blocks its flags name, and ends |
| File I/O (`iofilemgr.c`) | descriptor tables | open, read, write, seek, close, directories | stdio | descriptors are exclusive, nothing leaks on a full table |
| Audio channels, controller, power, display (`misc.c`, `power.c`, `display.c`) | channels, due times, slots, pad, frame buffer | reserve, output, register, set, show | parks, window thread | output is paced; slots are exclusive |
| Module and constructors (`module.c`, `ctors.c`) | image, table found | load, scan, start | guest memory | each constructor runs once, in order, before the entry |
| VFPU (`vfpu.c`) | 128 registers, prefixes, condition codes | prefix, arithmetic, matrix, compare, load and store instructions | every vector op | a prefix rewrites the next operation only; a lane is read before it is written |
| Memory map (`mem.c`) | region buffers | map, translate | everything | no access leaves a region |
| Container, keys, crypto | files | decrypt, parse | tool's input | - |

Hard behaviours: interleavings of host threads around the baton, `longjmp` out of
nested calls, pointers kept across a park, deliveries re-entered through waits,
timeouts racing signals, 32-bit wrap-around, tables at their limit, delay slots
shared by two bodies, host frames that must unwind as guest frames do. The list with
source lines and the properties that answer each entry is `hazards` in
`PROJECT.json`.

## Modules

### Kernel

**OneCpu** is the abstract promise: one CPU, at most one thread on it, private
registers. No code corresponds to it; `Baton` implements it.

**Baton** is the real mechanism. A step is what a host thread does under one hold
of `g_baton_m`, or while it has the baton. `pc` says where a host thread is in
`baton_acquire`, `park_us` or `guest_thread_main`. The wait on the thread's own
condition variable lasts at most 400 µs of host time and its result is unused by
every caller, so it may end at any moment; so may the 20 ms handover deadline
(`HandoverExpire`). `takes`, `takes0` and `handed` are the bookkeeping behind
`psp_threadman_handovers`. `othersRan` is history.

**Threads** is the thread table over OneCpu's CPU. `rec` has the fields of
`psp_thread` that decide anything; `pc`, `me` describe host threads; `endWaits` is
the chain of `end_ctx` that `thread_unwind` walks. A host thread that has released
the baton for the last time ("leaving") still has to return before it can be
joined. `Liberties` names three careless things a guest may do that the code does
not survive (below); the passing runs exclude them.

**WaitLoop** is `wait_loop`, parameterised by the condition. Virtual time is kept as
the time left to each deadline, because every park of any thread advances
`g_vtime_us` for all. **Semaphores**, **EventFlags** and **Vpl** extend it with one
kind of object each. A waiter keeps the index of the record it looked up, as the
code keeps the pointer: after a deletion it tests, and may take from, whatever the
record holds now. A thread in the loop may make any call that does not wait, since
`deliver_tick` runs callbacks there.

**Deliveries** is `deliver_tick`: both tables, both guards, the mask, and for every
thread the stack of delivery loops it is inside of. What a loop calls is arbitrary
guest code: it may change the tables, park, mask, or wait and so begin another
delivery. `exitInHandler` and `leaveMasked` are its Liberties.

**SysMem** is `sysmem.c` with the searches of `place_low` and `place_high` one
candidate per step, in arithmetic modulo `Word` (2^32 in the code).

**Waits** puts Semaphores and EventFlags, and **Memory** SysMem and Vpl, behind one
specification. The two objects of each share no state, so the variable `kind` says
which one a behaviour is about.

**BatonProofs**, **ThreadsProofs**, **WaitsProofs**, **DeliveriesProofs** and
**MemoryProofs** (with SysMem's) hold the theorems about the module each is named after,
**RecompilerProofs** those about Discovery, **LibraryProofs** those about Dispatch,
HleRegistry, Files, Devices, GeLists, Loader, Sas and Trace.
**SetLemmas** has the lemmas on minima, maxima and cardinalities they share.

### Recompiler

**Allegrex** is what `a_decode` tells the tools of an instruction, reduced to its
control transfer, and next to it what the processor does with it: branch, likely
branch, link, jump, call, computed jump and call, return, delay slot. Saving and
restoring `$ra` are instructions, because `$ra` decides where the C goes.

**Discovery** is `a_discover` with `trace_function` a word at a time: the work list,
the claims (`owner`), the branch targets somebody else had claimed (`cross`), jump
tables, and the rounds that promote targets to entries until nothing changes.

**Emission** is `emit_function` without its text: a body is a sequence of statements
with labels, delay slots before or inside the taken path, gotos, static calls and
dispatches, and the fall-through to the next function.

**Recompiled** runs the emitted program (`cpu`: body, statement, host frames with
their `psp_frame`, `$ra`) and, instruction by instruction, the processor (`hw`).
`InLockstep` says they never part. It is claimed for *regular* programs; what
`Regular` leaves out is listed below and each exclusion is a named conjunct.

**MCRecompiled** has the images: every text of five words over the given
instructions and targets (Loose), programs whose calls nest and that save `$ra`
(Nested), and programs with a code pointer or a table (Pointed).

**Alu** puts the C expression `emit_simple` writes, with the masks and shift tables of
`recomp_rt.h`, next to a definition of the instruction that speaks of sets of bits, of
integers and of bytes, and shares no operator with it. A word is four bytes of two
bits, so every shift amount, byte position and sign exists at a width TLC can
enumerate.

### Runtime

**Dictionary** is the promise of a function table: a map in which a registration
replaces, a label gives way and a call runs what the map holds. **Dispatch**
implements it with open addressing, growth and its failure (`TableIsDictionary`,
`INSTANCE Dictionary WITH` the map read off the table). A registration that finds the
table three quarters full begins `grow`, which moves one old slot per step into the new
table (`fresh`, `copied`) and then goes on with the registration (`asked`). **Trace** has the ring of
entries, the label marks and the imbalance tables of the same file.

**HleRegistry** is the NID table, the rows of missing calls, the history of zero
returns and the traps. **GeLists** has the queues, the stall, the walk one command per
step, and beside it a GE that keeps a stack per list; the vertex layout too. **Files**
has the descriptor tables over an external stdio that may refuse anything. **Devices**
has the audio channels with two callers and a clock, power slots, pad and frame
buffer. **Sas** has `render` a sample and a turn of the pitch loop at a time: a voice's
walk through its blocks, its envelope and its pitch. **Vfpu**
has registers and prefixes as the bit fields of the source next to a unit of matrices,
operands and records. **Loader** has the search for the constructor table and the walk
that runs it.

**Runtime** composes them by `part`: none of them calls another or shares state with
it, so each behaviour exercises one. **MCRuntime** has the constants.

Operators whose comment begins with "Mutant:" are wrong variants of the definition
they precede. No specification uses them: they show which mistake each property
detects.

## Runs

| Run | Bounds | Shows |
|---|---|---|
| `baton` | 3 host threads, 2 register values | mutual exclusion, exact `cpu_pending`, sound handover count, started threads first, refinement of OneCpu, liveness |
| `threads` | 2 records, 2 host threads beside the boot thread, 2 stacks, 2 uids | records outlive host threads, joins, termination, stacks |
| `threads_waits` | 1 stack, 3 uids, waits nested twice | pins, exit status |
| `waits` | 2 threads; 1 semaphore record with counts from -1 to 2, or 1 flag record with 2 bits; timeouts none / under a tick / over a tick | token conservation, events consumed once, no false timeout, no stuck waiter |
| `memory` | heap of 11 bytes that is not a multiple of the granule, granule 2, alignment 4, 3 blocks; or 2 pool records, 2 block records, 3 places | blocks disjoint, inside, large enough; first fit; searches end; the memory of pool blocks |
| `deliveries` | 2 threads, 2 callbacks, 1 handler slot, passes of one | guards, masks, notifications |
| `recompiled` | images of 12 words; every 5-word text over six direct and two computed transfers with one table; 2 calls in flight, `$ra` saved twice | lockstep with the processor, targets known, discovery ends |
| `runtime` | below | the twelve properties of the runtime's parts |
| `threads_delete_awaited` | as `threads` | violation, see below |
| `deliveries_unwound` | 2 handlers, 1 callback | violation |
| `sysmem_huge` | address space of 32 | violation |
| `recompiled_jalr` | 3-word texts | violation |

Why the bounds are enough to be interesting: every race in the baton is between a
parker, the thread it started and one more; two records and two hosts let a record
be reused while a host thread or a waiter still has it, and a third uid lets that
happen twice; two pools over one memory let a block be credited to the wrong one;
one-callback passes reach `CB_DELIVER_MAX` while two callbacks are pending; three
blocks make gaps on both sides of a block, and the unaligned requests make unaligned
ends. Five words hold two transfers with their slots and a word that is the target of
one, the slot of the other, or the first word of a second body; targets reach every
word of the text, the word after it and an import. Two calls in flight let a return
unwind past a frame.

In `runtime`: three addresses that collide in tables of 2, 4 and 8 slots (growth
happens twice, moves colliding slots, and may fail); a ring of 2 and 2 imbalance rows under 4 events, so both
overflow; 2 NID entries and one missing-call row for 3 NIDs; one list queue, lists of
3 words, a `CALL` stack of 1 and a walk budget of 4, so nesting, stalling inside a call
and running out happen; 2 files and 1 directory over 2 paths, so both tables fill; 2
callers on 1 channel with play times 1 and 3, so one overtakes the other; one voice
over samples that loop, end and repeat one block, at a pitch of one and of two and a
half samples and a grain of 1 and 2; eight operands that hold every sign
and carry case; vector programs of 4 instructions, so a prefix can be set, used, and
found used up; images of 7 words with a search window of 6 and mappings shorter and
longer than the image.

Counters are capped by `MaxUid`, `MaxNest`, `MaxCount`, `MaxMask`, `MaxCalls`,
`MaxSaved`, `MaxEvents`, `MaxHleCalls`, `MaxLists`, `MaxBytes`, `MaxForgot`, `MaxNow`,
`MaxHeard` and `MaxVector`, which are bounds of the model and no limits of the code.
Every run checks for deadlock except the two of `Recompiled`, whose programs end.

### Fairness

`Baton`: a host thread that can take the baton and keeps being able to does (weak
fairness: the host schedules its threads), and a guest on the CPU eventually parks
or ends - `docs/THREADING.md` says that scheduling is cooperative and that a guest
which never waits starves the rest. Nothing is assumed of the deadline; `StartedRuns`
is stated for behaviours in which it stops being reached. `Waits`: a guest that gets
the CPU again and again gives it away again and again, and the host does not pass over
one parked thread for ever (strong fairness: a release broadcasts to all waiters and
every other park lasts a positive time; the code has no queue, so this is an assumption
on the host's scheduler, not a guarantee of the code). `Memory`: an allocation that
began goes on. `Recompiled`: the tool, a sequential program, goes on.

## What the code does not keep

Four disagreements between the code and its own comments are runs:

- `threads_delete_awaited`: `DeleteThread` frees an ended record that is pinned by
  a `WaitThreadEnd` whose caller has not had the CPU yet.
- `deliveries_unwound`: a thread that ends inside a handler or callback leaves the
  shared guard set, and nothing is delivered again.
- `sysmem_huge`: sizes near 2^32 pass every test and are placed over other blocks.
- `recompiled_jalr`: a body that ends in `jalr` and its slot is given no
  fall-through, because every indirect instruction counts as terminal.

The following behaviours are in the models, or were met while writing them, and no
passing property denies them.

Kernel:

- `park_us` takes the baton without counting it in `g_baton_takes`, so a handover
  between two parked threads is not counted. `HandoverSound` is the half that holds.
- `others_alive` (`threadman.c` 716) does not count the boot thread, so the last
  started thread gives up an unbounded wait the boot thread would have ended.
- `docs/THREADING.md` says unbounded waits are capped at 500 ticks; they go on while
  others live. Other threads' parks carry the clock past a deadline.
- A thread that left with ExitDeleteThread and is not reaped yet can be started again
  without a stack (liberty `restartDeleted`); a dormant thread that was suspended is
  deleted without releasing its stack (`suspendDormant`).
- A waiter can be given a block of a pool that was deleted meanwhile.
- A guest can start, set or signal a semaphore below zero: the arguments are cast to
  `int32_t` and not looked at (`threadman.c` 1195, 1212, 1256).
- The mask is looked at once per pass (`leaveMasked`); the callback guard is shared by
  all threads, so CheckCallback of one finds nothing while another delivers; handler
  slots are reused first-fit, so handlers do not run in registration order.
- A size within a granule of 2^32 rounds up to zero and gets one granule.

Recompiler (`Regular` excludes the first six):

- an entry that became no function: a forward `j` to a word already claimed marks an
  entry (`analyze.c` 273-277) that no walk makes a function;
- an entry that is a delay slot of another body;
- a call or a likely branch whose slot another body owns;
- a linking branch to a word at no label;
- a labelled slot copy whose successor another body owns;
- (`ComputedCallContinues`) a `jalr` at the end of a body;
- `jal` sets `$ra` after its slot ran, so a slot that saves `$ra` would save the old
  one (no call of the images has such a slot);
- a tail jump into an import returns to the frame's caller whatever `$ra` says; the
  model takes that step only when `$ra` is the frame's return address;
- discovery gives up after 8 rounds (`analyze.c` 590): what the last one met is not
  promoted, and its branches go into the middle of another body
  (`BranchTargetsKnown` is claimed when the last round met nothing new);
- a transfer in a delay slot is never followed (`DiscoveryAssumption` excludes it, as
  the processor's manual does);
- a body may run into a word no body owns; VFPU branches take condition 0; a
  computation into `$zero` becomes a trap.

Runtime:

- Dispatch: when growth fails, the table may fill, and a lookup that misses in a full
  table does not end (`ProbingEnds` is claimed while `calloc` has not failed).
  `psp_trace_watch` is called one-shot and is not disarmed;
  `psp_hle_unimplemented_reset` leaves the rows.
- GE: a list that stalls inside a `CALL` loses its return, because the stack is a local
  of the run (`ge.c` 850); so does one nested deeper than `GE_STACK`; a list out of
  budget keeps its slot. `ListsInLockstep` is claimed for the others.
- Files: opening with TRUNC or CREAT on a full table truncates or creates, then fails;
  write-only with CREAT truncates; switching between reading and writing has no
  `fseek` between; `psp_io_reset` forgets open directories.
- Devices: the window thread reads the frame buffer and sets the pad without a lock; a
  wall clock that steps back stalls the blocking output; a caller with short buffers
  can starve on a shared channel; power slots keep the ids of deleted callbacks.
- Sas: a voice keyed on at or beyond `g_max_voices`, or with no sample, never ends, and
  nor does a paused voice that was released.
- Loader: the tail of a run longer than 4096 words is taken for a table; the window may
  cut a table; a table at address 0 is taken for none.
- `psp_fsqrt` makes 24 Newton steps, too few for large values; `psp_fabs` keeps the
  sign of -0.0. `vimm` does not use up the prefixes, which are global and not per
  thread. In `container.c` 634 a `continue` does not advance its cursor.

## Proofs

`BatonProofs`, for any set of host threads and register values
(`BatonAssumption`: the boot thread is a host thread, "nobody" is not, the cleared
register file is a register file):

- `BatonExcludes`, `PendingIsExact`. The inductive invariant `IInv` is the type
  invariant, `MutualExclusion` and `PendingExact`. `MutualExclusion` alone would do
  for the baton: each action's guard (`~owned`, or being on the CPU) decides who may
  change it, and tying `owned` and `current` to `pc` makes that local.
- `HandoverHolds`: only `Unpark` and `HandoverDone` take a thread from a park to the
  CPU before the deadline, both require `~CpuWanted`, hence `pending = {}`, and
  `PendingExact` turns that into "no started thread is left".
- `HandoversAreReal`: needs what a parker can conclude from the baton (`ParksSeen`):
  owned, acquired since, or nothing left to wait for in a handover each imply that
  another thread ran.
- `BatonImplementsOneCpu`: the mapping reads a thread's registers from `psp_cpu` on
  the CPU and from `ctx` in a park; taking the baton is the abstract dispatch, parking
  the abstract leave, everything in between a stutter.

`MemoryProofs`, about SysMem, for any heap, granule, table size, requests and alignments
of at least a granule, under `NoWrap` (no request reaches the end of the address space;
`sysmem_huge` shows that it is needed):

- `BlocksStayApart`, `BlocksAlwaysServe` (in the heap, and as large as was asked). `IInv`
  adds `SearchInHeap`: a low candidate is not below the heap, a high one does not reach
  past its end, and nothing a search adds can wrap. The lemmas bound rounding and
  aligning, and say that the next candidate, a least end or a greatest start, exists
  and is inside the heap.
- `SearchesFindFirstFit`, an action property: a block that a search places is the first
  (or, from above, the last) aligned place that fits, and one it refuses has none.
  `FitInv` says of a search in progress that its candidate is aligned and that no place
  that fits lies before it (from above: after it). The next candidate skips places, so
  the lemmas say that a place between two candidates overlaps the block whose end (or
  start) gave the later one.

`ThreadsProofs`, for any table, host threads, stacks, uids and nesting
(`ThreadsAssumption`: they are numbers). A finding of these proofs is which property
needs the guest to refrain from which liberty:

- `RecordsOutliveHosts`, `JoinsNeverDeadlock`, `TerminatedStaysOut`: for every guest.
  `HostInv` ties the two views of a thread together. From the host thread: it has a
  record in use that names it and has its uid; once it has left, there is a joinable
  record that names it until it is joined. From the record: a live one has a host
  thread that still carries it, a joinable one that is not live has one that left, and
  no two records name the same one. `reap_deleted_threads` and `hle_DeleteThread` decide
  by the record, `guest_thread_main` by the host thread, so neither view alone is
  inductive.
- `StacksStayExact`, under `CarefulWithStacks` (not `restartDeleted`, not
  `suspendDormant`). `StackInv` adds that a live record has a stack, that `state` tells
  live from dormant, which is what `hle_DeleteThread` goes by, and that a record left to
  the reaper has none.
- `PinsAlwaysHold`, `ExitStatusStaysTrue`, under `CarefulWithWaits` (not
  `deleteAwaited`; the run `threads_delete_awaited` shows that it is needed). `PinInv`
  adds that `end_waiters` is the number of `end_ctx` on all chains, that only a thread
  that can still return has a chain, and that the status of an ended record is its own.

`WaitsProofs`, for any threads, records, counts, ticks and timeouts
(`WaitLoopAssumption`, `SemaAssumption`, and that the number of flag records is a
number):

- `TokensStayConserved`, `SatisfiedIsNeverLate`. `SemaInv` counts unused records too: a
  waiter keeps the pointer to a record that was deleted, and may take from it. The guest
  may start, set or signal a semaphore below zero (the code casts to `int32_t` and does
  not look), so the theorem says that no wait or poll takes what is not there, not that
  the count is never negative.
- `EventStaysConsumedOnce`. The history `spent` is kept from the calls alone: setting a
  bit makes it 0, withdrawing it 1, and a clearing wait or poll that returns OK adds one
  for each bit it was promised, without a look at the pattern. `FlagInv` links the two
  (a bit is unspent exactly when it is set); a grant keeps the link only because its
  condition holds in the step that clears (`HandedOutLinked`).

`DeliveriesProofs`, for any threads, slots, passes and depths (`DeliveriesAssumption`):

- `GuardsAlwaysCleared`, unless a thread ends inside a handler (`exitInHandler`;
  `deliveries_unwound` shows that it is needed): the actions fall into six shapes (`Shape`), and
  the one that takes a loop off a thread's stack clears that loop's guard.
- `CriticalSectionsStayUndisturbed`, unless a handler leaves interrupts suspended
  (`leaveMasked`). `Sound(calls, depth)` says of a thread's stack of loops that all but
  the innermost are inside a call, and that the innermost is between two calls only with
  interrupts on.
- `NotificationsRunOnce`: for every guest, an action property from the types alone.

`MemoryProofs`, about Vpl, for any pools, blocks, places and sizes (`PoolAssumption`):

- `PoolsStayExact`. `PoolInv` is that no two pools ever had the same uid, so a waiter
  that takes from a deleted pool takes from no other (`UidsApart`), that the memory lent
  is that of the blocks in use, each its own, and that a pool's free size and the bytes
  it handed out add up to its size (`Balanced`). The bytes are a set (`HandedOut`), so
  that handing out a block is a disjoint union and no sum needs an induction.

`RecompilerProofs`, for any images whose delay slots hold no transfers and any cap on the
rounds (`DiscoveryAssumption`):

- `BranchTargetsStayKnown`. `DiscoveryInv` says where the target of a branch in a claimed
  word is at any time: in the same body, at an entry, on the list of shared targets, or
  still ahead of the walk that met the branch and not yet seen by any. The last case is
  why the property alone is not inductive: a walk claims a word before it has come to
  its target, and another body's claim must not slip in between.

`LibraryProofs`. Each part has a specification of its own (`DispatchSpec`, `HleSpec`,
`FilesSpec`, `DevicesSpec`, `GeSpec`, `LoaderSpec`, `SasSpec`, `TraceSpec`) whose initial
condition and steps are the ones `Runtime` uses for that part; Runtime reaches `Bitwise` and so cannot carry a theorem.

- `SearchesEnd`, `DispatchImplementsDictionary` (`DispatchAssumption`: addresses and the
  multiplier are numbers, the first table has two slots, NULL is no function).
  `DispatchInv` is that a table is sound - no address twice, and no free slot between
  an address's own slot and the one that holds it - and, in `grow`, that the new table
  is sound too and holds exactly the old slots copied so far. Then a search that stops
  at the first free or equal slot finds what a map would; putting a slot in the first
  free place keeps the table sound; and the load test leaves a free slot.
- `DumpShowsEveryCall` (`HleAssumption`). `HleInv` is that no NID has two rows in a table
  and that the two rows of a NID add up to the calls made while there are rows. The
  sorted dump is the rows by rank; that ranks 0 to n - 1 are taken once each, a sort
  being a permutation, is `Ranks`, an injection of a finite set into one of its size.
- `VoicesFollowTheirFlags` (`SasAssumption`: flags are bytes). `SasInv` says of a voice
  where it stands after what it has heard: it is to end, or its position follows the
  last block as the flags ask, and its loop start is the last one heard (`LoopHeard`).
  Only `decode_block` and the calls that rewind a voice change its place.

- `StreamsStayExact` (`FilesAssumption`: table sizes are numbers, "no stream" is no
  stream). `FilesInv` is that each table is injective on its used slots, that files and
  directories share no stream, and that the host's streams are theirs and the forgotten.
- `AheadStaysBounded` (`DevicesAssumption`: there is a longest play time). `AudioInv`
  bounds `due` by the longest buffer and the units held; a caller that is let go takes
  its units from both sides.
- `ListsStayInLockstep`, `LayoutsStaySound` (`GeAssumption`: bounds are numbers, vertex
  types have the fields' widths). `GeInv` is that a list which has not ended has
  exactly one slot (`SlotsOwned`), and that a list not astray is where the hardware's
  is, with the stack of the run in progress and an empty one otherwise (`Followed`).
- `CtorsAlwaysRunOnce` (`LoaderAssumption`). `LoaderInv` says what the search knows: the
  best table so far is the first among the longest before `at`, `at` is not inside a run
  of pointers, and in the walk the calls made are the table's, in order, up to `at`. It
  holds while no run is longer than `MaxTable`, as the property says.
- `ReportsStayTrue` (`TraceAssumption`: ring and tables are not empty, a recorded
  imbalance is not zero). `RingInv` says that place `i % TraceDepth` has entry `i` for
  the last `TraceDepth` entries; `Honest` that each row counts its pair, no pair has two
  rows, and a pair without a row is no larger than any row.

Only model-checked:

- `InLockstep` of Recompiled: a statement about whole programs, over bodies that are
  built by folds over the text, so that a proof would be an induction over data.
- `OpsExact` of Alu and `VectorsInLockstep` of Vfpu, which use `Bitwise`.
- All liveness (`StartedRuns`, `CpuNeverIdle`, `NoStuckWaiter`, `SearchEnds`,
  `DiscoveryEnds`), which this prover does not reach.

## Not modelled

- What the properties leave out of what is modelled: `NotificationRunsOnce` does not say
  that a notification is ever run; `ListsInLockstep` says nothing of a list that stalled
  inside a CALL (`astray`); the pad, frame buffer and power slots of Devices and the frame
  budget of Dispatch are kept for their operations, and no property needs them.
- The build without host threads (a StartThread there is a nested call), the counters
  of SleepThread and WakeupThread (`threadman.c` 1059-1083), priorities (a field nothing
  schedules by), operations on the boot thread's own uid, `int32_t` overflow of a
  semaphore count, the registers saved around a delivery.
- Memory map: each access compares an address with constants; there is no state that
  changes after the module is mapped.
- The opcode tables of `decode.c` (one row per instruction, no state), float arithmetic
  and conversions, `ext`/`ins` fields beyond the word, the text of the emitted C, the
  command line.
- VFPU: packing, rounding conversions, trigonometry, `vcst`, `vdiv`, `vslt`, `vqmul`,
  `mfv`, matrix offsets: floating-point data no property tells apart.
- GE state beyond the walk and the vertex layout, sample values of SasCore, pixels.
- Container, keys and cryptography: bit-level computation out of TLC's reach, run once,
  sequentially. Rasterizer and window: floating-point rendering and the host's API.

## Plan

1. `InLockstep` for one body: statements related to words by an invariant of Emission's
   steps in place of its folds, so that it could be proved for every text.
2. SysMem under Threads and Vpl by composition, in place of their sets of places.
3. Sleep/wakeup and the inline build in Threads; liveness of WaitThreadEnd.
4. The remaining vector instructions.
