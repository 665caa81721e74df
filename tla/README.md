# A TLA+ development of the willowOS kernel

willowOS is a hobby x86-64 kernel (`limine-c-template-x86-64/kernel/src`). It
boots with Limine, runs on one CPU (`init_mp` is commented out in `kmain`,
main.c:574), and has a physical frame allocator, a chunk heap, a preemptive
round-robin scheduler, spin mutexes, address spaces with an ELF loader, a tmpfs
behind a VFS with file descriptors, and system calls. This directory models the
parts of it that keep state and can go wrong over time, checks them with TLC on
small instances, and proves the most important invariants with TLAPS for every
value of the constants.

## Inventory

| Component | Code | State | Operations | Hard behaviour | Module |
|---|---|---|---|---|---|
| Scheduler | scheduler.c | ring of `thread_context` (`next_thread`, `prev_thread`), `running_thread`, `num_threads`, `first_thread`, `first`, `status[3]`, `current_rsp` | `hot_create_and_push_thread`, `reschedule`, `yield_thread`, `scheduler_return`, `block_thread`, `unblock_thread`, `get_thread_by_pid`, `sleep_thread` | the timer may interrupt between any two calls; exits free the structure the CPU runs on; the interrupt flag must survive every path | `Scheduler` |
| Context switch | scheduler.asm | saved stack pointers, SSE save areas | `switch_thread` | which slot is saved and which is loaded depends on the ring at that moment | `Scheduler`, `SchedulerFpu` |
| Interrupt entry | idt.c, idt.asm | IDT, one-shot timer | vector 72, exceptions | every path must restart the timer | `Scheduler` (vector 72) |
| Mutex | mutex.c | `locked` | `acquire_mutex`, `release_mutex` | preemption between compare-exchange and use; acquire with interrupts off | `Mutex` |
| Heap | vmm.c | list of chunks: `status`, `alloc_length` | `kmalloc`, `kmalloc_byte`, `kfree`, `krealloc_byte` | node and index are two cursors that must agree | `Heap` |
| Frames | paging.c, main.c | one byte per frame and region | `alloc_frame`, `free_frame` | borders between regions | `Frames` |
| Page tables | paging.c | four-level tables, a thread's array of mappings | `map_page`, `map_range`, `unmap_page`, `virt_to_phys_page` | what is mapped, recorded and given back follows three different paths; growth of the array | `AddressSpace` |
| ELF loader | loader.c | user pages | `load_elf`, `unload_elf` | the two must agree on the pages of a segment | `AddressSpace` |
| File descriptors | vfs.c, oa_hash.h | open-addressing hash of descriptors | `vfs_fdopen`, `vfs_fdclose`, `vfs_resolve_path` | deleted buckets; reuse of numbers; a table that is never resized | `FdTable`, `Vfs` |
| tmpfs | tmpfs.c | directory arrays, file data | create, delete, look up, read, write | objects are freed before their entry is cleared; growth of the arrays | `Tmpfs`, `Vfs` |
| System calls | syscalls.c, syscalls.asm | none of their own | wrappers | interrupts are masked on entry | with the parts they call |
| Futex | mutex.c, syscalls.c | queues of waiting threads | enqueue, wait, wake | unfinished in the code | - |
| Timers | apic.c, hpet.c, tsc.c | `sleep_locks` | `kpass`, `lapic_oneshot` | interrupt before the flag is set | - |
| Boot, GDT, printing, keyboard, ACPI | main.c, gdt.c, kutils.c, ... | set once | straight-line code | - | - |

How they interact: everything calls the heap; the heap and the page tables call
the frame allocator; the scheduler allocates a thread's stack, structure,
mapping array and descriptor table on the heap and its top-level table from the
frames, and gives them back in `scheduler_return`, which also calls
`unload_elf` and `unmap_page`; system calls use `get_current_thread()` to find
the address space and the descriptors; printing takes a mutex. The timer
interrupt calls `reschedule` whenever the interrupt flag is set. Almost every
kernel function saves the flag, disables interrupts and restores the flag at
its end (`irq_disable_save`, `irq_restore`), which is why the models take a
whole function as one step, and why a path that forgets the restore matters.

What makes each part correct: the ring is one cycle of exactly the live
threads; the thread that executes is the one the kernel takes for current; each
context is saved once and resumed once; every thread eventually runs; a mutex
has at most one holder and is never left locked; heap blocks are inside the heap
and disjoint; a frame has at most one use and is not lost; a thread's array
counts and finds what it has mapped; a descriptor names the file it was opened
for until it is closed; a directory counts its entries, always has room for
one more, and refers to objects that exist. Not all of this is so (Findings);
where it is not, the properties say under which conditions it is.

## Modules

| Module | Models | Kind |
|---|---|---|
| `Scheduler` | scheduler.c, `switch_thread`, the vector-72 handler; the mapping ring -> queue | component |
| `RunQueue` | what the scheduler promises: a round-robin queue | abstract specification |
| `MCScheduler` | instance, symmetry | TLC |
| `SchedulerProofs` | ring, context-switch and exit invariants, how `running_thread` comes apart from the CPU, the refinement of `RunQueue` | proofs |
| `SchedulerFpu` | `Scheduler` composed with the SSE registers and `ssefxsave` | composition |
| `Heap`, `MCHeap`, `HeapProofs` | vmm.c | component, TLC, proofs |
| `Frames`, `MCFrames`, `FramesProofs` | `alloc_frame`, `free_frame` of paging.c, `init_memmaps` | component, TLC, proofs |
| `FramePool` | what the frame allocator promises: one pool, lowest frame first | abstract specification |
| `Mutex`, `MutexProofs` | mutex.c under timer preemption | component, proofs |
| `AddressSpace`, `MCAddressSpace`, `AddressSpaceProofs` | page tables, mapping arrays, ELF segments, `vm_map`, `vm_unmap`, exit | component, TLC, proofs |
| `FdMap` | what a descriptor table promises: a map | abstract specification |
| `FdTable`, `FdTableProofs` | oa_hash.h as vfs.c uses it | component, proofs |
| `Tmpfs`, `TmpfsProofs` | directories of tmpfs.c | component, proofs |
| `Vfs`, `MCVfs`, `VfsProofs` | open and close: `FdTable` and `Tmpfs` composed | composition, TLC, proofs |

**Scheduler.** A `thread_context` is a member of `Threads`, its fields are
functions on `Threads`, `live` are the allocated ones. `running` is
`running_thread`; `cpu` is the thread whose stack the CPU is on, for which the
code has no variable. `ctx[t]` is the owner of the frame that `t->current_rsp`
points at, `NoCtx` once that frame has been popped. `ifl` is `RFLAGS.IF`,
`armed` says that the one-shot timer is counting or its interrupt is pending.
Each C function is an action: `HotCreateAndPushThread`, `TimerInterrupt`,
`YieldThread`, `HotReschedule`, `SchedulerReturn`, `BlockThread`,
`UnblockThread`, `GetThreadByPid`, `SleepThread`, and the boot code's
`BootReschedule`. `Reschedule` and `ReturnToNext`/`ReturnToIdle` are split the
way the C code branches. The loop of `scheduler_return` over blocked threads is
one step; `Visited` is the set of threads it looks at, stated as the least set
closed under the loop's body, and `NoneToRun` and `LoopStopsAt` are its two ways
to end. That it ends in one of them is a property (`ExitFindsReady`), not an
assumption: on a broken ring neither would hold. `RingAsQueue` reads the ring
as a sequence, from `running_thread` along `next_thread`. The memory an exit frees (stack, descriptors, address
space) is abstracted to the thread's leaving `live`; the new idle thread may
reuse the structure just freed. `SwitchSpec` leaves out block, unblock, lookup
and sleep; `Spec` has everything.

**SchedulerFpu.** The registers and the save areas hold the name of the thread
that wrote them last.

**Heap.** `status` and `alloc_length` per node; a client owns at most one block
and frees it once. `IndexAt` is the index kmalloc has counted when its walk is at
a node: it lags behind by one for every failed probe. `FreeNode`, `ClearUsed`
are the walks of `kfree`. Block contents are not modelled. When
`krealloc_byte` fails the old block stays allocated.

**Frames.** Addresses in units of 4 KiB. `Claims` and `MovesOn` are the two
conditions of the loop in `free_frame`; a region satisfying neither is
looked at for ever. Callers free frames they own, or address 0, which
`virt_to_phys_page` returns for a page that is not mapped. `init_memmaps` copies
the boot loader's map to 32 regions with a `frame_bitmap` of 600000 bytes each and
checks neither limit; `FitsArrays` assumes that the map fits (`MaxRegions`,
`MapBytes`), so that "every memory map" below means every sorted one that does.

**Mutex.** One compare-exchange is one step. `old` is the local variable of
`acquire_mutex`. Threads take turns on the CPU as the ring does; a thread that
uses the mutex with interrupts disabled (`kprintf`, system calls) cannot be
preempted meanwhile. Thread identities are `0 .. Threads - 1`.

**AddressSpace.** `entry[t][s]` is the frame in a slot of thread t's space: its
root (cr3), a table or a page. The three levels of tables below the root are
one: what matters is that a table is allocated with the first page it serves
and never freed. `array[t]` and `num[t]` are `mapped_virt_addresses_array` and
`num_mappings`. `map_page` enters an address in the array of the *running*
thread, whatever space it is given, so `range` distinguishes the owner of the
array from the space. `LoadCount`, `UnloadCount` and `UnmapCount` are the three
different computations of the number of pages of a range (`map_range`,
`unload_elf`, `vm_unmap`), kept apart as in the code. A `map_range` in progress
is a sequence of `MapPage` steps during which nothing else happens, because
interrupts are masked. `range.prot` are the permissions `vm_map` was asked for,
as far as `sys_vm_map` makes a difference of them: without PROT_READ the page
table entry is all ones, without PROT_WRITE the kernel cannot write to the page
either (the boot loader sets CR0.WP), without PROT_EXEC bit 63 is set, which
`nx[t]` keeps for the pages. `LosesTable` is the walk of `map_page` through a table it has
just entered with such permissions (only the low 12 bits are masked);
`ClearFaults` is the memset of `vm_map`. An ELF program is mapped with all
three. The user bit, which `sys_vm_map` never sets, only matters to user code
and is left out. `mode` says how the kernel stopped: a page fault or a failed
assertion ("fault"), a walk through a missing table ("wild"), `free_frame(0)`
("stuck"), or an `alloc_frame` that returned 0 ("no memory").

**FdTable.** Buckets with their three states; the hash is a constant, so
that every collision pattern is covered by the proofs. The search is stated by
turns (`Nth`, `Reaches`) instead of a loop. `NewDescriptor` is the choice of
`vfs_fdopen`: the length of the table, or the first number not in use.
`lost` records that a descriptor was returned which could not be stored. In the
branch that looks for another number, `vfs_fdopen` frees the text of the key
while it is the key (vfs.c:404); that is left out, because `kfree` releases
nothing of a block of one chunk: it clears `length - 1` chunks (vmm.c:169).

**Tmpfs.** `files[d]` is the array of a directory, its length `max_files`,
`num[d]` is `num_files`. The creating functions run with interrupts disabled and
are one step. The deleting functions are five: the object (and what goes with
it) is freed (`StartDelete`); `files[i] = NULL` loads the address of the array
(`LoadArray`) and writes to it (`ClearEntry`); `num_files--` loads (`LoadNum`) and
stores (`StoreNum`). The kernel is built with -O0, and the directory's mutex
around the last four does not hold off a creation, which acquires it with
interrupts disabled and so never waits (`mutex_exclusion`,
`MaskedAcquireReturns`): anything may happen in between, the freed object may be
reused, the array may grow and move (a write to the old one ends in mode
"stale"), and `num_files` may change after it was loaded. `num[d]` is therefore an
integer; below 0 it stands for the value modulo 2^64, which compares unequal to
every `max_files` just the same. A directory that is being deleted is not
entered by others. For `tmpfs_delete_directory_no_orphan` the entries cleared
inside the directories it frees are part of the freeing step.

**Vfs.** `Open` resolves a path in the tree and stores the object in the table;
`OpenFails` is what a missing name, or a file in the middle of a path, leads to
(a NULL dereference or the assertion of `vfs_fdopen`).

## Runs

| Run | Expect | Shows |
|---|---|---|
| `scheduler_ring` | pass | over all of `Spec`, blocking included: `RingLinked`, `OneCycle`, `CountIsLive`, `ExitFindsReady` (the loop of `scheduler_return` ends, at a ready thread if there is one), `IdleIsLast` (the idle thread is pushed only when every other thread is blocked; alone on the ring it goes on without a failing switch), `DriftsOnlyByExit` (`running_thread` and the CPU part, or a context gets lost, only by an exit in front of a blocked thread) |
| `scheduler_switch` | pass | without blocking: `RefinesRunQueue` (the ring implements `RunQueue`), `CpuIsRunning`, `ContextsOwned`, `SwitchNeverFails`, `OnlySelfExits`, and the liveness property `EveryThreadRuns` |
| `heap_bounds` | pass | `BlocksInHeap`, `KfreeInHeap`, `FullMeansFull` |
| `frames_bitmap` | pass | `MarkedIsOwned`, `NoFalseAlarm`, `HangsOnlyAtSeam`, `RefinesFramePool` (the regions implement one pool) |
| `mutex_use` | pass | `LockedIsHeld`, `MaskedAcquireReturns` (liveness) |
| `address_space` | pass | `FrameOneUse`, `MappingsCounted`, `MappedIsRecorded`, `SegmentsReturned`, `AlignedMapReturns` (a readable and writable range on a page boundary is mapped without a fault, unless it is not executable and needs a new table) |
| `vfs` | pass | `ProbeFinds`, `LengthIsOccupied`, `OpenReturns`, `LostOnlyWithoutEmpty`, `RefinesFdMap` of the table; `EntriesAlive`, `CountKept` (the count of a directory is lost only where a deletion stores an old value of `num_files`) of the tree |
| `scheduler_lone_yield` | violation | `EveryThreadRunsAlways` |
| `scheduler_fpu` | violation | `FpuIsOwn` |
| `heap_overlap` | violation | `NoOverlap` |
| `mutex_exclusion` | violation | `MutualExclusion` |
| `open_file_deleted` | violation | `OpenFileExists` |

Every property of a passing run has a mutant: a definition with a plausible bug
(named "Faulty" where it is defined) under which TLC finds the property
violated.

Bounds. Four thread structures and five creations in the passing scheduler
runs: a predecessor, the exiting thread, a blocked successor and one behind it
are what `scheduler_return` can tell apart, and five creations let a structure
be reused. Three suffice for the counterexamples. The heap has seven chunks of
two bytes, three clients and requests up to sixteen bytes, so that requests of
none, one, several, all and more than all chunks occur (the constants of the
code are 64-byte chunks and a heap of many pages; `ChunksFor` is parameterised
by the chunk size). The memory map fills its arrays, and has a seam between a reserved and a usable
region, one between two usable regions, and a hole. Four threads share the
mutex. `MaxPid` and `MaxBytes` bound otherwise unbounded inputs.

The address-space instance has four tables of two pages of four bytes, eight
frames, and an array that grows by two entries; the images and requests include
aligned and unaligned segments, ones that cross a page or a table, a program of
two segments, a NULL request, and memory that runs out; every request comes with
every combination of the three permissions. In the `vfs` instance four descriptors hash to two of
three buckets, so that searches wrap around, meet deleted buckets and run out
of empty ones; a directory starts with one entry and grows by one; two
objects besides the root are enough for a file and a directory, for a deletion
with a creation in between, and for reuse, and for the lost count and the
stale array of tmpfs.c:227-228. `MaxLost` is how far below 0 `num_files` may get:
no deletion starts in a directory where it is down to `-MaxLost`. A
`num_files` below 0 and a creation that overwrites an entry are beyond the
instance of this run, and covered by the proofs, which hold for every `MaxLost`.
One thread deletes (`OneDeleter`): two overlapping deletions of one name free
the object twice.

Deadlock. The scheduler runs say `CHECK_DEADLOCK FALSE` because the kernel may
halt (no thread) or hang; the frames, address-space and vfs runs because the
kernel may stop in an assertion, a fault or a loop. The heap and mutex runs
check for deadlock.

Fairness. `FairSwitchSpec` assumes that the hardware delivers a timer interrupt
that is pending and not masked, and that the boot code reaches its
`while (1) reschedule();`. No thread is obliged to call anything.
`FairSpec` of `Mutex` assumes that a thread on the CPU executes its next
instruction. `EveryThreadRuns` has the proviso that interrupts do not stay
disabled for ever, which no thread that calls kernel functions can guarantee
(see the lone yield below). It also rests on there being finitely many creations
(`MaxPid`): `push_thread` puts a new thread right behind the running one, ahead
of all that wait, so that threads that kept creating threads before each timer
interrupt would keep the others waiting. `Arrive` of `RunQueue` shows the place.

## Findings

With a `violation` run and an entry of PROJECT.json:

* **Lone yield** (scheduler.c:336, 666). `yield_thread` counts on
  `switch_thread` to enable interrupts. A thread that is alone is not switched
  and goes on with interrupts disabled; a thread it creates then may starve.
* **SSE registers** (scheduler.asm:75). `switch_thread` saves and restores
  through `get_current_thread()`, which is the incoming thread both times.
* **Heap overlap** (vmm.c:118). After a failed probe the index is not advanced,
  so the address handed out belongs to other chunks than the ones marked.
* **Mutex** (mutex.c:21). A failed `__atomic_compare_exchange` overwrites `old`;
  the second turn succeeds on a mutex that is held.
* **Open file deleted** (tmpfs.c:219). `tmpfs_delete_file` refuses a file whose
  `open_count` is not 0, but the only code that incremented it is commented
  out: an open file is freed.

The models also show the following, which passing properties delimit:

* **Blocked next thread** (scheduler.c:340). The loop of `reschedule` advances
  `running_thread` but tests `next_thread`: it never ends (`RescheduleBlocked`).
* **Exit before a blocked thread** (scheduler.c:508) leaves `running_thread` at
  the blocked thread while a later one executes, so that `CpuIsRunning` holds for
  `SwitchSpec` and not for `Spec`. `DriftsOnlyByExit` says that no other step does
  this.
* **Idle thread beside blocked ones** (scheduler.c:457-467, 369). If every other
  thread is blocked, the exit pushes an idle thread and switches to it, but
  `running_thread` is the thread in front of it, a blocked one. The next tick
  advances `running_thread` to the idle thread, saves the idle thread's registers
  into the blocked thread's slot and loads the idle thread's frame, which has been
  popped already: the model ends in mode "lost". `IdleIsLast` says nothing about
  this case but that the ready threads had all gone; `DriftsOnlyByExit` includes
  the exit that leads to it.
* **Frame at a seam** (paging.c:148). `>` instead of `>=`: the first frame of a
  region that touches the previous one makes `free_frame` loop;
  `HangsOnlyAtSeam` says that no other frame does.
* **Heap leak** (vmm.c:153, 169). Both walks of `kfree` are one short: chunks
  stay used after every block has been freed. `KfreeInHeap` says that the
  walks at least stay inside.
* **Unaligned segments** (loader.c:177). For a segment that does not start on a
  page boundary `unload_elf` may free more or fewer pages than `load_elf`
  mapped; a page it does not find is freed as frame 0, which does not return.
  `SegmentsReturned` is about aligned programs.
* **Addresses of another space** (paging.c:259). `load_elf` runs in the thread
  that launches, whose array gets the addresses of the new space. If it exits,
  `scheduler_return` unmaps them in its own space, through missing tables.
  (`initial_thread`, the only launcher at present, never exits.) The tables of
  a space, and the frames of `vm_map`, are never freed.
* **vm_map alignment** (syscalls.c:193). `& 0xfff != 0` is `& 1`: every even
  address passes, and the word read back half a page further may be outside of
  the range. (The refusal of an odd address returns without `irq_restore`; the
  return to user mode sets the flag.)
* **vm_map permissions** (syscalls.c:200, paging.c:233-254). Without PROT_WRITE or
  PROT_READ the kernel's own memset of the range faults. Without PROT_EXEC bit 63
  stays in the pointer to a table that `map_page` has just made, and the next
  access faults. If the table was there, the page is mapped; where it replaces a
  page of the program, `unload_elf` later frees an address with bit 63, far behind
  the byte map of the last region. `AlignedMapReturns` says what remains.
* **Lost count of a directory** (tmpfs.c:228). A creation between the load and the
  store of `num_files--` is not counted. The array then fills up without growing,
  and the next creation puts its object in the place of the first entry, whose
  object is left without a name. `CountKept` says that the count is lost in no
  other way, and that a counted directory has a NULL entry; `EntriesAlive` holds
  even afterwards.
* **Write to an old array** (tmpfs.c:227). If a creation makes the array grow
  between the load of its address and the write, the write goes to the freed
  block, and the entry of the freed object stays.
* **Full descriptor table** (vfs.c:373). The table is resized at a length of
  33, which 32 buckets never reach. Once every bucket has been used, deleted
  ones alone are not reused (oa_hash.h:248), and `vfs_fdopen` returns
  descriptors that lead nowhere. `LostOnlyWithoutEmpty` says that this happens in
  no other case.
* **New directory in a large one** (tmpfs.c:192). The 32 entries of the new
  directory are cleared with the parent's `max_files`, past their end.

An observation on the side: the mutex defect is what makes
`MaskedAcquireReturns` true. A mutex that really excluded would make `kprintf`
with interrupts disabled wait for a preempted holder for ever; the mutant of
that property is exactly the repaired compare-exchange. The two have to be
repaired together. The same goes for the directory's mutex, which
`tmpfs_create_file` acquires with interrupts disabled.

## Proofs

All theorems are checked by TLAPS; the assumptions on the constants are the
named `ASSUME`s of the component modules, which TLC evaluates in the runs.

* `SchedulerProofs!RingCorrect`: `Spec => [](TypeOK /\ RingLinked /\ OneCycle /\
  CountIsLive)`. The inductive invariant `IInv` adds
  `Started`: the first push has happened iff there is a thread, and once
  `reschedule` has been called some thread executes and the ring is not empty.
  Without it `push_thread`'s special case (`first_thread || num_threads == 0`)
  could split a ring, and `running_thread->next_thread` could be NULL. "One
  cycle" is stated by closed sets, so that neither reachability nor recursion
  is needed; the lemmas say what one insert and one discard do to linked rings
  and to cycles.
* `SchedulerProofs!DriftCorrect`: `Spec => DriftsOnlyByExit`, blocking included,
  step by step from a state in which `running_thread` executes and the contexts are
  in their slots, under `BInv` (below).
* `SchedulerProofs!PreemptionCorrect`: `Spec => []PreemptionArmed`, blocking
  included: the one-shot timer is counting or pending whenever a thread runs.
  Inductive as it stands.
* `SchedulerProofs!SwitchCorrect`: `SwitchSpec => [](CpuIsRunning /\
  ContextsOwned /\ SwitchNeverFails)`. The invariant `SInv` adds to `IInv` that
  no thread is blocked, that live threads have different pids (the code
  compares pids where it means threads), that an idle thread is alone, and that
  `running_thread` executes. The slot `reschedule` saves into is then the
  executing thread's own, because the ring is doubly linked.
* `SchedulerProofs!OnlySelfExitsCorrect`: the action property, from the same
  invariant.
* `SchedulerProofs!ExitCorrect`: `Spec => [](ExitFindsReady /\ IdleIsLast)`,
  blocking included. The inductive invariant `BInv` adds to `IInv` that pids are
  different and that the idle thread, once there is one, is on the CPU and leaves
  only blocked threads behind (`IdleOK`). The argument needs the ring in order:
  a walk along `next_thread` without repetition has at most as many members as
  there are threads, so there is a longest one; on one cycle it visits all live
  threads and closes (`WalkRound`, `RoundExists`). The members before the first
  ready one, and no others, are visited (`LoopPasses`, `LoopDecides`). Induction
  along the walk is by its least counterexample (`LeastIndex`).
* `SchedulerProofs!SwitchRefinesRunQueue`: `SwitchSpec => RefinesRunQueue`. The
  order in which a ring is read is unique (`OrderUnique`), so the sequence that
  the mapping chooses is any sequence one can show to be in order; `InsertOrder`,
  `RotateOrder` and `DiscardOrder` show it for what `push_thread`, `reschedule`
  and `scheduler_return` leave, and one lemma per action (`CreateMaps`,
  `BootMaps`, `RescheduleMaps`, `ReturnMaps`) maps it to a step of the queue, under
  `SInv`.
* `HeapProofs!HeapBounded`: `Spec => [](TypeOK /\ BlocksInHeap /\ KfreeInHeap)`.
  `KfreeInHeap` needs `LengthsInHeap` (no recorded length reaches past the end,
  at any node), because `kfree` may read the length of a block that is not its
  own. `HeapProofs!FirstFit`: `FullMeansFull`.
* `FramesProofs!FramesCorrect`, `AlarmsAreTrue`, `ReturnsButAtSeam`: for every
  sorted memory map that fits the arrays. The lemmas say that a frame lies in one region, and that
  the walk ends there or is stuck before. `FramesRefinePool`: the walk over the
  regions implements `FramePool`, the allocator that `AddressSpace` assumes
  (its `Lowest` is the pool's choice); because the map is sorted, the first free
  byte met is that of the lowest free frame.
* `MutexProofs!MutexNeverStuck`, `MaskedAcquireBounded`: for any number of threads.
  The inductive invariant adds `MaskedStays`, that a thread with interrupts
  disabled has the CPU, and `MaskedSpinsOnce`, that its second turn succeeds.
* `AddressSpaceProofs!NoFrameTwice`, `MappingsAreCounted`: for any threads,
  programs, requests and memory. The inductive invariant `SpaceInv`
  adds to the one use of a frame that the array counts its used entries and
  its unused ones have address 0, that programs and ranges are the given
  ones and `vm_map` works on its caller's space, and that a live or launching
  thread has a root. That `unmap_page` looks for an address without looking
  at `used` is harmless in `vm_unmap` because that refuses a NULL pointer,
  and 0 is the address of every unused entry; the exit of a thread drops its
  array (which is never freed).
* `AddressSpaceProofs!MappedAreRecorded`: the array and the program account for
  every page; the invariant `RecInv` follows a `map_range` in progress page by
  page, and adds that a launching space is not live yet and its launcher is.
  `AlignedIsReturned`: for a page-aligned program `UnloadCount` and `LoadCount`
  agree, which is arithmetic on `%` and `\div` (lemmas of its own).
  `AlignedVmMapReturns`: the steps in which `vm_map` can stop the kernel are those
  `AlignedMapReturns` names: the walk of `map_page` (`WalkFaultsAtTable`) and the
  end of `vm_map`, whose word lies in the first page of the range (`FirstMapped`,
  `AlignedReadsBack`).
* `FdTableProofs`: `TableProbeFinds`, `TableCounts`, `TableOpenReturns`, and the
  refinement `TableRefinesFdMap`, for every capacity and every hash. The
  inductive invariant `FdInv` says that no bucket on the way from a stored
  key's hash to its place is empty; deleted buckets are what keeps it true.
  `TableOpenReturns` is a counting argument: there are more candidates than
  occupied buckets.
* `TmpfsProofs!DirectoriesConsistent`, `DirectoriesCount` and `NoDirectoryCycle`:
  for any objects, names and array sizes, with creations between any two steps
  of a deletion. `DirectoriesCount` is the action property `CountKept`: one lemma
  per action says what it does to the number of entries, the count, and the
  decrement a deletion still owes (`Owed`). The inductive invariant adds what is known of a pending deletion (`PendOK`: its
  entry is still there, and its directory is not freed meanwhile) and that no
  set of directories is closed under "contains one of them" (`Acyclic`), without
  which a recursive deletion could free the directory it started in.
* `VfsProofs!DescriptorsConsistent`, `DescriptorsRefineMap`, `TreeConsistent`, `TreeCounts`:
  the same for the composition, of which every step is a step of a part, but
  for the failing open.

Only model-checked: the two liveness properties, `EveryThreadRuns` and
`MaskedAcquireReturns`, which need fairness, and which this prover cannot reason
about. Every other property of a passing run is stated by a theorem, and so is
the safety part of the two: of the first, that the timer is always armed
(`PreemptionCorrect`) and that each interrupt moves every waiting thread one
place up (`SwitchRefinesRunQueue`: `Rotate`); of the second, that the turn after
a failed one succeeds (`MaskedAcquireBounded`). Every violation is of course
TLC's.

## Plan

Done: the scheduler with its abstract specification, the heap, the frames, the
mutex, the SSE composition; the address spaces with the ELF loader; the
descriptor table with its abstract specification, the directories, and the
two composed; the theorems above. What is left, and why it was not taken up:

1. Two deleting threads in `Tmpfs` (tmpfs.c:223). With the present mutex
   `EntriesAlive` and `CountKept` fail then.
2. Contents of files (`tmpfs_write_to_file`, `tmpfs_read_from_file`), once the
   kernel calls them again.
3. `Frames` and `AddressSpace` composed. The two meet in `FramePool`: `Frames`
   is proved to implement it, `AddressSpace` allocates by its rule, but takes a
   frame for a page and one for its table in one step, and gives several back in
   one.

## Not modelled

* Futex (mutex.c:58-100, system calls 11 and 12): the first call dereferences
  the first entry of `global_futex_array`, which `init_futex` has set to NULL.
  There is no later behaviour to model.
* `kpass` is called once, during boot. It starts the timer before it sets
  `sleep_locks` (apic.c:39).
* System calls 20 to 23 (read, write, seek, close) are not in the dispatch table
  of syscalls.asm, which ends at 19; 20 to 22 are empty. Descriptors are closed
  by kernel threads (scheduler.c:116).
* `change_page_map` only changes permission bits. Mounting is in code that
  `init_vfs` jumps over (vfs.c:69); `vnode_unmount_vfs` is empty.
* The interrupt flag of callers: `block_thread` and `get_thread_by_pid` lose it
  (in the model), `map_page` too, but its callers restore it.
* GDT, IDT tables, APIC and IOAPIC register programming and the keyboard are
  device I/O without behaviour over time. SMP start is not part of the build.
  `inode_fs.c` is a stub. `get_new_pid` is called by the boot code only, so its
  mutex is never contended. `old/` is the predecessor of the kernel.
* Third-party code: uACPI, flanterm, nanoprintf, the string library, the
  fireworks demo.

The last item is why the modelled lines are a small share of the repository's:
of its 47 000 lines of C and assembly the kernel's own are about 5 000; uACPI
alone has 31 000, and the build selects its barebones mode
(`UACPI_BAREBONES_MODE`, config.h:127), which compiles most of them out. What is
left of the kernel besides the modules above is start-up code, register
programming, printing and commented-out experiments.
