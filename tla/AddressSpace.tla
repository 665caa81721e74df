---------------------------- MODULE AddressSpace ----------------------------
(***************************************************************************)
(* The address spaces of the threads: map_page, map_range and unmap_page   *)
(* of kernel/src/paging.c, load_elf and unload_elf of loader.c, the system *)
(* calls vm_map and vm_unmap (syscalls.c), and the creation and the exit   *)
(* of a thread as far as its pages are concerned (scheduler.c).            *)
(*                                                                         *)
(* A space has a root (cr3), tables and pages.  The three levels of tables *)
(* between the root and a page are one level here: a table serves          *)
(* TablePages neighbouring pages and is allocated with the first of them.  *)
(* All of this code runs with interrupts disabled: while a range is being  *)
(* mapped, no other thread does anything.                                  *)
(***************************************************************************)
EXTENDS Integers, Sequences, FiniteSets

CONSTANTS
    Threads,     \* the thread structures
    PageSize,    \* PAGE_SIZE_DEFINED
    TablePages,  \* the pages one table serves
    NumRegions,  \* the tables a space can have
    NumFrames,   \* the physical frames
    Step,        \* the entries by which the array of mappings grows, 8
    Images,      \* the programs: sequences of their PT_LOAD segments
    Requests     \* the ranges user threads ask for, as segments

Frames == 1 .. NumFrames
Regions == 0 .. NumRegions - 1
Pages == 0 .. NumRegions * TablePages - 1

\* virt_address >> 12, and the index of the table that maps the page.
PageOf(a) == a \div PageSize
RegionOf(a) == PageOf(a) \div TablePages

\* The pages map_range maps for p_memsz bytes at p_vaddr.
LoadCount(seg) ==
    LET size == (seg.vaddr % PageSize) + seg.memsz
    IN  IF seg.memsz = 0 THEN 0
        ELSE IF size <= PageSize THEN 1
        ELSE IF size % PageSize = 0 THEN size \div PageSize
        ELSE (size \div PageSize) + 1

\* Faulty: a size that is a multiple of the page size has a page less.
UnloadCountShort(seg) ==
    LET size == (seg.vaddr % PageSize) + seg.memsz
    IN  IF seg.memsz < PageSize THEN 1
        ELSE IF seg.memsz % PageSize = 0 THEN (size \div PageSize) - 1
        ELSE (size \div PageSize) + 1

\* The pages unload_elf frees for the same segment.
UnloadCount(seg) ==
    LET size == (seg.vaddr % PageSize) + seg.memsz
    IN  IF seg.memsz < PageSize THEN 1
        ELSE IF seg.memsz % PageSize = 0 THEN size \div PageSize
        ELSE (size \div PageSize) + 1

\* The pages vm_unmap unmaps: the offset in the page does not count, and 0 bytes
\* are one page.
UnmapCount(seg) ==
    IF seg.memsz <= PageSize THEN 1
    ELSE IF seg.memsz % PageSize = 0 THEN seg.memsz \div PageSize
    ELSE (seg.memsz \div PageSize) + 1

\* Faulty: the pages are counted from 1.
AddressBehind(seg, j) == seg.vaddr + (j + 1) * PageSize

\* The address of page j of a range.
Address(seg, j) == seg.vaddr + j * PageSize

Segments == Requests \cup UNION {{img[s] : s \in DOMAIN img} : img \in Images}

\* Every page the code computes for a range lies in the address space, and so
\* does the word vm_map reads back.
ASSUME AddressSpaceAssumption ==
    /\ PageSize \in Nat \ {0}
    /\ TablePages \in Nat \ {0}
    /\ NumRegions \in Nat
    /\ NumFrames \in Nat \ {0}
    /\ Step \in Nat \ {0}
    /\ Images \subseteq Seq([vaddr : Nat, memsz : Nat])
    /\ Requests \subseteq [vaddr : Nat, memsz : Nat]
    /\ \A seg \in Segments : \A j \in 0 .. LoadCount(seg) + 1 :
          /\ PageOf(Address(seg, j)) \in Pages
          /\ RegionOf(Address(seg, j)) \in Regions

\* The places of a space that hold a frame.
Root == <<"root", 0>>
Table(a) == <<"table", RegionOf(a)>>
Page(a) == <<"page", PageOf(a)>>
Slots == {Root} \cup ({"table"} \X Regions) \cup ({"page"} \X Pages)

VARIABLES
    free,   \* the frames with frame_bitmap 0
    live,   \* the threads in the run queue
    image,  \* elf_file; a kernel thread has the empty image
    entry,  \* entry[t][s]: the frame in slot s of t's space, 0 for none
    array,  \* mapped_virt_addresses_array
    num,    \* num_mappings
    nx,     \* nx[t]: the pages of t's space whose entry has bit 63, no execute
    range,  \* the ranges map_range still has to map
    mode    \* "run", or how the kernel stopped

vars == <<free, live, image, entry, array, num, nx, range, mode>>

Unused == [addr |-> 0, used |-> FALSE]
NoEntries == [s \in Slots |-> 0]

\* What sys_vm_map takes from prot.  Without PROT_READ the permissions are all
\* ones, without PROT_WRITE bit 1 is off, without PROT_EXEC bit 63 is set.
Prot == {"read", "write", "exec"}

\* map_range works for owner (get_current_thread()) on the space of another or
\* of the same thread; seg and page say where it is, prot with which permissions.
Ranges == [kind : {"none", "launch", "vm"}, owner : Threads, space : Threads,
           image : Seq([vaddr : Nat, memsz : Nat]), seg : Nat, page : Nat,
           prot : SUBSET Prot]

Idle == range.kind = "none" /\ mode = "run"

\* alloc_frame takes the first free frame.
Lowest(f, S) == f \in S /\ \A g \in S : f <= g

\* The initial thread of init_vfs runs, in a space of its own.
Init ==
    \E t \in Threads :
        /\ live = {t}
        /\ free = Frames \ {1}
        /\ image = [u \in Threads |-> << >>]
        /\ entry = [u \in Threads |-> IF u = t THEN [NoEntries EXCEPT ![Root] = 1] ELSE NoEntries]
        /\ array = [u \in Threads |-> [i \in 1 .. Step |-> Unused]]
        /\ num = [u \in Threads |-> 0]
        /\ nx = [u \in Threads |-> {}]
        /\ range = [kind |-> "none", owner |-> t, space |-> t, image |-> << >>, seg |-> 1, page |-> 0,
                    prot |-> Prot]
        /\ mode = "run"

-----------------------------------------------------------------------------
(* Threads.                                                                *)

\* create_new_userspace_page_table, and the array create_thread sets up.
NewSpace(c) ==
    /\ \E f \in Frames :
          /\ Lowest(f, free)
          /\ free' = free \ {f}
          /\ entry' = [entry EXCEPT ![c] = [NoEntries EXCEPT ![Root] = f]]
    /\ array' = [array EXCEPT ![c] = [i \in 1 .. Step |-> Unused]]
    /\ num' = [num EXCEPT ![c] = 0]
    /\ nx' = [nx EXCEPT ![c] = {}]

\* hot_create_and_push_thread, called by a kernel thread.
HotCreateAndPushThread(t, c) ==
    /\ Idle
    /\ t \in live /\ image[t] = << >>
    /\ c \in Threads \ live
    /\ NewSpace(c)
    /\ live' = live \cup {c}
    /\ image' = [image EXCEPT ![c] = << >>]
    /\ UNCHANGED <<range, mode>>

\* hot_exec_elf: the new space first, then load_elf maps the segments into it.
HotExecElf(t, c, img) ==
    /\ Idle
    /\ t \in live /\ image[t] = << >>
    /\ c \in Threads \ live
    /\ NewSpace(c)
    /\ range' = [kind |-> "launch", owner |-> t, space |-> c, image |-> img, seg |-> 1, page |-> 0,
                  prot |-> Prot]
    /\ UNCHANGED <<live, image, mode>>

\* load_elf is through, and hot_exec_elf pushes the new thread.
PushLoaded ==
    /\ mode = "run"
    /\ range.kind = "launch"
    /\ range.seg > Len(range.image)
    /\ live' = live \cup {range.space}
    /\ image' = [image EXCEPT ![range.space] = range.image]
    /\ range' = [range EXCEPT !.kind = "none"]
    /\ UNCHANGED <<free, entry, array, num, nx, mode>>

-----------------------------------------------------------------------------
(* map_range and map_page.                                                 *)

\* Faulty: the array grows when it has overflowed.
GrowLate(arr, n) == IF n > Len(arr) THEN arr \o [i \in 1 .. Step |-> Unused] ELSE arr

\* The array grows as soon as its last entry has been used.
Grow(arr, n) == IF n = Len(arr) THEN arr \o [i \in 1 .. Step |-> Unused] ELSE arr

\* The entry map_page fills: the first one that is not used.
FirstUnused(arr) ==
    {k \in DOMAIN arr : ~arr[k].used /\ \A i \in 1 .. k - 1 : arr[i].used}

Entered(arr, a) ==
    [k \in DOMAIN arr |-> IF k \in FirstUnused(arr) THEN [addr |-> a, used |-> TRUE] ELSE arr[k]]

\* map_page enters the address in the array of the running thread, whatever
\* space it has been given.
Record(t, a) ==
    LET n == num[t] + Cardinality(FirstUnused(array[t]))
    IN  /\ num' = [num EXCEPT ![t] = n]
        /\ array' = [array EXCEPT ![t] = Grow(Entered(@, a), n)]

\* Faulty: the frame of the table is not taken from the free ones.
InstallTwice(t, a) ==
    \E f \in Frames :
        /\ Lowest(f, free)
        /\ free' = free \ {f}
        /\ entry' = [entry EXCEPT ![t][Page(a)] = f,
                                  ![t][Table(a)] = IF @ = 0 THEN f ELSE @]

\* The frame of the page is allocated by map_range, and then one for the table
\* if it is missing.  What the page held before is overwritten.
Install(t, a) ==
    \E f \in Frames :
        /\ Lowest(f, free)
        /\ \/ /\ entry[t][Table(a)] # 0
              /\ free' = free \ {f}
              /\ entry' = [entry EXCEPT ![t][Page(a)] = f]
           \/ /\ entry[t][Table(a)] = 0
              /\ \E g \in Frames :
                    /\ Lowest(g, free \ {f})
                    /\ free' = free \ {f, g}
                    /\ entry' = [entry EXCEPT ![t][Page(a)] = f, ![t][Table(a)] = g]

\* The segment map_range is at.
Segment == range.image[range.seg]

\* map_range has a page to map.
Mapping ==
    /\ mode = "run"
    /\ range.kind # "none"
    /\ range.seg <= Len(range.image)
    /\ range.page < LoadCount(Segment)

\* A missing table is entered with the permissions of the page, and map_page
\* clears only the low 12 bits to reach it: with bit 63, or with all ones, that
\* is no address.
LosesTable ==
    /\ entry[range.space][Table(Address(Segment, range.page))] = 0
    /\ ~({"read", "exec"} \subseteq range.prot)

MapPage ==
    /\ Mapping
    /\ ~LosesTable
    /\ Install(range.space, Address(Segment, range.page))
    /\ Record(range.owner, Address(Segment, range.page))
    /\ nx' = [nx EXCEPT ![range.space] =
                 IF "exec" \in range.prot THEN @ \ {PageOf(Address(Segment, range.page))}
                 ELSE @ \cup {PageOf(Address(Segment, range.page))}]
    /\ range' = [range EXCEPT !.page = @ + 1]
    /\ UNCHANGED <<live, image, mode>>

\* The frame of the page is there, the walk faults and the handler halts.
MapFaults ==
    /\ Mapping
    /\ free # {}
    /\ LosesTable
    /\ mode' = "fault"
    /\ UNCHANGED <<free, live, image, entry, array, num, nx, range>>

\* The end of map_range; with 0 bytes it returns EINVAL at once.
RangeMapped ==
    /\ mode = "run"
    /\ range.kind # "none"
    /\ range.seg <= Len(range.image)
    /\ range.page >= LoadCount(Segment)
    /\ range' = [range EXCEPT !.seg = @ + 1, !.page = 0]
    /\ UNCHANGED <<free, live, image, entry, array, num, nx, mode>>

\* alloc_frame returns 0, which the callers install like a frame: page 0 of the
\* memory becomes a table or a page.  The model stops here.
OutOfFrames ==
    /\ mode = "run"
    /\ \/ /\ range.kind = "none"
          /\ free = {}
          /\ live # Threads
          /\ \E t \in live : image[t] = << >>
       \/ /\ Mapping
          /\ \/ free = {}
             \/ /\ entry[range.space][Table(Address(Segment, range.page))] = 0
                /\ ~LosesTable
                /\ \E f \in free : free = {f}
    /\ mode' = "no memory"
    /\ UNCHANGED <<free, live, image, entry, array, num, nx, range>>

-----------------------------------------------------------------------------
(* The system calls.                                                       *)

\* vm_map (system call 7): "& 0xfff != 0" tests the lowest bit only.
VmMap(t, seg, prot) ==
    /\ Idle
    /\ t \in live /\ image[t] # << >>
    /\ seg.vaddr % 2 = 0
    /\ range' = [kind |-> "vm", owner |-> t, space |-> t, image |-> <<seg>>, seg |-> 1, page |-> 0,
                  prot |-> prot]
    /\ UNCHANGED <<free, live, image, entry, array, num, nx, mode>>

\* memset faults at the first byte if the pages have an entry of all ones or
\* cannot be written (the kernel runs with CR0.WP).
ClearFaults(seg) == seg.memsz # 0 /\ ~({"read", "write"} \subseteq range.prot)

\* The range is cleared and the word in the middle of a page is read back.  If
\* it is not in a page of this range, it may not be 0, or not be mapped at all.
VmMapped ==
    /\ mode = "run"
    /\ range.kind = "vm"
    /\ range.seg > Len(range.image)
    /\ LET seg == range.image[1]
           word == seg.vaddr + (PageSize \div 2)
       IN  \/ /\ ~ClearFaults(seg)
              /\ entry[range.space][Page(word)] # 0
              /\ range' = [range EXCEPT !.kind = "none"]
              /\ UNCHANGED mode
           \/ /\ \/ ClearFaults(seg)
                 \/ entry[range.space][Page(word)] = 0
                 \/ \A j \in 0 .. LoadCount(seg) - 1 : PageOf(word) # PageOf(Address(seg, j))
              /\ mode' = "fault"
              /\ UNCHANGED range
    /\ UNCHANGED <<free, live, image, entry, array, num, nx>>

\* The entries unmap_page clears for the addresses A: for each of them the first
\* one with that address, used or not.
Forgotten(arr, A) ==
    {k \in DOMAIN arr : arr[k].addr \in A /\ \A i \in 1 .. k - 1 : arr[i].addr # arr[k].addr}

Cleared(arr, A) == [k \in DOMAIN arr |-> IF k \in Forgotten(arr, A) THEN Unused ELSE arr[k]]

\* Faulty: every turn of the loop unmaps the first page.
UnmappedFirst(A, s) == \E a \in A : s = Page(a) /\ \A b \in A : a <= b

\* The slots unmap_page clears.
Unmapped(A, s) == \E a \in A : s = Page(a)

\* vm_unmap (system call 8).  The frames are not freed; without a table
\* unmap_page goes through page 0 of the memory and writes somewhere.
VmUnmap(t, seg) ==
    /\ Idle
    /\ t \in live /\ image[t] # << >>
    /\ LET A == {Address(seg, j) : j \in 0 .. UnmapCount(seg) - 1}
       IN  \/ /\ seg.vaddr # 0
              /\ \A a \in A : entry[t][Table(a)] # 0
              /\ entry' = [entry EXCEPT ![t] = [s \in Slots |-> IF Unmapped(A, s) THEN 0 ELSE @[s]]]
              /\ array' = [array EXCEPT ![t] = Cleared(@, A)]
              /\ num' = [num EXCEPT ![t] = @ - Cardinality(Forgotten(array[t], A))]
              /\ nx' = [nx EXCEPT ![t] = @ \ {PageOf(a) : a \in A}]
              /\ UNCHANGED mode
           \/ /\ seg.vaddr # 0
              /\ \E a \in A : entry[t][Table(a)] = 0
              /\ mode' = "wild"
              /\ UNCHANGED <<entry, array, num, nx>>
           \/ /\ seg.vaddr = 0
              /\ mode' = "fault"
              /\ UNCHANGED <<entry, array, num, nx>>
    /\ UNCHANGED <<free, live, image, range>>

-----------------------------------------------------------------------------
(* The exit of a thread.                                                   *)

\* The pages unload_elf frees and unmaps, and their order.
UnloadSteps(img) ==
    UNION {{s} \X (0 .. UnloadCount(img[s]) - 1) : s \in DOMAIN img}

Before(x, y) == x[1] < y[1] \/ (x[1] = y[1] /\ x[2] < y[2])

StepAddress(img, x) == Address(img[x[1]], x[2])

\* An earlier step of unload_elf has unmapped the page.
UnmappedBefore(t, x) ==
    \E y \in UnloadSteps(image[t]) :
        /\ Before(y, x)
        /\ PageOf(StepAddress(image[t], y)) = PageOf(StepAddress(image[t], x))

\* virt_to_phys_page finds the frame: one is still mapped, and its entry has no
\* bit above the address.
Finds(t, x) ==
    /\ entry[t][Page(StepAddress(image[t], x))] # 0
    /\ ~UnmappedBefore(t, x)
    /\ PageOf(StepAddress(image[t], x)) \notin nx[t]

\* unload_elf comes to the end.
Unloads(t) == \A x \in UnloadSteps(image[t]) : Finds(t, x)

\* The first page that is not found: its walk misses a table, or ends in
\* free_frame(0), which does not return, or in free_frame of an address with bit
\* 63, which lies far behind the byte map of the last region.
UnloadFails(t, how) ==
    \E x \in UnloadSteps(image[t]) :
        /\ ~Finds(t, x)
        /\ \A y \in UnloadSteps(image[t]) : Before(y, x) => Finds(t, y)
        /\ how = IF entry[t][Table(StepAddress(image[t], x))] = 0 THEN "wild"
                 ELSE IF entry[t][Page(StepAddress(image[t], x))] = 0 \/ UnmappedBefore(t, x) THEN "stuck"
                 ELSE "fault"

\* Afterwards each address in the array is unmapped in the thread's own space.
RecordsWalk(t) ==
    \A k \in DOMAIN array[t] : array[t][k].used => entry[t][Table(array[t][k].addr)] # 0

\* Faulty: whatever the slots hold is given back, 0 too.
ReturnedAll(t) == {entry[t][s] : s \in Slots}

\* The frames scheduler_return gives back: the pages of the image and the root.
\* The tables and the pages of vm_map are never freed.
Returned(t) ==
    {entry[t][Root]} \cup {entry[t][Page(StepAddress(image[t], x))] : x \in UnloadSteps(image[t])}

SchedulerReturn(t) ==
    /\ Idle
    /\ t \in live
    /\ \/ /\ Unloads(t) /\ RecordsWalk(t)
          /\ free' = free \cup Returned(t)
          /\ entry' = [entry EXCEPT ![t] = NoEntries]
          /\ nx' = [nx EXCEPT ![t] = {}]
          /\ live' = live \ {t}
          /\ mode' = IF live = {t} THEN "idle" ELSE "run"
       \/ /\ Unloads(t) /\ ~RecordsWalk(t)
          /\ mode' = "wild"
          /\ UNCHANGED <<free, entry, nx, live>>
       \/ /\ \E how \in {"wild", "stuck", "fault"} : UnloadFails(t, how) /\ mode' = how
          /\ UNCHANGED <<free, entry, nx, live>>
    /\ UNCHANGED <<image, array, num, range>>

Next ==
    \/ \E t, c \in Threads : HotCreateAndPushThread(t, c)
    \/ \E t, c \in Threads : \E img \in Images : HotExecElf(t, c, img)
    \/ PushLoaded
    \/ MapPage
    \/ MapFaults
    \/ RangeMapped
    \/ OutOfFrames
    \/ \E t \in Threads : \E seg \in Requests : \E prot \in SUBSET Prot : VmMap(t, seg, prot)
    \/ \E t \in Threads : \E seg \in Requests : VmUnmap(t, seg)
    \/ VmMapped
    \/ \E t \in Threads : SchedulerReturn(t)

Spec == Init /\ [][Next]_vars

-----------------------------------------------------------------------------
(* Properties.                                                             *)

\* Every part of the state of the address spaces has its type.
TypeOK ==
    /\ free \subseteq Frames
    /\ live \subseteq Threads
    /\ image \in [Threads -> Seq([vaddr : Nat, memsz : Nat])]
    /\ entry \in [Threads -> [Slots -> Frames \cup {0}]]
    /\ array \in [Threads -> Seq([addr : Nat, used : BOOLEAN])]
    /\ num \in [Threads -> Nat]
    /\ nx \in [Threads -> SUBSET Pages]
    /\ range \in Ranges
    /\ mode \in {"run", "no memory", "fault", "wild", "stuck", "idle"}

\* A physical frame serves one purpose: it is free, or the root, a table or a
\* page of one space, over every sequence of launches, vm_map, vm_unmap and
\* exits, although unmap_page and scheduler_return give only some frames back.
FrameOneUse ==
    \A t, u \in Threads : \A s, r \in Slots :
        /\ entry[t][s] \notin free
        /\ entry[t][s] # 0 /\ entry[t][s] = entry[u][r] => t = u /\ s = r

\* num_mappings is the number of used entries although unmap_page never looks at
\* used, and map_page always finds an unused entry: the array has grown in time.
MappingsCounted ==
    \A t \in Threads :
        /\ num[t] = Cardinality({k \in DOMAIN array[t] : array[t][k].used})
        /\ num[t] < Len(array[t])

\* The pages load_elf maps for a program.
LoadPages(img) ==
    UNION {{PageOf(Address(img[s], j)) : j \in 0 .. LoadCount(img[s]) - 1} : s \in DOMAIN img}

\* What a user thread has mapped is what scheduler_return will find: every page
\* belongs to the program or is in the thread's array, and for every address in
\* the array there is a table in the thread's own space, so that the exit does
\* not go through page 0.  (A kernel thread that has launched a program holds
\* addresses of another space.)
MappedIsRecorded ==
    \A t \in live : image[t] # << >> =>
        /\ \A p \in Pages : entry[t][<<"page", p>>] # 0 =>
              \/ p \in LoadPages(image[t])
              \/ \E k \in DOMAIN array[t] : array[t][k].used /\ PageOf(array[t][k].addr) = p
        /\ RecordsWalk(t)

\* A program as a linker lays it out: segments on page boundaries, none empty,
\* and no page in two of them.
Aligned(img) ==
    /\ \A s \in DOMAIN img : img[s].vaddr % PageSize = 0 /\ img[s].memsz > 0
    /\ \A s, r \in DOMAIN img : s # r =>
          LoadPages(<<img[s]>>) \cap LoadPages(<<img[r]>>) = {}

\* unload_elf and load_elf compute the pages of a segment in different ways.  For
\* an aligned program the exit gives back the frame of every page load_elf
\* mapped (or of the page the thread has mapped in its place).
SegmentsReturned ==
    [][\A t \in live \ live' : Aligned(image[t]) =>
          \A p \in LoadPages(image[t]) : entry[t][<<"page", p>>] \in free']_vars

\* vm_map of a page-aligned range with PROT_READ and PROT_WRITE stops the kernel
\* in one place only, map_page at a missing table when PROT_EXEC is absent: the
\* word it reads back lies in a page of the range, which alloc_frame has cleared.
AlignedMapReturns ==
    [][mode' = "fault" /\ range.kind = "vm" =>
          \/ range.image[1].vaddr % PageSize # 0
          \/ range.image[1].memsz = 0
          \/ ~({"read", "write"} \subseteq range.prot)
          \/ /\ "exec" \notin range.prot
             /\ range.seg = 1
             /\ entry[range.space][Table(Address(Segment, range.page))] = 0]_vars
=============================================================================
