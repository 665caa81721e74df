------------------------------- MODULE Frames -------------------------------
(***************************************************************************)
(* The physical frame allocator of kernel/src/paging.c: alloc_frame and    *)
(* free_frame on the list of memory regions init_memmaps builds from the   *)
(* boot loader's memory map, each with a map of one byte per frame.        *)
(*                                                                         *)
(* Addresses are counted in frames of 4096 bytes.  Both functions run with *)
(* interrupts disabled wherever the kernel calls them once there are       *)
(* threads, hence one action each.                                         *)
(***************************************************************************)
EXTENDS Integers

CONSTANTS
    NumRegions,  \* the entries of the memory map
    Base,        \* base
    Length,      \* length
    Usable,      \* the regions with type 0
    MaxRegions,  \* the length of memmap_arr, 32
    MapBytes     \* the length of a frame_bitmap, 600000

Regions == 1 .. NumRegions

\* The boot loader sorts its map, which has more than one entry, and its entries
\* do not overlap.
ASSUME FramesAssumption ==
    /\ NumRegions \in Nat \ {0, 1}
    /\ Base \in [Regions -> Nat]
    /\ Length \in [Regions -> Nat]
    /\ Usable \subseteq Regions
    /\ \A q, r \in Regions : q < r => Base[q] + Length[q] <= Base[r]

\* The map fits the arrays it is copied to, the 2 behind the last frame of a
\* region included.  init_memmaps does not check it: where the map does not fit,
\* it writes over the next regions or past memmap_arr.
ASSUME FitsArrays ==
    /\ MaxRegions \in Nat /\ NumRegions <= MaxRegions
    /\ MapBytes \in Nat /\ \A r \in Regions : Length[r] < MapBytes

VARIABLES
    bitmap,  \* frame_bitmap: 0 free, 1 allocated, 2 behind the last frame
    owned,   \* the frames handed out and not given back
    mode     \* "run", or "asserted" / "hung" inside free_frame

vars == <<bitmap, owned, mode>>

\* The frames of region r, as indices into its map.
Indices(r) == 0 .. Length[r] - 1

\* init_memmaps
Init ==
    /\ bitmap = [r \in Regions |-> [i \in 0 .. Length[r] |-> IF i = Length[r] THEN 2 ELSE 0]]
    /\ owned = {}
    /\ mode = "run"

-----------------------------------------------------------------------------
(* alloc_frame.                                                            *)

\* Faulty: the type of the region is not looked at.
IsFreeAnywhere(r, i) == bitmap[r][i] = 0

IsFree(r, i) == r \in Usable /\ bitmap[r][i] = 0

\* Faulty: the search starts in any region, and not over in the first one.
FirstFreeInRegion(r, i) ==
    /\ IsFree(r, i)
    /\ \A j \in 0 .. i - 1 : ~IsFree(r, j)

\* The first free frame, in the order of the regions and of their maps.
FirstFree(r, i) ==
    /\ IsFree(r, i)
    /\ \A j \in 0 .. i - 1 : ~IsFree(r, j)
    /\ \A q \in 1 .. r - 1 : \A j \in Indices(q) : ~IsFree(q, j)

\* Faulty: the address is that of the frame behind the one marked.
AllocFrameBehind ==
    /\ mode = "run"
    /\ \E r \in Regions : \E i \in Indices(r) :
          /\ FirstFree(r, i)
          /\ bitmap' = [bitmap EXCEPT ![r][i] = 1]
          /\ owned' = owned \cup {Base[r] + i + 1}
    /\ UNCHANGED mode

\* With no frame left it returns 0 and changes nothing.
AllocFrame ==
    /\ mode = "run"
    /\ \E r \in Regions : \E i \in Indices(r) :
          /\ FirstFree(r, i)
          /\ bitmap' = [bitmap EXCEPT ![r][i] = 1]
          /\ owned' = owned \cup {Base[r] + i}
    /\ UNCHANGED mode

-----------------------------------------------------------------------------
(* free_frame.                                                             *)

\* Faulty: the base of the next region counts as well.
ClaimsTooMuch(r, f) == r < NumRegions /\ Base[r] <= f /\ f <= Base[r + 1]

\* A region claims the addresses up to the base of the next one.
Claims(r, f) == r < NumRegions /\ Base[r] <= f /\ f < Base[r + 1]

\* Faulty: the address is compared with the base of the next region.
MovesOnLate(r, f) == r < NumRegions /\ ~Claims(r, f) /\ f > Base[r + 1]

\* The loop goes on to the next region.
MovesOn(r, f) == r < NumRegions /\ ~Claims(r, f) /\ f > Base[r] + Length[r]

\* The loop gets as far as region r and no further.
StopsAt(r, f) == ~MovesOn(r, f) /\ \A q \in 1 .. r - 1 : MovesOn(q, f)

\* The callers are scheduler_return, with a frame it owns, and unload_elf, with
\* what virt_to_phys_page makes of an address: a frame, or 0 where nothing is
\* mapped.  In the last region there is no check for a frame that is free
\* already.  A region that neither claims the address nor moves on is looked at
\* for ever.
FreeFrame(f) ==
    /\ mode = "run"
    /\ owned' = owned \ {f}
    /\ \E r \in Regions :
          /\ StopsAt(r, f)
          /\ \/ /\ r = NumRegions \/ (Claims(r, f) /\ bitmap[r][f - Base[r]] # 0)
                /\ bitmap' = [bitmap EXCEPT ![r][f - Base[r]] = 0]
                /\ UNCHANGED mode
             \/ /\ Claims(r, f)
                /\ bitmap[r][f - Base[r]] = 0
                /\ mode' = "asserted"
                /\ UNCHANGED bitmap
             \/ /\ r < NumRegions /\ ~Claims(r, f)
                /\ mode' = "hung"
                /\ UNCHANGED bitmap

Next == AllocFrame \/ \E f \in owned \cup {0} : FreeFrame(f)

Spec == Init /\ [][Next]_vars

-----------------------------------------------------------------------------
(* Properties.                                                             *)

\* The values of the maps, and where the frames handed out come from.
TypeOK ==
    /\ DOMAIN bitmap = Regions
    /\ \A r \in Regions : bitmap[r] \in [0 .. Length[r] -> {0, 1, 2}]
    /\ \A f \in owned : \E r \in Usable : \E i \in Indices(r) : f = Base[r] + i
    /\ mode \in {"run", "asserted", "hung"}

\* A frame is marked exactly while somebody owns it: none is handed out a
\* second time before it is given back, and none is lost, over every
\* alternation of alloc_frame and free_frame.
MarkedIsOwned ==
    mode = "run" =>
        \A r \in Regions : \A i \in Indices(r) : bitmap[r][i] = 1 <=> Base[r] + i \in owned

\* free_frame stops in its assert(false) only for a frame that nobody owns.
NoFalseAlarm == [][mode' = "asserted" => UNCHANGED owned]_vars

\* Region q ends where the next one starts.
Seam(q) == q < NumRegions /\ Base[q] + Length[q] = Base[q + 1]

\* free_frame loops for ever in one case only: the address is the first frame
\* behind a seam (or lies below the whole map).  For every other frame the walk
\* gets to the region of the frame.
HangsOnlyAtSeam ==
    [][mode' = "hung" =>
          \E f \in owned \cup {0} :
              /\ owned' = owned \ {f}
              /\ f < Base[1] \/ \E q \in Regions : Seam(q) /\ f = Base[q + 1]]_vars

-----------------------------------------------------------------------------
(* The maps of all regions read as one pool.                               *)

UsableFrames == UNION {{Base[r] + i : i \in Indices(r)} : r \in Usable}

FreeFrames ==
    UNION {{Base[r] + i : i \in {j \in Indices(r) : IsFree(r, j)}} : r \in Usable}

OnePool == INSTANCE FramePool WITH Pool <- UsableFrames, free <- FreeFrames

\* The walk over the regions of the memory map and their byte maps implements a
\* single pool that hands out its lowest free frame, also when free_frame stops
\* in its assertion or does not end.
RefinesFramePool == OnePool!PoolSpec
=============================================================================
