-------------------------------- MODULE Heap --------------------------------
(***************************************************************************)
(* The kernel heap of kernel/src/vmm.c: a list of N nodes, each standing   *)
(* for one chunk of memory, with first-fit kmalloc, kfree and              *)
(* krealloc_byte.                                                          *)
(*                                                                         *)
(* The list never changes after init_heap, so a node is its position.      *)
(* kmalloc walks it with two cursors, the node and an index; the address   *)
(* it returns is computed from the index.  kfree and krealloc_byte compute *)
(* the index back from the address.  All of them run with interrupts       *)
(* disabled, hence one action each.                                        *)
(*                                                                         *)
(* A client is a piece of the kernel that owns at most one block.  It      *)
(* frees or reallocates only an address kmalloc gave it, and once.         *)
(***************************************************************************)
EXTENDS Integers, FiniteSets

CONSTANTS
    N,         \* HEAP_SIZE_DEFINED / HEAP_CHUNK_SIZE_DEFINED
    Chunk,     \* HEAP_CHUNK_SIZE_DEFINED, 64
    MaxBytes,  \* bound on the size of a request
    Clients,   \* the owners of blocks
    NoBlock    \* a client that owns none

ASSUME HeapAssumption ==
    /\ N \in Nat \ {0}
    /\ Chunk \in Nat \ {0}
    /\ MaxBytes \in Nat

Nodes == 0 .. N - 1

\* What a client knows of its block: the index its address stands for and the
\* number of chunks it asked for.
Blocks == [index : Nat, size : Nat \ {0}]

ASSUME NoBlockAssumption == NoBlock \notin Blocks

VARIABLES
    status,       \* status: 0 for free and 1 for used
    allocLength,  \* alloc_length
    held          \* the block each client owns

vars == <<status, allocLength, held>>

\* init_heap
Init ==
    /\ status = [p \in Nodes |-> 0]
    /\ allocLength = [p \in Nodes |-> 0]
    /\ held = [c \in Clients |-> NoBlock]

-----------------------------------------------------------------------------
(* kmalloc(s): what the walk does at node m.                               *)

\* Faulty: the probe may run one node past the end of the list.
FitsPastEnd(m, s) ==
    m + s <= N + 1 /\ \A p \in Nodes : m <= p /\ p < m + s => status[p] = 0

\* The probe finds s free nodes from m on.
Fits(m, s) == m + s <= N /\ \A p \in m .. m + s - 1 : status[p] = 0

\* The probe reaches the last node with nodes still to go: "heap is full".
RunsOut(m, s) ==
    /\ m + s > N
    /\ status[m] = 0
    /\ \A p \in m .. N - 2 : status[p] = 0

\* The probe meets a used node before the last one it would need: the walk
\* goes on from the next node, but index stays behind.
ProbeBreaks(m, s) ==
    /\ status[m] = 0
    /\ \E p \in m .. N - 2 : p <= m + s - 2 /\ status[p] = 1

\* Faulty: the walk gives up at the first free node that does not fit.
StopsEarly(m, s) == Fits(m, s) \/ status[m] = 0

Stops(m, s) == Fits(m, s) \/ RunsOut(m, s)

\* The node at which the walk ends.
EndsAt(m, s) == Stops(m, s) /\ \A p \in 0 .. m - 1 : ~Stops(p, s)

\* The index when the walk is at m.
IndexAt(m, s) == m - Cardinality({p \in 0 .. m - 1 : ProbeBreaks(p, s)})

\* Faulty: no early return for a request of 0 bytes.
AllocatesNothing(m, s) == EndsAt(m, s) /\ Fits(m, s)

\* kmalloc(s) succeeds with the nodes from m on.
Allocates(m, s) == s > 0 /\ EndsAt(m, s) /\ Fits(m, s)

MarkUsed(m, s) ==
    [p \in Nodes |-> IF m <= p /\ p < m + s THEN 1 ELSE status[p]]

\* Faulty: the length is one too large.
SetLengthMore(m, s) == [allocLength EXCEPT ![m] = s + 1]

SetLength(m, s) == [allocLength EXCEPT ![m] = s]

-----------------------------------------------------------------------------
(* kfree of the address with index i.                                      *)

\* The walk to the node starts at node 0 with i = 1.
FreeNode(i) == IF i = 0 THEN 0 ELSE i - 1

\* It clears one node less than the length it finds.
ClearUsed(st, al, i) ==
    [p \in Nodes |->
        IF FreeNode(i) <= p /\ p + 1 < FreeNode(i) + al[FreeNode(i)] THEN 0 ELSE st[p]]

ClearLength(al, i) == [al EXCEPT ![FreeNode(i)] = 0]

-----------------------------------------------------------------------------
(* The operations.                                                         *)

\* kmalloc_byte and kmalloc_byte_interruptable: bytes to chunks.
ChunksFor(bytes) ==
    IF bytes = 0 THEN 0
    ELSE IF bytes <= Chunk THEN 1
    ELSE IF bytes % Chunk = 0 THEN bytes \div Chunk
    ELSE (bytes \div Chunk) + 1

KmallocByte(c, bytes) ==
    /\ held[c] = NoBlock
    /\ LET s == ChunksFor(bytes) IN
       \/ \E m \in Nodes :
             /\ Allocates(m, s)
             /\ status' = MarkUsed(m, s)
             /\ allocLength' = SetLength(m, s)
             /\ held' = [held EXCEPT ![c] = [index |-> IndexAt(m, s), size |-> s]]
       \/ /\ \A m \in Nodes : ~Allocates(m, s)
          /\ UNCHANGED vars

Kfree(c) ==
    /\ held[c] # NoBlock
    /\ status' = ClearUsed(status, allocLength, held[c].index)
    /\ allocLength' = ClearLength(allocLength, held[c].index)
    /\ held' = [held EXCEPT ![c] = NoBlock]

\* krealloc_byte: a new block, the contents copied, the old block freed.  If
\* there is no new block the client keeps the old one.
KreallocByte(c, bytes) ==
    /\ held[c] # NoBlock
    /\ LET s == ChunksFor(bytes) IN
       \/ \E m \in Nodes :
             /\ Allocates(m, s)
             /\ status' = ClearUsed(MarkUsed(m, s), SetLength(m, s), held[c].index)
             /\ allocLength' = ClearLength(SetLength(m, s), held[c].index)
             /\ held' = [held EXCEPT ![c] = [index |-> IndexAt(m, s), size |-> s]]
       \/ /\ \A m \in Nodes : ~Allocates(m, s)
          /\ UNCHANGED vars

Next ==
    \E c \in Clients :
        \/ \E bytes \in 0 .. MaxBytes : KmallocByte(c, bytes) \/ KreallocByte(c, bytes)
        \/ Kfree(c)

Spec == Init /\ [][Next]_vars

-----------------------------------------------------------------------------
(* Properties.                                                             *)

\* The values the nodes' fields and the clients' blocks can have.
TypeOK ==
    /\ status \in [Nodes -> {0, 1}]
    /\ allocLength \in [Nodes -> Nat]
    /\ held \in [Clients -> Blocks \cup {NoBlock}]

\* No recorded length reaches past the last node.
LengthsInHeap == \A m \in Nodes : m + allocLength[m] <= N

\* The memory kmalloc hands out lies inside the heap, however far the index
\* has fallen behind the node.
BlocksInHeap ==
    \A c \in Clients : held[c] # NoBlock => held[c].index + held[c].size <= N

\* kfree's two walks never follow the NULL at the end of the list, whatever
\* was allocated and freed before: "there's no safety against trying to clear
\* past the end of the heap here, but kalloc() prevents you from allocating
\* past the end" (vmm.c:153).
KfreeInHeap ==
    \A c \in Clients :
        held[c] # NoBlock =>
            /\ FreeNode(held[c].index) \in Nodes
            /\ FreeNode(held[c].index) + allocLength[FreeNode(held[c].index)] <= N

\* kmalloc gives up only when no run of free nodes is long enough: the early
\* "heap is full" inside the probe loop misses no block.
FullMeansFull ==
    \A s \in 1 .. N : (\E m \in Nodes : Fits(m, s)) => \E m \in Nodes : Allocates(m, s)

\* The chunks client c believes it owns.
ChunksOf(c) ==
    IF held[c] = NoBlock THEN {} ELSE held[c].index .. held[c].index + held[c].size - 1

\* Two blocks share no memory: what README.md:13 calls "a functional heap".
NoOverlap ==
    \A c, d \in Clients : c # d => ChunksOf(c) \cap ChunksOf(d) = {}
=============================================================================
