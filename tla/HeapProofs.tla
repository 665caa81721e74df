----------------------------- MODULE HeapProofs -----------------------------
(***************************************************************************)
(* What kmalloc, kfree and krealloc_byte guarantee for every heap size,    *)
(* chunk size and number of clients: nothing leaves the heap, and kmalloc  *)
(* finds a block whenever there is one.                                    *)
(***************************************************************************)
EXTENDS Heap, FiniteSetTheorems, WellFoundedInduction, TLAPS

\* The recorded lengths and the blocks handed out end inside the heap.  The
\* two are needed together: kfree looks up a length at a node computed from a
\* block's index.
HInv == TypeOK /\ LengthsInHeap /\ BlocksInHeap

LEMMA NodesAreNat == Nodes \subseteq Nat /\ N \in Nat /\ 0 \in Nodes
  BY HeapAssumption DEF Nodes

\* A set of natural numbers that is not empty has a least element.
LEMMA LeastElement ==
  ASSUME NEW T \in SUBSET Nat, T # {}
  PROVE  \E x \in T : \A y \in T : x <= y
<1>1. PICK x \in T : \A y \in T : ~ (<<y, x>> \in OpToRel(<, Nat))
  BY WFMin, NatLessThanWellFounded
<1>2. \A y \in T : ~(y < x)
  BY <1>1 DEF OpToRel
<1> QED
  BY <1>2

\* The number of chunks of a request is a natural number.
LEMMA ChunksForNat ==
  ASSUME NEW bytes \in Nat
  PROVE  ChunksFor(bytes) \in Nat
<1>1. bytes \div Chunk \in Nat
  BY HeapAssumption
<1> QED
  BY <1>1 DEF ChunksFor

\* The index kmalloc computes the address from is never ahead of the node.
LEMMA IndexBehind ==
  ASSUME NEW m \in Nodes, NEW s \in Nat
  PROVE  IndexAt(m, s) \in 0 .. m
<1> DEFINE B == {p \in 0 .. m - 1 : ProbeBreaks(p, s)}
<1>1. m \in Nat
  BY NodesAreNat
<1>2. IsFiniteSet(0 .. m - 1) /\ Cardinality(0 .. m - 1) = m
  BY <1>1, FS_Interval
<1>3. B \in SUBSET (0 .. m - 1)
  OBVIOUS
<1>4. IsFiniteSet(B) /\ Cardinality(B) <= m
  <2> HIDE DEF B
  <2> QED
    BY <1>2, <1>3, FS_Subset
<1>5. Cardinality(B) \in Nat
  BY <1>4, FS_CardinalityType
<1>6. IndexAt(m, s) = m - Cardinality(B)
  BY DEF IndexAt
<1> HIDE DEF B
<1> QED
  BY <1>1, <1>4, <1>5, <1>6

-----------------------------------------------------------------------------

LEMMA InitHInv == Init => HInv
  BY HeapAssumption DEF Init, HInv, TypeOK, LengthsInHeap, BlocksInHeap, Nodes

\* A successful kmalloc(s) at node m.
LEMMA KmallocHInv ==
  ASSUME HInv, NEW m \in Nodes, NEW s \in Nat, Allocates(m, s)
  PROVE  /\ MarkUsed(m, s) \in [Nodes -> {0, 1}]
         /\ SetLength(m, s) \in [Nodes -> Nat]
         /\ \A p \in Nodes : p + SetLength(m, s)[p] <= N
         /\ [index |-> IndexAt(m, s), size |-> s] \in Blocks
         /\ IndexAt(m, s) + s <= N
<1>1. m \in Nat /\ s \in Nat \ {0} /\ m + s <= N
  BY NodesAreNat DEF Allocates, Fits
<1>2. MarkUsed(m, s) \in [Nodes -> {0, 1}]
  BY DEF HInv, TypeOK, MarkUsed
<1>3. SetLength(m, s) \in [Nodes -> Nat] /\ \A p \in Nodes : p + SetLength(m, s)[p] <= N
  BY <1>1 DEF HInv, TypeOK, LengthsInHeap, SetLength
<1>4. IndexAt(m, s) \in Nat /\ IndexAt(m, s) + s <= N
  BY <1>1, IndexBehind, NodesAreNat
<1> QED
  BY <1>1, <1>2, <1>3, <1>4 DEF Blocks

\* kfree, on the fields st and al as they are when it is called.
LEMMA KfreeHInv ==
  ASSUME NEW st \in [Nodes -> {0, 1}], NEW al \in [Nodes -> Nat], NEW i \in Nat,
         \A p \in Nodes : p + al[p] <= N
  PROVE  /\ ClearUsed(st, al, i) \in [Nodes -> {0, 1}]
         /\ ClearLength(al, i) \in [Nodes -> Nat]
         /\ \A p \in Nodes : p + ClearLength(al, i)[p] <= N
<1>1. ClearUsed(st, al, i) \in [Nodes -> {0, 1}]
  BY DEF ClearUsed
<1>2. \A p \in Nodes : ClearLength(al, i)[p] = IF p = FreeNode(i) THEN 0 ELSE al[p]
  BY DEF ClearLength
<1>3. \A p \in Nodes : p \in Nat /\ al[p] \in Nat /\ p <= N
  BY NodesAreNat DEF Nodes
<1>4. ClearLength(al, i) \in [Nodes -> Nat]
  BY <1>2, <1>3 DEF ClearLength
<1>5. \A p \in Nodes : p + ClearLength(al, i)[p] <= N
  BY <1>2, <1>3
<1> QED
  BY <1>1, <1>4, <1>5

LEMMA NextHInv == HInv /\ [Next]_vars => HInv'
<1> SUFFICES ASSUME HInv, [Next]_vars
             PROVE  HInv'
  OBVIOUS
<1>1. ASSUME NEW c \in Clients, NEW bytes \in 0 .. MaxBytes, KmallocByte(c, bytes)
      PROVE  HInv'
  <2>1. ChunksFor(bytes) \in Nat
    BY <1>1, HeapAssumption, ChunksForNat
  <2>2. CASE UNCHANGED vars
    BY <2>2 DEF HInv, TypeOK, LengthsInHeap, BlocksInHeap, vars
  <2>3. ASSUME NEW m \in Nodes, Allocates(m, ChunksFor(bytes)),
               status' = MarkUsed(m, ChunksFor(bytes)),
               allocLength' = SetLength(m, ChunksFor(bytes)),
               held' = [held EXCEPT ![c] = [index |-> IndexAt(m, ChunksFor(bytes)),
                                            size |-> ChunksFor(bytes)]]
        PROVE  HInv'
    BY <2>1, <2>3, KmallocHInv DEF HInv, TypeOK, LengthsInHeap, BlocksInHeap
  <2> QED
    BY <1>1, <2>2, <2>3 DEF KmallocByte
<1>2. ASSUME NEW c \in Clients, Kfree(c)
      PROVE  HInv'
  <2>1. held[c] \in Blocks /\ held[c].index \in Nat
    BY <1>2 DEF Kfree, HInv, TypeOK, Blocks
  <2> QED
    BY <1>2, <2>1, KfreeHInv DEF Kfree, HInv, TypeOK, LengthsInHeap, BlocksInHeap
<1>3. ASSUME NEW c \in Clients, NEW bytes \in 0 .. MaxBytes, KreallocByte(c, bytes)
      PROVE  HInv'
  <2>1. ChunksFor(bytes) \in Nat
    BY <1>3, HeapAssumption, ChunksForNat
  <2>2. held[c] \in Blocks /\ held[c].index \in Nat
    BY <1>3 DEF KreallocByte, HInv, TypeOK, Blocks
  <2>3. CASE UNCHANGED vars
    BY <2>3 DEF HInv, TypeOK, LengthsInHeap, BlocksInHeap, vars
  <2>4. ASSUME NEW m \in Nodes, Allocates(m, ChunksFor(bytes)),
               status' = ClearUsed(MarkUsed(m, ChunksFor(bytes)),
                                   SetLength(m, ChunksFor(bytes)), held[c].index),
               allocLength' = ClearLength(SetLength(m, ChunksFor(bytes)), held[c].index),
               held' = [held EXCEPT ![c] = [index |-> IndexAt(m, ChunksFor(bytes)),
                                            size |-> ChunksFor(bytes)]]
        PROVE  HInv'
    <3>1. /\ MarkUsed(m, ChunksFor(bytes)) \in [Nodes -> {0, 1}]
          /\ SetLength(m, ChunksFor(bytes)) \in [Nodes -> Nat]
          /\ \A p \in Nodes : p + SetLength(m, ChunksFor(bytes))[p] <= N
          /\ [index |-> IndexAt(m, ChunksFor(bytes)), size |-> ChunksFor(bytes)] \in Blocks
          /\ IndexAt(m, ChunksFor(bytes)) + ChunksFor(bytes) <= N
      BY <2>1, <2>4, KmallocHInv
    <3>2. /\ status' \in [Nodes -> {0, 1}]
          /\ allocLength' \in [Nodes -> Nat]
          /\ \A p \in Nodes : p + allocLength'[p] <= N
      BY <2>2, <2>4, <3>1, KfreeHInv
    <3> QED
      BY <2>4, <3>1, <3>2 DEF HInv, TypeOK, LengthsInHeap, BlocksInHeap
  <2> QED
    BY <1>3, <2>3, <2>4 DEF KreallocByte
<1>4. CASE UNCHANGED vars
  BY <1>4 DEF HInv, TypeOK, LengthsInHeap, BlocksInHeap, vars
<1> QED
  BY <1>1, <1>2, <1>3, <1>4 DEF Next

\* The addresses kmalloc returns lie inside the heap, and the two walks of
\* kfree stay on the list, for every history of calls.
THEOREM HeapBounded == Spec => [](TypeOK /\ BlocksInHeap /\ KfreeInHeap)
<1>1. HInv => KfreeInHeap
  <2> SUFFICES ASSUME HInv, NEW c \in Clients, held[c] # NoBlock
               PROVE  /\ FreeNode(held[c].index) \in Nodes
                      /\ FreeNode(held[c].index) + allocLength[FreeNode(held[c].index)] <= N
    BY DEF KfreeInHeap
  <2>1. /\ held[c].index \in Nat
        /\ held[c].size \in Nat \ {0}
        /\ held[c].index + held[c].size <= N
    BY DEF HInv, TypeOK, BlocksInHeap, Blocks
  <2>2. FreeNode(held[c].index) \in Nodes
    BY <2>1, NodesAreNat DEF FreeNode, Nodes
  <2> QED
    BY <2>2 DEF HInv, LengthsInHeap
<1> QED
  BY <1>1, InitHInv, NextHInv, PTL DEF Spec, HInv

-----------------------------------------------------------------------------

\* The walk of kmalloc(s) ends with an allocation if there is room for one.
LEMMA WalkFinds ==
  ASSUME NEW s \in Nat \ {0}, NEW f \in Nodes, Fits(f, s)
  PROVE  \E m \in Nodes : Allocates(m, s)
<1> DEFINE T == {m \in Nodes : Stops(m, s)}
<1>1. T \in SUBSET Nat /\ f \in T
  BY NodesAreNat DEF Stops
<1>2. PICK m \in T : \A y \in T : m <= y
  <2> HIDE DEF T
  <2> QED
    BY <1>1, LeastElement
<1>3. m \in Nodes /\ Stops(m, s) /\ m <= f
  BY <1>1, <1>2
<1>4. EndsAt(m, s)
  BY <1>2, <1>3, NodesAreNat DEF EndsAt, Nodes
<1>5. m + s <= N
  BY <1>3, NodesAreNat DEF Fits
<1>6. Fits(m, s)
  BY <1>3, <1>5, NodesAreNat DEF Stops, RunsOut
<1> QED
  BY <1>3, <1>4, <1>6 DEF Allocates

\* kmalloc fails only when no run of free nodes is long enough.
THEOREM FirstFit == Spec => []FullMeansFull
<1>1. HInv => FullMeansFull
  BY WalkFinds DEF FullMeansFull
<1> QED
  BY <1>1, InitHInv, NextHInv, PTL DEF Spec
=============================================================================
