------------------------- MODULE AddressSpaceProofs -------------------------
(***************************************************************************)
(* The address spaces for every number of threads, frames and pages, every *)
(* program and every range: no frame has two uses, the count of mappings   *)
(* is right, and aligned programs and ranges are handled as they should.   *)
(***************************************************************************)
EXTENDS AddressSpace, FiniteSetTheorems, SequenceTheorems, WellFoundedInduction, TLAPS

-----------------------------------------------------------------------------
(* The array of mappings.                                                  *)

Entry == [addr : Nat, used : BOOLEAN]
UsedIn(arr) == {k \in DOMAIN arr : arr[k].used}

\* What map_page and unmap_page rely on: the count is right, there is an unused
\* entry, and an unused entry holds address 0, which unmap_page does not look for.
ArrayOK(arr, n) ==
    /\ arr \in Seq(Entry)
    /\ n = Cardinality(UsedIn(arr))
    /\ n < Len(arr)
    /\ \A k \in DOMAIN arr : ~arr[k].used => arr[k] = Unused

\* A function on 1 .. n is a sequence of length n.
LEMMA FunctionIsSeq ==
  ASSUME NEW S, NEW n \in Nat, NEW f \in [1 .. n -> S]
  PROVE  f \in Seq(S) /\ Len(f) = n /\ DOMAIN f = 1 .. n
<1>1. f \in Seq(S)
  BY SeqDef
<1> QED
  BY <1>1, LenProperties

\* A set of natural numbers that is not empty has a least element.
LEMMA LeastNatural ==
  ASSUME NEW T \in SUBSET Nat, T # {}
  PROVE  \E x \in T : \A y \in T : x <= y
<1>1. PICK x \in T : \A y \in T : ~ (<<y, x>> \in OpToRel(<, Nat))
  BY WFMin, NatLessThanWellFounded
<1>2. \A y \in T : ~(y < x)
  BY <1>1 DEF OpToRel
<1> QED
  BY <1>2

\* The used entries of a sequence are finitely many.
LEMMA UsedFinite ==
  ASSUME NEW arr \in Seq(Entry)
  PROVE  /\ Len(arr) \in Nat /\ DOMAIN arr = 1 .. Len(arr)
         /\ IsFiniteSet(DOMAIN arr) /\ Cardinality(DOMAIN arr) = Len(arr)
         /\ IsFiniteSet(UsedIn(arr)) /\ Cardinality(UsedIn(arr)) \in Nat
<1>1. Len(arr) \in Nat /\ DOMAIN arr = 1 .. Len(arr)
  BY LenProperties
<1>2. IsFiniteSet(1 .. Len(arr)) /\ Cardinality(1 .. Len(arr)) = Len(arr)
  BY <1>1, FS_Interval
<1>3. UsedIn(arr) \in SUBSET (DOMAIN arr)
  BY DEF UsedIn
<1>4. IsFiniteSet(UsedIn(arr))
  BY <1>1, <1>2, <1>3, FS_Subset
<1> QED
  BY <1>1, <1>2, <1>4, FS_CardinalityType

\* There is exactly one first unused entry.
LEMMA FirstUnusedOne ==
  ASSUME NEW arr, NEW n, ArrayOK(arr, n)
  PROVE  \E k \in DOMAIN arr : FirstUnused(arr) = {k} /\ ~arr[k].used
<1> USE DEF ArrayOK
<1>1. DOMAIN arr = 1 .. Len(arr) /\ Len(arr) \in Nat
  BY UsedFinite
<1> DEFINE U == {k \in DOMAIN arr : ~arr[k].used}
<1>2. U # {}
  <2>1. SUFFICES ASSUME U = {}
                 PROVE  FALSE
    OBVIOUS
  <2>2. UsedIn(arr) = DOMAIN arr
    BY <2>1 DEF UsedIn
  <2> QED
    BY <2>2, UsedFinite
<1>3. U \in SUBSET Nat
  BY <1>1
<1>4. PICK k \in U : \A y \in U : k <= y
  <2> HIDE DEF U
  <2> QED
    BY <1>2, <1>3, LeastNatural
<1>5. k \in FirstUnused(arr)
  BY <1>1, <1>4 DEF FirstUnused
<1>6. ASSUME NEW m \in FirstUnused(arr)
      PROVE  m = k
  <2>1. m \in U /\ \A i \in 1 .. m - 1 : arr[i].used
    BY DEF FirstUnused
  <2>2. k <= m /\ ~(k \in 1 .. m - 1)
    BY <1>4, <2>1
  <2> QED
    BY <1>1, <1>4, <2>1, <2>2
<1> QED
  BY <1>4, <1>5, <1>6

\* Growing.
LEMMA GrowOK ==
  ASSUME NEW arr \in Seq(Entry), NEW n, n = Cardinality(UsedIn(arr)), n <= Len(arr),
         \A k \in DOMAIN arr : ~arr[k].used => arr[k] = Unused
  PROVE  ArrayOK(Grow(arr, n), n)
<1>1. CASE n # Len(arr)
  BY <1>1, UsedFinite DEF Grow, ArrayOK
<1>2. CASE n = Len(arr)
  <2> DEFINE more == [i \in 1 .. Step |-> Unused]
             arr2 == arr \o more
  <2>1. Unused \in Entry /\ ~Unused.used
    BY DEF Unused, Entry
  <2>2. more \in [1 .. Step -> Entry] /\ Step \in Nat \ {0}
    BY <2>1, AddressSpaceAssumption
  <2>3. more \in Seq(Entry) /\ Len(more) = Step
    BY <2>2, FunctionIsSeq
  <2> HIDE DEF more
  <2>4. /\ arr2 \in Seq(Entry) /\ Len(arr2) = Len(arr) + Step
        /\ \A i \in 1 .. Len(arr) + Step :
              arr2[i] = IF i <= Len(arr) THEN arr[i] ELSE more[i - Len(arr)]
    BY <2>3, ConcatProperties
  <2>5. \A i \in 1 .. Step : more[i] = Unused
    BY DEF more
  <2>6. Len(arr) \in Nat /\ DOMAIN arr = 1 .. Len(arr) /\ DOMAIN arr2 = 1 .. (Len(arr) + Step)
    BY <2>4, LenProperties
  <2> HIDE DEF arr2
  <2>7. \A i \in DOMAIN arr2 : IF i \in DOMAIN arr THEN arr2[i] = arr[i] ELSE arr2[i] = Unused
    BY <2>2, <2>4, <2>5, <2>6
  <2>8. DOMAIN arr \subseteq DOMAIN arr2
    BY <2>2, <2>6
  <2>9. UsedIn(arr2) = UsedIn(arr)
    BY <2>1, <2>7, <2>8 DEF UsedIn
  <2>10. n < Len(arr2)
    BY <1>2, <2>2, <2>4, <2>6
  <2>11. \A k \in DOMAIN arr2 : ~arr2[k].used => arr2[k] = Unused
    BY <2>7
  <2>12. Grow(arr, n) = arr2
    BY <1>2 DEF Grow, arr2, more
  <2> QED
    BY <2>4, <2>9, <2>10, <2>11, <2>12 DEF ArrayOK
<1> QED
  BY <1>1, <1>2

\* map_page enters one address.
LEMMA RecordOK ==
  ASSUME NEW arr, NEW n, ArrayOK(arr, n), NEW a \in Nat
  PROVE  LET m == n + Cardinality(FirstUnused(arr))
         IN  m \in Nat /\ ArrayOK(Grow(Entered(arr, a), m), m)
<1>1. PICK k \in DOMAIN arr : FirstUnused(arr) = {k} /\ ~arr[k].used
  BY FirstUnusedOne
<1>2. Cardinality(FirstUnused(arr)) = 1
  BY <1>1, FS_Singleton
<1> DEFINE new == Entered(arr, a)
<1>3. arr \in Seq(Entry) /\ Len(arr) \in Nat /\ DOMAIN arr = 1 .. Len(arr)
  BY UsedFinite DEF ArrayOK
<1>4. new \in [1 .. Len(arr) -> Entry]
  BY <1>3, ElementOfSeq DEF Entered, Entry
<1>5. new \in Seq(Entry) /\ Len(new) = Len(arr) /\ DOMAIN new = DOMAIN arr
  BY <1>3, <1>4, FunctionIsSeq
<1>6. /\ new[k] = [addr |-> a, used |-> TRUE]
      /\ \A i \in DOMAIN arr : i # k => new[i] = arr[i]
  BY <1>1 DEF Entered
<1> HIDE DEF new
<1>7. UsedIn(new) = UsedIn(arr) \cup {k} /\ k \notin UsedIn(arr)
  BY <1>1, <1>5, <1>6 DEF UsedIn
<1>8. Cardinality(UsedIn(new)) = n + 1 /\ n \in Nat
  BY <1>3, <1>7, UsedFinite, FS_AddElement DEF ArrayOK
<1>9. n + 1 <= Len(new)
  BY <1>3, <1>5, <1>8 DEF ArrayOK
<1>10. \A i \in DOMAIN new : ~new[i].used => new[i] = Unused
  BY <1>5, <1>6 DEF ArrayOK
<1>11. ArrayOK(Grow(new, n + 1), n + 1)
  BY <1>5, <1>8, <1>9, <1>10, GrowOK
<1> QED
  BY <1>2, <1>8, <1>11 DEF new

\* unmap_page forgets addresses that are not 0: the entries it takes are used.
LEMMA ForgetOK ==
  ASSUME NEW arr, NEW n, ArrayOK(arr, n), NEW A, 0 \notin A
  PROVE  LET m == n - Cardinality(Forgotten(arr, A))
         IN  m \in Nat /\ ArrayOK(Cleared(arr, A), m)
<1> DEFINE F == Forgotten(arr, A)
           new == Cleared(arr, A)
<1>1. arr \in Seq(Entry) /\ Len(arr) \in Nat /\ DOMAIN arr = 1 .. Len(arr) /\ IsFiniteSet(UsedIn(arr))
  BY UsedFinite DEF ArrayOK
<1>2. F \subseteq UsedIn(arr)
  BY DEF Forgotten, UsedIn, ArrayOK, Unused
<1>3. new \in [1 .. Len(arr) -> Entry]
  BY <1>1, ElementOfSeq DEF Cleared, Entry, Unused
<1>4. new \in Seq(Entry) /\ Len(new) = Len(arr) /\ DOMAIN new = DOMAIN arr
  BY <1>1, <1>3, FunctionIsSeq
<1>5. \A k \in DOMAIN arr : new[k] = IF k \in F THEN Unused ELSE arr[k]
  BY DEF Cleared
<1> HIDE DEF new, F
<1>6. UsedIn(new) = UsedIn(arr) \ F
  BY <1>4, <1>5 DEF UsedIn, Unused
<1>7. UsedIn(arr) \cap F = F
  BY <1>2
<1>8. Cardinality(UsedIn(new)) = n - Cardinality(F) /\ IsFiniteSet(UsedIn(new))
  BY <1>1, <1>6, <1>7, FS_Difference DEF ArrayOK
<1>9. Cardinality(UsedIn(new)) \in Nat /\ Cardinality(UsedIn(new)) <= n
  BY <1>1, <1>6, <1>8, FS_CardinalityType, FS_Subset DEF ArrayOK
<1>10. Cardinality(UsedIn(new)) < Len(new)
  BY <1>1, <1>4, <1>9, UsedFinite DEF ArrayOK
<1>11. \A i \in DOMAIN new : ~new[i].used => new[i] = Unused
  BY <1>4, <1>5 DEF ArrayOK
<1>12. ArrayOK(new, Cardinality(UsedIn(new)))
  BY <1>4, <1>10, <1>11 DEF ArrayOK
<1> QED
  BY <1>8, <1>9, <1>12 DEF new, F

-----------------------------------------------------------------------------
(* The frames.                                                             *)

FramesOK ==
    /\ free \subseteq Frames
    /\ entry \in [Threads -> [Slots -> Frames \cup {0}]]
    /\ FrameOneUse

\* A frame taken from the free ones is in no slot.
LEMMA FreeIsNowhere ==
  ASSUME FramesOK, NEW f \in free
  PROVE  f # 0 /\ \A t \in Threads : \A s \in Slots : entry[t][s] # f
  BY AddressSpaceAssumption DEF FramesOK, FrameOneUse, Frames

\* One slot of one space gets a frame that was free.
LEMMA PutOne ==
  ASSUME FramesOK, NEW t \in Threads, NEW x, NEW f \in free,
         free' = free \ {f}, entry' = [entry EXCEPT ![t][x] = f]
  PROVE  FramesOK'
<1>1. f \in Frames /\ f # 0
  BY FreeIsNowhere DEF FramesOK
<1>2. entry' \in [Threads -> [Slots -> Frames \cup {0}]]
  BY <1>1 DEF FramesOK
<1>3. \A u \in Threads : \A s \in Slots :
         entry'[u][s] = IF u = t /\ s = x THEN f ELSE entry[u][s]
  BY DEF FramesOK
<1>4. FrameOneUse'
  BY <1>1, <1>3, FreeIsNowhere DEF FrameOneUse, FramesOK
<1> QED
  BY <1>2, <1>4 DEF FramesOK

\* Two slots of one space get two frames that were free.
LEMMA PutTwo ==
  ASSUME FramesOK, NEW t \in Threads, NEW x, NEW y, x # y, NEW f \in free, NEW g \in free, f # g,
         free' = free \ {f, g}, entry' = [entry EXCEPT ![t][x] = f, ![t][y] = g]
  PROVE  FramesOK'
<1>1. f \in Frames /\ f # 0 /\ g \in Frames /\ g # 0
  BY FreeIsNowhere DEF FramesOK
<1>2. entry' \in [Threads -> [Slots -> Frames \cup {0}]]
  BY <1>1 DEF FramesOK
<1>3. \A u \in Threads : \A s \in Slots :
         entry'[u][s] = IF u = t /\ s = x THEN f ELSE IF u = t /\ s = y THEN g ELSE entry[u][s]
  BY DEF FramesOK
<1>4. FrameOneUse'
  BY <1>1, <1>3, FreeIsNowhere DEF FrameOneUse, FramesOK
<1> QED
  BY <1>2, <1>4 DEF FramesOK

LEMMA InstallOK ==
  ASSUME FramesOK, NEW t \in Threads, NEW a, Install(t, a)
  PROVE  FramesOK'
<1>1. PICK f \in Frames :
        /\ Lowest(f, free)
        /\ \/ free' = free \ {f} /\ entry' = [entry EXCEPT ![t][Page(a)] = f]
           \/ \E g \in Frames :
                 /\ Lowest(g, free \ {f})
                 /\ free' = free \ {f, g}
                 /\ entry' = [entry EXCEPT ![t][Page(a)] = f, ![t][Table(a)] = g]
  BY DEF Install
<1>2. f \in free
  BY <1>1 DEF Lowest
<1>3. CASE free' = free \ {f} /\ entry' = [entry EXCEPT ![t][Page(a)] = f]
  BY <1>2, <1>3, PutOne
<1>4. CASE \E g \in Frames :
                 /\ Lowest(g, free \ {f})
                 /\ free' = free \ {f, g}
                 /\ entry' = [entry EXCEPT ![t][Page(a)] = f, ![t][Table(a)] = g]
  <2>1. PICK g \in free :
                 /\ g # f
                 /\ free' = free \ {f, g}
                 /\ entry' = [entry EXCEPT ![t][Page(a)] = f, ![t][Table(a)] = g]
    BY <1>4 DEF Lowest
  <2>2. Page(a) # Table(a)
    BY DEF Page, Table
  <2> QED
    BY <1>2, <2>1, <2>2, PutTwo
<1> QED
  BY <1>1, <1>3, <1>4

LEMMA NewSpaceOK ==
  ASSUME FramesOK, NEW c \in Threads, NewSpace(c)
  PROVE  FramesOK'
<1>1. PICK f \in free :
          /\ free' = free \ {f}
          /\ entry' = [entry EXCEPT ![c] = [NoEntries EXCEPT ![Root] = f]]
  BY DEF NewSpace, Lowest
<1>2. f \in Frames /\ f # 0
  BY FreeIsNowhere DEF FramesOK
<1>3. [NoEntries EXCEPT ![Root] = f] \in [Slots -> Frames \cup {0}]
  BY <1>2 DEF NoEntries
<1>4. entry' \in [Threads -> [Slots -> Frames \cup {0}]]
  BY <1>1, <1>3 DEF FramesOK
<1>5. \A u \in Threads : \A s \in Slots :
         entry'[u][s] = IF u = c THEN IF s = Root THEN f ELSE 0 ELSE entry[u][s]
  BY <1>1 DEF FramesOK, NoEntries
<1>6. FrameOneUse'
  <2>1. 0 \notin free
    BY FreeIsNowhere
  <2> QED
    BY <1>1, <1>2, <1>5, <2>1, FreeIsNowhere DEF FrameOneUse, FramesOK
<1> QED
  BY <1>1, <1>4, <1>6 DEF FramesOK

\* Slots of one space are cleared; frames that only they held may become free.
LEMMA ClearSlots ==
  ASSUME FramesOK, NEW t \in Threads, NEW S,
         entry' = [entry EXCEPT ![t] = [s \in Slots |-> IF s \in S THEN 0 ELSE @[s]]],
         free' \subseteq free \cup {entry[t][s] : s \in S \cap Slots},
         0 \notin free'
  PROVE  FramesOK'
<1>1. entry' \in [Threads -> [Slots -> Frames \cup {0}]]
  BY DEF FramesOK
<1>2. \A u \in Threads : \A s \in Slots :
         entry'[u][s] = IF u = t /\ s \in S THEN 0 ELSE entry[u][s]
  BY DEF FramesOK
<1>3. free' \subseteq Frames
  BY DEF FramesOK
<1>4. FrameOneUse'
  BY <1>2 DEF FrameOneUse, FramesOK
<1> QED
  BY <1>1, <1>3, <1>4 DEF FramesOK

-----------------------------------------------------------------------------
(* The inductive invariant.                                                *)

Segs == [vaddr : Nat, memsz : Nat]

Arrays ==
    /\ array \in [Threads -> Seq(Entry)]
    /\ num \in [Threads -> Nat]
    /\ \A t \in Threads : ArrayOK(array[t], num[t])

Others ==
    /\ live \subseteq Threads
    /\ image \in [Threads -> Seq(Segs)]
    /\ range \in Ranges
    /\ mode \in {"run", "no memory", "fault", "wild", "stuck", "idle"}

\* The programs and the ranges are the ones the model was given, a thread that
\* lives or is being launched has a root, and vm_map works on the space of its
\* caller.
Known ==
    /\ \A t \in Threads : image[t] = << >> \/ image[t] \in Images
    /\ range.seg >= 1
    /\ range.kind = "launch" => range.image \in Images
    /\ range.kind = "vm" =>
          /\ \E seg \in Requests : range.image = <<seg>>
          /\ range.owner = range.space

RootsOK ==
    /\ \A t \in live : entry[t][Root] # 0
    /\ range.kind = "launch" => entry[range.space][Root] # 0

SpaceInv == FramesOK /\ Arrays /\ Others /\ Known /\ RootsOK

NxOK == nx \in [Threads -> SUBSET Pages]

LEMMA SpaceInvGives == SpaceInv /\ NxOK => TypeOK /\ FrameOneUse /\ MappingsCounted
<1> SUFFICES ASSUME SpaceInv, NxOK
             PROVE  TypeOK /\ FrameOneUse /\ MappingsCounted
  OBVIOUS
<1>1. TypeOK
  BY DEF SpaceInv, NxOK, TypeOK, FramesOK, Arrays, Others, Segs, Entry
<1>2. MappingsCounted
  BY DEF SpaceInv, MappingsCounted, Arrays, ArrayOK, UsedIn
<1> QED
  BY <1>1, <1>2 DEF SpaceInv, FramesOK

LEMMA EmptyArray == ArrayOK([i \in 1 .. Step |-> Unused], 0)
<1> DEFINE arr == [i \in 1 .. Step |-> Unused]
<1>1. Unused \in Entry /\ ~Unused.used
  BY DEF Unused, Entry
<1>2. arr \in [1 .. Step -> Entry] /\ Step \in Nat \ {0}
  BY <1>1, AddressSpaceAssumption
<1>3. arr \in Seq(Entry) /\ Len(arr) = Step /\ DOMAIN arr = 1 .. Step
  BY <1>2, FunctionIsSeq
<1>4. \A i \in 1 .. Step : arr[i] = Unused
  OBVIOUS
<1> HIDE DEF arr
<1>5. UsedIn(arr) = {}
  BY <1>1, <1>3, <1>4 DEF UsedIn
<1>6. ArrayOK(arr, 0)
  BY <1>2, <1>3, <1>4, <1>5, FS_EmptySet DEF ArrayOK
<1> QED
  BY <1>6 DEF arr

LEMMA ArraysChange ==
  ASSUME Arrays, NEW t \in Threads, NEW arr, NEW n, n \in Nat, ArrayOK(arr, n),
         array' = [array EXCEPT ![t] = arr], num' = [num EXCEPT ![t] = n]
  PROVE  Arrays'
<1>1. arr \in Seq(Entry)
  BY DEF ArrayOK
<1>2. array' \in [Threads -> Seq(Entry)] /\ num' \in [Threads -> Nat]
  BY <1>1 DEF Arrays
<1>3. ASSUME NEW u \in Threads
      PROVE  ArrayOK(array'[u], num'[u])
  <2>1. CASE u = t
    BY <2>1 DEF Arrays
  <2>2. CASE u # t
    <3>1. array'[u] = array[u] /\ num'[u] = num[u]
      BY <2>2 DEF Arrays
    <3> QED
      BY <3>1 DEF Arrays
  <2> QED
    BY <2>1, <2>2
<1> QED
  BY <1>2, <1>3 DEF Arrays

LEMMA RecordKeeps ==
  ASSUME Arrays, NEW t \in Threads, NEW a \in Nat, Record(t, a)
  PROVE  Arrays'
<1> DEFINE n == num[t] + Cardinality(FirstUnused(array[t]))
<1>1. ArrayOK(array[t], num[t])
  BY DEF Arrays
<1>2. n \in Nat /\ ArrayOK(Grow(Entered(array[t], a), n), n)
  BY <1>1, RecordOK
<1>3. /\ num' = [num EXCEPT ![t] = n]
      /\ array' = [array EXCEPT ![t] = Grow(Entered(array[t], a), n)]
  BY DEF Record, Arrays
<1> HIDE DEF n
<1> QED
  BY <1>2, <1>3, ArraysChange

LEMMA AddressNat ==
  ASSUME NEW seg \in Segs, NEW j \in Nat
  PROVE  Address(seg, j) \in Nat
<1>1. seg.vaddr \in Nat /\ PageSize \in Nat
  BY AddressSpaceAssumption DEF Segs
<1>2. j * PageSize \in Nat
  BY <1>1
<1> QED
  BY <1>1, <1>2 DEF Address

\* Every segment the program handles is one the assumption speaks of.
LEMMA SegmentKnown ==
  ASSUME NEW img \in Images, NEW s \in DOMAIN img
  PROVE  img[s] \in Segs /\ img[s] \in Segments
<1>1. img \in Seq(Segs)
  BY AddressSpaceAssumption DEF Segs
<1>2. img[s] \in Segs
  BY <1>1, LenProperties, ElementOfSeq
<1> QED
  BY <1>2 DEF Segments

LEMMA RequestKnown ==
  ASSUME NEW seg \in Requests
  PROVE  seg \in Segs /\ seg \in Segments
  BY AddressSpaceAssumption DEF Segs, Segments

LEMMA PageInSlots ==
  ASSUME NEW seg \in Segments, NEW j \in 0 .. LoadCount(seg) + 1
  PROVE  Page(Address(seg, j)) \in Slots /\ Table(Address(seg, j)) \in Slots
  BY AddressSpaceAssumption DEF Page, Table, Slots

\* unload_elf never goes further than one page behind what load_elf mapped.
LEMMA UnloadBound ==
  ASSUME NEW seg \in Segs
  PROVE  LoadCount(seg) \in Nat /\ UnloadCount(seg) \in Nat /\ UnloadCount(seg) <= LoadCount(seg) + 1
<1> DEFINE size == (seg.vaddr % PageSize) + seg.memsz
           q == size \div PageSize
<1>1. seg.vaddr \in Nat /\ seg.memsz \in Nat /\ PageSize \in Nat \ {0}
  BY AddressSpaceAssumption DEF Segs
<1>2. seg.vaddr % PageSize \in Nat
  BY <1>1
<1>3. size \in Nat /\ size >= seg.memsz
  BY <1>1, <1>2
<1> HIDE DEF size
<1>4. q \in Nat /\ (size > PageSize => q >= 1) /\ (size = PageSize => q = 1)
  BY <1>1, <1>3
<1>5. LoadCount(seg) = IF seg.memsz = 0 THEN 0
                       ELSE IF size <= PageSize THEN 1
                       ELSE IF size % PageSize = 0 THEN q ELSE q + 1
  BY DEF LoadCount, size
<1>6. UnloadCount(seg) = IF seg.memsz < PageSize THEN 1
                         ELSE IF seg.memsz % PageSize = 0 THEN q ELSE q + 1
  BY DEF UnloadCount, size
<1> HIDE DEF q
<1>7. CASE seg.memsz = 0
  <2>1. LoadCount(seg) = 0 /\ UnloadCount(seg) = 1
    BY <1>1, <1>5, <1>6, <1>7
  <2> QED
    BY <2>1
<1>8. CASE seg.memsz # 0 /\ size <= PageSize
  <2>1. LoadCount(seg) = 1
    BY <1>5, <1>8
  <2>2. UnloadCount(seg) = 1
    BY <1>1, <1>3, <1>4, <1>6, <1>8
  <2> QED
    BY <2>1, <2>2
<1>9. CASE seg.memsz # 0 /\ size > PageSize
  <2>1. LoadCount(seg) = q \/ LoadCount(seg) = q + 1
    BY <1>1, <1>3, <1>5, <1>9
  <2>2. UnloadCount(seg) = 1 \/ UnloadCount(seg) = q \/ UnloadCount(seg) = q + 1
    BY <1>6
  <2> QED
    BY <1>4, <1>9, <2>1, <2>2
<1> QED
  BY <1>1, <1>3, <1>7, <1>8, <1>9

LEMMA SpaceInit == Init => SpaceInv
<1> SUFFICES ASSUME Init
             PROVE  SpaceInv
  OBVIOUS
<1>1. PICK t \in Threads :
        /\ live = {t}
        /\ free = Frames \ {1}
        /\ image = [u \in Threads |-> << >>]
        /\ entry = [u \in Threads |-> IF u = t THEN [NoEntries EXCEPT ![Root] = 1] ELSE NoEntries]
        /\ array = [u \in Threads |-> [i \in 1 .. Step |-> Unused]]
        /\ num = [u \in Threads |-> 0]
        /\ range = [kind |-> "none", owner |-> t, space |-> t, image |-> << >>, seg |-> 1, page |-> 0,
                    prot |-> Prot]
        /\ mode = "run"
  BY DEF Init
<1>2. 1 \in Frames /\ 0 \notin Frames
  BY AddressSpaceAssumption DEF Frames
<1>3. Root \in Slots
  BY DEF Slots
<1>4. \A u \in Threads : \A s \in Slots : entry[u][s] = IF u = t /\ s = Root THEN 1 ELSE 0
  BY <1>1 DEF NoEntries
<1>5. entry \in [Threads -> [Slots -> Frames \cup {0}]]
  BY <1>1, <1>2 DEF NoEntries
<1>6. FramesOK
  BY <1>1, <1>2, <1>4, <1>5 DEF FramesOK, FrameOneUse
<1>7. Arrays
  <2>1. [i \in 1 .. Step |-> Unused] \in Seq(Entry)
    BY EmptyArray DEF ArrayOK
  <2> QED
    BY <1>1, <2>1, EmptyArray DEF Arrays
<1>8. << >> \in Seq(Segs)
  BY EmptySeq
<1>9. Others
  BY <1>1, <1>8 DEF Others, Ranges, Segs
<1>10. Known
  BY <1>1 DEF Known
<1>11. RootsOK
  BY <1>1, <1>3, <1>4 DEF RootsOK
<1> QED
  BY <1>6, <1>7, <1>9, <1>10, <1>11 DEF SpaceInv

-----------------------------------------------------------------------------
(* The steps.                                                              *)

LEMMA NewSpaceKeeps ==
  ASSUME FramesOK, Arrays, NEW c \in Threads, NewSpace(c)
  PROVE  /\ FramesOK' /\ Arrays'
         /\ entry'[c][Root] # 0
         /\ \A t \in Threads : t # c => entry'[t] = entry[t]
<1>1. FramesOK'
  BY NewSpaceOK
<1>2. Arrays'
  BY EmptyArray, ArraysChange DEF NewSpace
<1>3. PICK f \in free : entry' = [entry EXCEPT ![c] = [NoEntries EXCEPT ![Root] = f]]
  BY DEF NewSpace, Lowest
<1>4. f # 0 /\ Root \in Slots
  BY FreeIsNowhere DEF Slots
<1>5. entry'[c][Root] = f
  BY <1>3, <1>4 DEF FramesOK, NoEntries
<1> QED
  BY <1>1, <1>2, <1>3, <1>4, <1>5 DEF FramesOK

LEMMA CreateKeeps ==
  ASSUME SpaceInv, NEW t \in Threads, NEW c \in Threads, HotCreateAndPushThread(t, c)
  PROVE  SpaceInv'
<1> USE DEF SpaceInv
<1>1. NewSpace(c) /\ c \notin live /\ live' = live \cup {c} /\ image' = [image EXCEPT ![c] = << >>]
  BY DEF HotCreateAndPushThread
<1>2. range' = range /\ mode' = mode /\ range.kind = "none"
  BY DEF HotCreateAndPushThread, Idle
<1>3. /\ FramesOK' /\ Arrays'
      /\ entry'[c][Root] # 0
      /\ \A u \in Threads : u # c => entry'[u] = entry[u]
  BY <1>1, NewSpaceKeeps
<1>4. << >> \in Seq(Segs)
  BY EmptySeq
<1>5. Others'
  BY <1>1, <1>2, <1>4 DEF Others
<1>6. Known'
  BY <1>1, <1>2 DEF Known, Others
<1>7. RootsOK'
  BY <1>1, <1>2, <1>3 DEF RootsOK, Others
<1> QED
  BY <1>3, <1>5, <1>6, <1>7

LEMMA ExecKeeps ==
  ASSUME SpaceInv, NEW t \in Threads, NEW c \in Threads, NEW img \in Images, HotExecElf(t, c, img)
  PROVE  SpaceInv'
<1> USE DEF SpaceInv
<1>1. /\ NewSpace(c) /\ c \notin live
      /\ range' = [kind |-> "launch", owner |-> t, space |-> c, image |-> img, seg |-> 1, page |-> 0,
                    prot |-> Prot]
      /\ UNCHANGED <<live, image, mode>>
  BY DEF HotExecElf
<1>2. /\ FramesOK' /\ Arrays'
      /\ entry'[c][Root] # 0
      /\ \A u \in Threads : u # c => entry'[u] = entry[u]
  BY <1>1, NewSpaceKeeps
<1>3. img \in Seq(Segs)
  BY AddressSpaceAssumption DEF Segs
<1>4. Others'
  BY <1>1, <1>3 DEF Others, Ranges, Segs
<1>5. Known'
  BY <1>1 DEF Known
<1>6. RootsOK'
  BY <1>1, <1>2 DEF RootsOK, Others
<1> QED
  BY <1>2, <1>4, <1>5, <1>6

LEMMA PushKeeps ==
  ASSUME SpaceInv, PushLoaded
  PROVE  SpaceInv'
<1> USE DEF SpaceInv
<1>1. /\ range.kind = "launch"
      /\ live' = live \cup {range.space}
      /\ image' = [image EXCEPT ![range.space] = range.image]
      /\ range' = [range EXCEPT !.kind = "none"]
      /\ UNCHANGED <<free, entry, array, num, mode>>
  BY DEF PushLoaded
<1>2. FramesOK' /\ Arrays'
  BY <1>1 DEF FramesOK, FrameOneUse, Arrays
<1>3. range.space \in Threads /\ range.image \in Seq(Segs)
  BY DEF Others, Ranges, Segs
<1>4. Others'
  BY <1>1, <1>3 DEF Others, Ranges, Segs
<1>5. range'.kind = "none" /\ range'.seg = range.seg
  BY <1>1 DEF Others, Ranges
<1>6. Known'
  BY <1>1, <1>3, <1>5 DEF Known, Others
<1>7. RootsOK'
  BY <1>1, <1>3, <1>5 DEF RootsOK, Others
<1> QED
  BY <1>2, <1>4, <1>6, <1>7

\* The segment map_range is at is one of the given ones.
LEMMA SegmentTyped ==
  ASSUME SpaceInv, range.kind # "none", range.seg <= Len(range.image)
  PROVE  /\ Segment \in Segs /\ Segment \in Segments
         /\ range.page \in Nat /\ range.owner \in Threads /\ range.space \in Threads
<1> USE DEF SpaceInv
<1>1. range.seg \in Nat /\ range.image \in Seq(Segs) /\ range.kind \in {"launch", "vm"}
  BY DEF Others, Ranges, Segs
<1>2. range.seg \in DOMAIN range.image
  BY <1>1, LenProperties DEF Known
<1> SUFFICES Segment \in Segs /\ Segment \in Segments
  BY DEF Others, Ranges
<1>3. CASE range.kind = "launch"
  BY <1>2, <1>3, SegmentKnown DEF Known, Segment
<1>4. CASE range.kind = "vm"
  <2>1. PICK seg \in Requests : range.image = <<seg>>
    BY <1>4 DEF Known
  <2>2. Segment = seg
    BY <1>2, <2>1 DEF Segment
  <2> QED
    BY <2>2, RequestKnown
<1> QED
  BY <1>1, <1>3, <1>4

\* map_page changes neither a root nor another space.
LEMMA InstallElsewhere ==
  ASSUME FramesOK, NEW t \in Threads, NEW a, Install(t, a)
  PROVE  \A u \in Threads : \A s \in Slots :
            u # t \/ (s # Page(a) /\ s # Table(a)) => entry'[u][s] = entry[u][s]
  BY DEF Install, FramesOK

LEMMA RootApart ==
  ASSUME NEW a
  PROVE  Root # Page(a) /\ Root # Table(a) /\ Root \in Slots
  BY DEF Root, Page, Table, Slots

LEMMA RangeUpdate ==
  ASSUME NEW r \in Ranges, NEW p \in Nat, NEW q \in Nat
  PROVE  [r EXCEPT !.page = p] \in Ranges /\ [r EXCEPT !.seg = q, !.page = p] \in Ranges
  BY DEF Ranges

LEMMA MapKeeps ==
  ASSUME SpaceInv, MapPage
  PROVE  SpaceInv'
<1> USE DEF SpaceInv
<1> DEFINE a == Address(Segment, range.page)
<1>1. /\ range.kind # "none" /\ range.seg <= Len(range.image)
      /\ Install(range.space, a)
      /\ Record(range.owner, a)
      /\ range' = [range EXCEPT !.page = @ + 1]
      /\ UNCHANGED <<live, image, mode>>
  BY DEF MapPage, Mapping
<1>2. a \in Nat /\ range.owner \in Threads /\ range.space \in Threads /\ range.page \in Nat
  BY <1>1, SegmentTyped, AddressNat
<1> HIDE DEF a
<1>3. FramesOK' /\ Arrays'
  BY <1>1, <1>2, InstallOK, RecordKeeps
<1>4. \A u \in Threads : entry'[u][Root] = entry[u][Root]
  BY <1>1, <1>2, InstallElsewhere, RootApart
<1>5. /\ range'.kind = range.kind /\ range'.seg = range.seg /\ range'.image = range.image
      /\ range'.owner = range.owner /\ range'.space = range.space
  BY <1>1 DEF Others, Ranges
<1>6. Others'
  <2>0. range.page + 1 \in Nat /\ 0 \in Nat
    BY <1>2
  <2>1. range \in Ranges
    BY DEF Others
  <2>2. [range EXCEPT !.page = range.page + 1] \in Ranges
    BY <2>0, <2>1, RangeUpdate, Zenon
  <2>3. range' \in Ranges
    BY <1>1, <2>2, Zenon
  <2> QED
    BY <1>1, <2>3 DEF Others
<1>7. Known'
  BY <1>1, <1>5 DEF Known
<1>8. RootsOK'
  BY <1>1, <1>2, <1>4, <1>5 DEF RootsOK, Others
<1> QED
  BY <1>3, <1>6, <1>7, <1>8

LEMMA RangeMappedKeeps ==
  ASSUME SpaceInv, RangeMapped
  PROVE  SpaceInv'
<1> USE DEF SpaceInv
<1>1. /\ range' = [range EXCEPT !.seg = @ + 1, !.page = 0]
      /\ UNCHANGED <<free, live, image, entry, array, num, mode>>
  BY DEF RangeMapped
<1>2. FramesOK' /\ Arrays'
  BY <1>1 DEF FramesOK, FrameOneUse, Arrays
<1>3. /\ range'.kind = range.kind /\ range'.seg = range.seg + 1 /\ range'.image = range.image
      /\ range'.owner = range.owner /\ range'.space = range.space /\ range.seg \in Nat
  BY <1>1 DEF Others, Ranges
<1>4. Others'
  <2>0. range.seg + 1 \in Nat /\ 0 \in Nat
    BY <1>3
  <2>1. range \in Ranges
    BY DEF Others
  <2>2. [range EXCEPT !.seg = range.seg + 1, !.page = 0] \in Ranges
    BY <2>0, <2>1, RangeUpdate, Zenon
  <2>3. range' \in Ranges
    BY <1>1, <2>2, Zenon
  <2> QED
    BY <1>1, <2>3 DEF Others
<1>5. Known'
  BY <1>1, <1>3 DEF Known
<1>6. RootsOK'
  BY <1>1, <1>3 DEF RootsOK
<1> QED
  BY <1>2, <1>4, <1>5, <1>6

LEMMA FramesKept ==
  ASSUME FramesOK, free' = free, entry' = entry
  PROVE  FramesOK'
  BY DEF FramesOK, FrameOneUse

\* Steps that change nothing but the mode.
LEMMA OnlyMode ==
  ASSUME SpaceInv, UNCHANGED <<free, live, image, entry, array, num, range>>,
         mode' \in {"run", "no memory", "fault", "wild", "stuck", "idle"}
  PROVE  SpaceInv'
<1> USE DEF SpaceInv
<1>1. FramesOK'
  <2>1. free' = free /\ entry' = entry
    OBVIOUS
  <2> QED
    BY <2>1, FramesKept
<1>2. Arrays'
  BY DEF Arrays
<1>3. Others'
  BY DEF Others
<1>4. Known'
  BY DEF Known
<1>5. RootsOK'
  BY DEF RootsOK
<1> QED
  BY <1>1, <1>2, <1>3, <1>4, <1>5

LEMMA OutOfFramesKeeps ==
  ASSUME SpaceInv, OutOfFrames
  PROVE  SpaceInv'
<1>1. UNCHANGED <<free, live, image, entry, array, num, range>> /\ mode' = "no memory"
  BY DEF OutOfFrames
<1> QED
  BY <1>1, OnlyMode

LEMMA MapFaultsKeeps ==
  ASSUME SpaceInv, MapFaults
  PROVE  SpaceInv'
<1>1. UNCHANGED <<free, live, image, entry, array, num, range>> /\ mode' = "fault"
  BY DEF MapFaults
<1> QED
  BY <1>1, OnlyMode

LEMMA VmMapKeeps ==
  ASSUME SpaceInv, NEW t \in Threads, NEW seg \in Requests, NEW prot \in SUBSET Prot,
         VmMap(t, seg, prot)
  PROVE  SpaceInv'
<1> USE DEF SpaceInv
<1>1. /\ range' = [kind |-> "vm", owner |-> t, space |-> t, image |-> <<seg>>, seg |-> 1, page |-> 0,
                    prot |-> prot]
      /\ UNCHANGED <<free, live, image, entry, array, num, mode>>
  BY DEF VmMap
<1>2. FramesOK' /\ Arrays'
  BY <1>1 DEF FramesOK, FrameOneUse, Arrays
<1>3. <<seg>> \in Seq(Segs)
  BY RequestKnown
<1>4. Others'
  BY <1>1, <1>3 DEF Others, Ranges, Segs
<1>5. Known'
  BY <1>1 DEF Known
<1>6. RootsOK'
  BY <1>1 DEF RootsOK
<1> QED
  BY <1>2, <1>4, <1>5, <1>6

LEMMA VmMappedKeeps ==
  ASSUME SpaceInv, VmMapped
  PROVE  SpaceInv'
<1> USE DEF SpaceInv
<1>1. /\ UNCHANGED <<free, live, image, entry, array, num>>
      /\ \/ range' = [range EXCEPT !.kind = "none"] /\ mode' = mode
         \/ range' = range /\ mode' = "fault"
  BY DEF VmMapped
<1>2. FramesOK' /\ Arrays'
  BY <1>1 DEF FramesOK, FrameOneUse, Arrays
<1>3. CASE range' = range /\ mode' = "fault"
  BY <1>1, <1>2, <1>3 DEF Others, Known, RootsOK
<1>4. CASE range' = [range EXCEPT !.kind = "none"] /\ mode' = mode
  <2>1. range'.kind = "none" /\ range'.seg = range.seg
    BY <1>4 DEF Others, Ranges
  <2>2. range' \in Ranges
    BY <1>4 DEF Others, Ranges
  <2>3. Others'
    BY <1>1, <1>4, <2>2 DEF Others
  <2>4. Known' /\ RootsOK'
    BY <1>1, <2>1 DEF Known, RootsOK
  <2> QED
    BY <1>2, <2>3, <2>4
<1> QED
  BY <1>1, <1>3, <1>4

LEMMA VmUnmapKeeps ==
  ASSUME SpaceInv, NEW t \in Threads, NEW seg \in Requests, VmUnmap(t, seg)
  PROVE  SpaceInv'
<1> USE DEF SpaceInv
<1> DEFINE A == {Address(seg, j) : j \in 0 .. UnmapCount(seg) - 1}
<1>1. UNCHANGED <<free, live, image, range>> /\ range.kind = "none"
  BY DEF VmUnmap, Idle
<1>2. CASE UNCHANGED <<entry, array, num>> /\ mode' \in {"wild", "fault"}
  BY <1>1, <1>2, OnlyMode
<1>3. CASE /\ seg.vaddr # 0
           /\ entry' = [entry EXCEPT ![t] = [s \in Slots |-> IF Unmapped(A, s) THEN 0 ELSE @[s]]]
           /\ array' = [array EXCEPT ![t] = Cleared(@, A)]
           /\ num' = [num EXCEPT ![t] = @ - Cardinality(Forgotten(array[t], A))]
           /\ mode' = mode
  <2>1. 0 \notin A
    <3>1. seg.vaddr \in Nat \ {0} /\ PageSize \in Nat
      BY <1>3, RequestKnown, AddressSpaceAssumption DEF Segs
    <3>2. ASSUME NEW j \in Nat
          PROVE  Address(seg, j) # 0
      <4>1. j * PageSize \in Nat
        BY <3>1
      <4> QED
        BY <3>1, <4>1 DEF Address
    <3> QED
      BY <3>2
  <2> HIDE DEF A
  <2> DEFINE S == {s \in Slots : Unmapped(A, s)}
  <2>2. entry' = [entry EXCEPT ![t] = [s \in Slots |-> IF s \in S THEN 0 ELSE entry[t][s]]]
    BY <1>3 DEF FramesOK
  <2>3. 0 \notin free'
    BY <1>1, FreeIsNowhere
  <2>4. FramesOK'
    <3> HIDE DEF S
    <3> QED
      BY <1>1, <2>2, <2>3, ClearSlots DEF FramesOK
  <2>5. Arrays'
    <3> DEFINE m == num[t] - Cardinality(Forgotten(array[t], A))
    <3>1. ArrayOK(array[t], num[t])
      BY DEF Arrays
    <3>2. m \in Nat /\ ArrayOK(Cleared(array[t], A), m)
      BY <2>1, <3>1, ForgetOK
    <3>3. array' = [array EXCEPT ![t] = Cleared(array[t], A)] /\ num' = [num EXCEPT ![t] = m]
      BY <1>3 DEF Arrays
    <3> HIDE DEF m
    <3> QED
      BY <3>2, <3>3, ArraysChange
  <2>6. Root \in Slots /\ Root \notin S
    BY RootApart DEF Unmapped
  <2>7. \A u \in Threads : entry'[u][Root] = entry[u][Root]
    <3> HIDE DEF S
    <3> QED
      BY <2>2, <2>6 DEF FramesOK
  <2>8. Others' /\ Known'
    BY <1>1, <1>3 DEF Others, Known
  <2>9. RootsOK'
    BY <1>1, <2>7 DEF RootsOK, Others
  <2> QED
    BY <2>4, <2>5, <2>8, <2>9
<1> QED
  BY <1>2, <1>3 DEF VmUnmap

\* What the exit of a thread gives back is in its space.
LEMMA ReturnedInSpace ==
  ASSUME SpaceInv, NEW t \in live, Unloads(t)
  PROVE  /\ Returned(t) \subseteq {entry[t][s] : s \in Slots}
         /\ 0 \notin Returned(t)
<1> USE DEF SpaceInv
<1>1. t \in Threads
  BY DEF Others
<1>2. Root \in Slots /\ entry[t][Root] # 0
  BY RootApart DEF RootsOK
<1>3. ASSUME NEW x \in UnloadSteps(image[t])
      PROVE  Page(StepAddress(image[t], x)) \in Slots /\ entry[t][Page(StepAddress(image[t], x))] # 0
  <2>1. PICK s \in DOMAIN image[t] : x \in {s} \X (0 .. UnloadCount(image[t][s]) - 1)
    BY DEF UnloadSteps
  <2>2. image[t] \in Images
    <3>1. CASE image[t] = << >>
      BY <2>1, <3>1
    <3> QED
      BY <1>1, <3>1 DEF Known
  <2>3. image[t][s] \in Segs /\ image[t][s] \in Segments
    BY <2>1, <2>2, SegmentKnown
  <2>4. LoadCount(image[t][s]) \in Nat /\ UnloadCount(image[t][s]) \in Nat
        /\ UnloadCount(image[t][s]) <= LoadCount(image[t][s]) + 1
    BY <2>3, UnloadBound
  <2>5. x[1] = s /\ x[2] \in 0 .. UnloadCount(image[t][s]) - 1
    BY <2>1
  <2>6. x[2] \in 0 .. LoadCount(image[t][s]) + 1
    BY <2>4, <2>5
  <2>7. Page(Address(image[t][s], x[2])) \in Slots
    BY <2>3, <2>6, PageInSlots
  <2> QED
    BY <2>5, <2>7 DEF StepAddress, Unloads, Finds
<1> QED
  BY <1>2, <1>3 DEF Returned

LEMMA ReturnKeeps ==
  ASSUME SpaceInv, NEW t \in Threads, SchedulerReturn(t)
  PROVE  SpaceInv'
<1> USE DEF SpaceInv
<1>1. UNCHANGED <<image, array, num, range>> /\ t \in live /\ range.kind = "none"
  BY DEF SchedulerReturn, Idle
<1>2. CASE UNCHANGED <<free, entry, live>> /\ mode' \in {"wild", "stuck", "fault"}
  BY <1>1, <1>2, OnlyMode
<1>3. CASE /\ Unloads(t)
           /\ free' = free \cup Returned(t)
           /\ entry' = [entry EXCEPT ![t] = NoEntries]
           /\ live' = live \ {t}
           /\ mode' \in {"idle", "run"}
  <2>1. Returned(t) \subseteq {entry[t][s] : s \in Slots} /\ 0 \notin Returned(t)
    BY <1>1, <1>3, ReturnedInSpace
  <2>2. 0 \notin free'
    BY <1>3, <2>1, FreeIsNowhere
  <2>3. entry' = [entry EXCEPT ![t] = [s \in Slots |-> IF s \in Slots THEN 0 ELSE entry[t][s]]]
    BY <1>3 DEF NoEntries
  <2>4. free' \subseteq free \cup {entry[t][s] : s \in Slots \cap Slots}
    BY <1>3, <2>1
  <2>5. FramesOK'
    BY <2>2, <2>3, <2>4, ClearSlots
  <2>6. \A u \in Threads : u # t => entry'[u] = entry[u]
    BY <1>3 DEF FramesOK
  <2>7. Arrays' /\ Others' /\ Known'
    BY <1>1, <1>3 DEF Arrays, Others, Known
  <2>8. RootsOK'
    BY <1>1, <1>3, <2>6 DEF RootsOK, Others
  <2> QED
    BY <2>5, <2>7, <2>8
<1> QED
  BY <1>2, <1>3 DEF SchedulerReturn

LEMMA SpaceNext ==
  ASSUME SpaceInv, [Next]_vars
  PROVE  SpaceInv'
<1>1. CASE UNCHANGED vars
  BY <1>1, OnlyMode DEF vars, SpaceInv, Others
<1> QED
  BY <1>1, CreateKeeps, ExecKeeps, PushKeeps, MapKeeps, RangeMappedKeeps, OutOfFramesKeeps,
     MapFaultsKeeps, VmMapKeeps, VmMappedKeeps, VmUnmapKeeps, ReturnKeeps DEF Next

LEMMA NxStep ==
  ASSUME SpaceInv, NxOK, [Next]_vars
  PROVE  NxOK'
<1>1. CASE MapPage
  <2> DEFINE a == Address(Segment, range.page)
  <2>1. range.kind # "none" /\ range.seg <= Len(range.image) /\ range.page < LoadCount(Segment)
    BY <1>1 DEF MapPage, Mapping
  <2>2. nx' = [nx EXCEPT ![range.space] = IF "exec" \in range.prot THEN @ \ {PageOf(a)}
                                          ELSE @ \cup {PageOf(a)}]
    BY <1>1 DEF MapPage
  <2>3. Segment \in Segments /\ Segment \in Segs /\ range.page \in Nat /\ range.space \in Threads
    BY <2>1, SegmentTyped
  <2>4. range.page \in 0 .. LoadCount(Segment) + 1
    BY <2>1, <2>3, UnloadBound
  <2>5. PageOf(a) \in Pages
    BY <2>3, <2>4, AddressSpaceAssumption
  <2> HIDE DEF a
  <2> QED
    BY <2>2, <2>3, <2>5 DEF NxOK
<1>2. ASSUME NEW t \in Threads, SchedulerReturn(t)
      PROVE  NxOK'
  BY <1>2 DEF SchedulerReturn, NxOK
<1>3. ASSUME NEW t \in Threads, NEW seg \in Requests, VmUnmap(t, seg)
      PROVE  NxOK'
  BY <1>3 DEF VmUnmap, NxOK
<1>4. ASSUME NEW c \in Threads, NewSpace(c)
      PROVE  NxOK'
  BY <1>4 DEF NewSpace, NxOK
<1>5. nx' = nx => NxOK'
  BY DEF NxOK
<1> QED
  BY <1>1, <1>2, <1>3, <1>4, <1>5
     DEF Next, vars, HotCreateAndPushThread, HotExecElf, PushLoaded, MapFaults, RangeMapped,
         OutOfFrames, VmMap, VmMapped

LEMMA SpaceInvariant == Spec => []SpaceInv
  BY SpaceInit, SpaceNext, PTL DEF Spec

LEMMA NxInvariant == Spec => []NxOK
<1>1. Init => NxOK
  BY DEF Init, NxOK
<1> QED
  BY <1>1, NxStep, SpaceInvariant, PTL DEF Spec

\* Whatever programs are launched, ranges mapped and unmapped and threads ended,
\* no physical frame is at the same time free and in a space, or in two places.
THEOREM NoFrameTwice == Spec => [](TypeOK /\ FrameOneUse)
<1>1. SpaceInv /\ NxOK => TypeOK /\ FrameOneUse
  BY SpaceInvGives
<1> QED
  BY <1>1, SpaceInvariant, NxInvariant, PTL

\* num_mappings counts the used entries, and there is always an unused one.
THEOREM MappingsAreCounted == Spec => []MappingsCounted
<1>1. SpaceInv /\ NxOK => MappingsCounted
  BY SpaceInvGives
<1> QED
  BY <1>1, SpaceInvariant, NxInvariant, PTL

-----------------------------------------------------------------------------
(* Aligned programs are given back.                                        *)

\* For an aligned segment load_elf and unload_elf agree.
LEMMA CountsAgree ==
  ASSUME NEW seg \in Segs, seg.vaddr % PageSize = 0, seg.memsz > 0
  PROVE  LoadCount(seg) = UnloadCount(seg)
<1>1. seg.memsz \in Nat \ {0} /\ PageSize \in Nat \ {0}
  BY AddressSpaceAssumption DEF Segs
<1>2. 0 + seg.memsz = seg.memsz /\ PageSize \div PageSize = 1
  BY <1>1
<1>3. CASE seg.memsz <= PageSize
  <2>1. LoadCount(seg) = 1
    BY <1>1, <1>2, <1>3 DEF LoadCount
  <2>2. CASE seg.memsz < PageSize
    BY <2>1, <2>2 DEF UnloadCount
  <2>3. CASE seg.memsz = PageSize
    <3>1. PageSize % PageSize = 0 /\ ~(PageSize < PageSize)
      BY <1>1
    <3>2. UnloadCount(seg) = (0 + PageSize) \div PageSize
      BY <2>3, <3>1 DEF UnloadCount
    <3> QED
      BY <1>2, <2>1, <2>3, <3>2
  <2> QED
    BY <1>1, <1>3, <2>2, <2>3
<1>4. CASE seg.memsz > PageSize
  BY <1>1, <1>2, <1>4 DEF LoadCount, UnloadCount
<1> QED
  BY <1>1, <1>3, <1>4

LEMMA ReturnsSegments ==
  ASSUME SpaceInv, Next, NEW t \in live \ live', Aligned(image[t]),
         NEW p \in LoadPages(image[t])
  PROVE  entry[t][<<"page", p>>] \in free'
<1> USE DEF SpaceInv
<1>1. t \in Threads
  BY DEF Others
<1>2. free' = free \cup Returned(t)
  BY DEF Next, HotCreateAndPushThread, HotExecElf, PushLoaded, MapPage, MapFaults, Mapping, RangeMapped, OutOfFrames,
         VmMap, VmUnmap, VmMapped, SchedulerReturn
<1>3. PICK s \in DOMAIN image[t] : \E j \in 0 .. LoadCount(image[t][s]) - 1 :
         p = PageOf(Address(image[t][s], j))
  BY DEF LoadPages
<1> PICK j \in 0 .. LoadCount(image[t][s]) - 1 : p = PageOf(Address(image[t][s], j))
  BY <1>3
<1>4. image[t] \in Images
  <2>1. CASE image[t] = << >>
    BY <1>3, <2>1
  <2> QED
    BY <1>1, <2>1 DEF Known
<1>5. image[t][s] \in Segs
  BY <1>3, <1>4, SegmentKnown
<1>6. LoadCount(image[t][s]) = UnloadCount(image[t][s])
  BY <1>3, <1>5, CountsAgree DEF Aligned
<1>7. <<s, j>> \in UnloadSteps(image[t])
  BY <1>3, <1>6 DEF UnloadSteps
<1>8. Page(StepAddress(image[t], <<s, j>>)) = <<"page", p>>
  BY <1>3 DEF StepAddress, Page
<1>9. entry[t][<<"page", p>>] \in Returned(t)
  BY <1>7, <1>8 DEF Returned
<1> QED
  BY <1>2, <1>9

\* The exit of an aligned program gives back every page load_elf has mapped, for
\* every page size and every size of the segments.
THEOREM AlignedIsReturned == Spec => SegmentsReturned
<1>1. ASSUME SpaceInv, [Next]_vars
      PROVE  [\A t \in live \ live' : Aligned(image[t]) =>
                \A p \in LoadPages(image[t]) : entry[t][<<"page", p>>] \in free']_vars
  <2>1. CASE UNCHANGED vars
    BY <2>1
  <2>2. CASE Next
    BY <1>1, <2>2, ReturnsSegments
  <2> QED
    BY <1>1, <2>1, <2>2
<1> QED
  BY <1>1, SpaceInvariant, PTL DEF Spec, SegmentsReturned

-----------------------------------------------------------------------------
(* vm_map of an aligned range returns.                                     *)

\* The first page of the range is mapped as soon as map_range is behind it.
FirstMapped ==
    range.kind = "vm" /\ (range.seg > 1 \/ range.page > 0) /\ range.image[1].memsz # 0 =>
        entry[range.space][Page(Address(range.image[1], 0))] # 0

LEMMA InstallMaps ==
  ASSUME FramesOK, NEW t \in Threads, NEW a, Page(a) \in Slots, Install(t, a)
  PROVE  /\ entry'[t][Page(a)] # 0
         /\ \A s \in Slots : entry[t][s] # 0 => entry'[t][s] # 0
<1>1. Page(a) # Table(a)
  BY DEF Page, Table
<1>2. PICK f \in free :
        \/ entry' = [entry EXCEPT ![t][Page(a)] = f]
        \/ \E g \in free : entry' = [entry EXCEPT ![t][Page(a)] = f, ![t][Table(a)] = g]
  BY DEF Install, Lowest
<1>3. \A g \in free : g # 0
  BY FreeIsNowhere
<1> QED
  BY <1>1, <1>2, <1>3 DEF FramesOK

\* map_range maps at least one page, unless it is asked for 0 bytes.
LEMMA MappedAtLeastOne ==
  ASSUME NEW seg \in Segs, seg.memsz # 0
  PROVE  LoadCount(seg) >= 1
<1>1. seg.vaddr \in Nat /\ seg.memsz \in Nat /\ PageSize \in Nat \ {0}
  BY AddressSpaceAssumption DEF Segs
<1>2. seg.vaddr % PageSize \in Nat
  BY <1>1
<1> DEFINE size == (seg.vaddr % PageSize) + seg.memsz
<1>3. size \in Nat
  BY <1>1, <1>2
<1>4. LoadCount(seg) = IF size <= PageSize THEN 1
                       ELSE IF size % PageSize = 0 THEN size \div PageSize
                       ELSE (size \div PageSize) + 1
  BY DEF LoadCount
<1> HIDE DEF size
<1>5. size > PageSize => size \div PageSize >= 1 /\ size \div PageSize \in Nat
  BY <1>1, <1>3
<1> QED
  BY <1>1, <1>3, <1>4, <1>5

LEMMA FirstMappedStep ==
  ASSUME SpaceInv, FirstMapped, [Next]_vars
  PROVE  FirstMapped'
<1> USE DEF SpaceInv
<1>1. CASE MapPage
  <2>1. SUFFICES ASSUME range'.kind = "vm", range'.image[1].memsz # 0
                 PROVE  entry'[range'.space][Page(Address(range'.image[1], 0))] # 0
    BY DEF FirstMapped
  <2>2. /\ range.kind # "none" /\ range.seg <= Len(range.image)
        /\ Install(range.space, Address(Segment, range.page))
        /\ range' = [range EXCEPT !.page = @ + 1]
    BY <1>1 DEF MapPage, Mapping
  <2>3. /\ range'.kind = range.kind /\ range'.space = range.space /\ range'.image = range.image
        /\ range.page \in Nat /\ range.seg \in Nat /\ range.space \in Threads
    BY <2>2 DEF Others, Ranges
  <2>4. PICK seg \in Requests : range.image = <<seg>>
    BY <2>1, <2>3 DEF Known
  <2>5. range.seg = 1 /\ Segment = seg /\ range.image[1] = seg
    BY <2>2, <2>3, <2>4 DEF Segment, Known
  <2>6. seg \in Segs /\ seg \in Segments /\ LoadCount(seg) \in Nat
    BY RequestKnown, UnloadBound
  <2>7. range.page \in 0 .. LoadCount(seg) + 1 /\ 0 \in 0 .. LoadCount(seg) + 1
    BY <1>1, <2>3, <2>5, <2>6 DEF MapPage, Mapping
  <2>8. Page(Address(seg, range.page)) \in Slots /\ Page(Address(seg, 0)) \in Slots
    BY <2>6, <2>7, PageInSlots
  <2>9. /\ entry'[range.space][Page(Address(seg, range.page))] # 0
        /\ \A s \in Slots : entry[range.space][s] # 0 => entry'[range.space][s] # 0
    BY <2>2, <2>3, <2>5, <2>8, InstallMaps
  <2>10. CASE range.page = 0
    BY <2>3, <2>5, <2>9, <2>10
  <2>11. CASE range.page > 0
    <3>1. entry[range.space][Page(Address(seg, 0))] # 0
      BY <2>1, <2>3, <2>5, <2>11 DEF FirstMapped
    <3> QED
      BY <2>3, <2>5, <2>8, <2>9, <3>1
  <2> QED
    BY <2>3, <2>10, <2>11
<1>2. CASE RangeMapped
  <2>1. SUFFICES ASSUME range'.kind = "vm", range'.image[1].memsz # 0
                 PROVE  entry'[range'.space][Page(Address(range'.image[1], 0))] # 0
    BY DEF FirstMapped
  <2>2. /\ range.seg <= Len(range.image) /\ range.page >= LoadCount(Segment)
        /\ range' = [range EXCEPT !.seg = @ + 1, !.page = 0] /\ entry' = entry
    BY <1>2 DEF RangeMapped
  <2>3. /\ range'.kind = range.kind /\ range'.space = range.space /\ range'.image = range.image
        /\ range.page \in Nat /\ range.seg \in Nat
    BY <2>2 DEF Others, Ranges
  <2>4. PICK seg \in Requests : range.image = <<seg>>
    BY <2>1, <2>3 DEF Known
  <2>5. range.seg = 1 /\ Segment = seg /\ range.image[1] = seg
    BY <2>2, <2>3, <2>4 DEF Segment, Known
  <2>6. LoadCount(seg) >= 1
    BY <2>1, <2>3, <2>5, RequestKnown, MappedAtLeastOne
  <2>7. range.page > 0
    <3>1. LoadCount(seg) \in Nat /\ range.page >= LoadCount(seg)
      BY <2>2, <2>5, RequestKnown, UnloadBound
    <3> QED
      BY <2>3, <2>6, <3>1
  <2> QED
    BY <2>1, <2>2, <2>3, <2>7 DEF FirstMapped
<1>3. CASE VmMapped
  BY <1>3 DEF VmMapped, FirstMapped, Others, Ranges
<1>4. CASE PushLoaded
  BY <1>4 DEF PushLoaded, FirstMapped, Others, Ranges
<1>5. ASSUME NEW t \in Threads, NEW c \in Threads, HotCreateAndPushThread(t, c)
      PROVE  FirstMapped'
  BY <1>5 DEF HotCreateAndPushThread, Idle, FirstMapped
<1>6. ASSUME NEW t \in Threads, NEW c \in Threads, NEW img \in Images, HotExecElf(t, c, img)
      PROVE  FirstMapped'
  BY <1>6 DEF HotExecElf, FirstMapped
<1>7. CASE OutOfFrames \/ MapFaults
  BY <1>7 DEF OutOfFrames, MapFaults, FirstMapped
<1>8. ASSUME NEW t \in Threads, NEW seg \in Requests, NEW prot \in SUBSET Prot,
             VmMap(t, seg, prot)
      PROVE  FirstMapped'
  BY <1>8 DEF VmMap, FirstMapped
<1>9. ASSUME NEW t \in Threads, NEW seg \in Requests, VmUnmap(t, seg)
      PROVE  FirstMapped'
  BY <1>9 DEF VmUnmap, Idle, FirstMapped
<1>10. ASSUME NEW t \in Threads, SchedulerReturn(t)
       PROVE  FirstMapped'
  BY <1>10 DEF SchedulerReturn, Idle, FirstMapped
<1>11. CASE UNCHANGED vars
  BY <1>11 DEF vars, FirstMapped
<1> QED
  BY <1>1, <1>2, <1>3, <1>4, <1>5, <1>6, <1>7, <1>8, <1>9, <1>10, <1>11 DEF Next

\* The word vm_map reads back is in the first page, if the range is aligned.
LEMMA WordInFirstPage ==
  ASSUME NEW a \in Nat, a % PageSize = 0
  PROVE  PageOf(a + (PageSize \div 2)) = PageOf(a)
<1>1. PageSize \in Nat \ {0}
  BY AddressSpaceAssumption
<1> DEFINE k == a \div PageSize
           h == PageSize \div 2
<1>2. k \in Nat /\ h \in Nat /\ h < PageSize
  BY <1>1
<1>3. a = k * PageSize
  BY <1>1
<1> HIDE DEF k, h
<1>4. (k * PageSize + h) \div PageSize = k
  BY <1>1, <1>2
<1> QED
  BY <1>3, <1>4 DEF PageOf, k, h

\* Nothing happens once the kernel has stopped.
LEMMA RunsOnly ==
  ASSUME Next
  PROVE  mode = "run"
  BY DEF Next, HotCreateAndPushThread, HotExecElf, PushLoaded, MapPage, MapFaults, Mapping, RangeMapped, OutOfFrames,
         VmMap, VmUnmap, VmMapped, SchedulerReturn, Idle

LEMMA AlignedReadsBack ==
  ASSUME SpaceInv, FirstMapped, VmMapped, mode' = "fault",
         range.image[1].vaddr % PageSize = 0, range.image[1].memsz # 0,
         {"read", "write"} \subseteq range.prot, mode # "fault"
  PROVE  FALSE
<1> USE DEF SpaceInv
<1>1. VmMapped /\ range.kind = "vm"
  BY DEF VmMapped
<1> DEFINE word == range.image[1].vaddr + (PageSize \div 2)
<1>2. PICK seg \in Requests : range.image = <<seg>>
  BY <1>1 DEF Known
<1>3. range.image[1] = seg /\ seg \in Segs /\ Len(range.image) = 1
  BY <1>2, RequestKnown
<1>4. range.seg > 1
  BY <1>1, <1>3 DEF VmMapped
<1>5. Address(seg, 0) = seg.vaddr /\ seg.vaddr \in Nat
  <2>1. 0 * PageSize = 0 /\ PageSize \in Nat
    BY AddressSpaceAssumption
  <2> QED
    BY <1>3, <2>1 DEF Address, Segs
<1>6. PageOf(word) = PageOf(Address(seg, 0))
  BY <1>3, <1>5, WordInFirstPage
<1>7. entry[range.space][Page(word)] # 0
  BY <1>1, <1>3, <1>4, <1>6 DEF FirstMapped, Page
<1>8. 0 \in 0 .. LoadCount(seg) - 1
  <2>1. LoadCount(seg) \in Nat /\ LoadCount(seg) >= 1
    BY <1>3, UnloadBound, MappedAtLeastOne
  <2> QED
    BY <2>1
<1>9. \/ entry[range.space][Page(word)] = 0
      \/ \A j \in 0 .. LoadCount(range.image[1]) - 1 :
            PageOf(word) # PageOf(Address(range.image[1], j))
  BY <1>1 DEF VmMapped, ClearFaults
<1> QED
  BY <1>3, <1>6, <1>7, <1>8, <1>9

LEMMA FirstMappedInit == Init => FirstMapped
  BY DEF Init, FirstMapped

\* The walk of map_page faults at a missing table, for want of PROT_READ or of
\* PROT_EXEC.
LEMMA WalkFaultsAtTable ==
  ASSUME SpaceInv, MapFaults, range.kind = "vm"
  PROVE  /\ range.seg = 1
         /\ entry[range.space][Table(Address(Segment, range.page))] = 0
         /\ ~({"read", "exec"} \subseteq range.prot)
<1>1. PICK seg \in Requests : range.image = <<seg>>
  BY DEF SpaceInv, Known
<1>2. range.seg \in Nat /\ range.seg >= 1 /\ range.seg <= Len(range.image)
  BY DEF SpaceInv, Known, Others, Ranges, MapFaults, Mapping
<1>3. range.seg = 1
  BY <1>1, <1>2
<1> QED
  BY <1>3 DEF MapFaults, LosesTable

\* vm_map of a readable and writable range on a page boundary returns, unless it
\* is not executable and map_page needs a new table for it.
THEOREM AlignedVmMapReturns == Spec => AlignedMapReturns
<1> DEFINE Excused ==
             \/ range.image[1].vaddr % PageSize # 0
             \/ range.image[1].memsz = 0
             \/ ~({"read", "write"} \subseteq range.prot)
             \/ /\ "exec" \notin range.prot
                /\ range.seg = 1
                /\ entry[range.space][Table(Address(Segment, range.page))] = 0
<1>1. Spec => []FirstMapped
  BY FirstMappedInit, FirstMappedStep, SpaceInvariant, PTL DEF Spec
<1>2. ASSUME SpaceInv, FirstMapped, [Next]_vars
      PROVE  [mode' = "fault" /\ range.kind = "vm" => Excused]_vars
  <2>1. CASE UNCHANGED vars
    BY <2>1
  <2>2. ASSUME Next, mode' = "fault", range.kind = "vm"
        PROVE  Excused
    <3>1. mode = "run"
      BY <2>2, RunsOnly
    <3>2. VmMapped \/ MapFaults
      BY <2>2, <3>1 DEF Next, HotCreateAndPushThread, HotExecElf, PushLoaded, MapPage, RangeMapped,
         OutOfFrames, VmMap, VmUnmap, SchedulerReturn, Idle
    <3>3. CASE VmMapped
      BY <1>2, <2>2, <3>1, <3>3, AlignedReadsBack
    <3>4. CASE MapFaults
      BY <1>2, <2>2, <3>4, WalkFaultsAtTable
    <3> QED
      BY <3>2, <3>3, <3>4
  <2> QED
    BY <1>2, <2>1, <2>2
<1> QED
  BY <1>1, <1>2, SpaceInvariant, PTL DEF Spec, AlignedMapReturns

-----------------------------------------------------------------------------
(* What is mapped is recorded.                                             *)

\* t's space holds pages of the program img and of ranges that are recorded in
\* t's array, and a table for every address recorded there.
UserOK(t, img) ==
    /\ \A p \in Pages : entry[t][<<"page", p>>] # 0 =>
          \/ p \in LoadPages(img)
          \/ \E k \in UsedIn(array[t]) : PageOf(array[t][k].addr) = p
    /\ \A k \in UsedIn(array[t]) :
          /\ Table(array[t][k].addr) \in Slots
          /\ entry[t][Table(array[t][k].addr)] # 0

\* For the threads with a program, and for the one that is being launched: the
\* thread that launches it is another one, and has no program.
RecInv ==
    /\ \A t \in live : image[t] # << >> => UserOK(t, image[t])
    /\ range.kind = "launch" =>
          /\ range.space \notin live
          /\ range.owner \in live /\ image[range.owner] = << >>
          /\ UserOK(range.space, range.image)

LEMMA RecInvGives == RecInv => MappedIsRecorded
  BY DEF RecInv, UserOK, MappedIsRecorded, RecordsWalk, UsedIn

\* What map_page does to the array: the used entries stay, and the new one holds
\* the address.
LEMMA RecordEntries ==
  ASSUME NEW arr, NEW n, ArrayOK(arr, n), NEW a \in Nat, NEW m, NEW new,
         new = Grow(Entered(arr, a), m)
  PROVE  /\ \A k \in UsedIn(arr) : k \in UsedIn(new) /\ new[k] = arr[k]
         /\ \E k \in UsedIn(new) : new[k].addr = a
         /\ \A k \in UsedIn(new) : (k \in UsedIn(arr) /\ new[k] = arr[k]) \/ new[k].addr = a
<1>1. PICK k \in DOMAIN arr : FirstUnused(arr) = {k} /\ ~arr[k].used
  BY FirstUnusedOne
<1> DEFINE e == Entered(arr, a)
<1>2. arr \in Seq(Entry) /\ Len(arr) \in Nat /\ DOMAIN arr = 1 .. Len(arr)
  BY UsedFinite DEF ArrayOK
<1>3. e \in [1 .. Len(arr) -> Entry]
  BY <1>2, ElementOfSeq DEF Entered, Entry
<1>4. e \in Seq(Entry) /\ Len(e) = Len(arr) /\ DOMAIN e = DOMAIN arr
  BY <1>2, <1>3, FunctionIsSeq
<1>5. /\ e[k] = [addr |-> a, used |-> TRUE]
      /\ \A i \in DOMAIN arr : i # k => e[i] = arr[i]
  BY <1>1 DEF Entered
<1> HIDE DEF e
<1>6. /\ \A i \in DOMAIN e : i \in DOMAIN new /\ new[i] = e[i]
      /\ \A i \in DOMAIN new : i \in DOMAIN e \/ ~new[i].used
  <2>1. CASE m # Len(e)
    BY <2>1 DEF Grow, e
  <2>2. CASE m = Len(e)
    <3> DEFINE more == [i \in 1 .. Step |-> Unused]
    <3>1. Unused \in Entry /\ ~Unused.used
      BY DEF Unused, Entry
    <3>2. more \in [1 .. Step -> Entry] /\ Step \in Nat \ {0}
      BY <3>1, AddressSpaceAssumption
    <3>3. more \in Seq(Entry) /\ Len(more) = Step
      BY <3>2, FunctionIsSeq
    <3>4. \A i \in 1 .. Step : more[i] = Unused
      OBVIOUS
    <3>5. new = e \o more
      BY <2>2 DEF Grow, e
    <3> HIDE DEF more
    <3> DEFINE both == e \o more
    <3>6. /\ both \in Seq(Entry) /\ Len(both) = Len(e) + Step
          /\ \A i \in 1 .. Len(e) + Step :
                both[i] = IF i <= Len(e) THEN e[i] ELSE more[i - Len(e)]
      BY <1>4, <3>3, ConcatProperties
    <3> HIDE DEF both
    <3>7. DOMAIN e = 1 .. Len(e) /\ DOMAIN both = 1 .. (Len(e) + Step) /\ Len(e) \in Nat
      BY <1>2, <1>4, <3>6, LenProperties
    <3>8. new = both
      BY <3>5 DEF both
    <3> QED
      BY <3>1, <3>2, <3>4, <3>6, <3>7, <3>8
  <2> QED
    BY <2>1, <2>2
<1>7. k \in UsedIn(new) /\ new[k].addr = a
  BY <1>1, <1>4, <1>5, <1>6 DEF UsedIn
<1>8. ASSUME NEW i \in UsedIn(arr)
      PROVE  i \in UsedIn(new) /\ new[i] = arr[i]
  <2>1. i \in DOMAIN arr /\ arr[i].used /\ i # k
    BY <1>1 DEF UsedIn
  <2> QED
    BY <1>4, <1>5, <1>6, <2>1 DEF UsedIn
<1>9. ASSUME NEW i \in UsedIn(new)
      PROVE  (i \in UsedIn(arr) /\ new[i] = arr[i]) \/ new[i].addr = a
  <2>1. i \in DOMAIN arr /\ new[i] = e[i] /\ new[i].used
    BY <1>4, <1>6 DEF UsedIn
  <2> QED
    BY <1>5, <1>7, <2>1 DEF UsedIn
<1> QED
  BY <1>7, <1>8, <1>9

\* map_page fills one page, and its table is there afterwards.
LEMMA InstallPages ==
  ASSUME FramesOK, NEW t \in Threads, NEW a, Page(a) \in Slots, Table(a) \in Slots, Install(t, a)
  PROVE  /\ entry'[t][Table(a)] # 0
         /\ \A s \in Slots : entry[t][s] # 0 => entry'[t][s] # 0
         /\ \A p \in Pages : entry'[t][<<"page", p>>] # 0 =>
               p = PageOf(a) \/ entry[t][<<"page", p>>] # 0
<1>1. PICK f \in free :
        \/ entry[t][Table(a)] # 0 /\ entry' = [entry EXCEPT ![t][Page(a)] = f]
        \/ \E g \in free : entry' = [entry EXCEPT ![t][Page(a)] = f, ![t][Table(a)] = g]
  BY DEF Install, Lowest
<1>2. \A g \in free : g # 0
  BY FreeIsNowhere
<1>3. Page(a) # Table(a)
  BY DEF Page, Table
<1>4. entry'[t][Table(a)] # 0 /\ \A s \in Slots : entry[t][s] # 0 => entry'[t][s] # 0
  BY <1>1, <1>2, <1>3 DEF FramesOK
<1>5. ASSUME NEW p \in Pages, p # PageOf(a)
      PROVE  entry'[t][<<"page", p>>] = entry[t][<<"page", p>>]
  <2>1. <<"page", p>> \in Slots /\ <<"page", p>> # Page(a) /\ <<"page", p>> # Table(a)
    BY <1>5 DEF Slots, Page, Table
  <2> QED
    BY <2>1, InstallElsewhere
<1> QED
  BY <1>4, <1>5

LEMMA MapPageRec ==
  ASSUME SpaceInv, RecInv, MapPage
  PROVE  RecInv'
<1> USE DEF SpaceInv
<1> DEFINE a == Address(Segment, range.page)
           c == range.space
           o == range.owner
<1>1. /\ range.kind # "none" /\ range.seg <= Len(range.image)
      /\ range.page < LoadCount(Segment)
      /\ Install(c, a)
      /\ Record(o, a)
      /\ range' = [range EXCEPT !.page = @ + 1]
      /\ UNCHANGED <<live, image>>
  BY DEF MapPage, Mapping
<1>2. /\ Segment \in Segs /\ Segment \in Segments
      /\ a \in Nat /\ c \in Threads /\ o \in Threads /\ range.page \in Nat
  BY <1>1, SegmentTyped, AddressNat
<1>3. LoadCount(Segment) \in Nat
  BY <1>2, UnloadBound
<1>4. range.page \in 0 .. LoadCount(Segment) + 1 /\ range.page \in 0 .. LoadCount(Segment) - 1
  BY <1>1, <1>2, <1>3
<1>5. Page(a) \in Slots /\ Table(a) \in Slots
  BY <1>2, <1>4, PageInSlots
<1>6. /\ range'.kind = range.kind /\ range'.image = range.image
      /\ range'.owner = o /\ range'.space = c
  BY <1>1 DEF Others, Ranges
<1> HIDE DEF a
<1>7. /\ entry'[c][Table(a)] # 0
      /\ \A s \in Slots : entry[c][s] # 0 => entry'[c][s] # 0
      /\ \A p \in Pages : entry'[c][<<"page", p>>] # 0 =>
            p = PageOf(a) \/ entry[c][<<"page", p>>] # 0
  BY <1>1, <1>2, <1>5, InstallPages
<1>8. \A u \in Threads : u # c => entry'[u] = entry[u]
  BY <1>1 DEF Install, FramesOK
<1>9. \A u \in Threads : u # o => array'[u] = array[u]
  BY <1>1, <1>2 DEF Record, Arrays
<1>10. CASE range.kind = "launch"
  <2>1. /\ c \notin live /\ o \in live /\ image[o] = << >> /\ UserOK(c, range.image)
        /\ o # c
    BY <1>10 DEF RecInv
  <2>2. ASSUME NEW t \in live, image[t] # << >>
        PROVE  UserOK(t, image[t])'
    <3>1. t # c /\ t # o /\ t \in Threads
      BY <2>1, <2>2 DEF Others
    <3>2. entry'[t] = entry[t] /\ array'[t] = array[t] /\ image'[t] = image[t]
      BY <1>1, <1>8, <1>9, <3>1
    <3>3. UserOK(t, image[t])
      BY <2>2 DEF RecInv
    <3> QED
      BY <1>1, <3>3, <3>2 DEF UserOK, UsedIn, Table, RegionOf, PageOf, LoadPages
  <2>3. UserOK(c, range.image)'
    <3>1. PageOf(a) \in LoadPages(range.image)
      <4>1. range.seg \in DOMAIN range.image
        <5>1. range.seg \in Nat /\ range.image \in Seq(Segs)
          BY DEF Others, Ranges, Segs
        <5> QED
          BY <1>1, <5>1, LenProperties DEF Known
      <4> QED
        BY <1>4, <4>1 DEF LoadPages, a, Segment
    <3>2. array'[c] = array[c]
      BY <1>2, <1>9, <2>1
    <3> QED
      BY <1>6, <1>7, <2>1, <3>1, <3>2 DEF UserOK
  <2> QED
    BY <1>1, <1>6, <2>1, <2>2, <2>3 DEF RecInv
<1>11. CASE range.kind = "vm"
  <2>1. o = c
    BY <1>11 DEF Known
  <2>2. ASSUME NEW t \in live, image[t] # << >>
        PROVE  UserOK(t, image[t])'
    <3>1. t \in Threads /\ UserOK(t, image[t])
      BY <2>2 DEF RecInv, Others
    <3>2. CASE t # c
      <4>1. entry'[t] = entry[t] /\ array'[t] = array[t]
        BY <1>8, <1>9, <2>1, <3>1, <3>2
      <4> QED
        BY <1>1, <3>1, <4>1 DEF UserOK, UsedIn, Table, RegionOf, PageOf, LoadPages
    <3>3. CASE t = c
      <4>1. ArrayOK(array[c], num[c])
        BY <1>2 DEF Arrays
      <4>2. PICK m : array'[c] = Grow(Entered(array[c], a), m)
        BY <1>1, <1>2, <2>1 DEF Record, Arrays
      <4>3. /\ \A k \in UsedIn(array[c]) : k \in UsedIn(array'[c]) /\ array'[c][k] = array[c][k]
            /\ \E k \in UsedIn(array'[c]) : array'[c][k].addr = a
            /\ \A k \in UsedIn(array'[c]) :
                  (k \in UsedIn(array[c]) /\ array'[c][k] = array[c][k]) \/ array'[c][k].addr = a
        BY <1>2, <4>1, <4>2, RecordEntries
      <4>4. ASSUME NEW p \in Pages, entry'[c][<<"page", p>>] # 0
            PROVE  \/ p \in LoadPages(image[c])
                   \/ \E k \in UsedIn(array'[c]) : PageOf(array'[c][k].addr) = p
        <5>1. CASE p = PageOf(a)
          BY <4>3, <5>1
        <5>2. CASE p # PageOf(a)
          <6>1. entry[c][<<"page", p>>] # 0
            BY <1>7, <4>4, <5>2
          <6> QED
            BY <3>1, <3>3, <4>3, <6>1 DEF UserOK
        <5> QED
          BY <5>1, <5>2
      <4>5. ASSUME NEW k \in UsedIn(array'[c])
            PROVE  /\ Table(array'[c][k].addr) \in Slots
                   /\ entry'[c][Table(array'[c][k].addr)] # 0
        <5>1. CASE array'[c][k].addr = a
          BY <1>5, <1>7, <5>1
        <5>2. CASE k \in UsedIn(array[c]) /\ array'[c][k] = array[c][k]
          <6>1. /\ Table(array[c][k].addr) \in Slots
                /\ entry[c][Table(array[c][k].addr)] # 0
            BY <3>1, <3>3, <5>2 DEF UserOK
          <6> QED
            BY <1>7, <5>2, <6>1
        <5> QED
          BY <4>3, <5>1, <5>2
      <4> QED
        BY <1>1, <3>3, <4>4, <4>5 DEF UserOK
    <3> QED
      BY <3>2, <3>3
  <2> QED
    BY <1>1, <1>6, <1>11, <2>2 DEF RecInv
<1>12. range.kind \in {"launch", "vm"}
  BY <1>1 DEF Others, Ranges
<1> QED
  BY <1>10, <1>11, <1>12

\* A step that leaves t's pages and array alone.
LEMMA UserKept ==
  ASSUME NEW t \in Threads, image'[t] = image[t], entry'[t] = entry[t], array'[t] = array[t],
         UserOK(t, image[t])
  PROVE  UserOK(t, image[t])'
  BY DEF UserOK, UsedIn, Table, RegionOf, PageOf, LoadPages

LEMMA UnmapRec ==
  ASSUME SpaceInv, RecInv, NEW t \in Threads, NEW seg \in Requests, VmUnmap(t, seg)
  PROVE  RecInv'
<1> USE DEF SpaceInv
<1> DEFINE A == {Address(seg, j) : j \in 0 .. UnmapCount(seg) - 1}
<1>1. UNCHANGED <<free, live, image, range>> /\ range.kind = "none"
  BY DEF VmUnmap, Idle
<1>2. SUFFICES ASSUME NEW u \in live, image[u] # << >>
               PROVE  UserOK(u, image[u])'
  BY <1>1 DEF RecInv
<1>3. u \in Threads /\ UserOK(u, image[u])
  BY <1>2 DEF RecInv, Others
<1>4. CASE UNCHANGED <<entry, array>>
  BY <1>1, <1>3, <1>4, UserKept
<1>5. CASE /\ entry' = [entry EXCEPT ![t] = [s \in Slots |-> IF Unmapped(A, s) THEN 0 ELSE @[s]]]
           /\ array' = [array EXCEPT ![t] = Cleared(@, A)]
  <2> HIDE DEF A
  <2>1. CASE u # t
    <3>1. entry'[u] = entry[u] /\ array'[u] = array[u]
      BY <1>3, <1>5, <2>1 DEF FramesOK, Arrays
    <3> QED
      BY <1>1, <1>3, <3>1, UserKept
  <2>2. CASE u = t
    <3>1. \A s \in Slots : entry'[t][s] = IF Unmapped(A, s) THEN 0 ELSE entry[t][s]
      BY <1>5 DEF FramesOK
    <3>2. array'[t] = Cleared(array[t], A)
      BY <1>5 DEF Arrays
    <3>3. /\ \A k \in DOMAIN array[t] :
                array'[t][k] = IF k \in Forgotten(array[t], A) THEN Unused ELSE array[t][k]
          /\ DOMAIN array'[t] = DOMAIN array[t]
      BY <3>2 DEF Cleared
    <3>4. ASSUME NEW k \in UsedIn(array'[t])
          PROVE  k \in UsedIn(array[t]) /\ array'[t][k] = array[t][k]
      BY <3>3 DEF UsedIn, Unused
    <3>5. ASSUME NEW k \in UsedIn(array[t]), array[t][k].addr \notin A
          PROVE  k \in UsedIn(array'[t]) /\ array'[t][k] = array[t][k]
      BY <3>3, <3>5 DEF UsedIn, Forgotten
    <3>6. ASSUME NEW p \in Pages, entry'[t][<<"page", p>>] # 0
          PROVE  \/ p \in LoadPages(image[t])
                 \/ \E k \in UsedIn(array'[t]) : PageOf(array'[t][k].addr) = p
      <4>1. <<"page", p>> \in Slots
        BY DEF Slots
      <4>2. entry[t][<<"page", p>>] # 0 /\ ~Unmapped(A, <<"page", p>>)
        BY <3>1, <3>6, <4>1
      <4>3. \A x \in A : PageOf(x) # p
        BY <4>2 DEF Unmapped, Page
      <4>4. CASE \E k \in UsedIn(array[t]) : PageOf(array[t][k].addr) = p
        BY <3>5, <4>3, <4>4
      <4> QED
        BY <1>3, <2>2, <4>2, <4>4 DEF UserOK
    <3>7. ASSUME NEW k \in UsedIn(array'[t])
          PROVE  /\ Table(array'[t][k].addr) \in Slots
                 /\ entry'[t][Table(array'[t][k].addr)] # 0
      <4> DEFINE s == Table(array[t][k].addr)
      <4>1. s \in Slots /\ entry[t][s] # 0 /\ array'[t][k] = array[t][k]
        BY <1>3, <2>2, <3>4 DEF UserOK
      <4>2. ~Unmapped(A, s)
        BY DEF Unmapped, Page, Table
      <4> QED
        BY <3>1, <4>1, <4>2
    <3> QED
      BY <1>1, <2>2, <3>6, <3>7 DEF UserOK
  <2> QED
    BY <2>1, <2>2
<1> QED
  BY <1>4, <1>5 DEF VmUnmap

LEMMA RecInit == Init => RecInv
<1> SUFFICES ASSUME Init
             PROVE  RecInv
  OBVIOUS
<1>1. /\ \A t \in live : image[t] = << >>
      /\ range.kind = "none"
  BY DEF Init
<1> QED
  BY <1>1 DEF RecInv

\* A new space: nothing is mapped and nothing is recorded.
LEMMA NewSpaceRec ==
  ASSUME SpaceInv, NEW c \in Threads, NewSpace(c)
  PROVE  /\ \A img : UserOK(c, img)'
         /\ \A t \in Threads : t # c => entry'[t] = entry[t] /\ array'[t] = array[t]
<1> USE DEF SpaceInv
<1>1. PICK f : entry' = [entry EXCEPT ![c] = [NoEntries EXCEPT ![Root] = f]]
  BY DEF NewSpace
<1>2. array' = [array EXCEPT ![c] = [i \in 1 .. Step |-> Unused]]
  BY DEF NewSpace
<1>3. array'[c] = [i \in 1 .. Step |-> Unused]
  BY <1>2 DEF Arrays
<1>4. UsedIn(array'[c]) = {}
  BY <1>3 DEF UsedIn, Unused
<1>5. \A p \in Pages : entry'[c][<<"page", p>>] = 0
  <2>1. \A p \in Pages : <<"page", p>> \in Slots /\ <<"page", p>> # Root
    BY DEF Slots, Root
  <2> QED
    BY <1>1, <2>1 DEF FramesOK, NoEntries
<1>6. \A img : UserOK(c, img)'
  BY <1>4, <1>5 DEF UserOK
<1> QED
  BY <1>1, <1>2, <1>6 DEF FramesOK, Arrays

LEMMA RecStep ==
  ASSUME SpaceInv, RecInv, [Next]_vars
  PROVE  RecInv'
<1> USE DEF SpaceInv
<1>1. CASE MapPage
  BY <1>1, MapPageRec
<1>2. ASSUME NEW t \in Threads, NEW seg \in Requests, VmUnmap(t, seg)
      PROVE  RecInv'
  BY <1>2, UnmapRec
<1>3. ASSUME NEW t \in Threads, NEW c \in Threads, HotCreateAndPushThread(t, c)
      PROVE  RecInv'
  <2>1. /\ NewSpace(c) /\ c \notin live /\ live' = live \cup {c}
        /\ image' = [image EXCEPT ![c] = << >>] /\ range' = range /\ range.kind = "none"
    BY <1>3 DEF HotCreateAndPushThread, Idle
  <2>2. image'[c] = << >> /\ \A u \in Threads : u # c => image'[u] = image[u]
    BY <2>1 DEF Others
  <2>3. ASSUME NEW u \in live', image'[u] # << >>
        PROVE  UserOK(u, image[u])'
    <3>1. u \in live /\ u # c /\ u \in Threads
      BY <2>1, <2>2, <2>3 DEF Others
    <3>2. entry'[u] = entry[u] /\ array'[u] = array[u] /\ image'[u] = image[u]
      BY <2>1, <2>2, <3>1, NewSpaceRec
    <3>3. UserOK(u, image[u])
      BY <2>3, <3>1, <3>2 DEF RecInv
    <3> QED
      BY <3>1, <3>2, <3>3, UserKept
  <2> QED
    BY <2>1, <2>3 DEF RecInv
<1>4. ASSUME NEW t \in Threads, NEW c \in Threads, NEW img \in Images, HotExecElf(t, c, img)
      PROVE  RecInv'
  <2>1. /\ NewSpace(c) /\ c \notin live /\ t \in live /\ image[t] = << >>
        /\ range' = [kind |-> "launch", owner |-> t, space |-> c, image |-> img, seg |-> 1, page |-> 0,
                      prot |-> Prot]
        /\ live' = live /\ image' = image
    BY <1>4 DEF HotExecElf
  <2>2. ASSUME NEW u \in live, image[u] # << >>
        PROVE  UserOK(u, image[u])'
    <3>1. u # c /\ u \in Threads
      BY <2>1 DEF Others
    <3>2. entry'[u] = entry[u] /\ array'[u] = array[u] /\ image'[u] = image[u]
      BY <2>1, <3>1, NewSpaceRec
    <3>3. UserOK(u, image[u])
      BY <2>2 DEF RecInv
    <3> QED
      BY <3>1, <3>2, <3>3, UserKept
  <2>3. UserOK(range.space, range.image)'
    BY <2>1, NewSpaceRec
  <2> QED
    BY <2>1, <2>2, <2>3 DEF RecInv
<1>5. CASE PushLoaded
  <2>1. /\ range.kind = "launch" /\ live' = live \cup {range.space}
        /\ image' = [image EXCEPT ![range.space] = range.image]
        /\ range' = [range EXCEPT !.kind = "none"]
        /\ entry' = entry /\ array' = array
    BY <1>5 DEF PushLoaded
  <2>2. /\ range.space \notin live /\ range.space \in Threads /\ UserOK(range.space, range.image)
        /\ range'.kind = "none"
    BY <2>1 DEF RecInv, Others, Ranges
  <2>3. ASSUME NEW u \in live', image'[u] # << >>
        PROVE  UserOK(u, image[u])'
    <3>1. CASE u = range.space
      <4>1. image'[u] = range.image
        BY <2>1, <2>2, <3>1 DEF Others
      <4> QED
        BY <2>1, <2>2, <3>1, <4>1 DEF UserOK
    <3>2. CASE u # range.space
      <4>1. u \in live /\ u \in Threads /\ image'[u] = image[u]
        BY <2>1, <3>2 DEF Others
      <4>2. UserOK(u, image[u])
        BY <2>3, <4>1 DEF RecInv
      <4> QED
        BY <2>1, <4>1, <4>2, UserKept
    <3> QED
      BY <3>1, <3>2
  <2> QED
    BY <2>2, <2>3 DEF RecInv
<1>6. ASSUME NEW t \in Threads, SchedulerReturn(t)
      PROVE  RecInv'
  <2>1. /\ range' = range /\ range.kind = "none" /\ image' = image /\ array' = array
        /\ live' \subseteq live
        /\ \A u \in live' : entry'[u] = entry[u]
    BY <1>6 DEF SchedulerReturn, Idle, FramesOK, Others
  <2>2. ASSUME NEW u \in live', image'[u] # << >>
        PROVE  UserOK(u, image[u])'
    <3>1. u \in Threads /\ UserOK(u, image[u])
      BY <2>1, <2>2 DEF RecInv, Others
    <3> QED
      BY <2>1, <3>1, UserKept
  <2> QED
    BY <2>1, <2>2 DEF RecInv
<1>7. CASE RangeMapped \/ MapFaults \/ OutOfFrames \/ VmMapped \/ UNCHANGED vars
  <2>1. /\ UNCHANGED <<live, image, entry, array>>
        /\ range' = range \/ range' = [range EXCEPT !.seg = @ + 1, !.page = 0]
           \/ range' = [range EXCEPT !.kind = "none"]
    BY <1>7 DEF RangeMapped, MapFaults, OutOfFrames, VmMapped, vars
  <2>2. \/ range'.kind = "none"
        \/ /\ range'.kind = range.kind /\ range'.image = range.image
           /\ range'.owner = range.owner /\ range'.space = range.space
    BY <2>1 DEF Others, Ranges
  <2> QED
    BY <2>1, <2>2 DEF RecInv, UserOK
<1>8. ASSUME NEW t \in Threads, NEW seg \in Requests, NEW prot \in SUBSET Prot,
             VmMap(t, seg, prot)
      PROVE  RecInv'
  <2>1. UNCHANGED <<live, image, entry, array>> /\ range'.kind = "vm"
    BY <1>8 DEF VmMap
  <2> QED
    BY <2>1 DEF RecInv, UserOK
<1> QED
  BY <1>1, <1>2, <1>3, <1>4, <1>5, <1>6, <1>7, <1>8 DEF Next

\* scheduler_return and vm_unmap can rely on the array: every page of a thread is
\* its program's or recorded, and no recorded address lacks its table.
THEOREM MappedAreRecorded == Spec => []MappedIsRecorded
<1>1. RecInv => MappedIsRecorded
  BY RecInvGives
<1> QED
  BY <1>1, RecInit, RecStep, SpaceInvariant, PTL DEF Spec
=============================================================================
