---------------------------- MODULE FramesProofs ----------------------------
(***************************************************************************)
(* The frame allocator hands out no frame twice and loses none, for every  *)
(* sorted memory map that fits the arrays; and free_frame returns but for  *)
(* a frame right behind a seam.                                            *)
(***************************************************************************)
EXTENDS Frames, TLAPS

FInv == TypeOK /\ MarkedIsOwned

\* The regions are disjoint: a frame lies in one of them, at one index.
LEMMA FrameUnique ==
  ASSUME NEW q \in Regions, NEW i \in Indices(q), NEW r \in Regions, NEW j \in Indices(r),
         Base[q] + i = Base[r] + j
  PROVE  q = r /\ i = j
<1>1. /\ q \in Nat /\ r \in Nat
      /\ Base[q] \in Nat /\ Length[q] \in Nat /\ Base[r] \in Nat /\ Length[r] \in Nat
      /\ i \in Nat /\ i < Length[q] /\ j \in Nat /\ j < Length[r]
  BY FramesAssumption DEF Regions, Indices
<1>2. ~(q < r) /\ ~(r < q)
  BY <1>1, FramesAssumption
<1> QED
  BY <1>1, <1>2

\* The walk of free_frame ends in the region of the frame, or before it in a
\* region that does not claim the frame and that it never leaves.
LEMMA WalkEnds ==
  ASSUME NEW r \in Regions, NEW i \in Indices(r), NEW s \in Regions,
         StopsAt(s, Base[r] + i)
  PROVE  \/ s = r /\ (s = NumRegions \/ Claims(s, Base[r] + i))
         \/ s < NumRegions /\ ~Claims(s, Base[r] + i)
<1>1. /\ r \in Nat /\ s \in Nat /\ 1 <= r /\ r <= NumRegions /\ 1 <= s /\ s <= NumRegions
      /\ NumRegions \in Nat /\ Base[r] \in Nat /\ Length[r] \in Nat
      /\ i \in Nat /\ i < Length[r]
  BY FramesAssumption DEF Regions, Indices
<1>2. ~MovesOn(r, Base[r] + i)
  BY <1>1 DEF MovesOn
<1>3. s <= r
  BY <1>1, <1>2 DEF StopsAt
<1>4. CASE s = r
  <2>1. CASE r < NumRegions
    <3>1. r + 1 \in Regions /\ Base[r + 1] \in Nat /\ Base[r] + Length[r] <= Base[r + 1]
      BY <1>1, <2>1, FramesAssumption DEF Regions
    <3> QED
      BY <1>1, <1>4, <2>1, <3>1 DEF Claims
  <2> QED
    BY <1>1, <1>4, <2>1
<1>5. CASE s < r
  <2>1. s + 1 \in Regions /\ Base[s + 1] \in Nat /\ Base[s + 1] <= Base[r]
    <3>1. s + 1 \in Regions /\ Base[s + 1] \in Nat /\ Length[s + 1] \in Nat
      BY <1>1, <1>5, FramesAssumption DEF Regions
    <3>2. CASE s + 1 = r
      BY <1>1, <3>1, <3>2
    <3>3. CASE s + 1 < r
      BY <1>1, <3>1, <3>3, FramesAssumption
    <3> QED
      BY <1>1, <1>5, <3>1, <3>2, <3>3
  <2> QED
    BY <1>1, <1>5, <2>1 DEF Claims
<1> QED
  BY <1>1, <1>3, <1>4, <1>5

-----------------------------------------------------------------------------

LEMMA InitFInv == Init => FInv
<1> SUFFICES ASSUME Init PROVE FInv
  OBVIOUS
<1>1. \A r \in Regions : Length[r] \in Nat
  BY FramesAssumption
<1> QED
  BY <1>1 DEF Init, FInv, TypeOK, MarkedIsOwned, Indices

\* The maps with one byte set.
SetByte(r, k, v) == [bitmap EXCEPT ![r][k] = v]

LEMMA SetByteTyped ==
  ASSUME FInv, NEW r \in Regions, NEW k \in Int, NEW v \in {0, 1, 2}
  PROVE  /\ DOMAIN SetByte(r, k, v) = Regions
         /\ \A q \in Regions : SetByte(r, k, v)[q] \in [0 .. Length[q] -> {0, 1, 2}]
         /\ \A q \in Regions : \A j \in Indices(q) :
               SetByte(r, k, v)[q][j] = IF q = r /\ j = k THEN v ELSE bitmap[q][j]
<1>1. DOMAIN bitmap = Regions /\ \A q \in Regions : bitmap[q] \in [0 .. Length[q] -> {0, 1, 2}]
  BY DEF FInv, TypeOK
<1>2. /\ DOMAIN SetByte(r, k, v) = Regions
      /\ \A q \in Regions :
            SetByte(r, k, v)[q] = IF q = r THEN [bitmap[r] EXCEPT ![k] = v] ELSE bitmap[q]
  BY <1>1 DEF SetByte
<1>3. \A q \in Regions : \A j \in Indices(q) : j \in 0 .. Length[q]
  BY FramesAssumption DEF Indices
<1>4. \A q \in Regions : SetByte(r, k, v)[q] \in [0 .. Length[q] -> {0, 1, 2}]
  <2>1. bitmap[r] \in [0 .. Length[r] -> {0, 1, 2}]
    BY <1>1
  <2>2. [bitmap[r] EXCEPT ![k] = v] \in [0 .. Length[r] -> {0, 1, 2}]
    BY <2>1
  <2> QED
    BY <1>1, <1>2, <2>2
<1>5. \A q \in Regions : \A j \in Indices(q) :
         SetByte(r, k, v)[q][j] = IF q = r /\ j = k THEN v ELSE bitmap[q][j]
  BY <1>1, <1>2, <1>3
<1> QED
  BY <1>2, <1>4, <1>5

LEMMA AllocFInv ==
  ASSUME FInv, AllocFrame
  PROVE  FInv'
<1>0. PICK r \in Regions : \E i \in Indices(r) :
         /\ FirstFree(r, i)
         /\ bitmap' = [bitmap EXCEPT ![r][i] = 1]
         /\ owned' = owned \cup {Base[r] + i}
  BY DEF AllocFrame
<1>1. PICK i \in Indices(r) :
         /\ FirstFree(r, i)
         /\ bitmap' = [bitmap EXCEPT ![r][i] = 1]
         /\ owned' = owned \cup {Base[r] + i}
  BY <1>0
<1>2. mode' = mode /\ mode = "run" /\ r \in Usable
  BY <1>1 DEF AllocFrame, FirstFree, IsFree
<1>a. bitmap' = SetByte(r, i, 1) /\ i \in Int
  BY <1>1 DEF SetByte, Indices
<1>b. /\ DOMAIN bitmap' = Regions
      /\ \A q \in Regions : bitmap'[q] \in [0 .. Length[q] -> {0, 1, 2}]
  BY <1>a, SetByteTyped
<1>c. \A f \in owned' : \E q \in Usable : \E j \in Indices(q) : f = Base[q] + j
  BY <1>1, <1>2 DEF FInv, TypeOK
<1>3. TypeOK'
  BY <1>2, <1>b, <1>c DEF TypeOK
<1>4. \A q \in Regions : \A j \in Indices(q) :
         bitmap'[q][j] = IF q = r /\ j = i THEN 1 ELSE bitmap[q][j]
  BY <1>a, SetByteTyped
<1>5. ASSUME NEW q \in Regions, NEW j \in Indices(q)
      PROVE  bitmap'[q][j] = 1 <=> Base[q] + j \in owned'
  <2>1. bitmap[q][j] = 1 <=> Base[q] + j \in owned
    BY <1>2 DEF FInv, MarkedIsOwned
  <2>2. Base[q] + j = Base[r] + i => q = r /\ j = i
    BY FrameUnique
  <2> QED
    BY <1>1, <1>4, <2>1, <2>2
<1> QED
  BY <1>3, <1>5 DEF FInv, MarkedIsOwned

\* Clearing the byte at which the walk of free_frame(f) ends.
LEMMA ClearFInv ==
  ASSUME FInv, mode = "run", NEW f \in Nat, NEW s \in Regions, StopsAt(s, f),
         s = NumRegions \/ Claims(s, f),
         owned' = owned \ {f},
         bitmap' = SetByte(s, f - Base[s], 0),
         UNCHANGED mode
  PROVE  FInv'
<1> DEFINE k == f - Base[s]
<1>a. bitmap' = SetByte(s, k, 0) /\ k \in Int
  BY FramesAssumption
<1>b. /\ DOMAIN bitmap' = Regions
      /\ \A q \in Regions : bitmap'[q] \in [0 .. Length[q] -> {0, 1, 2}]
      /\ \A q \in Regions : \A j \in Indices(q) :
            bitmap'[q][j] = IF q = s /\ j = k THEN 0 ELSE bitmap[q][j]
  <2> HIDE DEF k
  <2> QED
    BY <1>a, SetByteTyped
<1>1. TypeOK'
  BY <1>b DEF FInv, TypeOK
<1>2. \A q \in Regions : \A j \in Indices(q) :
         bitmap'[q][j] = IF q = s /\ j = f - Base[s] THEN 0 ELSE bitmap[q][j]
  BY <1>b
<1>3. ASSUME NEW q \in Regions, NEW j \in Indices(q)
      PROVE  bitmap'[q][j] = 1 <=> Base[q] + j \in owned'
  <2>1. bitmap[q][j] = 1 <=> Base[q] + j \in owned
    BY DEF FInv, MarkedIsOwned
  <2>2. Base[q] \in Nat /\ j \in Nat /\ Base[s] \in Nat
    BY FramesAssumption DEF Indices
  <2>3. CASE Base[q] + j = f
    <3>1. s = q
      BY <2>3, WalkEnds, FramesAssumption
    <3> QED
      BY <1>2, <2>2, <2>3, <3>1
  <2>4. CASE Base[q] + j # f
    <3>1. bitmap'[q][j] = bitmap[q][j] \/ bitmap'[q][j] = 0
      BY <1>2
    <3>2. bitmap[q][j] = 1 => bitmap'[q][j] = 1
      <4> SUFFICES ASSUME bitmap[q][j] = 1, q = s, j = f - Base[s]
                   PROVE  FALSE
        BY <1>2
      <4> QED
        BY <2>2, <2>4
    <3> QED
      BY <2>1, <2>4, <3>1, <3>2
  <2> QED
    BY <2>3, <2>4
<1> QED
  BY <1>1, <1>3 DEF FInv, MarkedIsOwned

LEMMA FreeFInv ==
  ASSUME FInv, NEW f \in owned \cup {0}, FreeFrame(f)
  PROVE  FInv' /\ (mode' = "asserted" => UNCHANGED owned)
<1>1. mode = "run" /\ owned' = owned \ {f}
  BY DEF FreeFrame
<1>2. PICK s \in Regions :
        /\ StopsAt(s, f)
        /\ \/ /\ s = NumRegions \/ (Claims(s, f) /\ bitmap[s][f - Base[s]] # 0)
              /\ bitmap' = [bitmap EXCEPT ![s][f - Base[s]] = 0]
              /\ UNCHANGED mode
           \/ /\ Claims(s, f)
              /\ bitmap[s][f - Base[s]] = 0
              /\ mode' = "asserted"
              /\ UNCHANGED bitmap
           \/ /\ s < NumRegions /\ ~Claims(s, f)
              /\ mode' = "hung"
              /\ UNCHANGED bitmap
  BY DEF FreeFrame
<1>a. f \in Nat
  BY FramesAssumption DEF FInv, TypeOK, Indices
<1>3. ASSUME UNCHANGED mode, bitmap' = [bitmap EXCEPT ![s][f - Base[s]] = 0],
             s = NumRegions \/ Claims(s, f)
      PROVE  FInv'
  <2>1. bitmap' = SetByte(s, f - Base[s], 0)
    BY <1>3 DEF SetByte
  <2> QED
    BY <1>1, <1>2, <1>3, <1>a, <2>1, ClearFInv
<1>4. ASSUME UNCHANGED bitmap, mode' = "asserted" \/ mode' = "hung"
      PROVE  FInv'
  BY <1>1, <1>4 DEF FInv, TypeOK, MarkedIsOwned
<1>5. ASSUME Claims(s, f), bitmap[s][f - Base[s]] = 0
      PROVE  f \notin owned
  <2> SUFFICES ASSUME f \in owned PROVE FALSE
    OBVIOUS
  <2>0. PICK r \in Regions : \E i \in Indices(r) : f = Base[r] + i
    BY FramesAssumption DEF FInv, TypeOK
  <2>1. PICK i \in Indices(r) : f = Base[r] + i
    BY <2>0
  <2>2. s = r
    BY <1>2, <1>5, <2>1, WalkEnds
  <2>3. f - Base[s] = i
    BY <2>1, <2>2, FramesAssumption DEF Indices
  <2> QED
    BY <1>1, <1>5, <2>1, <2>2, <2>3 DEF FInv, MarkedIsOwned
<1>6. mode' = "asserted" => UNCHANGED owned
  BY <1>1, <1>2, <1>5
<1> QED
  BY <1>2, <1>3, <1>4, <1>6

LEMMA NextFInv == FInv /\ [Next]_vars => FInv' /\ [mode' = "asserted" => UNCHANGED owned]_vars
<1> SUFFICES ASSUME FInv, [Next]_vars
             PROVE  FInv' /\ [mode' = "asserted" => UNCHANGED owned]_vars
  OBVIOUS
<1>1. CASE AllocFrame
  BY <1>1, AllocFInv DEF AllocFrame
<1>2. ASSUME NEW f \in owned \cup {0}, FreeFrame(f)
      PROVE  FInv' /\ (mode' = "asserted" => UNCHANGED owned)
  BY <1>2, FreeFInv
<1>3. CASE UNCHANGED vars
  BY <1>3 DEF FInv, TypeOK, MarkedIsOwned, vars
<1> QED
  BY <1>1, <1>2, <1>3 DEF Next

\* No frame is handed out twice and none is lost, for every sorted memory map that
\* fits the kernel's arrays.
THEOREM FramesCorrect == Spec => [](TypeOK /\ MarkedIsOwned)
  BY InitFInv, NextFInv, PTL DEF Spec, FInv

\* The assertion of free_frame stops the kernel only for a frame nobody owns.
THEOREM AlarmsAreTrue == Spec => NoFalseAlarm
  BY InitFInv, NextFInv, PTL DEF Spec, NoFalseAlarm

-----------------------------------------------------------------------------

\* The walk is never past the address.
LEMMA WalkReached ==
  ASSUME NEW f \in Nat, NEW s \in Regions, StopsAt(s, f), s > 1
  PROVE  f >= Base[s]
<1>1. /\ s \in Nat /\ s - 1 \in Regions /\ s - 1 \in 1 .. s - 1 /\ (s - 1) + 1 = s
      /\ Base[s] \in Nat /\ Base[s - 1] \in Nat /\ Length[s - 1] \in Nat
  BY FramesAssumption DEF Regions
<1>2. MovesOn(s - 1, f)
  BY <1>1 DEF StopsAt
<1> QED
  BY <1>1, <1>2 DEF MovesOn, Claims

\* A region that neither claims the address nor moves on ends at a seam.
LEMMA StuckAtSeam ==
  ASSUME NEW f \in Nat, NEW s \in Regions, StopsAt(s, f), s < NumRegions, ~Claims(s, f)
  PROVE  f < Base[1] \/ (Seam(s) /\ f = Base[s + 1])
<1>1. /\ s \in Nat /\ 1 <= s /\ s + 1 \in Regions /\ s + 1 \in Nat
      /\ Base[s] \in Nat /\ Length[s] \in Nat /\ Base[s + 1] \in Nat
      /\ Base[s] + Length[s] <= Base[s + 1]
  BY FramesAssumption DEF Regions
<1>2. f <= Base[s] + Length[s]
  BY <1>1 DEF StopsAt, MovesOn
<1>3. CASE f >= Base[s]
  BY <1>1, <1>2, <1>3 DEF Claims, Seam
<1>4. CASE f < Base[s]
  BY <1>1, <1>4, WalkReached
<1> QED
  BY <1>1, <1>3, <1>4

\* On every such memory map free_frame returns, but for a frame right behind a seam.
THEOREM ReturnsButAtSeam == Spec => HangsOnlyAtSeam
<1> DEFINE AtSeam == \E f \in owned \cup {0} :
              /\ owned' = owned \ {f}
              /\ f < Base[1] \/ \E q \in Regions : Seam(q) /\ f = Base[q + 1]
<1>1. FInv /\ [Next]_vars => [mode' = "hung" => AtSeam]_vars
  <2> SUFFICES ASSUME FInv, Next, mode' = "hung"
               PROVE  AtSeam
    OBVIOUS
  <2>1. ~AllocFrame
    BY DEF AllocFrame
  <2>2. PICK f \in owned \cup {0} : FreeFrame(f)
    BY <2>1 DEF Next
  <2>3. f \in Nat
    BY FramesAssumption DEF FInv, TypeOK, Indices
  <2>4. PICK s \in Regions : StopsAt(s, f) /\ s < NumRegions /\ ~Claims(s, f)
    BY <2>2 DEF FreeFrame
  <2>5. f < Base[1] \/ (Seam(s) /\ f = Base[s + 1])
    BY <2>3, <2>4, StuckAtSeam
  <2> QED
    BY <2>2, <2>5 DEF FreeFrame
<1> QED
  BY <1>1, InitFInv, NextFInv, PTL DEF Spec, HangsOnlyAtSeam

-----------------------------------------------------------------------------
(* The regions are one pool.                                               *)

LEMMA UsableFrame ==
  ASSUME NEW f
  PROVE  f \in UsableFrames <=> \E r \in Usable : \E i \in Indices(r) : f = Base[r] + i
BY DEF UsableFrames

LEMMA FreeIs ==
  ASSUME NEW f
  PROVE  f \in FreeFrames <=>
            \E r \in Usable : \E i \in Indices(r) : f = Base[r] + i /\ bitmap[r][i] = 0
BY DEF FreeFrames, IsFree

LEMMA FreeIsNext ==
  ASSUME NEW f
  PROVE  f \in FreeFrames' <=>
            \E r \in Usable : \E i \in Indices(r) : f = Base[r] + i /\ bitmap'[r][i] = 0
BY DEF FreeFrames, IsFree

LEMMA PoolSame == bitmap' = bitmap => FreeFrames' = FreeFrames
<1>1. ASSUME bitmap' = bitmap, NEW f
      PROVE  f \in FreeFrames' <=> f \in FreeFrames
  BY <1>1, FreeIs, FreeIsNext, Zenon
<1> QED
  BY <1>1

\* init_memmaps makes every usable frame free.
LEMMA InitPool == Init => OnePool!PoolInit
<1> SUFFICES ASSUME Init PROVE FreeFrames = UsableFrames
  BY DEF OnePool!PoolInit
<1>1. \A r \in Usable : \A i \in Indices(r) : bitmap[r][i] = 0
  <2>1. \A r \in Usable : r \in Regions /\ Length[r] \in Nat
    BY FramesAssumption
  <2> QED
    BY <2>1 DEF Init, Indices
<1>2. \A f : f \in FreeFrames <=> f \in UsableFrames
  BY <1>1, FreeIs, UsableFrame, Zenon
<1> QED
  BY <1>2

\* alloc_frame hands out the lowest free frame: the memory map is sorted, and the
\* walk goes through it in order.
LEMMA AllocTakes ==
  ASSUME FInv, AllocFrame
  PROVE  OnePool!Take
<1>0. PICK r \in Regions :
         \E i \in Indices(r) : FirstFree(r, i) /\ bitmap' = SetByte(r, i, 1)
  BY DEF AllocFrame, SetByte
<1>1. PICK i \in Indices(r) : FirstFree(r, i) /\ bitmap' = SetByte(r, i, 1)
  BY <1>0
<1>2. r \in Usable /\ bitmap[r][i] = 0
  BY <1>1 DEF FirstFree, IsFree
<1>3. PICK f : f = Base[r] + i
  OBVIOUS
<1>4. f \in FreeFrames
  BY <1>2, <1>3, FreeIs, Zenon
<1>5. ASSUME NEW g \in FreeFrames
      PROVE  f <= g
  <2>0. PICK q \in Usable : \E j \in Indices(q) : g = Base[q] + j /\ bitmap[q][j] = 0
    BY <1>5, FreeIs, Zenon
  <2>1. PICK j \in Indices(q) : g = Base[q] + j /\ bitmap[q][j] = 0
    BY <2>0
  <2>2. /\ q \in Regions /\ q \in Nat /\ r \in Nat /\ q >= 1
        /\ Base[q] \in Nat /\ Length[q] \in Nat /\ Base[r] \in Nat /\ Length[r] \in Nat
        /\ i \in Nat /\ j \in Nat /\ i < Length[r]
    BY FramesAssumption DEF Regions, Indices
  <2>3. CASE q = r
    <3>1. ~(j \in 0 .. i - 1)
      BY <1>1, <2>1, <2>3 DEF FirstFree, IsFree
    <3> QED
      BY <1>3, <2>1, <2>2, <2>3, <3>1
  <2>4. CASE q < r
    BY <1>1, <2>1, <2>2, <2>4 DEF FirstFree, IsFree
  <2>5. CASE r < q
    <3>1. Base[r] + Length[r] <= Base[q]
      BY <2>2, <2>5, FramesAssumption
    <3> QED
      BY <1>3, <2>1, <2>2, <3>1
  <2> QED
    BY <2>2, <2>3, <2>4, <2>5
<1>6. \A q \in Regions : \A j \in Indices(q) :
         bitmap'[q][j] = IF q = r /\ j = i THEN 1 ELSE bitmap[q][j]
  <2>1. i \in Int
    BY DEF Indices
  <2> QED
    BY <1>1, <2>1, SetByteTyped
<1>7. ASSUME NEW g
      PROVE  g \in FreeFrames' <=> g \in FreeFrames \ {f}
  <2>1. ASSUME NEW q \in Usable, NEW j \in Indices(q), g = Base[q] + j
        PROVE  bitmap'[q][j] = 0 <=> bitmap[q][j] = 0 /\ g # f
    <3>1. q \in Regions
      BY FramesAssumption
    <3>2. g = f <=> q = r /\ j = i
      BY <1>3, <2>1, <3>1, FrameUnique
    <3> QED
      BY <1>6, <3>1, <3>2
  <2> QED
    BY <2>1, FreeIs, FreeIsNext, Zenon
<1>8. FreeFrames' = FreeFrames \ {f}
  BY <1>7
<1> QED
  BY <1>4, <1>5, <1>8 DEF OnePool!Take

\* free_frame gives a frame back, or leaves the pool as it is.
LEMMA FreeGivesBack ==
  ASSUME FInv, NEW f \in owned \cup {0}, FreeFrame(f)
  PROVE  OnePool!GiveBack \/ FreeFrames' = FreeFrames
<1>1. CASE bitmap' = bitmap
  BY <1>1, PoolSame
<1>2. CASE bitmap' # bitmap
  <2>1. PICK s \in Regions : bitmap' = SetByte(s, f - Base[s], 0)
    BY <1>2 DEF FreeFrame, SetByte
  <2>2. f \in Nat /\ Base[s] \in Nat /\ f - Base[s] \in Int
    BY FramesAssumption DEF FInv, TypeOK, Indices
  <2>3. \A q \in Regions : \A j \in Indices(q) :
           bitmap'[q][j] = IF q = s /\ j = f - Base[s] THEN 0 ELSE bitmap[q][j]
    BY <2>1, <2>2, SetByteTyped
  <2>4. ASSUME NEW q \in Usable, NEW j \in Indices(q), Base[q] + j # f
        PROVE  bitmap'[q][j] = bitmap[q][j]
    <3>1. q \in Regions /\ Base[q] \in Nat /\ j \in Int
      BY FramesAssumption DEF Indices
    <3> QED
      BY <2>2, <2>3, <2>4, <3>1
  <2>5. ASSUME NEW g, g # f
        PROVE  g \in FreeFrames' <=> g \in FreeFrames
    <3>1. \A q \in Usable : \A j \in Indices(q) :
             g = Base[q] + j => (bitmap'[q][j] = 0 <=> bitmap[q][j] = 0)
      BY <2>4, <2>5, Zenon
    <3> QED
      BY <3>1, FreeIs, FreeIsNext
  <2>6. \A g \in FreeFrames : g \in FreeFrames'
    <3>1. SUFFICES ASSUME NEW q \in Usable, NEW j \in Indices(q), bitmap[q][j] = 0
                   PROVE  bitmap'[q][j] = 0
      BY FreeIs, FreeIsNext, Zenon
    <3>2. q \in Regions
      BY FramesAssumption
    <3> QED
      BY <2>3, <3>1, <3>2
  <2>7. CASE f \in FreeFrames \/ f \notin FreeFrames'
    BY <2>5, <2>6, <2>7
  <2>8. CASE f \notin FreeFrames /\ f \in FreeFrames'
    <3>1. f \in UsableFrames
      BY <2>8, FreeIsNext, UsableFrame, Zenon
    <3>2. FreeFrames' = FreeFrames \cup {f}
      BY <2>5, <2>8
    <3> QED
      BY <2>8, <3>1, <3>2 DEF OnePool!GiveBack
  <2> QED
    BY <2>7, <2>8
<1> QED
  BY <1>1, <1>2

LEMMA NextPool ==
  FInv /\ [Next]_vars => [OnePool!Take \/ OnePool!GiveBack]_FreeFrames
<1> SUFFICES ASSUME FInv, [Next]_vars
             PROVE  OnePool!Take \/ OnePool!GiveBack \/ FreeFrames' = FreeFrames
  BY Zenon
<1>1. CASE AllocFrame
  BY <1>1, AllocTakes
<1>2. ASSUME NEW f \in owned \cup {0}, FreeFrame(f)
      PROVE  OnePool!GiveBack \/ FreeFrames' = FreeFrames
  BY <1>2, FreeGivesBack
<1>3. CASE UNCHANGED vars
  BY <1>3, PoolSame DEF vars
<1> QED
  BY <1>1, <1>2, <1>3, Zenon DEF Next

\* On every such memory map alloc_frame and free_frame are one pool that hands
\* out its lowest free frame.
THEOREM FramesRefinePool == Spec => RefinesFramePool
<1>1. Spec => []FInv
  BY InitFInv, NextFInv, PTL DEF Spec
<1> QED
  BY <1>1, InitPool, NextPool, PTL DEF Spec, RefinesFramePool, OnePool!PoolSpec
=============================================================================
