--------------------------- MODULE FdTableProofs ----------------------------
(***************************************************************************)
(* The table of descriptors for every capacity and every hash function:    *)
(* the search finds what is stored, vfs_fdopen finds a descriptor, and the *)
(* table implements a map from descriptors to files.                       *)
(***************************************************************************)
EXTENDS FdTable, FiniteSetTheorems, WellFoundedInduction, TLAPS

\* Bucket s lies on the way of the search for k, and no bucket before it is
\* empty.  Unlike GetEntry this says nothing about the keys on the way, so that
\* it survives the storing of other keys.
OnTheWay(k, s) ==
    \E i \in Slots :
        /\ s = Nth(k, i)
        /\ \A j \in 0 .. i - 1 : state[Nth(k, j)] # "empty" /\ Nth(k, j) # s

StoredOnTheWay == \A s \in Slots : state[s] = "occupied" => OnTheWay(key[s], s)

KeysUnique ==
    \A s, r \in Slots : state[s] = "occupied" /\ state[r] = "occupied" /\ key[s] = key[r] => s = r

FdInv == FdTypeOK /\ StoredOnTheWay /\ KeysUnique /\ LengthIsOccupied /\ LostOnlyWithoutEmpty

Occupied == {s \in Slots : state[s] = "occupied"}

-----------------------------------------------------------------------------
(* Facts about the search.                                                 *)

\* A set of natural numbers that is not empty has a least element.
LEMMA LeastNatural ==
  ASSUME NEW T \in SUBSET Nat, T # {}
  PROVE  \E x \in T : \A y \in T : x <= y
<1>1. PICK x \in T : \A y \in T : ~ (<<y, x>> \in OpToRel(<, Nat))
  BY WFMin, NatLessThanWellFounded
<1>2. \A y \in T : ~(y < x)
  BY <1>1 DEF OpToRel
<1> QED
  BY <1>2

\* The search stays in the table.
LEMMA NthInTable ==
  ASSUME NEW k \in Keys, NEW i \in Nat
  PROVE  Nth(k, i) \in Slots
<1>1. Hash[k] \in Nat /\ Capacity \in Nat \ {0}
  BY FdTableAssumption DEF Slots
<1>2. Hash[k] + i \in Nat
  BY <1>1
<1> QED
  BY <1>1, <1>2 DEF Nth, Slots

\* The search comes to every bucket.
LEMMA NthReaches ==
  ASSUME NEW k \in Keys, NEW s \in Slots
  PROVE  \E i \in Slots : Nth(k, i) = s
<1>1. Hash[k] \in Slots /\ Capacity \in Nat \ {0}
  BY FdTableAssumption
<1>2. CASE Hash[k] <= s
  <2>1. s - Hash[k] \in Slots /\ Hash[k] + (s - Hash[k]) = s
    BY <1>1, <1>2 DEF Slots
  <2>2. s % Capacity = s
    BY <1>1 DEF Slots
  <2> QED
    BY <2>1, <2>2 DEF Nth
<1>3. CASE Hash[k] > s
  <2>1. s + Capacity - Hash[k] \in Slots /\ Hash[k] + (s + Capacity - Hash[k]) = s + Capacity
    BY <1>1, <1>3 DEF Slots
  <2>2. (s + Capacity) % Capacity = s
    BY <1>1 DEF Slots
  <2> QED
    BY <2>1, <2>2 DEF Nth
<1> QED
  BY <1>1, <1>2, <1>3 DEF Slots

\* The search for a stored key ends at it.
LEMMA StoredIsFound ==
  ASSUME FdTypeOK, StoredOnTheWay, KeysUnique, NEW s \in Slots, state[s] = "occupied"
  PROVE  GetEntry(key[s], s)
<1>1. key[s] \in Keys
  BY DEF FdTypeOK
<1>2. PICK i \in Slots :
        /\ s = Nth(key[s], i)
        /\ \A j \in 0 .. i - 1 : state[Nth(key[s], j)] # "empty" /\ Nth(key[s], j) # s
  BY DEF StoredOnTheWay, OnTheWay
<1>3. ASSUME NEW j \in 0 .. i - 1
      PROVE  Passes(Nth(key[s], j), key[s])
  <2>1. Nth(key[s], j) \in Slots
    BY <1>1, NthInTable DEF Slots
  <2> QED
    BY <1>2, <2>1 DEF Passes, Holds, KeysUnique
<1> QED
  BY <1>2, <1>3 DEF GetEntry, Reaches, Holds

\* The invariant gives the property the runs check.
LEMMA FdInvProbeFinds ==
  ASSUME FdInv
  PROVE  ProbeFinds
  BY StoredIsFound DEF FdInv, ProbeFinds, KeysUnique, Holds

\* A key that is not found is not in the table.
LEMMA NotFoundNotStored ==
  ASSUME FdInv, NEW k \in Keys, ~Has(k)
  PROVE  \A s \in Slots : ~Holds(s, k)
  BY StoredIsFound DEF FdInv, Has, Holds

\* If there is an empty bucket, there is a bucket for every key that is not in
\* the table.
LEMMA EmptyGivesSlot ==
  ASSUME FdInv, NEW k \in Keys, ~Has(k), NEW e \in Slots, state[e] = "empty"
  PROVE  \E s \in Slots : SetSlot(k, s)
<1> DEFINE E == {i \in Slots : state[Nth(k, i)] = "empty"}
<1>1. E \in SUBSET Nat /\ E # {}
  BY NthReaches DEF Slots
<1>2. PICK i \in E : \A y \in E : i <= y
  BY <1>1, LeastNatural
<1>3. Reaches(k, i)
  <2> SUFFICES ASSUME NEW j \in 0 .. i - 1
               PROVE  Passes(Nth(k, j), k)
    BY DEF Reaches
  <2>1. j \in Slots /\ j \notin E
    BY <1>2, FdTableAssumption DEF Slots
  <2>2. Nth(k, j) \in Slots
    BY NthInTable DEF Slots
  <2> QED
    BY <2>1, <2>2, NotFoundNotStored DEF Passes
<1> DEFINE D == {j \in Slots : state[Nth(k, j)] # "occupied"}
<1>4. D \in SUBSET Nat /\ i \in D
  BY <1>2 DEF Slots
<1>5. PICK j \in D : \A y \in D : j <= y
  <2> HIDE DEF D
  <2> QED
    BY <1>4, LeastNatural
<1>6. \A n \in 0 .. j - 1 : state[Nth(k, n)] = "occupied"
  BY <1>5, FdTableAssumption DEF Slots
<1>7. j <= i /\ Nth(k, j) \in Slots
  BY <1>4, <1>5, NthInTable DEF Slots
<1>8. i \in Slots /\ j \in Slots /\ state[Nth(k, i)] = "empty" /\ state[Nth(k, j)] # "occupied"
  BY <1>2, <1>5
<1> QED
  BY <1>3, <1>6, <1>7, <1>8 DEF SetSlot

LEMMA OccupiedFinite == IsFiniteSet(Slots) /\ IsFiniteSet(Occupied) /\ Cardinality(Occupied) \in 0 .. Capacity
<1>1. IsFiniteSet(Slots) /\ Cardinality(Slots) = Capacity
  BY FS_Interval, FdTableAssumption DEF Slots
<1>2. Occupied \in SUBSET Slots
  BY DEF Occupied
<1> QED
  BY <1>1, <1>2, FS_Subset, FS_CardinalityType, FdTableAssumption

-----------------------------------------------------------------------------
(* The invariant.                                                          *)

LEMMA FdInitInv == FdInit => FdInv
<1> SUFFICES ASSUME FdInit
             PROVE  FdInv
  OBVIOUS
<1>1. FdTypeOK
  <2>1. 0 \in Keys /\ 0 \in Nat
    BY FdTableAssumption DEF Keys
  <2>2. lost \in BOOLEAN
    BY Zenon DEF FdInit
  <2>3. state \in [Slots -> {"empty", "occupied", "deleted"}]
    BY DEF FdInit
  <2>4. key \in [Slots -> Keys] /\ length \in Nat
    BY <2>1 DEF FdInit
  <2>5. value \in [Slots -> Files \cup {NoFile}]
    BY DEF FdInit
  <2> QED
    BY <2>2, <2>3, <2>4, <2>5, Zenon DEF FdTypeOK
<1>2. {s \in Slots : state[s] = "occupied"} = {}
  BY DEF FdInit
<1>3. LengthIsOccupied
  BY <1>2, FS_EmptySet DEF FdInit, LengthIsOccupied
<1>4. \A s \in Slots : state[s] = "empty"
  BY DEF FdInit
<1>5. StoredOnTheWay /\ KeysUnique
  BY <1>4 DEF StoredOnTheWay, KeysUnique
<1>6. LostOnlyWithoutEmpty
  BY DEF FdInit, LostOnlyWithoutEmpty
<1> QED
  BY <1>1, <1>3, <1>5, <1>6 DEF FdInv

\* Storing a key that is not in the table.
LEMMA StoreKeepsInv ==
  ASSUME FdInv, NEW k \in Keys, ~Has(k), NEW f \in Files, NEW s \in Slots, SetSlot(k, s),
         state' = [state EXCEPT ![s] = "occupied"], key' = [key EXCEPT ![s] = k],
         value' = [value EXCEPT ![s] = f], length' = length + 1, lost' = lost
  PROVE  FdInv'
<1> USE DEF FdInv
<1>1. PICK i, j \in Slots :
        /\ j <= i
        /\ s = Nth(k, j) /\ state[s] # "occupied"
        /\ \A n \in 0 .. j - 1 : state[Nth(k, n)] = "occupied"
  BY DEF SetSlot
<1>2. FdTypeOK'
  BY DEF FdTypeOK
<1>3. OnTheWay(k, s)'
  <2>1. \A n \in 0 .. j - 1 : Nth(k, n) \in Slots /\ Nth(k, n) # s
    BY <1>1, NthInTable DEF Slots
  <2>2. \A n \in 0 .. j - 1 : state'[Nth(k, n)] # "empty"
    BY <1>1, <2>1 DEF FdTypeOK
  <2> QED
    BY <1>1, <2>1, <2>2 DEF OnTheWay, Nth
<1>4. StoredOnTheWay'
  <2> SUFFICES ASSUME NEW r \in Slots, state'[r] = "occupied", r # s
               PROVE  OnTheWay(key[r], r)'
    BY <1>3 DEF StoredOnTheWay, FdTypeOK
  <2>1. state[r] = "occupied" /\ key'[r] = key[r] /\ key[r] \in Keys
    BY DEF FdTypeOK
  <2>2. PICK m \in Slots :
          /\ r = Nth(key[r], m)
          /\ \A n \in 0 .. m - 1 : state[Nth(key[r], n)] # "empty" /\ Nth(key[r], n) # r
    BY <2>1 DEF StoredOnTheWay, OnTheWay
  <2>3. \A n \in 0 .. m - 1 : Nth(key[r], n) \in Slots
    BY <2>1, NthInTable DEF Slots
  <2>4. \A n \in 0 .. m - 1 : state'[Nth(key[r], n)] # "empty"
    BY <2>2, <2>3 DEF FdTypeOK
  <2> QED
    BY <2>1, <2>2, <2>4 DEF OnTheWay, Nth
<1>5. KeysUnique'
  BY NotFoundNotStored DEF KeysUnique, FdTypeOK, Holds
<1>6. LengthIsOccupied'
  <2>1. Occupied' = Occupied \cup {s} /\ s \notin Occupied
    BY <1>1 DEF Occupied, FdTypeOK
  <2>2. Cardinality(Occupied \cup {s}) = Cardinality(Occupied) + 1
    BY <2>1, OccupiedFinite, FS_AddElement
  <2> QED
    BY <2>1, <2>2 DEF LengthIsOccupied, Occupied
<1>7. LostOnlyWithoutEmpty'
  BY DEF LostOnlyWithoutEmpty, FdTypeOK
<1> QED
  BY <1>2, <1>4, <1>5, <1>6, <1>7

\* Removing a key that is in the table.
LEMMA RemoveKeepsInv ==
  ASSUME FdInv, NEW k \in Keys, NEW s \in Slots, GetEntry(k, s),
         state' = [state EXCEPT ![s] = Removed], key' = [key EXCEPT ![s] = 0],
         value' = [value EXCEPT ![s] = NoFile], length' = length - 1, lost' = lost
  PROVE  FdInv'
<1> USE DEF FdInv
<1>1. state[s] = "occupied"
  BY DEF GetEntry, Holds
<1>2. s \in Occupied
  BY <1>1 DEF Occupied
<1>3. Occupied' = Occupied \ {s}
  BY <1>1 DEF Occupied, FdTypeOK, Removed
<1>4. Cardinality(Occupied \ {s}) = Cardinality(Occupied) - 1
  BY <1>2, OccupiedFinite, FS_RemoveElement
<1>5. IsFiniteSet(Occupied \ {s})
  BY OccupiedFinite, FS_RemoveElement
<1>6. LengthIsOccupied' /\ length' \in Nat
  BY <1>3, <1>4, <1>5, FS_CardinalityType DEF LengthIsOccupied, Occupied
<1>7. FdTypeOK'
  BY <1>6, FdTableAssumption DEF FdTypeOK, Removed, Keys
<1>8. StoredOnTheWay'
  <2> SUFFICES ASSUME NEW r \in Slots, state'[r] = "occupied"
               PROVE  OnTheWay(key[r], r)'
    BY DEF StoredOnTheWay
  <2>1. r # s /\ state[r] = "occupied" /\ key'[r] = key[r] /\ key[r] \in Keys
    BY DEF FdTypeOK, Removed
  <2>2. PICK m \in Slots :
          /\ r = Nth(key[r], m)
          /\ \A n \in 0 .. m - 1 : state[Nth(key[r], n)] # "empty" /\ Nth(key[r], n) # r
    BY <2>1 DEF StoredOnTheWay, OnTheWay
  <2>3. \A n \in 0 .. m - 1 : Nth(key[r], n) \in Slots
    BY <2>1, NthInTable DEF Slots
  <2>4. \A n \in 0 .. m - 1 : state'[Nth(key[r], n)] # "empty"
    BY <2>2, <2>3 DEF FdTypeOK, Removed
  <2> QED
    BY <2>1, <2>2, <2>4 DEF OnTheWay, Nth
<1>9. KeysUnique'
  BY DEF KeysUnique, FdTypeOK, Removed
<1>10. LostOnlyWithoutEmpty'
  BY DEF LostOnlyWithoutEmpty, FdTypeOK, Removed
<1> QED
  BY <1>6, <1>7, <1>8, <1>9, <1>10

\* The descriptor vfs_fdopen chooses is not in the table.
LEMMA NewIsNotStored ==
  ASSUME NEW k, NewDescriptor(k)
  PROVE  ~Has(k)
  BY DEF NewDescriptor

LEMMA FdNextInv ==
  ASSUME FdInv, [FdNext]_fdVars
  PROVE  FdInv'
<1>1. ASSUME NEW f \in Files, FdOpen(f)
      PROVE  FdInv'
  <2> PICK k \in Keys :
        /\ NewDescriptor(k)
        /\ \/ \E s \in Slots :
                 /\ SetSlot(k, s)
                 /\ state' = [state EXCEPT ![s] = "occupied"]
                 /\ key' = [key EXCEPT ![s] = k]
                 /\ value' = [value EXCEPT ![s] = f]
                 /\ length' = length + 1
                 /\ UNCHANGED lost
           \/ /\ \A s \in Slots : ~SetSlot(k, s)
              /\ lost' = TRUE
              /\ UNCHANGED <<state, key, value, length>>
    BY <1>1 DEF FdOpen
  <2>1. ~Has(k)
    BY NewIsNotStored
  <2>2. CASE \E s \in Slots :
                 /\ SetSlot(k, s)
                 /\ state' = [state EXCEPT ![s] = "occupied"]
                 /\ key' = [key EXCEPT ![s] = k]
                 /\ value' = [value EXCEPT ![s] = f]
                 /\ length' = length + 1
                 /\ UNCHANGED lost
    BY <2>1, <2>2, StoreKeepsInv
  <2>3. CASE /\ \A s \in Slots : ~SetSlot(k, s)
             /\ lost' = TRUE
             /\ UNCHANGED <<state, key, value, length>>
    <3>1. \A s \in Slots : state[s] # "empty"
      BY <2>1, <2>3, EmptyGivesSlot
    <3> QED
      BY <2>3, <3>1 DEF FdInv, FdTypeOK, StoredOnTheWay, OnTheWay, Nth, KeysUnique,
                        LengthIsOccupied, LostOnlyWithoutEmpty
  <2> QED
    BY <2>2, <2>3
<1>2. ASSUME NEW k \in Keys, FdClose(k)
      PROVE  FdInv'
  <2>1. CASE \E s \in Slots :
             /\ GetEntry(k, s)
             /\ state' = [state EXCEPT ![s] = Removed]
             /\ key' = [key EXCEPT ![s] = 0]
             /\ value' = [value EXCEPT ![s] = NoFile]
             /\ length' = length - 1
    BY <1>2, <2>1, RemoveKeepsInv DEF FdClose
  <2>2. CASE UNCHANGED <<state, key, value, length>>
    BY <1>2, <2>2 DEF FdClose, FdInv, FdTypeOK, StoredOnTheWay, OnTheWay, Nth, KeysUnique,
                      LengthIsOccupied, LostOnlyWithoutEmpty
  <2> QED
    BY <1>2, <2>1, <2>2 DEF FdClose
<1>3. CASE UNCHANGED fdVars
  BY <1>3 DEF fdVars, FdInv, FdTypeOK, StoredOnTheWay, OnTheWay, Nth, KeysUnique,
              LengthIsOccupied, LostOnlyWithoutEmpty
<1> QED
  BY <1>1, <1>2, <1>3 DEF FdNext

\* The search for a stored key ends at it, after every sequence of opens and
\* closes, for every capacity and every hash function.
THEOREM TableProbeFinds == FdSpec => []ProbeFinds
<1>1. FdInv => ProbeFinds
  BY FdInvProbeFinds
<1> QED
  BY FdInitInv, FdNextInv, <1>1, PTL DEF FdSpec

\* length is the number of occupied buckets, and a descriptor is lost only when
\* there is no empty bucket.
THEOREM TableCounts == FdSpec => [](FdTypeOK /\ LengthIsOccupied /\ LostOnlyWithoutEmpty)
<1>1. FdInv => FdTypeOK /\ LengthIsOccupied /\ LostOnlyWithoutEmpty
  BY DEF FdInv
<1> QED
  BY FdInitInv, FdNextInv, <1>1, PTL DEF FdSpec

\* vfs_fdopen always finds a descriptor: there are more candidates than keys.
LEMMA FdInvOpenReturns ==
  ASSUME FdInv
  PROVE  OpenReturns
<1>1. length \in 0 .. Capacity /\ length = Cardinality(Occupied)
  BY OccupiedFinite DEF FdInv, LengthIsOccupied, Occupied
<1>2. CASE ~Has(length)
  BY <1>1, <1>2 DEF OpenReturns, NewDescriptor, Keys
<1>3. CASE Has(length)
  <2> DEFINE S == 0 .. length
             U == {k \in S : ~Has(k)}
  <2>1. S \subseteq Keys /\ length \in Nat
    BY <1>1, FdTableAssumption DEF Keys
  <2>2. IsFiniteSet(S) /\ Cardinality(Occupied) < Cardinality(S)
    BY <1>1, <2>1, FS_Interval
  <2>3. U # {}
    <3> SUFFICES ASSUME U = {}
                 PROVE  FALSE
      OBVIOUS
    <3> DEFINE f == [k \in S |-> CHOOSE s \in Slots : GetEntry(k, s)]
    <3>1. ASSUME NEW k \in S
          PROVE  f[k] \in Occupied /\ key[f[k]] = k
      <4>1. Has(k)
        OBVIOUS
      <4>2. f[k] \in Slots /\ GetEntry(k, f[k])
        BY <4>1 DEF Has
      <4> QED
        BY <4>2 DEF GetEntry, Holds, Occupied
    <3>2. f \in [S -> Occupied]
      BY <3>1
    <3> HIDE DEF f, S
    <3>3. PICK x, y \in S : x # y /\ f[x] = f[y]
      BY <2>2, <3>2, OccupiedFinite, FS_PigeonHole
    <3> QED
      BY <3>1, <3>3
  <2>4. U \in SUBSET Nat
    BY <2>1
  <2>5. PICK k \in U : \A y \in U : k <= y
    <3> HIDE DEF U
    <3> QED
      BY <2>3, <2>4, LeastNatural
  <2>6. k # length /\ k \in 0 .. length /\ ~Has(k)
    BY <1>3, <2>5
  <2>7. k \in Slots /\ k \in Keys
    BY <1>1, <2>1, <2>6, FdTableAssumption DEF Slots
  <2>8. \A i \in 0 .. k - 1 : Has(i)
    BY <1>1, <2>5, <2>6
  <2> QED
    BY <1>3, <2>6, <2>7, <2>8 DEF OpenReturns, NewDescriptor
<1> QED
  BY <1>2, <1>3

THEOREM TableOpenReturns == FdSpec => []OpenReturns
<1>1. FdInv => OpenReturns
  BY FdInvOpenReturns
<1> QED
  BY FdInitInv, FdNextInv, <1>1, PTL DEF FdSpec

-----------------------------------------------------------------------------
(* The table implements the map of FdMap.                                  *)

\* Bound is the file of the bucket that holds the key.
LEMMA BoundIsValue ==
  ASSUME FdInv, NEW k \in Keys
  PROVE  /\ \A s \in Slots : Holds(s, k) => Bound(k) = value[s]
         /\ (\A s \in Slots : ~Holds(s, k)) => Bound(k) = NoFile
<1>1. ASSUME NEW s \in Slots, Holds(s, k)
      PROVE  Bound(k) = value[s]
  <2>1. GetEntry(k, s)
    BY <1>1, StoredIsFound DEF FdInv, Holds
  <2> DEFINE c == CHOOSE r \in Slots : GetEntry(k, r)
  <2>2. c \in Slots /\ GetEntry(k, c)
    BY <2>1
  <2>3. Holds(c, k)
    BY <2>2 DEF GetEntry
  <2>4. c = s
    BY <1>1, <2>2, <2>3 DEF FdInv, KeysUnique, Holds
  <2> QED
    BY <2>1, <2>4 DEF Bound, Has
<1>2. (\A s \in Slots : ~Holds(s, k)) => Bound(k) = NoFile
  BY DEF Bound, Has, GetEntry
<1> QED
  BY <1>1, <1>2

BoundAgrees ==
    \A k \in Keys :
        /\ \A s \in Slots : Holds(s, k) => Bound(k) = value[s]
        /\ (\A s \in Slots : ~Holds(s, k)) => Bound(k) = NoFile

LEMMA FdInvBound == FdInv => BoundAgrees
  BY BoundIsValue DEF BoundAgrees

LEMMA FdInvBoundNext == FdInv' => BoundAgrees'
  BY FdInvBound, PTL

\* A descriptor that keeps its bucket, or has none before and after a step, keeps
\* its file.
LEMMA OthersKept ==
  ASSUME FdInv, FdInv', NEW k \in Keys, NEW s \in Slots,
         \A r \in Slots \ {s} : state'[r] = state[r] /\ key'[r] = key[r] /\ value'[r] = value[r],
         ~Holds(s, k), ~Holds(s, k)'
  PROVE  Bound(k)' = Bound(k)
<1>1. BoundAgrees /\ BoundAgrees'
  BY FdInvBound, FdInvBoundNext
<1>2. CASE \E r \in Slots : Holds(r, k)
  <2>1. PICK r \in Slots : Holds(r, k)
    BY <1>2
  <2>2. Holds(r, k)' /\ value'[r] = value[r]
    BY <2>1 DEF Holds
  <2> QED
    BY <1>1, <2>1, <2>2 DEF BoundAgrees
<1>3. CASE \A r \in Slots : ~Holds(r, k)
  <2>1. \A r \in Slots : ~Holds(r, k)'
    BY <1>3 DEF Holds
  <2> QED
    BY <1>1, <1>3, <2>1 DEF BoundAgrees
<1> QED
  BY <1>2, <1>3

\* An open that stores the file is an open of the map, a close that finds its
\* descriptor is a close; what is left changes no descriptor.
LEMMA StoreIsOpen ==
  ASSUME FdInv, FdInv', NEW k \in Keys, ~Has(k), NEW f \in Files, NEW s \in Slots, SetSlot(k, s),
         state' = [state EXCEPT ![s] = "occupied"], key' = [key EXCEPT ![s] = k],
         value' = [value EXCEPT ![s] = f]
  PROVE  Map!Open(k, f)
<1>1. state[s] # "occupied"
  BY DEF SetSlot
<1>2. \A r \in Slots : ~Holds(r, k)
  BY NotFoundNotStored
<1>3. Bound(k) = NoFile
  BY <1>2, FdInvBound DEF BoundAgrees
<1>4. Holds(s, k)' /\ value'[s] = f
  BY DEF Holds, FdInv, FdTypeOK
<1>5. Bound(k)' = f
  BY <1>4, FdInvBoundNext DEF BoundAgrees
<1>6. \A r \in Slots \ {s} : state'[r] = state[r] /\ key'[r] = key[r] /\ value'[r] = value[r]
  BY DEF FdInv, FdTypeOK
<1>7. ASSUME NEW m \in Keys, m # k
      PROVE  Bound(m)' = Bound(m)
  <2>1. ~Holds(s, m) /\ ~Holds(s, m)'
    BY <1>1, <1>7 DEF Holds, FdInv, FdTypeOK
  <2> QED
    BY <1>6, <2>1, OthersKept
<1>8. [m \in Keys |-> Bound(m)]' = [[m \in Keys |-> Bound(m)] EXCEPT ![k] = f]
  BY <1>5, <1>7
<1> QED
  BY <1>3, <1>8 DEF Map!Open

LEMMA RemoveIsClose ==
  ASSUME FdInv, FdInv', NEW k \in Keys, NEW s \in Slots, GetEntry(k, s),
         state' = [state EXCEPT ![s] = Removed], key' = [key EXCEPT ![s] = 0],
         value' = [value EXCEPT ![s] = NoFile]
  PROVE  Map!Close(k)
<1>1. Holds(s, k)
  BY DEF GetEntry
<1>2. \A r \in Slots : ~Holds(r, k)'
  BY <1>1 DEF Holds, FdInv, FdTypeOK, KeysUnique, Removed
<1>3. Bound(k)' = NoFile
  BY <1>2, FdInvBoundNext DEF BoundAgrees
<1>4. \A r \in Slots \ {s} : state'[r] = state[r] /\ key'[r] = key[r] /\ value'[r] = value[r]
  BY DEF FdInv, FdTypeOK
<1>5. ASSUME NEW m \in Keys, m # k
      PROVE  Bound(m)' = Bound(m)
  <2>1. ~Holds(s, m) /\ ~Holds(s, m)'
    BY <1>1, <1>5 DEF Holds, FdInv, FdTypeOK, Removed
  <2> QED
    BY <1>4, <2>1, OthersKept
<1>6. [m \in Keys |-> Bound(m)]' = [[m \in Keys |-> Bound(m)] EXCEPT ![k] = NoFile]
  BY <1>3, <1>5
<1> QED
  BY <1>6 DEF Map!Close

\* A step that leaves the buckets alone leaves the map alone.
LEMMA SameBuckets ==
  ASSUME UNCHANGED <<state, key, value>>
  PROVE  UNCHANGED [k \in Keys |-> Bound(k)]
  BY DEF Bound, Has, GetEntry, Reaches, Passes, Holds, Nth

LEMMA FdInitMaps == FdInit => Map!Init
<1> SUFFICES ASSUME FdInit
             PROVE  Map!Init
  OBVIOUS
<1>1. \A s \in Slots : state[s] = "empty"
  BY DEF FdInit
<1>2. \A k \in Keys : Bound(k) = NoFile
  BY <1>1 DEF Bound, Has, GetEntry, Holds
<1> QED
  BY <1>2 DEF Map!Init

LEMMA FdNextMaps ==
  ASSUME FdInv, FdInv', [FdNext]_fdVars
  PROVE  [Map!Next]_([k \in Keys |-> Bound(k)])
<1>1. ASSUME NEW f \in Files, FdOpen(f)
      PROVE  Map!Next \/ UNCHANGED <<state, key, value>>
  <2> PICK k \in Keys :
        /\ NewDescriptor(k)
        /\ \/ \E s \in Slots :
                 /\ SetSlot(k, s)
                 /\ state' = [state EXCEPT ![s] = "occupied"]
                 /\ key' = [key EXCEPT ![s] = k]
                 /\ value' = [value EXCEPT ![s] = f]
           \/ UNCHANGED <<state, key, value>>
    BY <1>1 DEF FdOpen
  <2>1. ~Has(k)
    BY NewIsNotStored
  <2>2. Map!Open(k, f) \/ UNCHANGED <<state, key, value>>
    BY <2>1, StoreIsOpen
  <2> QED
    BY <2>2 DEF Map!Next
<1>2. ASSUME NEW k \in Keys, FdClose(k)
      PROVE  Map!Next \/ UNCHANGED <<state, key, value>>
  <2>1. Map!Close(k) \/ UNCHANGED <<state, key, value>>
    BY <1>2, RemoveIsClose DEF FdClose
  <2> QED
    BY <2>1 DEF Map!Next
<1>3. CASE UNCHANGED fdVars
  BY <1>3, SameBuckets DEF fdVars
<1> QED
  BY <1>1, <1>2, <1>3, SameBuckets DEF FdNext

\* The hash table with its deleted buckets implements the map of FdMap: a
\* descriptor names the file it was opened for until it is closed, whatever is
\* opened, closed and moved over deleted buckets in between.
THEOREM TableRefinesFdMap == FdSpec => RefinesFdMap
<1>1. FdSpec => []FdInv
  BY FdInitInv, FdNextInv, PTL DEF FdSpec
<1> QED
  BY <1>1, FdInitMaps, FdNextMaps, PTL DEF FdSpec, RefinesFdMap, Map!Spec
=============================================================================
