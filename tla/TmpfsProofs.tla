---------------------------- MODULE TmpfsProofs -----------------------------
(***************************************************************************)
(* The directories of tmpfs for every number of objects and names, with    *)
(* one thread that deletes: how num_files comes apart from the entries,    *)
(* the entries refer to objects that exist, and no directory is its own    *)
(* ancestor.                                                               *)
(***************************************************************************)
EXTENDS Tmpfs, FiniteSetTheorems, SequenceTheorems, WellFoundedInduction, TLAPS

-----------------------------------------------------------------------------
(* The array of a directory.                                               *)

Entries == Objs \cup {Null}
NonNull(arr) == {i \in DOMAIN arr : arr[i] # Null}

\* n counts the entries and w more, and there is a NULL entry.
ArrayOK(arr, n, w) ==
    /\ arr \in Seq(Entries)
    /\ n = Cardinality(NonNull(arr)) + w
    /\ n < Len(arr)

\* A function on 1 .. n is a sequence of length n.
LEMMA FunctionIsSeq ==
  ASSUME NEW S, NEW n \in Nat, NEW f \in [1 .. n -> S]
  PROVE  f \in Seq(S) /\ Len(f) = n /\ DOMAIN f = 1 .. n
<1>1. f \in Seq(S)
  BY SeqDef
<1> QED
  BY <1>1, LenProperties

\* A set of natural numbers that is not empty has a least element.
LEMMA LeastIndex ==
  ASSUME NEW T \in SUBSET Nat, T # {}
  PROVE  \E x \in T : \A y \in T : x <= y
<1>1. PICK x \in T : \A y \in T : ~ (<<y, x>> \in OpToRel(<, Nat))
  BY WFMin, NatLessThanWellFounded
<1>2. \A y \in T : ~(y < x)
  BY <1>1 DEF OpToRel
<1> QED
  BY <1>2

LEMMA NonNullFinite ==
  ASSUME NEW arr \in Seq(Entries)
  PROVE  /\ Len(arr) \in Nat /\ DOMAIN arr = 1 .. Len(arr)
         /\ IsFiniteSet(DOMAIN arr) /\ Cardinality(DOMAIN arr) = Len(arr)
         /\ IsFiniteSet(NonNull(arr)) /\ Cardinality(NonNull(arr)) \in Nat
<1>1. Len(arr) \in Nat /\ DOMAIN arr = 1 .. Len(arr)
  BY LenProperties
<1>2. IsFiniteSet(1 .. Len(arr)) /\ Cardinality(1 .. Len(arr)) = Len(arr)
  BY <1>1, FS_Interval
<1>3. NonNull(arr) \in SUBSET (DOMAIN arr)
  BY DEF NonNull
<1>4. IsFiniteSet(NonNull(arr))
  BY <1>1, <1>2, <1>3, FS_Subset
<1> QED
  BY <1>1, <1>2, <1>4, FS_CardinalityType

LEMMA EmptyArray ==
  /\ ArrayOK(NoFiles, 0, 0) /\ NoFiles \in Seq(Entries) /\ Len(NoFiles) = Step
  /\ \A i \in DOMAIN NoFiles : NoFiles[i] = Null
<1> DEFINE arr == [i \in 1 .. Step |-> Null]
<1>1. arr \in [1 .. Step -> Entries] /\ Step \in Nat \ {0}
  BY TmpfsAssumption DEF Entries
<1>2. arr \in Seq(Entries) /\ Len(arr) = Step /\ DOMAIN arr = 1 .. Step
  BY <1>1, FunctionIsSeq
<1>3. \A i \in 1 .. Step : arr[i] = Null
  OBVIOUS
<1> HIDE DEF arr
<1>4. NonNull(arr) = {}
  BY <1>2, <1>3 DEF NonNull
<1>5. ArrayOK(arr, 0, 0)
  BY <1>1, <1>2, <1>4, FS_EmptySet DEF ArrayOK
<1> QED
  BY <1>2, <1>3, <1>5 DEF arr, NoFiles

\* A directory that is counted has a NULL entry, and an object gets it.
LEMMA FreeIndexIsNull ==
  ASSUME NEW d, NEW n, NEW w \in Nat, ArrayOK(files[d], n, w), NEW i, FreeIndex(d, i)
  PROVE  i \in DOMAIN files[d] /\ files[d][i] = Null
<1>1. ~(\A j \in DOMAIN files[d] : files[d][j] # Null)
  <2> SUFFICES ASSUME \A j \in DOMAIN files[d] : files[d][j] # Null
               PROVE  FALSE
    OBVIOUS
  <2>1. NonNull(files[d]) = DOMAIN files[d]
    BY DEF NonNull
  <2>2. n = Len(files[d]) + w /\ n < Len(files[d]) /\ Len(files[d]) \in Nat
    BY <2>1, NonNullFinite DEF ArrayOK
  <2> QED
    BY <2>2
<1> QED
  BY <1>1 DEF FreeIndex

\* The array of a directory after a creation, n entries counted, has filled
\* entry i with o.
Filled(arr, i, o, n) == Grown([arr EXCEPT ![i] = o], n)

\* Entry i is o, the others stay, and what is added is NULL.
FilledAt(arr, new, i, o) ==
    /\ i \in DOMAIN new /\ new[i] = o
    /\ \A j \in DOMAIN arr : j # i => j \in DOMAIN new /\ new[j] = arr[j]
    /\ \A j \in DOMAIN new : j = i \/ (j \in DOMAIN arr /\ new[j] = arr[j]) \/ new[j] = Null

LEMMA FilledEntries ==
  ASSUME NEW arr \in Seq(Entries), NEW n, NEW i \in DOMAIN arr, NEW o \in Objs
  PROVE  /\ Filled(arr, i, o, n) \in Seq(Entries)
         /\ FilledAt(arr, Filled(arr, i, o, n), i, o)
         /\ Len(Filled(arr, i, o, n)) = IF n = Len(arr) THEN Len(arr) + Step ELSE Len(arr)
<1> DEFINE new == Filled(arr, i, o, n)
<1> DEFINE e == [arr EXCEPT ![i] = o]
<1>1. Len(arr) \in Nat /\ DOMAIN arr = 1 .. Len(arr)
  BY NonNullFinite
<1>2. o \in Entries
  BY DEF Entries
<1>3. e \in Seq(Entries) /\ Len(e) = Len(arr) /\ DOMAIN e = DOMAIN arr
  BY <1>1, <1>2, ExceptSeq
<1>4. e[i] = o /\ \A j \in DOMAIN arr : j # i => e[j] = arr[j]
  BY <1>1
<1> HIDE DEF e, new
<1>7. CASE n # Len(e)
  <2>1. new = e
    BY <1>7 DEF new, Filled, Grown, e
  <2>4. DOMAIN new = DOMAIN arr
    BY <1>3, <2>1
  <2> QED
    BY <1>3, <1>4, <1>7, <2>1, <2>4 DEF FilledAt, new
<1>8. CASE n = Len(e)
  <2> DEFINE both == e \o NoFiles
  <2>1. /\ NoFiles \in Seq(Entries) /\ Len(NoFiles) \in Nat \ {0} /\ Len(NoFiles) = Step
        /\ \A j \in DOMAIN NoFiles : NoFiles[j] = Null
    BY EmptyArray, TmpfsAssumption
  <2>2. /\ both \in Seq(Entries) /\ Len(both) = Len(e) + Len(NoFiles)
        /\ \A j \in 1 .. Len(e) + Len(NoFiles) :
              both[j] = IF j <= Len(e) THEN e[j] ELSE NoFiles[j - Len(e)]
    BY <1>3, <2>1, ConcatProperties
  <2> HIDE DEF both
  <2>3. /\ DOMAIN NoFiles = 1 .. Len(NoFiles) /\ DOMAIN e = 1 .. Len(e) /\ Len(e) \in Nat
        /\ DOMAIN both = 1 .. (Len(e) + Len(NoFiles))
    BY <1>3, <2>1, <2>2, NonNullFinite
  <2>4. /\ \A j \in DOMAIN e : j \in DOMAIN both /\ both[j] = e[j]
        /\ \A j \in DOMAIN both : j \in DOMAIN e \/ both[j] = Null
    <3>1. ASSUME NEW j \in DOMAIN e
          PROVE  j \in DOMAIN both /\ both[j] = e[j]
      <4>1. j \in 1 .. Len(e) + Len(NoFiles) /\ j <= Len(e)
        BY <2>1, <2>3
      <4> QED
        BY <2>2, <2>3, <4>1
    <3>2. ASSUME NEW j \in DOMAIN both, j \notin DOMAIN e
          PROVE  both[j] = Null
      <4>1. j \in 1 .. Len(e) + Len(NoFiles) /\ ~(j <= Len(e)) /\ j - Len(e) \in DOMAIN NoFiles
        BY <2>1, <2>3, <3>2
      <4> QED
        BY <2>1, <2>2, <4>1
    <3> QED
      BY <3>1, <3>2
  <2>6. new = both
    BY <1>8 DEF new, Filled, Grown, both, e
  <2>7. Len(new) = Len(arr) + Step /\ n = Len(arr)
    BY <1>3, <1>8, <2>1, <2>2, <2>6
  <2>9. /\ \A j \in DOMAIN arr : j \in DOMAIN new /\ new[j] = e[j]
        /\ \A j \in DOMAIN new : j \in DOMAIN arr \/ new[j] = Null
    <3>1. DOMAIN e = DOMAIN arr
      BY <1>3
    <3>2. ASSUME NEW j \in DOMAIN arr
          PROVE  j \in DOMAIN new /\ new[j] = e[j]
      BY <2>4, <2>6, <3>1
    <3>3. ASSUME NEW j \in DOMAIN new, j \notin DOMAIN arr
          PROVE  new[j] = Null
      BY <2>4, <2>6, <3>1, <3>3
    <3> QED
      BY <3>2, <3>3
  <2> QED
    BY <1>4, <2>2, <2>6, <2>7, <2>9 DEF FilledAt, new
<1> QED
  BY <1>7, <1>8 DEF new

\* Filling a NULL entry and growing the array when it is full keeps the count.
LEMMA FillOK ==
  ASSUME NEW arr, NEW n, NEW w \in Nat, ArrayOK(arr, n, w), NEW i \in DOMAIN arr, arr[i] = Null,
         NEW o \in Objs
  PROVE  ArrayOK(Filled(arr, i, o, n + 1), n + 1, w)
<1> DEFINE new == Filled(arr, i, o, n + 1)
<1>1. arr \in Seq(Entries) /\ Len(arr) \in Nat /\ n < Len(arr)
  BY NonNullFinite DEF ArrayOK
<1>2. o # Null /\ Step \in Nat \ {0}
  BY TmpfsAssumption
<1>3. /\ new \in Seq(Entries) /\ FilledAt(arr, new, i, o)
      /\ Len(new) = IF n + 1 = Len(arr) THEN Len(arr) + Step ELSE Len(arr)
  BY <1>1, FilledEntries
<1> HIDE DEF new
<1>4. NonNull(new) = NonNull(arr) \cup {i} /\ i \notin NonNull(arr)
  BY <1>2, <1>3 DEF NonNull, FilledAt
<1>5. Cardinality(NonNull(new)) = Cardinality(NonNull(arr)) + 1 /\ Cardinality(NonNull(arr)) \in Nat
  BY <1>1, <1>4, NonNullFinite, FS_AddElement
<1>6. n = Cardinality(NonNull(arr)) + w
  BY DEF ArrayOK
<1>7. n + 1 = Cardinality(NonNull(new)) + w /\ n \in Nat
  BY <1>5, <1>6
<1>8. n + 1 < Len(new)
  BY <1>1, <1>2, <1>3, <1>7
<1> QED
  BY <1>3, <1>7, <1>8 DEF ArrayOK, new

\* The entries after one has been cleared.
LEMMA ClearedEntries ==
  ASSUME NEW arr \in Seq(Entries), NEW i \in DOMAIN arr, NEW new, new = [arr EXCEPT ![i] = Null]
  PROVE  /\ new \in Seq(Entries) /\ Len(new) = Len(arr) /\ DOMAIN new = DOMAIN arr
         /\ new[i] = Null /\ \A j \in DOMAIN arr : j # i => new[j] = arr[j]
<1>1. Len(arr) \in Nat /\ DOMAIN arr = 1 .. Len(arr) /\ Null \in Entries
  BY NonNullFinite DEF Entries
<1>2. new \in Seq(Entries) /\ Len(new) = Len(arr) /\ DOMAIN new = DOMAIN arr
  BY <1>1, ExceptSeq
<1>3. new[i] = Null /\ \A j \in DOMAIN arr : j # i => new[j] = arr[j]
  BY <1>1
<1> QED
  BY <1>2, <1>3

\* Clearing an entry: num_files is one too many until it is decremented.
LEMMA ClearOK ==
  ASSUME NEW arr, NEW n, NEW w \in Nat, ArrayOK(arr, n, w), NEW i \in DOMAIN arr, arr[i] # Null,
         NEW new, new = [arr EXCEPT ![i] = Null]
  PROVE  ArrayOK(new, n, w + 1)
<1>1. arr \in Seq(Entries) /\ Len(arr) \in Nat
  BY NonNullFinite DEF ArrayOK
<1>2. /\ new \in Seq(Entries) /\ Len(new) = Len(arr) /\ DOMAIN new = DOMAIN arr
      /\ new[i] = Null /\ \A j \in DOMAIN arr : j # i => new[j] = arr[j]
  BY <1>1, ClearedEntries
<1>3. NonNull(new) = NonNull(arr) \ {i} /\ i \in NonNull(arr)
  BY <1>2 DEF NonNull
<1>4. Cardinality(NonNull(new)) = Cardinality(NonNull(arr)) - 1 /\ Cardinality(NonNull(arr)) \in Nat
  BY <1>1, <1>3, NonNullFinite, FS_RemoveElement
<1>5. n = Cardinality(NonNull(new)) + (w + 1)
  BY <1>4 DEF ArrayOK
<1> QED
  BY <1>2, <1>5 DEF ArrayOK

-----------------------------------------------------------------------------
(* The inductive invariant.                                                *)

\* A deletion works on a directory that exists, and the entry it is about to
\* clear is one of it that is not NULL.
PendOK ==
    \A t \in Deleters : pending[t].pc # "none" =>
        /\ pending[t].dir \in Directories
        /\ pending[t].pc \in {"freed", "array"} =>
              /\ pending[t].at \in DOMAIN files[pending[t].dir]
              /\ files[pending[t].dir][pending[t].at] # Null

\* No set of directories in which each is an entry of another one: no directory
\* is its own ancestor.
Acyclic ==
    \A S \in SUBSET Directories : S # {} =>
        \E x \in S : \A d \in S : \A i \in DOMAIN files[d] : files[d][i] # x

TreeInv == TreeTypeOK /\ PendOK /\ EntriesAlive /\ Acyclic

LEMMA TreeInitInv == TreeInit => TreeInv
<1> SUFFICES ASSUME TreeInit
             PROVE  TreeInv
  OBVIOUS
<1> USE DEF TreeInit
<1>1. NoFiles \in Seq(Entries) /\ \A i \in DOMAIN NoFiles : NoFiles[i] = Null
  BY EmptyArray DEF ArrayOK
<1>2. Directories \subseteq {Root} /\ Root \in Objs
  BY TmpfsAssumption DEF Directories
<1>3. TreeTypeOK
  <2>1. (CHOOSE n \in Names : TRUE) \in Names
    BY TmpfsAssumption
  <2> QED
    BY <1>1, <1>2, <2>1 DEF TreeTypeOK, Entries, NoDeletion, Deletions
<1>4. \A o \in Objs : files[o] = NoFiles /\ num[o] = 0
  OBVIOUS
<1>6. PendOK
  BY DEF PendOK, NoDeletion
<1>7. EntriesAlive
  BY <1>1, <1>2, <1>4 DEF EntriesAlive
<1>8. Acyclic
  BY <1>1, <1>2, <1>4, TmpfsAssumption DEF Acyclic
<1> QED
  BY <1>3, <1>6, <1>7, <1>8 DEF TreeInv

-----------------------------------------------------------------------------
(* Creation.                                                               *)

\* What a creation does to the entries: one of d becomes o, and o is empty.
LEMMA CreateEffect ==
  ASSUME TreeInv, NEW d \in Objs, NEW o \in Objs, NEW n \in Names, NEW k \in {"file", "dir"},
         Create(d, o, n, k)
  PROVE  /\ d \in Directories /\ o \notin alive /\ d # o /\ alive' = alive \cup {o}
         /\ Directories' \subseteq Directories \cup {o} /\ Directories \subseteq Directories'
         /\ pending' = pending
         /\ files' \in [Objs -> Seq(Entries)] /\ num' \in [Objs -> Int]
         /\ files'[o] = NoFiles /\ num'[o] = 0 /\ num'[d] = num[d] + 1
         /\ \A i \in DOMAIN files'[o] : files'[o][i] = Null
         /\ \A e \in Objs : e # d /\ e # o => files'[e] = files[e] /\ num'[e] = num[e]
         /\ \E i \in DOMAIN files[d] :
               /\ FreeIndex(d, i)
               /\ files'[d] = Filled(files[d], i, o, num[d] + 1)
               /\ FilledAt(files[d], files'[d], i, o)
<1> USE DEF TreeInv
<1>1. /\ d \in Directories /\ o \notin alive /\ alive' = alive \cup {o}
      /\ kind' = [kind EXCEPT ![o] = k] /\ pending' = pending
      /\ num' = [num EXCEPT ![d] = @ + 1, ![o] = 0]
  BY DEF Create
<1>2. PICK i \in DOMAIN files[d] :
         /\ FreeIndex(d, i)
         /\ files' = [files EXCEPT ![d] = Grown([@ EXCEPT ![i] = o], num[d] + 1), ![o] = NoFiles]
  BY DEF Create
<1>3. d # o
  BY <1>1 DEF Directories
<1>4. /\ files \in [Objs -> Seq(Entries)] /\ num \in [Objs -> Int]
      /\ kind \in [Objs -> {"file", "dir"}] /\ alive \subseteq Objs
  BY DEF TreeTypeOK, Entries
<1> DEFINE new == Filled(files[d], i, o, num[d] + 1)
<1>5. files[d] \in Seq(Entries) /\ num[d] + 1 \in Int
  BY <1>4
<1>7. new \in Seq(Entries) /\ FilledAt(files[d], new, i, o)
  BY <1>5, FilledEntries
<1>8. files' = [files EXCEPT ![d] = new, ![o] = NoFiles]
  BY <1>2, <1>4 DEF Filled
<1> HIDE DEF new
<1>9. new \in Seq(Entries) /\ NoFiles \in Seq(Entries)
  BY <1>7, EmptyArray
<1>10. /\ files'[d] = new /\ files'[o] = NoFiles
       /\ \A e \in Objs : e # d /\ e # o => files'[e] = files[e]
       /\ files' \in [Objs -> Seq(Entries)]
  BY <1>3, <1>4, <1>8, <1>9
<1>11. /\ num'[d] = num[d] + 1 /\ num'[o] = 0
       /\ \A e \in Objs : e # d /\ e # o => num'[e] = num[e]
       /\ num' \in [Objs -> Int]
  BY <1>1, <1>3, <1>4, <1>5
<1>12. Directories' \subseteq Directories \cup {o} /\ Directories \subseteq Directories'
  BY <1>1, <1>4 DEF Directories
<1>13. files'[o] = NoFiles /\ num'[o] = 0 /\ num'[d] = num[d] + 1
  BY <1>10, <1>11
<1>14. \A j \in DOMAIN files'[o] : files'[o][j] = Null
  BY <1>10, EmptyArray
<1>15. files'[d] = new
  BY <1>10
<1>17. \E l \in DOMAIN files[d] :
          /\ FreeIndex(d, l)
          /\ files'[d] = Filled(files[d], l, o, num[d] + 1)
          /\ FilledAt(files[d], files'[d], l, o)
  BY <1>2, <1>7, <1>15 DEF new
<1>18. \A e \in Objs : e # d /\ e # o => files'[e] = files[e] /\ num'[e] = num[e]
  BY <1>10, <1>11
<1>19. files' \in [Objs -> Seq(Entries)] /\ num' \in [Objs -> Int]
  BY <1>10, <1>11
<1> QED
  BY <1>1, <1>3, <1>12, <1>13, <1>14, <1>17, <1>18, <1>19, Zenon

LEMMA CreateKeeps ==
  ASSUME TreeInv, NEW d \in Objs, NEW o \in Objs, NEW n \in Names, NEW k \in {"file", "dir"},
         Create(d, o, n, k), mode' \in {"run", "overrun", "stale", "fault"}
  PROVE  TreeInv'
<1> USE DEF TreeInv
<1>1. /\ d \in Directories /\ o \notin alive /\ d # o /\ alive' = alive \cup {o}
      /\ Directories' \subseteq Directories \cup {o} /\ Directories \subseteq Directories'
      /\ pending' = pending
  BY CreateEffect
<1>2. /\ files' \in [Objs -> Seq(Entries)] /\ num' \in [Objs -> Int]
      /\ \A i \in DOMAIN files'[o] : files'[o][i] = Null
      /\ \A e \in Objs : e # d /\ e # o => files'[e] = files[e] /\ num'[e] = num[e]
  BY CreateEffect
<1>17. PICK i \in DOMAIN files[d] : FilledAt(files[d], files'[d], i, o)
  BY CreateEffect
<1>3. /\ i \in DOMAIN files'[d] /\ files'[d][i] = o
      /\ \A j \in DOMAIN files[d] : j # i => j \in DOMAIN files'[d] /\ files'[d][j] = files[d][j]
      /\ \A j \in DOMAIN files'[d] : j = i \/ (j \in DOMAIN files[d] /\ files'[d][j] = files[d][j])
                                     \/ files'[d][j] = Null
  BY <1>17 DEF FilledAt
<1>4. Directories \subseteq Objs /\ o \notin Directories /\ alive \subseteq Objs
  BY <1>1 DEF Directories, TreeTypeOK
<1>5. TreeTypeOK'
  <2>1. kind' \in [Objs -> {"file", "dir"}] /\ name' \in [Objs -> Names]
    BY DEF Create, TreeTypeOK
  <2> QED
    BY <1>1, <1>2, <2>1 DEF TreeTypeOK, Entries
\* Every entry after the step is the new one, NULL, or an entry from before.
<1>7. ASSUME NEW e \in Directories', NEW j \in DOMAIN files'[e], files'[e][j] # Null
      PROVE  \/ e = d /\ j = i /\ files'[e][j] = o
             \/ e \in Directories /\ j \in DOMAIN files[e] /\ files'[e][j] = files[e][j]
  <2>1. CASE e = o
    BY <1>2, <1>7, <2>1
  <2>2. CASE e = d
    BY <1>1, <1>3, <1>7, <2>2
  <2>3. CASE e # o /\ e # d
    BY <1>1, <1>2, <1>4, <2>3
  <2> QED
    BY <2>1, <2>2, <2>3
<1>8. PendOK'
  <2> SUFFICES ASSUME NEW t \in Deleters, pending[t].pc # "none"
               PROVE  /\ pending[t].dir \in Directories'
                      /\ pending[t].pc \in {"freed", "array"} =>
                            /\ pending[t].at \in DOMAIN files'[pending[t].dir]
                            /\ files'[pending[t].dir][pending[t].at] # Null
    BY <1>1 DEF PendOK
  <2>1. pending[t].dir \in Directories
    BY DEF PendOK
  <2>2. ASSUME pending[t].pc \in {"freed", "array"}
        PROVE  /\ pending[t].at \in DOMAIN files'[pending[t].dir]
               /\ files'[pending[t].dir][pending[t].at] # Null
    <3>1. /\ pending[t].at \in DOMAIN files[pending[t].dir]
          /\ files[pending[t].dir][pending[t].at] # Null
      BY <2>2 DEF PendOK
    <3>2. o # Null
      BY TmpfsAssumption
    <3> QED
      BY <1>2, <1>3, <1>4, <2>1, <3>1, <3>2
  <2> QED
    BY <1>1, <2>1, <2>2
<1>10. \A e, j : Dying(e, j)' <=> Dying(e, j)
  BY <1>1 DEF Dying
<1>11. EntriesAlive'
  <2> SUFFICES ASSUME NEW e \in Directories', NEW j \in DOMAIN files'[e], files'[e][j] # Null,
                      ~Dying(e, j)
               PROVE  /\ files'[e][j] \in alive'
                      /\ \A c \in Directories' : \A l \in DOMAIN files'[c] :
                            files'[c][l] = files'[e][j] /\ ~Dying(c, l) => c = e /\ l = j
    BY <1>10 DEF EntriesAlive
  <2>1. \A c \in Directories : \A l \in DOMAIN files[c] :
           files[c][l] # Null /\ ~Dying(c, l) => files[c][l] \in alive /\ files[c][l] # o
    BY <1>1 DEF EntriesAlive
  <2>2. files'[e][j] \in alive'
    BY <1>1, <1>7, <2>1
  <2>3. ASSUME NEW c \in Directories', NEW l \in DOMAIN files'[c],
               files'[c][l] = files'[e][j], ~Dying(c, l)
        PROVE  c = e /\ l = j
    <3>1. files'[c][l] # Null
      BY <2>3
    <3>2. CASE e = d /\ j = i /\ files'[e][j] = o
      BY <1>7, <2>1, <2>3, <3>1, <3>2
    <3>3. CASE e \in Directories /\ j \in DOMAIN files[e] /\ files'[e][j] = files[e][j]
      <4>1. files[e][j] # o
        BY <2>1, <3>3
      <4>2. c \in Directories /\ l \in DOMAIN files[c] /\ files'[c][l] = files[c][l]
        BY <1>7, <2>3, <3>1, <3>3, <4>1
      <4> QED
        BY <2>3, <3>1, <3>3, <4>2 DEF EntriesAlive
    <3> QED
      BY <1>7, <3>2, <3>3
  <2> QED
    BY <2>2, <2>3
<1>12. Acyclic'
  <2> SUFFICES ASSUME NEW S \in SUBSET Directories', S # {}
               PROVE  \E x \in S : \A e \in S : \A j \in DOMAIN files'[e] : files'[e][j] # x
    BY DEF Acyclic
  <2>1. Null \notin Objs /\ S \subseteq Objs
    BY <1>1, <1>4, TmpfsAssumption
  <2>2. CASE S \ {o} = {}
    BY <1>2, <2>1, <2>2
  <2>3. CASE S \ {o} # {}
    <3>1. S \ {o} \in SUBSET Directories
      BY <1>1
    <3>2. PICK x \in S \ {o} : \A e \in S \ {o} : \A j \in DOMAIN files[e] : files[e][j] # x
      BY <2>3, <3>1 DEF Acyclic
    <3>3. ASSUME NEW e \in S, NEW j \in DOMAIN files'[e]
          PROVE  files'[e][j] # x
      <4>1. x # Null /\ x # o
        BY <2>1
      <4>2. CASE files'[e][j] = Null
        BY <4>1, <4>2
      <4>3. CASE files'[e][j] # Null
        <5>1. CASE files'[e][j] = o
          BY <4>1, <5>1
        <5>2. CASE e \in Directories /\ j \in DOMAIN files[e] /\ files'[e][j] = files[e][j]
          BY <1>4, <3>2, <5>2
        <5> QED
          BY <1>7, <4>3, <5>1, <5>2
      <4> QED
        BY <4>2, <4>3
    <3> QED
      BY <3>3
  <2> QED
    BY <2>2, <2>3
<1> QED
  BY <1>5, <1>8, <1>11, <1>12

-----------------------------------------------------------------------------
(* Deletion.                                                               *)

\* The step that frees keeps the invariant if it frees neither the directory of
\* the entry nor an object that another entry refers to.
LEMMA DeleteKeeps ==
  ASSUME TreeInv, NEW t \in Deleters, NEW d \in Directories, NEW i \in DOMAIN files[d],
         files[d][i] # Null, NEW gone, StartDelete(t, d, i, gone), d \notin gone,
         \A e \in Directories \ gone : \A j \in DOMAIN files[e] : files[e][j] \in gone => e = d /\ j = i
  PROVE  TreeInv'
<1> USE DEF TreeInv
<1>1. /\ alive' = alive \ gone /\ kind' = kind /\ name' = name /\ files' = files /\ num' = num
      /\ mode' = mode /\ pending[t].pc = "none"
      /\ pending' = [pending EXCEPT ![t] = [pc |-> "freed", dir |-> d, at |-> i, val |-> 0]]
  BY DEF StartDelete
<1>2. Directories' = Directories \ gone
  BY <1>1 DEF Directories
<1>3. \A u \in Deleters : /\ pending[u].pc = "none"
                        /\ pending'[u] = [pc |-> "freed", dir |-> d, at |-> i, val |-> 0]
  BY <1>1, OneDeleter DEF TreeTypeOK
<1>4. d \in Objs /\ i \in Nat
  <2>1. d \in Objs /\ files[d] \in Seq(Entries)
    BY DEF Directories, TreeTypeOK, Entries
  <2>2. DOMAIN files[d] = 1 .. Len(files[d]) /\ Len(files[d]) \in Nat
    BY <2>1, NonNullFinite
  <2> QED
    BY <2>1, <2>2
<1>5. TreeTypeOK'
  <2>1. pending' \in [Deleters -> Deletions]
    BY <1>1, <1>4 DEF TreeTypeOK, Deletions
  <2> QED
    BY <1>1, <2>1 DEF TreeTypeOK
<1>7. PendOK'
  BY <1>1, <1>2, <1>3 DEF PendOK
<1>8. \A e, j : ~Dying(e, j)
  BY <1>3 DEF Dying
<1>9. Dying(d, i)'
  BY <1>3 DEF Dying
<1>10. EntriesAlive'
  <2> SUFFICES ASSUME NEW e \in Directories', NEW j \in DOMAIN files'[e], files'[e][j] # Null,
                      ~Dying(e, j)'
               PROVE  /\ files'[e][j] \in alive'
                      /\ \A c \in Directories' : \A l \in DOMAIN files'[c] :
                            files'[c][l] = files'[e][j] => c = e /\ l = j
    BY DEF EntriesAlive
  <2>1. e \in Directories \ gone /\ j \in DOMAIN files[e] /\ files[e][j] # Null
    BY <1>1, <1>2
  <2>2. ~(e = d /\ j = i)
    BY <1>9
  <2>3. files[e][j] \in alive \ gone
    BY <1>8, <2>1, <2>2 DEF EntriesAlive
  <2>4. \A c \in Directories : \A l \in DOMAIN files[c] : files[c][l] = files[e][j] => c = e /\ l = j
    BY <1>8, <2>1 DEF EntriesAlive
  <2> QED
    BY <1>1, <1>2, <2>3, <2>4
<1>11. Acyclic'
  BY <1>1, <1>2 DEF Acyclic
<1> QED
  BY <1>5, <1>7, <1>10, <1>11

\* While no deletion is under way, an entry of a directory is allocated, is in
\* no other directory, and is not the directory itself.
LEMMA EntryFacts ==
  ASSUME TreeInv, \A u \in Deleters : pending[u].pc = "none", NEW d \in Directories,
         NEW i \in DOMAIN files[d], files[d][i] # Null
  PROVE  /\ files[d][i] \in alive /\ files[d][i] # d
         /\ \A e \in Directories : \A j \in DOMAIN files[e] : files[e][j] = files[d][i] => e = d /\ j = i
<1> USE DEF TreeInv
<1>1. \A e, j : ~Dying(e, j)
  BY DEF Dying
<1>2. {d} \in SUBSET Directories /\ {d} # {}
  OBVIOUS
<1>3. files[d][i] # d
  BY <1>2 DEF Acyclic
<1> QED
  BY <1>1, <1>3 DEF EntriesAlive

\* With one thread that deletes, none is under way when one starts.
LEMMA StartIsAlone ==
  ASSUME NEW t \in Deleters, NEW d, NEW i, NEW gone, StartDelete(t, d, i, gone)
  PROVE  \A u \in Deleters : pending[u].pc = "none"
  BY OneDeleter DEF StartDelete

LEMMA DeleteOneKeeps ==
  ASSUME TreeInv, NEW t \in Deleters, NEW d \in Directories, NEW i \in DOMAIN files[d],
         files[d][i] # Null, StartDelete(t, d, i, {files[d][i]})
  PROVE  TreeInv'
<1>1. /\ files[d][i] # d
      /\ \A e \in Directories : \A j \in DOMAIN files[e] : files[e][j] = files[d][i] => e = d /\ j = i
  BY StartIsAlone, EntryFacts
<1> DEFINE gone == {files[d][i]}
<1>2. /\ StartDelete(t, d, i, gone) /\ d \notin gone
      /\ \A e \in Directories \ gone : \A j \in DOMAIN files[e] : files[e][j] \in gone => e = d /\ j = i
  BY <1>1
<1> HIDE DEF gone
<1> QED
  BY <1>2, DeleteKeeps

\* The walk from o to entries with name n.
Walk(w, m, o, n) ==
    /\ w \in [0 .. m -> Objs]
    /\ w[0] = o
    /\ \A k \in 1 .. m : kind[w[k - 1]] = "dir" /\ Lookup(w[k - 1], n, w[k])

\* c is an entry of e.
EntryOf(c, e) == \E i \in DOMAIN files[e] : files[e][i] # Null /\ c = files[e][i]

LEMMA ChainIsWalk ==
  ASSUME NEW o, NEW n, NEW c
  PROVE  c \in Chain(o, n) <=> \E m \in 0 .. Cardinality(Objs) : \E w : Walk(w, m, o, n) /\ w[m] = c
<1>1. Cardinality(Objs) \in Nat
  BY TmpfsAssumption, FS_CardinalityType
<1>2. ASSUME NEW m \in 0 .. Cardinality(Objs)
      PROVE  Leads(o, [i \in 1 .. m |-> n], c) <=> \E w : Walk(w, m, o, n) /\ w[m] = c
  <2> DEFINE path == [i \in 1 .. m |-> n]
  <2>1. m \in Nat
    BY <1>1
  <2>2. path \in [1 .. m -> {n}] /\ \A k \in 1 .. m : path[k] = n
    OBVIOUS
  <2>3. Len(path) = m
    BY <2>1, <2>2, FunctionIsSeq
  <2> HIDE DEF path
  <2>4. Leads(o, path, c) <=> \E w : Walk(w, m, o, n) /\ w[m] = c
    BY <2>2, <2>3 DEF Leads, Walk
  <2> QED
    BY <2>4 DEF path
<1>3. ASSUME NEW m \in 0 .. Cardinality(Objs), NEW w, Walk(w, m, o, n)
      PROVE  w[m] \in Objs
  BY <1>1, <1>3 DEF Walk
<1> QED
  BY <1>2, <1>3 DEF Chain

\* A walk that starts at an allocated object stays with allocated objects.
LEMMA WalkAlive ==
  ASSUME TreeInv, \A u \in Deleters : pending[u].pc = "none", NEW o \in alive, NEW n,
         NEW m \in Nat, NEW w, Walk(w, m, o, n)
  PROVE  /\ \A k \in 0 .. m : w[k] \in alive
         /\ \A k \in 1 .. m : w[k - 1] \in Directories /\ EntryOf(w[k], w[k - 1])
<1> DEFINE Dead == {k \in 0 .. m : w[k] \notin alive}
<1>1. ASSUME NEW k \in 1 .. m
      PROVE  kind[w[k - 1]] = "dir" /\ EntryOf(w[k], w[k - 1])
  BY DEF Walk, Lookup, Named, EntryOf
<1>2. Dead = {}
  <2> SUFFICES ASSUME Dead # {}
               PROVE  FALSE
    OBVIOUS
  <2>1. Dead \in SUBSET Nat
    OBVIOUS
  <2>2. PICK k \in Dead : \A l \in Dead : k <= l
    BY <2>1, LeastIndex
  <2>3. k # 0
    BY <2>2 DEF Walk
  <2>4. k \in 1 .. m /\ k - 1 \in 0 .. m /\ k - 1 \notin Dead
    BY <2>2, <2>3
  <2>5. w[k - 1] \in Directories
    BY <1>1, <2>4 DEF Directories
  <2>6. PICK i \in DOMAIN files[w[k - 1]] : files[w[k - 1]][i] # Null /\ w[k] = files[w[k - 1]][i]
    BY <1>1, <2>4 DEF EntryOf
  <2>7. w[k] \in alive
    BY <2>5, <2>6, EntryFacts
  <2> QED
    BY <2>2, <2>7
<1>3. \A k \in 0 .. m : w[k] \in alive
  BY <1>2
<1>4. ASSUME NEW k \in 1 .. m
      PROVE  w[k - 1] \in Directories
  <2>1. k - 1 \in 0 .. m
    OBVIOUS
  <2> QED
    BY <1>1, <1>3, <2>1 DEF Directories
<1> QED
  BY <1>1, <1>3, <1>4

LEMMA DeleteChainKeeps ==
  ASSUME TreeInv, NEW t \in Deleters, NEW d \in Directories, NEW i \in DOMAIN files[d],
         files[d][i] # Null, NEW n, StartDelete(t, d, i, Chain(files[d][i], n))
  PROVE  TreeInv'
<1> DEFINE o == files[d][i]
           gone == Chain(o, n)
<1>1. \A u \in Deleters : pending[u].pc = "none"
  BY StartIsAlone
<1>2. o \in alive /\ \A e \in Directories : \A j \in DOMAIN files[e] : files[e][j] = o => e = d /\ j = i
  BY <1>1, EntryFacts
<1>3. Cardinality(Objs) \in Nat
  BY TmpfsAssumption, FS_CardinalityType
<1> HIDE DEF o
<1>4. d \notin gone
  <2> SUFFICES ASSUME d \in Chain(o, n)
               PROVE  FALSE
    OBVIOUS
  <2>1. PICK m \in 0 .. Cardinality(Objs) : \E w : Walk(w, m, o, n) /\ w[m] = d
    BY ChainIsWalk
  <2>2. PICK w : Walk(w, m, o, n) /\ w[m] = d
    BY <2>1
  <2>3. m \in Nat
    BY <1>3
  <2>4. \A k \in 1 .. m : w[k - 1] \in Directories /\ EntryOf(w[k], w[k - 1])
    BY <1>1, <1>2, <2>2, <2>3, WalkAlive
  <2> DEFINE S == {w[k] : k \in 0 .. m}
  <2>5. ASSUME NEW k \in 0 .. m
        PROVE  w[k] \in Directories
    <3>1. CASE k = m
      BY <2>2, <3>1
    <3>2. CASE k # m
      <4>1. k + 1 \in 1 .. m /\ (k + 1) - 1 = k
        BY <2>3, <3>2
      <4> QED
        BY <2>4, <4>1
    <3> QED
      BY <3>1, <3>2
  <2>6. S \in SUBSET Directories /\ d \in S /\ S # {}
    BY <2>2, <2>3, <2>5
  <2>7. PICK x \in S : \A e \in S : \A l \in DOMAIN files[e] : files[e][l] # x
    BY <2>6 DEF TreeInv, Acyclic
  <2>8. PICK k \in 0 .. m : x = w[k]
    BY <2>7
  <2>9. CASE k = 0
    <3>1. x = files[d][i]
      BY <2>2, <2>8, <2>9 DEF Walk, o
    <3> QED
      BY <2>6, <2>7, <3>1
  <2>10. CASE k # 0
    <3>1. k \in 1 .. m /\ k - 1 \in 0 .. m
      BY <2>3, <2>10
    <3>2. w[k - 1] \in S
      BY <3>1
    <3>3. PICK l \in DOMAIN files[w[k - 1]] : w[k] = files[w[k - 1]][l]
      BY <2>4, <3>1 DEF EntryOf
    <3> QED
      BY <2>7, <2>8, <3>2, <3>3
  <2> QED
    BY <2>9, <2>10
<1>5. ASSUME NEW e \in Directories \ gone, NEW j \in DOMAIN files[e], files[e][j] \in gone
      PROVE  e = d /\ j = i
  <2>1. PICK m \in 0 .. Cardinality(Objs) : \E w : Walk(w, m, o, n) /\ w[m] = files[e][j]
    BY <1>5, ChainIsWalk
  <2>2. PICK w : Walk(w, m, o, n) /\ w[m] = files[e][j]
    BY <2>1
  <2>3. m \in Nat
    BY <1>3
  <2>4. CASE m = 0
    BY <1>2, <2>2, <2>4 DEF Walk
  <2>5. CASE m # 0
    <3>1. m \in 1 .. m /\ m - 1 \in 0 .. Cardinality(Objs) /\ m - 1 \in Nat
      BY <1>3, <2>3, <2>5
    <3>2. w[m - 1] \in Directories /\ EntryOf(w[m], w[m - 1])
      BY <1>1, <1>2, <2>2, <2>3, <3>1, WalkAlive
    <3>3. PICK l \in DOMAIN files[w[m - 1]] : files[w[m - 1]][l] # Null /\ w[m] = files[w[m - 1]][l]
      BY <3>2 DEF EntryOf
    <3>4. e = w[m - 1]
      <4>1. files[e][j] = files[w[m - 1]][l]
        BY <2>2, <3>3
      <4> QED
        BY <1>1, <3>2, <3>3, <4>1, EntryFacts
    <3> DEFINE v == [k \in 0 .. m - 1 |-> w[k]]
    <3>5. Walk(v, m - 1, o, n)
      <4>1. \A k \in 0 .. m : w[k] \in Objs
        BY <2>2 DEF Walk
      <4>2. v \in [0 .. m - 1 -> Objs] /\ \A k \in 0 .. m - 1 : v[k] = w[k]
        BY <2>3, <4>1
      <4> HIDE DEF v
      <4>3. v[0] = o
        BY <2>2, <3>1, <4>2 DEF Walk
      <4>4. ASSUME NEW k \in 1 .. m - 1
            PROVE  kind[v[k - 1]] = "dir" /\ Lookup(v[k - 1], n, v[k])
        <5>1. k \in 1 .. m /\ k - 1 \in 0 .. m - 1 /\ k \in 0 .. m - 1
          BY <2>3
        <5>2. kind[w[k - 1]] = "dir" /\ Lookup(w[k - 1], n, w[k])
          BY <2>2, <5>1 DEF Walk
        <5>3. v[k] = w[k] /\ v[k - 1] = w[k - 1]
          BY <4>2, <5>1
        <5> QED
          BY <5>2, <5>3
      <4> QED
        BY <4>2, <4>3, <4>4 DEF Walk
    <3>6. v[m - 1] = e
      BY <3>1, <3>4
    <3>7. e \in gone
      BY <3>1, <3>5, <3>6, ChainIsWalk
    <3> QED
      BY <3>7
  <2> QED
    BY <2>4, <2>5
<1>6. StartDelete(t, d, i, gone)
  BY DEF o
<1> HIDE DEF gone
<1> QED
  BY <1>4, <1>5, <1>6, DeleteKeeps

-----------------------------------------------------------------------------
(* The end of a deletion.                                                  *)

\* A step that changes neither the objects nor the entries, nor which entry is
\* about to be cleared.
LEMMA SameEntries ==
  ASSUME TreeInv, UNCHANGED <<alive, kind, name, files>>, num' \in [Objs -> Int],
         pending' \in [Deleters -> Deletions], mode' \in {"run", "overrun", "stale", "fault"},
         PendOK', \A e, j : Dying(e, j)' <=> Dying(e, j)
  PROVE  TreeInv'
<1> USE DEF TreeInv
<1>1. Directories' = Directories
  BY DEF Directories
<1>2. TreeTypeOK'
  BY DEF TreeTypeOK
<1>3. Acyclic'
  BY <1>1 DEF Acyclic
<1>4. EntriesAlive'
  BY <1>1 DEF EntriesAlive
<1> QED
  BY <1>2, <1>3, <1>4

\* The other steps of the deletion: loading the address of the array, and num_files.
LEMMA LoadKeeps ==
  ASSUME TreeInv, NEW t \in Deleters, LoadArray(t) \/ LoadNum(t) \/ StoreNum(t)
  PROVE  TreeInv'
<1> USE DEF TreeInv
<1>1. /\ pending \in [Deleters -> Deletions] /\ num \in [Objs -> Int] /\ mode' = mode
      /\ files \in [Objs -> Seq(Entries)] /\ UNCHANGED <<alive, kind, name, files>>
      /\ mode \in {"run", "overrun", "stale", "fault"}
  BY DEF TreeTypeOK, LoadArray, LoadNum, StoreNum, Entries
<1>2. pending[t].pc # "none"
  BY DEF LoadArray, LoadNum, StoreNum
<1>3. pending[t].dir \in Directories /\ pending[t].dir \in Objs /\ pending[t].val \in Int
  BY <1>1, <1>2 DEF PendOK, Deletions
<1>4. \A u \in Deleters : u = t
  BY OneDeleter
<1>5. Directories' = Directories
  BY <1>1 DEF Directories
<1>6. CASE LoadArray(t)
  <2>1. files[pending[t].dir] \in Seq(Entries)
    BY <1>1, <1>3
  <2>2. Len(files[pending[t].dir]) \in Int
    BY <2>1, NonNullFinite
  <2>3. pending' = [pending EXCEPT ![t].pc = "array", ![t].val = Len(files[pending[t].dir])]
        /\ num' = num /\ pending[t].pc = "freed"
    BY <1>6 DEF LoadArray
  <2>4. /\ pending'[t].pc = "array" /\ pending'[t].dir = pending[t].dir
        /\ pending'[t].at = pending[t].at /\ pending' \in [Deleters -> Deletions]
    BY <1>1, <2>2, <2>3 DEF Deletions
  <2>5. PendOK'
    BY <1>1, <1>4, <1>5, <2>3, <2>4 DEF PendOK
  <2>6. \A e, j : Dying(e, j)' <=> Dying(e, j)
    BY <1>4, <2>3, <2>4 DEF Dying
  <2> QED
    BY <1>1, <2>3, <2>4, <2>5, <2>6, SameEntries
<1>7. CASE LoadNum(t)
  <2>2. num[pending[t].dir] \in Int
    BY <1>1, <1>3
  <2>3. pending' = [pending EXCEPT ![t].pc = "loaded", ![t].val = num[pending[t].dir]]
        /\ num' = num /\ pending[t].pc = "cleared"
    BY <1>7 DEF LoadNum
  <2>4. /\ pending'[t].pc = "loaded" /\ pending'[t].dir = pending[t].dir
        /\ pending' \in [Deleters -> Deletions]
    BY <1>1, <2>2, <2>3 DEF Deletions
  <2>5. PendOK'
    BY <1>3, <1>4, <1>5, <2>4 DEF PendOK
  <2>6. \A e, j : Dying(e, j)' <=> Dying(e, j)
    BY <1>4, <2>3, <2>4 DEF Dying
  <2> QED
    BY <1>1, <2>3, <2>4, <2>5, <2>6, SameEntries
<1>8. CASE StoreNum(t)
  <2>1. pending' = [pending EXCEPT ![t] = NoDeletion] /\ pending[t].pc = "loaded"
        /\ num' = [num EXCEPT ![pending[t].dir] = pending[t].val - 1]
    BY <1>8 DEF StoreNum
  <2>2. num' \in [Objs -> Int]
    BY <1>1, <1>3, <2>1
  <2>3. NoDeletion \in Deletions
    BY TmpfsAssumption DEF NoDeletion, Deletions
  <2>4. pending' \in [Deleters -> Deletions] /\ pending'[t].pc = "none"
    BY <1>1, <2>1, <2>3 DEF NoDeletion
  <2>5. PendOK'
    BY <1>4, <2>4 DEF PendOK
  <2>6. \A e, j : Dying(e, j)' <=> Dying(e, j)
    BY <1>4, <2>1, <2>4 DEF Dying
  <2> QED
    BY <1>1, <2>2, <2>4, <2>5, <2>6, SameEntries
<1> QED
  BY <1>6, <1>7, <1>8

\* What is known when the entry is really cleared.
LEMMA ClearEffect ==
  ASSUME TreeInv, NEW t \in Deleters, ClearEntry(t), mode' # "stale", NEW d, NEW i,
         d = pending[t].dir, i = pending[t].at
  PROVE  /\ d \in Directories /\ i \in DOMAIN files[d] /\ files[d][i] # Null
         /\ pending[t].pc = "array" /\ pending'[t].pc = "cleared" /\ pending'[t].dir = d
         /\ pending' \in [Deleters -> Deletions]
         /\ files'[d] = [files[d] EXCEPT ![i] = Null]
         /\ \A e \in Objs : e # d => files'[e] = files[e]
         /\ files' \in [Objs -> Seq(Entries)]
         /\ UNCHANGED <<alive, kind, name, num, mode>>
<1> USE DEF TreeInv
<1>1. /\ files' = [files EXCEPT ![d][i] = Null] /\ pending[t].pc = "array"
      /\ pending' = [pending EXCEPT ![t].pc = "cleared", ![t].val = 0]
      /\ UNCHANGED <<alive, kind, name, num, mode>>
  BY DEF ClearEntry
<1>2. d \in Directories /\ i \in DOMAIN files[d] /\ files[d][i] # Null
  BY <1>1 DEF PendOK
<1>3. files \in [Objs -> Seq(Entries)] /\ d \in Objs /\ pending \in [Deleters -> Deletions]
  BY <1>2 DEF TreeTypeOK, Entries, Directories
<1>4. pending'[t].pc = "cleared" /\ pending'[t].dir = d /\ pending' \in [Deleters -> Deletions]
  <2>1. 0 \in Int /\ pending[t] \in Deletions
    BY <1>3
  <2>2. pending'[t] = [pending[t] EXCEPT !.pc = "cleared", !.val = 0]
    BY <1>1, <1>3
  <2>3. pending'[t] \in Deletions /\ pending'[t].pc = "cleared" /\ pending'[t].dir = pending[t].dir
    BY <2>1, <2>2 DEF Deletions
  <2>4. pending' = [pending EXCEPT ![t] = pending'[t]]
    BY <1>1, <1>3, <2>2
  <2> QED
    BY <1>3, <2>3, <2>4
<1> DEFINE new == [files[d] EXCEPT ![i] = Null]
<1>5. files' = [files EXCEPT ![d] = new] /\ files[d] \in Seq(Entries)
  BY <1>1, <1>3
<1>6. new \in Seq(Entries)
  BY <1>2, <1>5, ClearedEntries
<1>7. /\ files'[d] = new /\ \A e \in Objs : e # d => files'[e] = files[e]
      /\ files' \in [Objs -> Seq(Entries)]
  <2> HIDE DEF new
  <2> QED
    BY <1>3, <1>5, <1>6
<1> QED
  BY <1>1, <1>2, <1>4, <1>7

LEMMA ClearKeeps ==
  ASSUME TreeInv, NEW t \in Deleters, ClearEntry(t), mode' # "stale", NEW d, NEW i,
         d = pending[t].dir, i = pending[t].at
  PROVE  TreeInv'
<1>10. pending[t].pc = "array"
  BY DEF ClearEntry
<1>11. pending'[t].pc = "cleared" /\ pending'[t].dir = d
  BY ClearEffect
<1>12. d \in Directories /\ i \in DOMAIN files[d] /\ files[d][i] # Null
  BY <1>10 DEF TreeInv, PendOK
<1>1. /\ d \in Directories /\ i \in DOMAIN files[d] /\ files[d][i] # Null
      /\ pending[t].pc = "array" /\ pending'[t].pc = "cleared" /\ pending'[t].dir = d
  BY <1>10, <1>11, <1>12
<1>9. pending' \in [Deleters -> Deletions]
  BY ClearEffect
<1>2. /\ files'[d] = [files[d] EXCEPT ![i] = Null]
      /\ \A e \in Objs : e # d => files'[e] = files[e]
      /\ files' \in [Objs -> Seq(Entries)]
      /\ UNCHANGED <<alive, kind, name, num, mode>>
  BY ClearEffect
<1> USE DEF TreeInv
<1>3. \A u \in Deleters : u = t
  BY OneDeleter
<1>4. Directories' = Directories /\ Directories \subseteq Objs
  BY <1>2 DEF Directories, TreeTypeOK
<1>5. \A e, j : Dying(e, j) => e = d /\ j = i
  BY <1>3 DEF Dying
<1>6. files[d] \in Seq(Entries)
  BY <1>1, <1>4 DEF TreeTypeOK, Entries
<1>7. PendOK'
  BY <1>1, <1>3, <1>4 DEF PendOK
<1>8. /\ DOMAIN files'[d] = DOMAIN files[d] /\ files'[d][i] = Null
      /\ \A j \in DOMAIN files[d] : j # i => files'[d][j] = files[d][j]
  BY <1>1, <1>2, <1>6, ClearedEntries
<1>15. TreeTypeOK'
  BY <1>1, <1>2, <1>9 DEF TreeTypeOK, Entries
\* The entries that are left are the ones from before, without <<d, i>>.
<1>18. ASSUME NEW e \in Directories, NEW j \in DOMAIN files'[e], files'[e][j] # Null
       PROVE  j \in DOMAIN files[e] /\ files'[e][j] = files[e][j] /\ ~(e = d /\ j = i)
  <2>1. CASE e = d
    BY <1>8, <1>18, <2>1
  <2>2. CASE e # d
    BY <1>2, <1>4, <2>2
  <2> QED
    BY <2>1, <2>2
<1>20. EntriesAlive'
  <2> SUFFICES ASSUME NEW e \in Directories, NEW j \in DOMAIN files'[e], files'[e][j] # Null
               PROVE  /\ files'[e][j] \in alive
                      /\ \A c \in Directories : \A l \in DOMAIN files'[c] :
                            files'[c][l] = files'[e][j] => c = e /\ l = j
    BY <1>2, <1>4 DEF EntriesAlive
  <2>1. j \in DOMAIN files[e] /\ files'[e][j] = files[e][j] /\ ~Dying(e, j)
    BY <1>5, <1>18
  <2>2. /\ files[e][j] \in alive
        /\ \A c \in Directories : \A l \in DOMAIN files[c] :
              files[c][l] = files[e][j] /\ ~Dying(c, l) => c = e /\ l = j
    BY <2>1 DEF EntriesAlive
  <2>3. ASSUME NEW c \in Directories, NEW l \in DOMAIN files'[c], files'[c][l] = files'[e][j]
        PROVE  c = e /\ l = j
    <3>1. l \in DOMAIN files[c] /\ files'[c][l] = files[c][l] /\ ~Dying(c, l)
      BY <1>5, <1>18, <2>3
    <3> QED
      BY <2>1, <2>2, <2>3, <3>1
  <2> QED
    BY <2>1, <2>2, <2>3
<1>21. Acyclic'
  <2> SUFFICES ASSUME NEW S \in SUBSET Directories, S # {}
               PROVE  \E x \in S : \A e \in S : \A j \in DOMAIN files'[e] : files'[e][j] # x
    BY <1>4 DEF Acyclic
  <2>1. PICK x \in S : \A e \in S : \A j \in DOMAIN files[e] : files[e][j] # x
    BY DEF Acyclic
  <2>2. x # Null
    BY <1>4, TmpfsAssumption
  <2>3. ASSUME NEW e \in S, NEW j \in DOMAIN files'[e]
        PROVE  files'[e][j] # x
    <3>1. CASE files'[e][j] = Null
      BY <2>2, <3>1
    <3>2. CASE files'[e][j] # Null
      BY <1>18, <2>1, <3>2
    <3> QED
      BY <3>1, <3>2
  <2> QED
    BY <2>3
<1> QED
  BY <1>7, <1>15, <1>20, <1>21

\* Steps that change nothing but the mode.
LEMMA ModeKeeps ==
  ASSUME TreeInv, UNCHANGED <<alive, kind, name, files, num, pending>>,
         mode' \in {"run", "overrun", "stale", "fault"}
  PROVE  TreeInv'
<1>1. Directories' = Directories /\ \A e, j : Dying(e, j)' <=> Dying(e, j)
  BY DEF Directories, Dying
<1>2. PendOK'
  BY <1>1 DEF TreeInv, PendOK
<1>3. num' \in [Objs -> Int] /\ pending' \in [Deleters -> Deletions]
  BY DEF TreeInv, TreeTypeOK
<1> QED
  BY <1>1, <1>2, <1>3, SameEntries

LEMMA EndKeeps ==
  ASSUME TreeInv, NEW t \in Deleters, ClearEntry(t)
  PROVE  TreeInv'
<1>1. CASE mode' = "stale"
  <2>1. UNCHANGED <<alive, kind, name, files, num, pending>>
    BY <1>1 DEF ClearEntry
  <2> QED
    BY <1>1, <2>1, ModeKeeps
<1> QED
  BY <1>1, ClearKeeps

-----------------------------------------------------------------------------
(* The theorems about the entries.                                         *)

LEMMA TreeInvStep == TreeInv /\ [TreeNext]_treeVars => TreeInv'
<1> SUFFICES ASSUME TreeInv, [TreeNext]_treeVars
             PROVE  TreeInv'
  OBVIOUS
<1>1. ASSUME NEW d \in Objs, NEW o \in Objs, NEW n \in Names, CreateFile(d, o, n)
      PROVE  TreeInv'
  <2>1. Create(d, o, n, "file") /\ mode' \in {"run", "overrun", "stale", "fault"}
    BY <1>1 DEF CreateFile, TreeInv, TreeTypeOK
  <2> QED
    BY <2>1, CreateKeeps
<1>2. ASSUME NEW d \in Objs, NEW o \in Objs, NEW n \in Names, CreateDirectory(d, o, n)
      PROVE  TreeInv'
  <2>1. Create(d, o, n, "dir") /\ mode' \in {"run", "overrun", "stale", "fault"}
    BY <1>2 DEF CreateDirectory, TreeInv, TreeTypeOK
  <2> QED
    BY <2>1, CreateKeeps
<1>3. ASSUME NEW t \in Deleters, NEW d \in Directories, NEW n \in Names, DeleteFile(t, d, n)
      PROVE  TreeInv'
  <2>1. PICK i \in DOMAIN files[d] : files[d][i] # Null /\ StartDelete(t, d, i, {files[d][i]})
    BY <1>3 DEF DeleteFile, Named
  <2> QED
    BY <2>1, DeleteOneKeeps
<1>4. ASSUME NEW t \in Deleters, NEW d \in Directories, NEW n \in Names, DeleteDirectory(t, d, n)
      PROVE  TreeInv'
  <2>1. PICK i \in DOMAIN files[d] : files[d][i] # Null /\ StartDelete(t, d, i, {files[d][i]})
    BY <1>4 DEF DeleteDirectory, Named
  <2> QED
    BY <2>1, DeleteOneKeeps
<1>5. ASSUME NEW t \in Deleters, NEW d \in Directories, NEW n \in Names,
             DeleteDirectoryNoOrphan(t, d, n)
      PROVE  TreeInv'
  <2>1. PICK i \in DOMAIN files[d] : files[d][i] # Null /\ StartDelete(t, d, i, Chain(files[d][i], n))
    BY <1>5 DEF DeleteDirectoryNoOrphan, Named
  <2> QED
    BY <2>1, DeleteChainKeeps
<1>6. ASSUME NEW t \in Deleters, LoadArray(t) \/ ClearEntry(t) \/ LoadNum(t) \/ StoreNum(t)
      PROVE  TreeInv'
  BY <1>6, EndKeeps, LoadKeeps
<1>7. CASE UNCHANGED treeVars
  BY <1>7, ModeKeeps DEF treeVars, TreeInv, TreeTypeOK
<1> QED
  BY <1>1, <1>2, <1>3, <1>4, <1>5, <1>6, <1>7 DEF TreeNext

LEMMA TreeInvariant == TreeSpec => []TreeInv
  BY TreeInitInv, TreeInvStep, PTL DEF TreeSpec

\* An entry that is not about to be cleared refers to an object that is allocated
\* and is in one directory only: for any number of objects and names, whatever
\* other threads create in the middle of a deletion, and even where a creation
\* has found no NULL entry and has overwritten one.
THEOREM DirectoriesConsistent == TreeSpec => [](TreeTypeOK /\ EntriesAlive)
<1>1. TreeInv => TreeTypeOK /\ EntriesAlive
  BY DEF TreeInv
<1> QED
  BY <1>1, TreeInvariant, PTL

\* No directory is its own ancestor: tmpfs_delete_directory_no_orphan, which
\* follows a name downwards, comes to an end.
THEOREM NoDirectoryCycle == TreeSpec => []Acyclic
<1>1. TreeInv => Acyclic
  BY DEF TreeInv
<1> QED
  BY <1>1, TreeInvariant, PTL

-----------------------------------------------------------------------------
(* The count.                                                              *)

LEMMA CountedIs ==
  ASSUME TreeTypeOK, NEW d \in Objs
  PROVE  Counted(d) <=> ArrayOK(files[d], num[d], Owed(d))
  BY DEF Counted, ArrayOK, NonNull, TreeTypeOK, Entries

LEMMA CountedIsNext ==
  ASSUME TreeTypeOK', NEW d \in Objs
  PROVE  Counted(d)' <=> ArrayOK(files'[d], num'[d], Owed(d)')
  BY DEF Counted, ArrayOK, NonNull, TreeTypeOK, Entries

\* A directory whose entries, count and debt stay as they are.
LEMMA SameCount ==
  ASSUME NEW d, Counted(d), files'[d] = files[d], num'[d] = num[d], Owed(d)' = Owed(d)
  PROVE  Counted(d)'
  BY DEF Counted

LEMMA CreateCounts ==
  ASSUME TreeInv, TreeInv', NEW c \in Objs, NEW o \in Objs, NEW n \in Names, NEW k \in {"file", "dir"},
         Create(c, o, n, k), NEW d \in Directories', d \in Directories => Counted(d)
  PROVE  Counted(d)'
<1>1. /\ c \in Directories /\ o \notin alive /\ c # o
      /\ Directories' \subseteq Directories \cup {o}
      /\ pending' = pending
      /\ files'[o] = NoFiles /\ num'[o] = 0 /\ num'[c] = num[c] + 1
      /\ \A e \in Objs : e # c /\ e # o => files'[e] = files[e] /\ num'[e] = num[e]
  BY CreateEffect
<1>2. PICK i \in DOMAIN files[c] :
         FreeIndex(c, i) /\ files'[c] = Filled(files[c], i, o, num[c] + 1)
  BY CreateEffect
<1>3. \A e : Owed(e)' = Owed(e)
  BY <1>1 DEF Owed
<1>4. d \in Objs /\ c \in Objs /\ TreeTypeOK /\ TreeTypeOK'
  BY <1>1 DEF TreeInv, TreeTypeOK, Directories
<1>5. CASE d = o
  <2>1. Owed(o) = 0
    BY <1>1 DEF Owed, TreeInv, PendOK, Directories
  <2>2. ArrayOK(files'[o], num'[o], Owed(o)')
    BY <1>1, <1>3, <2>1, EmptyArray
  <2> QED
    BY <1>4, <1>5, <2>2, CountedIsNext
<1>6. CASE d = c
  <2>1. ArrayOK(files[c], num[c], Owed(c)) /\ Owed(c) \in Nat
    BY <1>1, <1>4, <1>6, CountedIs DEF Owed
  <2>2. files[c][i] = Null
    BY <1>2, <2>1, FreeIndexIsNull
  <2>3. ArrayOK(files'[c], num[c] + 1, Owed(c))
    BY <1>2, <2>1, <2>2, FillOK
  <2>4. ArrayOK(files'[c], num'[c], Owed(c)')
    BY <1>1, <1>3, <2>3
  <2> QED
    BY <1>4, <1>6, <2>4, CountedIsNext
<1>7. CASE d # o /\ d # c
  BY <1>1, <1>3, <1>4, <1>7, SameCount
<1> QED
  BY <1>5, <1>6, <1>7

LEMMA StartCounts ==
  ASSUME TreeInv, NEW t \in Deleters, NEW e, NEW i, NEW gone, StartDelete(t, e, i, gone),
         NEW d \in Directories', d \in Directories => Counted(d)
  PROVE  Counted(d)'
<1>1. /\ files' = files /\ num' = num /\ alive' \subseteq alive /\ kind' = kind /\ pending[t].pc = "none"
      /\ pending' = [pending EXCEPT ![t] = [pc |-> "freed", dir |-> e, at |-> i, val |-> 0]]
  BY DEF StartDelete
<1>2. d \in Directories
  BY <1>1 DEF Directories
<1>3. pending'[t].pc = "freed"
  BY <1>1 DEF TreeInv, TreeTypeOK
<1>4. \A u \in Deleters : u = t
  BY OneDeleter
<1>5. Owed(d) = 0 /\ Owed(d)' = 0
  BY <1>1, <1>3, <1>4 DEF Owed
<1> QED
  BY <1>1, <1>2, <1>5, SameCount

LEMMA EndCounts ==
  ASSUME TreeInv, TreeInv', NEW t \in Deleters,
         LoadArray(t) \/ ClearEntry(t) \/ LoadNum(t) \/ StoreNum(t),
         NEW d \in Directories', d \in Directories => Counted(d)
  PROVE  \/ Counted(d)'
         \/ StoreNum(t) /\ pending[t].dir = d /\ pending[t].val # num[d]
<1>1. alive' = alive /\ kind' = kind
  BY DEF LoadArray, ClearEntry, LoadNum, StoreNum
<1>2. d \in Directories /\ Counted(d) /\ d \in Objs
  BY <1>1 DEF Directories, TreeInv, TreeTypeOK
<1>3. TreeTypeOK /\ TreeTypeOK' /\ num \in [Objs -> Int] /\ pending \in [Deleters -> Deletions]
  BY DEF TreeInv, TreeTypeOK
<1>4. \A u \in Deleters : u = t
  BY OneDeleter
<1>5. Owed(d) = IF pending[t].dir = d /\ pending[t].pc \in {"cleared", "loaded"} THEN 1 ELSE 0
  BY <1>4 DEF Owed
<1>6. Owed(d)' = IF pending'[t].dir = d /\ pending'[t].pc \in {"cleared", "loaded"} THEN 1 ELSE 0
  BY <1>4 DEF Owed
<1>7. CASE LoadArray(t)
  <2>1. /\ files' = files /\ num' = num /\ pending[t].pc = "freed" /\ pending'[t].pc = "array"
    BY <1>3, <1>7 DEF LoadArray, Deletions
  <2> QED
    BY <1>2, <1>5, <1>6, <2>1, SameCount
<1>8. CASE LoadNum(t)
  <2>1. /\ files' = files /\ num' = num /\ pending[t].pc = "cleared" /\ pending'[t].pc = "loaded"
        /\ pending'[t].dir = pending[t].dir
    BY <1>3, <1>8 DEF LoadNum, Deletions
  <2> QED
    BY <1>2, <1>5, <1>6, <2>1, SameCount
<1>9. CASE ClearEntry(t) /\ mode' = "stale"
  <2>1. files' = files /\ num' = num /\ pending' = pending
    BY <1>9, <1>3 DEF ClearEntry
  <2> QED
    BY <1>2, <1>5, <1>6, <2>1, SameCount
<1>10. CASE ClearEntry(t) /\ mode' # "stale"
  <2> DEFINE c == pending[t].dir
             i == pending[t].at
  <2>1. /\ i \in DOMAIN files[c] /\ files[c][i] # Null
        /\ pending[t].pc = "array" /\ pending'[t].pc = "cleared" /\ pending'[t].dir = c
        /\ files'[c] = [files[c] EXCEPT ![i] = Null]
        /\ \A e \in Objs : e # c => files'[e] = files[e]
        /\ num' = num
    BY <1>10, ClearEffect
  <2>2. CASE d # c
    BY <1>2, <1>5, <1>6, <2>1, <2>2, SameCount
  <2>3. CASE d = c
    <3>1. ArrayOK(files[d], num[d], 0)
      <4>1. Owed(d) = 0
        BY <1>5, <2>1
      <4> QED
        BY <1>2, <1>3, <4>1, CountedIs
    <3>2. Owed(d)' = 1
      BY <1>6, <2>1, <2>3
    <3>3. ArrayOK(files'[d], num[d], 0 + 1)
      BY <2>1, <2>3, <3>1, ClearOK
    <3>4. ArrayOK(files'[d], num'[d], Owed(d)')
      BY <2>1, <3>2, <3>3
    <3> QED
      BY <1>2, <1>3, <3>4, CountedIsNext
  <2> QED
    BY <2>2, <2>3
<1>11. CASE StoreNum(t)
  <2>1. /\ files' = files /\ pending[t].pc = "loaded"
        /\ num' = [num EXCEPT ![pending[t].dir] = pending[t].val - 1]
        /\ pending'[t].pc = "none"
    BY <1>3, <1>11 DEF StoreNum, NoDeletion
  <2>2. Owed(d)' = 0
    BY <1>6, <2>1
  <2>3. CASE pending[t].dir # d
    <3>1. Owed(d) = 0 /\ num'[d] = num[d]
      BY <1>2, <1>3, <1>5, <2>1, <2>3
    <3> QED
      BY <1>2, <2>1, <2>2, <3>1, SameCount
  <2>4. CASE pending[t].dir = d /\ pending[t].val = num[d]
    <3>1. Owed(d) = 1 /\ num'[d] = num[d] - 1
      BY <1>2, <1>3, <1>5, <2>1, <2>4
    <3>2. ArrayOK(files[d], num[d], 1)
      BY <1>2, <1>3, <3>1, CountedIs
    <3>3. ArrayOK(files'[d], num'[d], 0)
      <4>1. files[d] \in Seq(Entries)
        BY <3>2 DEF ArrayOK
      <4>2. Len(files[d]) \in Nat /\ Cardinality(NonNull(files[d])) \in Nat
        BY <4>1, NonNullFinite
      <4> QED
        BY <2>1, <3>1, <3>2, <4>2 DEF ArrayOK
    <3>4. ArrayOK(files'[d], num'[d], Owed(d)')
      BY <2>2, <3>3
    <3> QED
      BY <1>2, <1>3, <3>4, CountedIsNext
  <2> QED
    BY <1>11, <2>3, <2>4
<1> QED
  BY <1>7, <1>8, <1>9, <1>10, <1>11

LEMMA CountStep ==
  ASSUME TreeInv, TreeInv', TreeNext, NEW d \in Directories', d \in Directories => Counted(d)
  PROVE  \/ Counted(d)'
         \/ \E t \in Deleters : StoreNum(t) /\ pending[t].dir = d /\ pending[t].val # num[d]
<1>1. ASSUME NEW c \in Objs, NEW o \in Objs, NEW n \in Names,
             CreateFile(c, o, n) \/ CreateDirectory(c, o, n)
      PROVE  Counted(d)'
  <2>1. \E k \in {"file", "dir"} : Create(c, o, n, k)
    BY <1>1 DEF CreateFile, CreateDirectory
  <2> QED
    BY <2>1, CreateCounts
<1>2. ASSUME NEW t \in Deleters, NEW c \in Directories, NEW n \in Names,
             DeleteFile(t, c, n) \/ DeleteDirectory(t, c, n) \/ DeleteDirectoryNoOrphan(t, c, n)
      PROVE  Counted(d)'
  <2>1. \E i, gone : StartDelete(t, c, i, gone)
    BY <1>2 DEF DeleteFile, DeleteDirectory, DeleteDirectoryNoOrphan
  <2> QED
    BY <2>1, StartCounts
<1>3. ASSUME NEW t \in Deleters, LoadArray(t) \/ ClearEntry(t) \/ LoadNum(t) \/ StoreNum(t)
      PROVE  \/ Counted(d)'
             \/ StoreNum(t) /\ pending[t].dir = d /\ pending[t].val # num[d]
  BY <1>3, EndCounts
<1> QED
  BY <1>1, <1>2, <1>3 DEF TreeNext

\* The condition of CountKept, on one step.
CountStays ==
    \A d \in Directories' : (d \in Directories => Counted(d)) =>
        \/ Counted(d)'
        \/ \E t \in Deleters : StoreNum(t) /\ pending[t].dir = d /\ pending[t].val # num[d]

LEMMA CountStays1 == TreeInv /\ TreeInv' /\ [TreeNext]_treeVars => [CountStays]_treeVars
  BY CountStep DEF CountStays

\* num_files comes apart from the entries only where a deletion stores a value of
\* num_files that a creation has changed since it was loaded; until then every
\* creation finds a NULL entry, for any number of objects and names and for
\* every length of the arrays.
THEOREM DirectoriesCount == TreeSpec => CountKept
<1>1. TreeSpec => [][CountStays]_treeVars
  BY TreeInvariant, CountStays1, PTL DEF TreeSpec
<1> QED
  BY <1>1 DEF CountKept, CountStays
=============================================================================
