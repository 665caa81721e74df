------------------------------- MODULE Tmpfs --------------------------------
(***************************************************************************)
(* The directories of kernel/src/tmpfs.c: creation and deletion of files   *)
(* and directories.  The two functions that create run with interrupts     *)
(* disabled.  The three that delete do not: they free the object first,    *)
(* then clear its entry in the directory and decrement num_files, and      *)
(* other threads may run at every point.  The directory's mutex does not   *)
(* hold them off (module Mutex): a creation acquires it with interrupts    *)
(* disabled and never waits.  The kernel is built with -O0, so that the    *)
(* array's address and num_files are loaded in one step and written to in  *)
(* another.  Contents, permissions and timestamps are left out.            *)
(***************************************************************************)
EXTENDS Integers, Sequences, FiniteSets

CONSTANTS
    Objs,      \* the addresses of files and directories
    Root,      \* TMPFS_ROOT
    Null,      \* NULL
    Names,     \* the names
    Step,      \* the entries a directory starts with and grows by, 32
    Deleters,  \* the threads that delete
    MaxLost    \* bound: no deletion where num_files is down to -MaxLost

ASSUME TmpfsAssumption ==
    /\ IsFiniteSet(Objs)
    /\ Root \in Objs
    /\ Null \notin Objs
    /\ Step \in Nat \ {0}
    /\ Names # {}
    /\ MaxLost \in Nat

\* Two deletions that overlap may free an object twice.
ASSUME OneDeleter == \A t, u \in Deleters : t = u

VARIABLES
    alive,    \* the objects that are allocated
    kind,     \* type: "file" or "dir"
    name,     \* name
    files,    \* files, for a directory; max_files is its length
    num,      \* num_files; below 0 it stands for the value modulo 2^64
    pending,  \* pending[t]: how far the deletion of thread t is
    mode      \* "run", "overrun" behind the end of an array, "stale" for a write
              \* to an array that has been freed, or "fault"

treeVars == <<alive, kind, name, files, num, pending, mode>>

NoFiles == [i \in 1 .. Step |-> Null]

\* A deletion of entry at of the directory dir.  The object is "freed"; the
\* address of the "array" is loaded, val its length; the entry is "cleared";
\* num_files is "loaded", val its value.
NoDeletion == [pc |-> "none", dir |-> Root, at |-> 0, val |-> 0]
Deletions == [pc : {"none", "freed", "array", "cleared", "loaded"}, dir : Objs, at : Nat, val : Int]

TreeInit ==
    /\ alive = {Root}
    /\ kind = [o \in Objs |-> "dir"]
    /\ name = [o \in Objs |-> CHOOSE n \in Names : TRUE]
    /\ files = [o \in Objs |-> NoFiles]
    /\ num = [o \in Objs |-> 0]
    /\ pending = [t \in Deleters |-> NoDeletion]
    /\ mode = "run"

Directories == {d \in alive : kind[d] = "dir"}

-----------------------------------------------------------------------------
(* tmpfs_create_file and tmpfs_create_directory.                           *)

\* Faulty: the array grows when an entry would not fit any more.
GrownLate(arr, n) == IF n > Len(arr) THEN arr \o NoFiles ELSE arr

\* Faulty: the entries krealloc_byte has added are not cleared.
GrownRaw(arr, n) == IF n = Len(arr) THEN arr \o [i \in 1 .. Step |-> "garbage"] ELSE arr

\* The array grows as soon as its last entry has been used.
Grown(arr, n) == IF n = Len(arr) THEN arr \o NoFiles ELSE arr

\* The first entry that is NULL, or the first entry of all if there is none.
FreeIndex(d, i) ==
    \/ /\ i \in DOMAIN files[d]
       /\ files[d][i] = Null
       /\ \A j \in 1 .. i - 1 : files[d][j] # Null
    \/ i = 1 /\ \A j \in DOMAIN files[d] : files[d][j] # Null

Create(d, o, n, k) ==
    /\ mode = "run"
    /\ d \in Directories
    /\ o \in Objs \ alive
    /\ alive' = alive \cup {o}
    /\ kind' = [kind EXCEPT ![o] = k]
    /\ name' = [name EXCEPT ![o] = n]
    /\ \E i \in DOMAIN files[d] :
          /\ FreeIndex(d, i)
          /\ files' = [files EXCEPT ![d] = Grown([@ EXCEPT ![i] = o], num[d] + 1), ![o] = NoFiles]
    /\ num' = [num EXCEPT ![d] = @ + 1, ![o] = 0]
    /\ UNCHANGED pending

CreateFile(d, o, n) == Create(d, o, n, "file") /\ UNCHANGED mode

\* The new directory's array, which has Step entries, is cleared a second time,
\* with the length of its parent's.
CreateDirectory(d, o, n) ==
    /\ Create(d, o, n, "dir")
    /\ mode' = IF Len(files[d]) > Step THEN "overrun" ELSE mode

-----------------------------------------------------------------------------
(* Deletion.                                                               *)

\* The first entry of d with name n, among those of the kinds K.
Named(d, n, K, i) ==
    LET Is(j) == files[d][j] # Null /\ name[files[d][j]] = n /\ kind[files[d][j]] \in K
    IN  /\ i \in DOMAIN files[d] /\ Is(i)
        /\ \A j \in 1 .. i - 1 : ~Is(j)

\* open_count, which would keep a file, is never incremented.
InUse(o) == FALSE

\* Faulty: it is the first entry that will be cleared.
StartDeleteFirst(t, d, i, gone) ==
    /\ mode = "run"
    /\ pending[t].pc = "none"
    /\ d \in Directories
    /\ num[d] > -MaxLost
    /\ alive' = alive \ gone
    /\ pending' = [pending EXCEPT ![t] = [pc |-> "freed", dir |-> d, at |-> 1, val |-> 0]]
    /\ UNCHANGED <<kind, name, files, num, mode>>

\* The object and what goes with it is freed; its entry is still there.
StartDelete(t, d, i, gone) ==
    /\ mode = "run"
    /\ pending[t].pc = "none"
    /\ d \in Directories
    /\ num[d] > -MaxLost
    /\ alive' = alive \ gone
    /\ pending' = [pending EXCEPT ![t] = [pc |-> "freed", dir |-> d, at |-> i, val |-> 0]]
    /\ UNCHANGED <<kind, name, files, num, mode>>

\* tmpfs_delete_file and tmpfs_delete_directory; the objects in a directory that
\* is deleted are left without a name.
DeleteFile(t, d, n) ==
    \E i \in DOMAIN files[d] :
        /\ Named(d, n, {"file"}, i)
        /\ ~InUse(files[d][i])
        /\ StartDelete(t, d, i, {files[d][i]})

DeleteDirectory(t, d, n) ==
    \E i \in DOMAIN files[d] :
        /\ Named(d, n, {"dir"}, i)
        /\ StartDelete(t, d, i, {files[d][i]})

\* tmpfs_lookup: c is the first entry of d with name n.
Lookup(d, n, c) == \E i \in DOMAIN files[d] : Named(d, n, {"file", "dir"}, i) /\ c = files[d][i]

\* The names of the path lead from object o to object c.
Leads(o, path, c) ==
    \E walk \in [0 .. Len(path) -> Objs] :
        /\ walk[0] = o /\ walk[Len(path)] = c
        /\ \A i \in 1 .. Len(path) :
              kind[walk[i - 1]] = "dir" /\ Lookup(walk[i - 1], path[i], walk[i])

\* tmpfs_delete_directory_no_orphan frees, in spite of its name, the object with
\* the name n, the one with the same name in it, and so on.
Chain(o, n) == {c \in Objs : \E m \in 0 .. Cardinality(Objs) : Leads(o, [i \in 1 .. m |-> n], c)}

DeleteDirectoryNoOrphan(t, d, n) ==
    \E i \in DOMAIN files[d] :
        /\ Named(d, n, {"file", "dir"}, i)
        /\ StartDelete(t, d, i, Chain(files[d][i], n))

\* The end of all three, between acquire_mutex and release_mutex: files[i] = NULL
\* loads the address of the array and writes to it, num_files-- loads and stores.
LoadArray(t) ==
    /\ mode = "run"
    /\ pending[t].pc = "freed"
    /\ pending' = [pending EXCEPT ![t].pc = "array", ![t].val = Len(files[pending[t].dir])]
    /\ UNCHANGED <<alive, kind, name, files, num, mode>>

\* krealloc_byte has freed the array if the directory has grown since.
ClearEntry(t) ==
    /\ mode = "run"
    /\ pending[t].pc = "array"
    /\ LET d == pending[t].dir
       IN  \/ /\ Len(files[d]) = pending[t].val
              /\ files' = [files EXCEPT ![d][pending[t].at] = Null]
              /\ pending' = [pending EXCEPT ![t].pc = "cleared", ![t].val = 0]
              /\ UNCHANGED mode
           \/ /\ Len(files[d]) # pending[t].val
              /\ mode' = "stale"
              /\ UNCHANGED <<files, pending>>
    /\ UNCHANGED <<alive, kind, name, num>>

LoadNum(t) ==
    /\ mode = "run"
    /\ pending[t].pc = "cleared"
    /\ pending' = [pending EXCEPT ![t].pc = "loaded", ![t].val = num[pending[t].dir]]
    /\ UNCHANGED <<alive, kind, name, files, num, mode>>

StoreNum(t) ==
    /\ mode = "run"
    /\ pending[t].pc = "loaded"
    /\ num' = [num EXCEPT ![pending[t].dir] = pending[t].val - 1]
    /\ pending' = [pending EXCEPT ![t] = NoDeletion]
    /\ UNCHANGED <<alive, kind, name, files, mode>>

TreeNext ==
    \/ \E d, o \in Objs : \E n \in Names : CreateFile(d, o, n) \/ CreateDirectory(d, o, n)
    \/ \E t \in Deleters : \E d \in Directories : \E n \in Names :
          \/ DeleteFile(t, d, n)
          \/ DeleteDirectory(t, d, n)
          \/ DeleteDirectoryNoOrphan(t, d, n)
    \/ \E t \in Deleters : LoadArray(t) \/ ClearEntry(t) \/ LoadNum(t) \/ StoreNum(t)

TreeSpec == TreeInit /\ [][TreeNext]_treeVars

-----------------------------------------------------------------------------
(* Properties.                                                             *)

\* The types of the directories' fields: an entry is an object or NULL, also in
\* the part of the array that krealloc_byte has just added.
TreeTypeOK ==
    /\ alive \subseteq Objs
    /\ kind \in [Objs -> {"file", "dir"}]
    /\ name \in [Objs -> Names]
    /\ files \in [Objs -> Seq(Objs \cup {Null})]
    /\ num \in [Objs -> Int]
    /\ pending \in [Deleters -> Deletions]
    /\ mode \in {"run", "overrun", "stale", "fault"}

\* The deletion in d has cleared its entry and not yet decremented num_files.
Owed(d) ==
    IF \E t \in Deleters : pending[t].dir = d /\ pending[t].pc \in {"cleared", "loaded"} THEN 1 ELSE 0

\* num_files is the number of entries, and one entry is NULL: the next creation
\* overwrites none.
Counted(d) ==
    /\ num[d] = Cardinality({i \in DOMAIN files[d] : files[d][i] # Null}) + Owed(d)
    /\ num[d] < Len(files[d])

\* A directory loses the count of its entries, and with it the NULL entry the
\* next creation needs, in one way only: a deletion in it stores num_files after
\* a creation has incremented it since the deletion loaded it.
CountKept ==
    [][\A d \in Directories' : (d \in Directories => Counted(d)) =>
          \/ Counted(d)'
          \/ \E t \in Deleters :
                StoreNum(t) /\ pending[t].dir = d /\ pending[t].val # num[d]]_treeVars

\* The entry a deletion is about to clear.
Dying(d, i) ==
    \E t \in Deleters :
        pending[t].dir = d /\ pending[t].at = i /\ pending[t].pc \in {"freed", "array"}

\* An entry of a directory refers to an object that is allocated, unless it is
\* about to be cleared, and to an object that is in no other directory.
EntriesAlive ==
    \A d \in Directories : \A i \in DOMAIN files[d] : files[d][i] # Null /\ ~Dying(d, i) =>
        /\ files[d][i] \in alive
        /\ \A e \in Directories : \A j \in DOMAIN files[e] :
              files[e][j] = files[d][i] /\ ~Dying(e, j) => e = d /\ j = i
=============================================================================
