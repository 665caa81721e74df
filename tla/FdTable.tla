------------------------------ MODULE FdTable -------------------------------
(***************************************************************************)
(* A thread's table of file descriptors: the open-addressing hash table of *)
(* kernel/src/oa_hash/oa_hash.h as vfs_fdopen and vfs_fdclose (vfs.c) use  *)
(* it.  The key is the descriptor printed in decimal: distinct numbers     *)
(* have distinct keys, and nothing but their hash depends on the digits.   *)
(* The table is its thread's own, and only that thread calls the two       *)
(* functions: no other thread sees it between two of their steps.          *)
(***************************************************************************)
EXTENDS Integers, FiniteSets

CONSTANTS
    Capacity,  \* the buckets create_thread allocates, 32
    Hash,      \* _oa_hash_genhash, for every descriptor
    Files,     \* what a descriptor may stand for
    NoFile     \* NULL

Slots == 0 .. Capacity - 1

\* vfs_fdopen tries the length and the numbers below the capacity.
Keys == 0 .. Capacity

ASSUME FdTableAssumption ==
    /\ Capacity \in Nat \ {0}
    /\ Hash \in [Keys -> Slots]
    /\ NoFile \notin Files

VARIABLES
    state,   \* "empty", "occupied" or "deleted"
    key,     \* key.buf of an occupied bucket
    value,   \* value of an occupied bucket
    length,  \* length
    lost     \* vfs_fdopen has returned a descriptor it could not store

fdVars == <<state, key, value, length, lost>>

FdInit ==
    /\ state = [s \in Slots |-> "empty"]
    /\ key = [s \in Slots |-> 0]
    /\ value = [s \in Slots |-> NoFile]
    /\ length = 0
    /\ lost = FALSE

-----------------------------------------------------------------------------
(* The hash table.                                                         *)

\* The bucket looked at in turn i of the search for k.
Nth(k, i) == (Hash[k] + i) % Capacity

Holds(s, k) == state[s] = "occupied" /\ key[s] = k

\* The search goes on behind bucket s.
Passes(s, k) == state[s] # "empty" /\ ~Holds(s, k)

\* The search for k gets to its turn i.
Reaches(k, i) == \A j \in 0 .. i - 1 : Passes(Nth(k, j), k)

\* oa_hash_get_entry.
GetEntry(k, s) == Holds(s, k) /\ \E i \in Slots : s = Nth(k, i) /\ Reaches(k, i)

Has(k) == \E s \in Slots : GetEntry(k, s)

\* Faulty: the first bucket is filled, whatever its state.
SetSlotFirst(k, s) == s = Nth(k, 0)

\* Faulty: the bucket behind the last turn is not looked at.
SetSlotShort(k, s) ==
    \E i, j \in 0 .. Capacity - 2 :
        /\ Reaches(k, i) /\ state[Nth(k, i)] = "empty"
        /\ j <= i
        /\ s = Nth(k, j) /\ state[s] # "occupied"
        /\ \A n \in 0 .. j - 1 : state[Nth(k, n)] = "occupied"

\* The bucket oa_hash_set_entry fills for a key that is not in the table: the
\* first deleted one on the way to the first empty one, or that one.
SetSlot(k, s) ==
    \E i, j \in Slots :
        /\ Reaches(k, i) /\ state[Nth(k, i)] = "empty"
        /\ j <= i
        /\ s = Nth(k, j) /\ state[s] # "occupied"
        /\ \A n \in 0 .. j - 1 : state[Nth(k, n)] = "occupied"

-----------------------------------------------------------------------------
(* vfs_fdopen and vfs_fdclose.                                             *)

\* Faulty: there is no loop if the length is in use.
NewDescriptorOnce(k) == k = length /\ ~Has(k)

\* The descriptor: the length, or else the first number that is not in use.
NewDescriptor(k) ==
    \/ k = length /\ ~Has(k)
    \/ /\ Has(length)
       /\ k \in Slots /\ ~Has(k)
       /\ \A i \in 0 .. k - 1 : Has(i)

\* Faulty: the file goes into the bucket the search has started at.
FdOpenFirst(f) ==
    \E k \in Keys : \E s \in Slots :
        /\ NewDescriptor(k)
        /\ SetSlot(k, s)
        /\ state' = [state EXCEPT ![s] = "occupied"]
        /\ key' = [key EXCEPT ![s] = k]
        /\ value' = [value EXCEPT ![Nth(k, 0)] = f]
        /\ length' = length + 1
        /\ UNCHANGED lost

\* Without an empty bucket oa_hash_set stores nothing, and vfs_fdopen does not
\* look at its result.  It then frees the text of the key, which the table still
\* refers to (vfs.c:404).  That is left out, because it has no effect: kfree
\* clears length - 1 chunks (vmm.c:169), and the text has one.
FdOpen(f) ==
    \E k \in Keys :
        /\ NewDescriptor(k)
        /\ \/ \E s \in Slots :
                 /\ SetSlot(k, s)
                 /\ state' = [state EXCEPT ![s] = "occupied"]
                 /\ key' = [key EXCEPT ![s] = k]
                 /\ value' = [value EXCEPT ![s] = f]
                 /\ length' = length + 1
                 /\ UNCHANGED lost
           \/ /\ \A s \in Slots : ~SetSlot(k, s)
              /\ lost' = TRUE
              /\ UNCHANGED <<state, key, value, length>>

\* Faulty: the bucket becomes an empty one.
RemovedEmpty == "empty"

\* What oa_hash_remove leaves in the bucket.
Removed == "deleted"

\* Faulty: length is decremented even if there is nothing to remove.
FdCloseAlways(k) ==
    /\ length' = length - 1
    /\ UNCHANGED lost
    /\ \/ \E s \in Slots :
             /\ GetEntry(k, s)
             /\ state' = [state EXCEPT ![s] = Removed]
             /\ key' = [key EXCEPT ![s] = 0]
             /\ value' = [value EXCEPT ![s] = NoFile]
       \/ ~Has(k) /\ UNCHANGED <<state, key, value>>

\* oa_hash_remove.  A descriptor that is not in the table is ignored.  The key
\* and the value left behind in a deleted bucket, which nobody reads, are reset.
FdClose(k) ==
    /\ UNCHANGED lost
    /\ \/ \E s \in Slots :
             /\ GetEntry(k, s)
             /\ state' = [state EXCEPT ![s] = Removed]
             /\ key' = [key EXCEPT ![s] = 0]
             /\ value' = [value EXCEPT ![s] = NoFile]
             /\ length' = length - 1
       \/ ~Has(k) /\ UNCHANGED <<state, key, value, length>>

FdNext == (\E f \in Files : FdOpen(f)) \/ \E k \in Keys : FdClose(k)

FdSpec == FdInit /\ [][FdNext]_fdVars

-----------------------------------------------------------------------------
(* Properties.                                                             *)

\* The types of the table's fields.
FdTypeOK ==
    /\ state \in [Slots -> {"empty", "occupied", "deleted"}]
    /\ key \in [Slots -> Keys]
    /\ value \in [Slots -> Files \cup {NoFile}]
    /\ length \in Nat
    /\ lost \in BOOLEAN

\* The search for a key that is in the table ends at it: buckets that have been
\* emptied since it was stored never cut it off, whatever the hash, and no key
\* is in the table twice.
ProbeFinds == \A s \in Slots : state[s] = "occupied" =>
    /\ GetEntry(key[s], s)
    /\ \A r \in Slots : Holds(r, key[s]) => r = s

\* length counts the occupied buckets; the next descriptor is made from it.
LengthIsOccupied == length = Cardinality({s \in Slots : state[s] = "occupied"})

\* vfs_fdopen always comes out of its loop with a descriptor: if the length is
\* in use, there is a number below the capacity that is not.
OpenReturns == \E k \in Keys : NewDescriptor(k)

\* The file a descriptor stands for: oa_hash_get in vfs_int_fd_to_vfs_file.
Bound(k) == IF Has(k) THEN value[CHOOSE s \in Slots : GetEntry(k, s)] ELSE NoFile

\* vfs_fdopen returns a descriptor that leads nowhere only when there is no empty
\* bucket left.  (That is not the same as a full table: a bucket that was used
\* once is never empty again, and deleted buckets alone do not help.)
LostOnlyWithoutEmpty == lost => \A s \in Slots : state[s] # "empty"

\* The table with its deleted buckets implements the abstract map.
Map == INSTANCE FdMap WITH bound <- [k \in Keys |-> Bound(k)]
RefinesFdMap == Map!Spec
=============================================================================
