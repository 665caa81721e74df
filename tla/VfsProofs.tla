----------------------------- MODULE VfsProofs ------------------------------
(***************************************************************************)
(* Proofs about Vfs: what FdTableProofs and TmpfsProofs show of the parts  *)
(* holds of their composition.  Every step of Vfs is a step of the table   *)
(* or leaves it alone, and the same for the tree, but for the fault of a   *)
(* failing open, which only stops the kernel.                              *)
(***************************************************************************)
EXTENDS Vfs, FdTableProofs, TmpfsProofs

VfsInv == FdInv /\ TreeInv

\* vfs_fdopen and vfs_fdclose are the only ones that change the table.
LEMMA StepOfTable == [Next]_vars => [FdNext]_fdVars
<1>1. ASSUME NEW path \in Paths, Open(path)
      PROVE  FdNext
  BY <1>1, VfsAssumption DEF Open, FdNext
<1>2. ASSUME NEW path \in Paths, OpenFails(path)
      PROVE  UNCHANGED fdVars
  BY <1>2 DEF OpenFails
<1>3. ASSUME NEW k \in Keys, Close(k)
      PROVE  FdNext
  BY <1>3 DEF Close, FdNext
<1>4. CASE TreeNext /\ UNCHANGED fdVars
  BY <1>4
<1>5. CASE UNCHANGED vars
  BY <1>5 DEF vars
<1> QED
  BY <1>1, <1>2, <1>3, <1>4, <1>5 DEF Next

\* An open that fails changes nothing in the tree.
LEMMA FaultKeepsTree ==
  ASSUME TreeInv, NEW path \in Paths, OpenFails(path)
  PROVE  TreeInv'
<1>1. UNCHANGED <<alive, kind, name, files, num, pending>> /\ mode' = "fault"
  BY DEF OpenFails
<1> QED
  BY <1>1, ModeKeeps

\* The tree makes a step of its own or stands still.
LEMMA StepOfTree == [Next]_vars => [TreeNext]_treeVars \/ \E path \in Paths : OpenFails(path)
  BY DEF Next, Open, Close, vars

LEMMA VfsInitInv == Init => VfsInv
  BY FdInitInv, TreeInitInv DEF Init, VfsInv

LEMMA VfsStep == VfsInv /\ [Next]_vars => VfsInv'
<1> SUFFICES ASSUME VfsInv, [Next]_vars
             PROVE  VfsInv'
  OBVIOUS
<1>1. FdInv'
  BY StepOfTable, FdNextInv DEF VfsInv
<1>2. TreeInv'
  <2>1. ASSUME NEW path \in Paths, OpenFails(path)
        PROVE  TreeInv'
    BY <2>1, FaultKeepsTree DEF VfsInv
  <2>2. CASE [TreeNext]_treeVars
    BY <2>2, TreeInvStep DEF VfsInv
  <2> QED
    BY <2>1, <2>2, StepOfTree
<1> QED
  BY <1>1, <1>2 DEF VfsInv

\* The table of a thread that opens and closes files stays consistent: every
\* descriptor is found, whatever was closed on the way to it, length counts the
\* descriptors, an open finds a number for its descriptor and loses it only if
\* every bucket has been used, for every capacity and hash.
THEOREM DescriptorsConsistent ==
  Spec => [](FdTypeOK /\ ProbeFinds /\ LengthIsOccupied /\ OpenReturns /\ LostOnlyWithoutEmpty)
<1>1. VfsInv => FdTypeOK /\ ProbeFinds /\ LengthIsOccupied /\ OpenReturns /\ LostOnlyWithoutEmpty
  BY FdInvProbeFinds, FdInvOpenReturns DEF VfsInv, FdInv
<1> QED
  BY <1>1, VfsInitInv, VfsStep, PTL DEF Spec

\* The descriptors of a thread implement the abstract map while other threads
\* create and delete files.
THEOREM DescriptorsRefineMap == Spec => RefinesFdMap
<1>1. Init => FdInit
  BY DEF Init
<1>2. Spec => FdSpec
  BY <1>1, StepOfTable, PTL DEF Spec, FdSpec
<1> QED
  BY <1>2, TableRefinesFdMap, PTL

\* The directories stay consistent while files are opened: their entries refer
\* to objects that are allocated.
THEOREM TreeConsistent == Spec => [](TreeTypeOK /\ EntriesAlive)
<1>1. VfsInv => TreeTypeOK /\ EntriesAlive
  BY DEF VfsInv, TreeInv
<1> QED
  BY <1>1, VfsInitInv, VfsStep, PTL DEF Spec

LEMMA VfsCountStays == VfsInv /\ VfsInv' /\ [Next]_vars => [CountStays]_treeVars
<1> SUFFICES ASSUME VfsInv, VfsInv', [Next]_vars
             PROVE  [CountStays]_treeVars
  OBVIOUS
<1>1. CASE [TreeNext]_treeVars
  BY <1>1, CountStays1 DEF VfsInv
<1>2. ASSUME NEW path \in Paths, OpenFails(path)
      PROVE  CountStays
  <2>1. files' = files /\ num' = num /\ pending' = pending /\ alive' = alive /\ kind' = kind
    BY <1>2 DEF OpenFails
  <2>2. Directories' = Directories /\ \A d : Owed(d)' = Owed(d)
    BY <2>1 DEF Directories, Owed
  <2>3. ASSUME NEW d \in Directories', Counted(d)
        PROVE  Counted(d)'
    BY <2>1, <2>2, <2>3, SameCount
  <2> QED
    BY <2>2, <2>3 DEF CountStays
<1> QED
  BY <1>1, <1>2, StepOfTree

\* num_files comes apart from the entries only where a deletion stores a value of
\* it that has become old, whatever files are opened and closed meanwhile.
THEOREM TreeCounts == Spec => CountKept
<1>1. Spec => []VfsInv
  BY VfsInitInv, VfsStep, PTL DEF Spec
<1>2. Spec => [][CountStays]_treeVars
  BY <1>1, VfsCountStays, PTL DEF Spec
<1> QED
  BY <1>2 DEF CountKept, CountStays
=============================================================================
