-------------------------------- MODULE Vfs ---------------------------------
(***************************************************************************)
(* open and close of a thread, vfs_fdopen and vfs_fdclose of kernel/src/   *)
(* vfs.c: a path is resolved in the tree of Tmpfs, which other threads     *)
(* change all the time, and the object goes into the table of FdTable.     *)
(***************************************************************************)
EXTENDS FdTable, Tmpfs

CONSTANT Paths  \* sequences of names, from the root

\* What a path leads to can be opened.
ASSUME VfsAssumption == Objs \subseteq Files

vars == <<fdVars, treeVars>>

Init == FdInit /\ TreeInit

\* vfs_resolve_path.  A lookup in something that is no directory does not return.
Resolves(path, o) == Leads(Root, path, o)

\* System call 19.
Open(path) ==
    /\ mode = "run"
    /\ \E o \in Objs : Resolves(path, o) /\ FdOpen(o)
    /\ UNCHANGED treeVars

\* A missing name ends in a NULL pointer or in the assertion of vfs_fdopen, and
\* a file in the middle of a path is taken for a directory.  mounted_vfs of the
\* node tmpfs_link_vnode makes for a directory is not initialised: the next
\* lookup may follow what it finds there.
OpenFails(path) ==
    /\ mode = "run"
    /\ Len(path) > 1 \/ ~\E o \in Objs : Resolves(path, o)
    /\ mode' = "fault"
    /\ UNCHANGED <<fdVars, alive, kind, name, files, num, pending>>

Close(k) ==
    /\ mode = "run"
    /\ FdClose(k)
    /\ UNCHANGED treeVars

Next ==
    \/ \E path \in Paths : Open(path) \/ OpenFails(path)
    \/ \E k \in Keys : Close(k)
    \/ TreeNext /\ UNCHANGED fdVars

Spec == Init /\ [][Next]_vars

-----------------------------------------------------------------------------
(* Properties.                                                             *)

\* A file that is open is not deleted: "if there's still something using the
\* file" (tmpfs.c:219), tmpfs_delete_file refuses.
OpenFileExists ==
    \A s \in Slots : state[s] = "occupied" /\ kind[value[s]] = "file" => value[s] \in alive
=============================================================================
