------------------------------- MODULE FdMap --------------------------------
(***************************************************************************)
(* What a table of file descriptors promises: open hands out a descriptor  *)
(* that is not in use and binds it to the file, close releases the one it  *)
(* is given, and neither touches another descriptor.                       *)
(***************************************************************************)
CONSTANTS Keys, Files, NoFile

VARIABLE bound  \* bound[k]: the file of descriptor k, NoFile if it is not in use

Init == bound = [k \in Keys |-> NoFile]

Open(k, f) == bound[k] = NoFile /\ bound' = [bound EXCEPT ![k] = f]

Close(k) == bound' = [bound EXCEPT ![k] = NoFile]

Next == \E k \in Keys : Close(k) \/ \E f \in Files : Open(k, f)

Spec == Init /\ [][Next]_bound
=============================================================================
