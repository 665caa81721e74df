------------------------------- MODULE MCVfs --------------------------------
(* Descriptors that collide, and paths of one and of two names. *)
EXTENDS Vfs, TLC

MCHash == (0 :> 0) @@ (1 :> 1) @@ (2 :> 0) @@ (3 :> 1)
MCPaths == {<<n>> : n \in Names} \cup {<<n, n>> : n \in Names}
MCSymmetry == Permutations(Objs \ {Root})
=============================================================================
