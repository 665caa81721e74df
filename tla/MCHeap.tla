------------------------------- MODULE MCHeap -------------------------------
(* The heap on a short list of chunks, for TLC.                            *)
EXTENDS Heap, TLC

\* Clients are interchangeable.
ClientSymmetry == Permutations(Clients)
=============================================================================
