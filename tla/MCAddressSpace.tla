--------------------------- MODULE MCAddressSpace ---------------------------
(* Pages of four bytes, two to a table, and programs whose segment starts on a *)
(* page boundary or not.                                                       *)
EXTENDS AddressSpace, TLC

seg(a, n) == [vaddr |-> a, memsz |-> n]

MCImages == {<<seg(4, 4)>>, <<seg(6, 6)>>, <<seg(2, 4), seg(8, 2)>>}
MCRequests == {seg(8, 6), seg(10, 3), seg(0, 0)}
MCSymmetry == Permutations(Threads)
=============================================================================
