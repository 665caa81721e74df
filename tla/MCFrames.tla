------------------------------ MODULE MCFrames ------------------------------
(* A memory map for TLC.                                                   *)
EXTENDS Frames

\* A reserved region directly followed by a usable one, and that by another.
TouchingBase   == <<0, 2, 5, 9>>
TouchingLength == <<2, 3, 3, 3>>
TouchingUsable == {2, 3, 4}
=============================================================================
