------------------------------ MODULE FramePool ------------------------------
(***************************************************************************)
(* What the frame allocator promises its callers: one pool of frames,      *)
(* whatever the memory map.  The lowest free frame is handed out, and a    *)
(* frame that is given back is free again.                                 *)
(***************************************************************************)
EXTENDS Integers

CONSTANT Pool   \* the frames of the usable regions

VARIABLE free

PoolInit == free = Pool

Take == \E f \in free : (\A g \in free : f <= g) /\ free' = free \ {f}

GiveBack == \E f \in Pool \ free : free' = free \cup {f}

PoolSpec == PoolInit /\ [][Take \/ GiveBack]_free
=============================================================================
