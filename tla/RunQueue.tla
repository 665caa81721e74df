------------------------------- MODULE RunQueue -------------------------------
(***************************************************************************)
(* What the scheduler promises (README.md:16): a round-robin queue.  The   *)
(* thread that executes is the head; the timer and a yield send it to the  *)
(* back; a new thread runs next; an exit drops the head, and an idle       *)
(* thread takes the place of the last one.                                 *)
(***************************************************************************)
EXTENDS Naturals, Sequences

CONSTANTS Threads, NoThread

VARIABLES queue, executing

qvars == <<queue, executing>>

QInit == queue = <<>> /\ executing = NoThread

\* A new thread goes right behind the head, and to the head of an empty queue.
Arrive(t) ==
    /\ \A i \in 1 .. Len(queue) : queue[i] # t
    /\ queue' = IF queue = <<>> THEN <<t>> ELSE <<Head(queue), t>> \o Tail(queue)
    /\ UNCHANGED executing

Begin ==
    /\ executing = NoThread
    /\ queue # <<>>
    /\ executing' = Head(queue)
    /\ UNCHANGED queue

Rotate ==
    /\ executing # NoThread
    /\ queue' = Append(Tail(queue), Head(queue))
    /\ executing' = Head(queue')

Leave ==
    /\ executing # NoThread
    /\ \/ Len(queue) > 1 /\ queue' = Tail(queue)
       \/ Len(queue) = 1 /\ \E idle \in Threads : queue' = <<idle>>
    /\ executing' = Head(queue')

QNext == (\E t \in Threads : Arrive(t)) \/ Begin \/ Rotate \/ Leave

QSpec == QInit /\ [][QNext]_qvars
=============================================================================
