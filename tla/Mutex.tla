-------------------------------- MODULE Mutex --------------------------------
(***************************************************************************)
(* acquire_mutex and release_mutex of kernel/src/mutex.c, used by the      *)
(* threads of one CPU under timer preemption.                              *)
(*                                                                         *)
(* Both are built on __atomic_compare_exchange(&locked, &old, &new), which *)
(* stores the value it found into old when the comparison fails.  old is   *)
(* initialised once, before the loop of acquire_mutex.                     *)
(***************************************************************************)
EXTENDS Naturals

CONSTANT Threads   \* the number of threads; they take turns on the CPU

ASSUME MutexAssumption == Threads \in Nat \ {0}

Ids == 0 .. Threads - 1

VARIABLES
    locked,  \* mutex->locked
    old,     \* the local old of a thread in acquire_mutex
    pc,      \* "out", "spin" in acquire_mutex, "in" the critical section
    masked,  \* the thread has interrupts disabled while it uses the mutex
    cpu      \* the thread that executes

mutexVars == <<locked, old, pc, masked, cpu>>

Init ==
    /\ locked = 0
    /\ old = [t \in Ids |-> 0]
    /\ pc = [t \in Ids |-> "out"]
    /\ masked = [t \in Ids |-> FALSE]
    /\ cpu = 0

\* Entering acquire_mutex: kprintf and the system calls do so with interrupts
\* disabled, kprintf_interruptable, get_new_pid and tmpfs with interrupts as
\* they are.
AcquireMutex(t, mask) ==
    /\ cpu = t
    /\ pc[t] = "out"
    /\ pc' = [pc EXCEPT ![t] = "spin"]
    /\ old' = [old EXCEPT ![t] = 0]
    /\ masked' = [masked EXCEPT ![t] = mask]
    /\ UNCHANGED <<locked, cpu>>

\* Faulty: a comparison that fails leaves old alone.
CompareExchangeSpins(t) ==
    /\ cpu = t
    /\ pc[t] = "spin"
    /\ locked = old[t]
    /\ locked' = 1
    /\ pc' = [pc EXCEPT ![t] = "in"]
    /\ UNCHANGED <<old, masked, cpu>>

\* One turn of the loop: compare and exchange.
CompareExchange(t) ==
    /\ cpu = t
    /\ pc[t] = "spin"
    /\ \/ /\ locked = old[t]
          /\ locked' = 1
          /\ pc' = [pc EXCEPT ![t] = "in"]
          /\ UNCHANGED old
       \/ /\ locked # old[t]
          /\ old' = [old EXCEPT ![t] = locked]
          /\ UNCHANGED <<locked, pc>>
    /\ UNCHANGED <<masked, cpu>>

\* Faulty: release_mutex exchanges 1 for 1.
ReleaseMutexKeeps(t) ==
    /\ cpu = t
    /\ pc[t] = "in"
    /\ pc' = [pc EXCEPT ![t] = "out"]
    /\ masked' = [masked EXCEPT ![t] = FALSE]
    /\ UNCHANGED <<locked, old, cpu>>

\* release_mutex: exchanges 1 for 0, and does not look at the outcome.
ReleaseMutex(t) ==
    /\ cpu = t
    /\ pc[t] = "in"
    /\ locked' = 0
    /\ pc' = [pc EXCEPT ![t] = "out"]
    /\ masked' = [masked EXCEPT ![t] = FALSE]
    /\ UNCHANGED <<old, cpu>>

\* Faulty: the ring of threads does not close.
PreemptOpen ==
    /\ ~masked[cpu]
    /\ cpu' = cpu + 1
    /\ UNCHANGED <<locked, old, pc, masked>>

\* The timer interrupt switches to the next thread.
Preempt ==
    /\ ~masked[cpu]
    /\ cpu' = (cpu + 1) % Threads
    /\ UNCHANGED <<locked, old, pc, masked>>

Next ==
    \/ \E t \in Ids : \/ \E mask \in BOOLEAN : AcquireMutex(t, mask)
                      \/ CompareExchange(t)
                      \/ ReleaseMutex(t)
    \/ Preempt

Spec == Init /\ [][Next]_mutexVars

\* A thread on the CPU executes its next instruction, unless it is preempted
\* first.
FairSpec == Spec /\ \A t \in Ids : WF_mutexVars(CompareExchange(t))

-----------------------------------------------------------------------------
(* Properties.                                                             *)

\* The values of the mutex and of the threads' locals.
TypeOK ==
    /\ locked \in {0, 1}
    /\ old \in [Ids -> {0, 1}]
    /\ pc \in [Ids -> {"out", "spin", "in"}]
    /\ masked \in [Ids -> BOOLEAN]
    /\ cpu \in Ids

\* A locked mutex has a holder: no interleaving of acquire_mutex and
\* release_mutex leaves it locked after everyone has released it.
LockedIsHeld == locked = 1 => \E t \in Ids : pc[t] = "in"

\* acquire_mutex with interrupts disabled, as kprintf calls it, returns: it
\* never waits for a holder that was preempted and cannot run again.
MaskedAcquireReturns ==
    \A t \in Ids : (pc[t] = "spin" /\ masked[t]) ~> (pc[t] = "in")

\* At most one thread is between acquire_mutex and release_mutex: "if a thread
\* tries to acquire a mutex on an object that's already locked, it'll just
\* spin until the mutex is released" (mutex.c:5).
MutualExclusion ==
    \A s, t \in Ids : pc[s] = "in" /\ pc[t] = "in" => s = t
=============================================================================
