--------------------------- MODULE SchedulerProofs ---------------------------
(***************************************************************************)
(* Proofs about Scheduler, for every set of threads and every MaxPid.      *)
(***************************************************************************)
EXTENDS Scheduler, FiniteSetTheorems, SequenceTheorems, NaturalsInduction, WellFoundedInduction,
        TLAPS

-----------------------------------------------------------------------------
(* The inductive invariant of the whole scheduler, blocking included.      *)

\* What ties the boot flags, the ring and the CPU together: the first push
\* has happened iff there is a thread, and once reschedule() has been called
\* some thread executes and the ring is not empty.
Started ==
    /\ firstThread <=> live = {}
    /\ live = {} => running = NoThread
    /\ first /\ mode = "run" => cpu \in Threads /\ live # {}

IInv == TypeOK /\ RingLinked /\ OneCycle /\ CountIsLive /\ Started

\* The invariant holds in the boot state, with no thread pushed.
LEMMA InitIInv == Init => IInv
<1> SUFFICES ASSUME Init PROVE IInv
  OBVIOUS
<1>1. PointersTyped
  BY SMT, SchedulerAssumption DEF Init, PointersTyped, IdlePid, Modes
<1>4. FlagsTyped
  BY Zenon DEF Init, FlagsTyped
<1>2. CountIsLive
  BY FS_EmptySet DEF Init, CountIsLive
<1>3. RingLinked /\ OneCycle /\ Started
  BY DEF Init, RingLinked, Linked, OneCycle, Cycle, Started
<1> QED
  BY <1>1, <1>2, <1>3, <1>4 DEF IInv, TypeOK

\* push_thread and num_threads++ keep the count exact.
LEMMA CountAdd ==
  ASSUME TypeOK, CountIsLive, NEW t \in Threads \ live
  PROVE  /\ numThreads + 1 = Cardinality(live \cup {t})
         /\ numThreads = 0 <=> live = {}
<1>1. IsFiniteSet(live)
  BY FS_Subset, SchedulerAssumption DEF TypeOK, PointersTyped
<1>2. Cardinality(live \cup {t}) = Cardinality(live) + 1
  BY <1>1, FS_AddElement
<1>3. Cardinality(live) = 0 <=> live = {}
  BY <1>1, FS_EmptySet
<1> QED
  BY <1>2, <1>3 DEF CountIsLive

\* discard_thread and num_threads-- keep the count exact.
LEMMA CountRemove ==
  ASSUME TypeOK, CountIsLive, NEW t \in live
  PROVE  /\ numThreads - 1 \in Nat
         /\ numThreads - 1 = Cardinality(live \ {t})
         /\ numThreads - 1 = 0 <=> live \ {t} = {}
         /\ \A u : u \notin live \ {t} => numThreads = Cardinality((live \ {t}) \cup {u})
<1>1. IsFiniteSet(live)
  BY FS_Subset, SchedulerAssumption DEF TypeOK, PointersTyped
<1>2. IsFiniteSet(live \ {t}) /\ Cardinality(live \ {t}) = Cardinality(live) - 1
  BY <1>1, FS_RemoveElement
<1>3. Cardinality(live \ {t}) \in Nat
  BY <1>2, FS_CardinalityType
<1>4. Cardinality(live \ {t}) = 0 <=> live \ {t} = {}
  BY <1>2, FS_EmptySet
<1>5. ASSUME NEW u, u \notin live \ {t}
      PROVE  Cardinality((live \ {t}) \cup {u}) = Cardinality(live \ {t}) + 1
  BY <1>2, <1>5, FS_AddElement
<1>6. numThreads \in Nat /\ numThreads = Cardinality(live)
  BY DEF TypeOK, PointersTyped, CountIsLive
<1> QED
  BY <1>2, <1>3, <1>4, <1>5, <1>6

-----------------------------------------------------------------------------
(* The pointer surgery.                                                    *)

\* insert_thread between a member and its successor keeps the ring linked.
LEMMA InsertLinked ==
  ASSUME NEW S \in SUBSET Threads,
         NEW nx \in [Threads -> Threads], NEW pv \in [Threads -> Threads],
         Linked(S, nx, pv), NEW l \in S, NEW t \in Threads \ S
  PROVE  Linked(S \cup {t}, InsertNext(nx, l, t, nx[l]), InsertPrev(pv, l, t, nx[l]))
BY DEF Linked, InsertNext, InsertPrev

\* ... and one cycle.
LEMMA InsertCycle ==
  ASSUME NEW S \in SUBSET Threads,
         NEW nx \in [Threads -> Threads], NEW pv \in [Threads -> Threads],
         Linked(S, nx, pv), Cycle(S, nx), NEW l \in S, NEW t \in Threads \ S
  PROVE  Cycle(S \cup {t}, InsertNext(nx, l, t, nx[l]))
<1> DEFINE nn == InsertNext(nx, l, t, nx[l])
<1>1. \A u \in S \cup {t} : nn[u] = IF u = t THEN nx[l] ELSE IF u = l THEN t ELSE nx[u]
  BY DEF InsertNext
<1>2. nx[l] \in S /\ \A u \in S : nx[u] \in S
  BY DEF Linked
<1> HIDE DEF nn
<1>3. ASSUME NEW C \in SUBSET (S \cup {t}), C # {}, \A u \in C : nn[u] \in C
      PROVE  C = S \cup {t}
  <2>1. CASE t \in C
    <3>1. nx[l] \in C \ {t}
      BY <1>1, <1>2, <1>3, <2>1
    <3>2. \A u \in C \ {t} : nx[u] \in C \ {t}
      BY <1>1, <1>2, <1>3, <3>1
    <3>3. C \ {t} = S
      BY <3>1, <3>2 DEF Cycle
    <3> QED
      BY <3>3, <2>1
  <2>2. CASE t \notin C
    <3>1. l \notin C
      BY <1>1, <1>3, <2>2
    <3>2. C \in SUBSET S /\ \A u \in C : nx[u] \in C
      BY <1>1, <1>3, <2>2, <3>1
    <3>3. C = S
      BY <1>3, <3>2 DEF Cycle
    <3> QED
      BY <3>1, <3>3
  <2> QED
    BY <2>1, <2>2
<1> QED
  BY <1>3 DEF Cycle, nn

\* A thread pushed on an empty queue is a ring of its own.
LEMMA AloneLinked ==
  ASSUME NEW nx \in [Threads -> Threads], NEW pv \in [Threads -> Threads],
         NEW t \in Threads
  PROVE  /\ Linked({t}, [nx EXCEPT ![t] = t], [pv EXCEPT ![t] = t])
         /\ Cycle({t}, [nx EXCEPT ![t] = t])
BY DEF Linked, Cycle

\* discard_thread keeps the remaining threads linked.
LEMMA DiscardLinked ==
  ASSUME PointersTyped, Linked(live, next, prev), NEW t \in live
  PROVE  /\ Linked(live \ {t}, DiscardNext(t), DiscardPrev(t))
         /\ DiscardNext(t) \in [Threads -> Threads]
         /\ DiscardPrev(t) \in [Threads -> Threads]
BY DEF PointersTyped, Linked, DiscardNext, DiscardPrev

\* ... and one cycle.
LEMMA DiscardCycle ==
  ASSUME PointersTyped, Linked(live, next, prev), Cycle(live, next), NEW t \in live
  PROVE  Cycle(live \ {t}, DiscardNext(t))
<1> DEFINE nn == DiscardNext(t)
<1>1. \A u \in live : nn[u] = IF u = prev[t] THEN next[t] ELSE next[u]
  BY DEF DiscardNext, PointersTyped
<1>2. /\ prev[t] \in live /\ next[t] \in live /\ next[prev[t]] = t
      /\ \A u \in live : next[u] = t => u = prev[t]
  BY DEF Linked
<1> HIDE DEF nn
<1>3. ASSUME NEW C \in SUBSET (live \ {t}), C # {}, \A u \in C : nn[u] \in C
      PROVE  C = live \ {t}
  <2>1. CASE prev[t] \in C
    <3>1. \A u \in C \cup {t} : next[u] \in C \cup {t}
      BY <1>1, <1>2, <1>3, <2>1
    <3>2. C \cup {t} \in SUBSET live /\ C \cup {t} # {}
      BY <1>3
    <3>3. C \cup {t} = live
      BY <3>1, <3>2 DEF Cycle
    <3> QED
      BY <3>3
  <2>2. CASE prev[t] \notin C
    <3>1. \A u \in C : next[u] \in C
      BY <1>1, <1>2, <1>3, <2>2
    <3>2. C = live
      BY <1>3, <3>1 DEF Cycle
    <3> QED
      BY <3>2
  <2> QED
    BY <2>1, <2>2
<1> QED
  BY <1>3 DEF Cycle, nn

\* push_thread on a linked ring S whose size it knows: the new thread joins
\* the ring, and running_thread is on it.
LEMMA PushLinked ==
  ASSUME NEW S \in SUBSET Threads, NEW n,
         NEW nx \in [Threads -> Threads], NEW pv \in [Threads -> Threads],
         Linked(S, nx, pv), Cycle(S, nx), n = 0 <=> S = {}, firstThread => S = {},
         NEW rt, S # {} => rt \in S,
         NEW t \in Threads \ S, PushThread(t, nx, pv, rt, n)
  PROVE  /\ Linked(S \cup {t}, next', prev')
         /\ Cycle(S \cup {t}, next')
         /\ running' \in S \cup {t}
         /\ next' \in [Threads -> Threads]
         /\ prev' \in [Threads -> Threads]
<1>1. CASE firstThread \/ n = 0
  <2>1. S = {} /\ running' = t /\ next' = [nx EXCEPT ![t] = t] /\ prev' = [pv EXCEPT ![t] = t]
    BY <1>1 DEF PushThread
  <2> QED
    BY <2>1, AloneLinked
<1>2. CASE ~(firstThread \/ n = 0)
  <2>1. /\ S # {} /\ running' = rt /\ rt \in S
        /\ next' = InsertNext(nx, rt, t, nx[rt])
        /\ prev' = InsertPrev(pv, rt, t, nx[rt])
    BY <1>2 DEF PushThread
  <2>2. Linked(S \cup {t}, next', prev') /\ Cycle(S \cup {t}, next')
    BY <2>1, InsertLinked, InsertCycle
  <2> QED
    BY <2>1, <2>2 DEF InsertNext, InsertPrev
<1> QED
  BY <1>1, <1>2

\* push_thread clears first_thread.
LEMMA PushFirst ==
  ASSUME firstThread \in BOOLEAN, NEW t, NEW nx, NEW pv, NEW rt, NEW n,
         PushThread(t, nx, pv, rt, n)
  PROVE  firstThread' = FALSE
<1>1. CASE firstThread \/ n = 0
  BY <1>1, Zenon DEF PushThread
<1>2. CASE ~(firstThread \/ n = 0)
  <2>1. firstThread' = firstThread /\ ~firstThread
    BY <1>2, Zenon DEF PushThread
  <2> QED
    BY <2>1
<1> QED
  BY <1>1, <1>2

-----------------------------------------------------------------------------
(* Every step keeps the invariant.                                         *)

\* switch_thread loads a typed context, and a thread executes afterwards
\* unless the slot had been consumed.
LEMMA SwitchThreadTyped ==
  ASSUME TypeOK, NEW saved \in [Threads -> Threads \cup {NoCtx}],
         NEW load \in Threads, NEW b \in BOOLEAN,
         SwitchThread(saved, load, b)
  PROVE  /\ ctx' \in [Threads -> Threads \cup {NoCtx}]
         /\ resumeIF' \in [Threads -> BOOLEAN]
         /\ cpu' \in Threads \cup {Boot}
         /\ ifl' \in BOOLEAN
         /\ mode' \in Modes
         /\ mode' = "run" => cpu' \in Threads
<1>1. resumeIF' \in [Threads -> BOOLEAN]
  <2>1. resumeIF \in [Threads -> BOOLEAN]
    BY DEF TypeOK, FlagsTyped
  <2>2. CASE cpu \in Threads
    <3>1. resumeIF' = [resumeIF EXCEPT ![cpu] = b]
      BY <2>2 DEF SwitchThread
    <3> QED
      BY <3>1, <2>1, <2>2, Zenon
  <2>3. CASE cpu \notin Threads
    <3>1. resumeIF' = resumeIF
      BY <2>3 DEF SwitchThread
    <3> QED
      BY <3>1, <2>1
  <2> QED
    BY <2>2, <2>3
<1>2. ctx' \in [Threads -> Threads \cup {NoCtx}]
  BY DEF SwitchThread
<1>3. CASE saved[load] # NoCtx
  <2>1. saved[load] \in Threads
    BY <1>3
  <2>2. cpu' = saved[load] /\ ifl' = resumeIF'[saved[load]] /\ mode' = mode
    BY <1>3 DEF SwitchThread
  <2>3. ifl' \in BOOLEAN
    BY <1>1, <2>1, <2>2, Zenon
  <2> QED
    BY <1>1, <1>2, <2>1, <2>2, <2>3 DEF TypeOK, PointersTyped
<1>4. CASE saved[load] = NoCtx
  <2>1. cpu' = cpu /\ ifl' = ifl /\ mode' = "lost"
    BY <1>4 DEF SwitchThread
  <2> QED
    BY <1>1, <1>2, <2>1 DEF TypeOK, PointersTyped, FlagsTyped, Modes
<1> QED
  BY <1>3, <1>4

\* reschedule() moves running_thread along the ring and touches no link.
LEMMA RescheduleIInv ==
  ASSUME IInv, mode = "run", NEW a \in BOOLEAN, NEW b \in BOOLEAN,
         Reschedule(a, b), blocked' \in [Threads -> BOOLEAN],
         UNCHANGED <<ring, pid, firstThread, newPid>>
  PROVE  IInv'
<1>1. /\ first /\ cpu \in Threads /\ live # {} /\ running \in live
      /\ next[running] \in live /\ next[next[running]] \in live
      /\ next[running] \in Threads /\ prev[next[running]] \in Threads
  BY DEF IInv, Started, RingLinked, Linked, Reschedule, TypeOK, PointersTyped
<1>2. /\ running' \in live
      /\ ctx' \in [Threads -> Threads \cup {NoCtx}]
      /\ resumeIF' \in [Threads -> BOOLEAN]
      /\ cpu' \in Threads \cup {Boot}
      /\ ifl' \in BOOLEAN
      /\ armed' \in BOOLEAN
      /\ mode' \in Modes
      /\ mode' = "run" => cpu' \in Threads
  <2> DEFINE n == next[running]
  <2>1. CASE RescheduleAlone(n, a)
    BY <1>1, <2>1 DEF RescheduleAlone, IInv, TypeOK, PointersTyped, FlagsTyped
  <2>2. CASE RescheduleBlocked(n, a)
    <3>1. /\ running' = IF pid[n] = IdlePid THEN next[n] ELSE n
          /\ mode' = IF pid[n] = IdlePid THEN "run" ELSE "hung"
          /\ UNCHANGED <<ctx, resumeIF, cpu>>
      BY <2>2 DEF RescheduleBlocked
    <3>2. ifl' \in BOOLEAN /\ armed' \in BOOLEAN
      BY <2>2, Zenon DEF RescheduleBlocked
    <3> QED
      BY <1>1, <3>1, <3>2 DEF IInv, TypeOK, PointersTyped, FlagsTyped, Modes
  <2>3. CASE RescheduleSwitch(n, b)
    <3>1. [ctx EXCEPT ![prev[n]] = cpu] \in [Threads -> Threads \cup {NoCtx}]
      BY <1>1 DEF IInv, TypeOK, PointersTyped
    <3>2. running' = n /\ armed' = TRUE /\ SwitchThread([ctx EXCEPT ![prev[n]] = cpu], n, b)
      BY <2>3 DEF RescheduleSwitch
    <3>3. TypeOK /\ n \in Threads
      BY <1>1 DEF IInv
    <3>4. /\ ctx' \in [Threads -> Threads \cup {NoCtx}]
          /\ resumeIF' \in [Threads -> BOOLEAN]
          /\ cpu' \in Threads \cup {Boot}
          /\ ifl' \in BOOLEAN
          /\ mode' \in Modes
          /\ mode' = "run" => cpu' \in Threads
      <4> HIDE DEF n
      <4> QED
        BY <3>1, <3>2, <3>3, SwitchThreadTyped
    <3> QED
      BY <1>1, <3>2, <3>4
  <2> QED
    BY <2>1, <2>2, <2>3 DEF Reschedule
<1>3. first' = first /\ live' = live /\ next' = next /\ prev' = prev /\ numThreads' = numThreads
      /\ pid' = pid /\ firstThread' = firstThread /\ newPid' = newPid
  BY DEF Reschedule, ring
<1>4. PointersTyped'
  BY <1>2, <1>3 DEF IInv, TypeOK, PointersTyped
<1>5. FlagsTyped'
  BY <1>2, <1>3 DEF IInv, TypeOK, FlagsTyped
<1>6. RingLinked' /\ OneCycle' /\ CountIsLive'
  BY <1>2, <1>3 DEF IInv, RingLinked, Linked, OneCycle, Cycle, CountIsLive
<1>7. Started'
  BY <1>1, <1>2, <1>3 DEF IInv, Started
<1> QED
  BY <1>4, <1>5, <1>6, <1>7 DEF IInv, TypeOK

\* hot_create_and_push_thread: the new thread is linked in and counted.
LEMMA CreateIInv ==
  ASSUME IInv, NEW t \in Threads, HotCreateAndPushThread(t)
  PROVE  IInv'
<1> USE DEF IInv, TypeOK
<1>1. /\ t \notin live /\ live' = live \cup {t} /\ numThreads' = numThreads + 1
      /\ PushThread(t, next, prev, running, numThreads)
      /\ UNCHANGED <<first, cpu, ifl, armed, mode>>
  BY DEF HotCreateAndPushThread
<1>2. /\ numThreads + 1 = Cardinality(live \cup {t})
      /\ numThreads = 0 <=> live = {}
  BY <1>1, CountAdd
<1>3. /\ Linked(live \cup {t}, next', prev')
      /\ Cycle(live \cup {t}, next')
      /\ running' \in live \cup {t}
      /\ next' \in [Threads -> Threads]
      /\ prev' \in [Threads -> Threads]
  <2>1. /\ live \in SUBSET Threads /\ next \in [Threads -> Threads]
        /\ prev \in [Threads -> Threads] /\ Linked(live, next, prev)
        /\ Cycle(live, next)
        /\ firstThread => live = {}
        /\ live # {} => running \in live
    BY DEF PointersTyped, RingLinked, OneCycle, Started
  <2> QED
    BY <1>1, <1>2, <2>1, PushLinked
<1>4. firstThread' = FALSE
  BY <1>1, PushFirst DEF FlagsTyped
<1>5. PointersTyped'
  <2>1. /\ newPid < MaxPid /\ newPid' = newPid + 1
        /\ pid' = [pid EXCEPT ![t] = newPid']
        /\ ctx' = [ctx EXCEPT ![t] = t]
    BY DEF HotCreateAndPushThread
  <2> QED
    BY <1>1, <1>3, <2>1, SchedulerAssumption DEF PointersTyped
<1>6. FlagsTyped'
  <2>1. /\ blocked' = [blocked EXCEPT ![t] = FALSE]
        /\ resumeIF' = [resumeIF EXCEPT ![t] = TRUE]
    BY DEF HotCreateAndPushThread
  <2>2. blocked' \in [Threads -> BOOLEAN] /\ resumeIF' \in [Threads -> BOOLEAN]
    BY <2>1, Zenon DEF FlagsTyped
  <2> QED
    BY <1>1, <1>4, <2>2 DEF FlagsTyped
<1>7. RingLinked' /\ OneCycle' /\ CountIsLive'
  BY <1>1, <1>2, <1>3 DEF RingLinked, Linked, OneCycle, Cycle, CountIsLive
<1>8. Started'
  BY <1>1, <1>4 DEF Started
<1> QED
  BY <1>5, <1>6, <1>7, <1>8

\* The first reschedule() enters the first thread, or halts.
LEMMA BootIInv ==
  ASSUME IInv, BootReschedule
  PROVE  IInv'
<1> USE DEF IInv, TypeOK
<1>1. /\ UNCHANGED <<live, next, prev, numThreads, pid, blocked, firstThread, newPid, running>>
      /\ first' = TRUE
  BY DEF BootReschedule, RescheduleFirst, ring, fields
<1>2. /\ ctx' \in [Threads -> Threads \cup {NoCtx}]
      /\ resumeIF' \in [Threads -> BOOLEAN]
      /\ cpu' \in Threads \cup {Boot}
      /\ ifl' \in BOOLEAN
      /\ armed' \in BOOLEAN
      /\ mode' \in Modes
      /\ mode' = "run" => cpu' \in Threads /\ live # {}
  <2>1. CASE running = NoThread
    <3>1. mode' = "halted" /\ ifl' = FALSE /\ UNCHANGED <<ctx, resumeIF, cpu, armed>>
      BY <2>1 DEF BootReschedule, RescheduleFirst
    <3> QED
      BY <3>1 DEF PointersTyped, FlagsTyped, Modes
  <2>2. CASE running # NoThread
    <3>1. armed' = TRUE /\ SwitchThread(ctx, running, TRUE)
      BY <2>2 DEF BootReschedule, RescheduleFirst
    <3>2. running \in Threads /\ live # {} /\ ctx \in [Threads -> Threads \cup {NoCtx}]
      BY <2>2 DEF PointersTyped, Started
    <3> QED
      BY <3>1, <3>2, SwitchThreadTyped
  <2> QED
    BY <2>1, <2>2
<1>3. PointersTyped'
  BY <1>1, <1>2 DEF PointersTyped
<1>4. FlagsTyped'
  BY <1>1, <1>2 DEF FlagsTyped
<1>5. RingLinked' /\ OneCycle' /\ CountIsLive' /\ Started'
  BY <1>1, <1>2 DEF RingLinked, Linked, OneCycle, Cycle, CountIsLive, Started
<1> QED
  BY <1>3, <1>4, <1>5

\* A thread that is its own successor is the only one.
LEMMA SelfLoopAlone ==
  ASSUME IInv, NEW t \in live, next[t] = t
  PROVE  live = {t}
<1>1. {t} \in SUBSET live /\ {t} # {} /\ \A u \in {t} : next[u] \in {t}
  OBVIOUS
<1>2. Cycle(live, next)
  BY DEF IInv, OneCycle
<1> QED
  BY <1>1, <1>2 DEF Cycle

\* The loop of scheduler_return looks at the successor first, and at no other
\* thread when that is not blocked.
LEMMA VisitedFirst ==
  ASSUME NEW t, next[t] \in Threads
  PROVE  /\ next[t] \in Visited(t)
         /\ ~blocked[next[t]] => Visited(t) \subseteq {next[t]}
<1>1. next[t] \in Visited(t)
  BY Zenon DEF Visited
<1>2. ASSUME ~blocked[next[t]], NEW u \in Visited(t)
      PROVE  u = next[t]
  <2>1. {next[t]} \in SUBSET Threads
    OBVIOUS
  <2>2. \A v \in {next[t]} : blocked[v] /\ pid[v] # pid[t] => next[v] \in {next[t]}
    BY <1>2, Zenon
  <2>3. u \in {next[t]}
    BY <2>1, <2>2, Zenon DEF Visited
  <2> QED
    BY <2>3
<1> QED
  BY <1>1, <1>2

\* scheduler_return, normal path: the thread is unlinked, and the ring that
\* remains is not empty.
LEMMA ReturnToNextIInv ==
  ASSUME IInv, SchedulerReturn, ReturnToNext(running)
  PROVE  IInv'
<1> USE DEF IInv, TypeOK
<1>1. /\ running \in live /\ running \in Threads
      /\ next[running] \in live /\ next[running] \in Threads
  BY DEF SchedulerReturn, ThreadRuns, RingLinked, Linked, PointersTyped
<1>2. next[running] # running
  BY <1>1, VisitedFirst DEF ReturnToNext, NoneToRun
<1>3. /\ running' = next[running] /\ live' = live \ {running}
      /\ next' = DiscardNext(running) /\ prev' = DiscardPrev(running)
      /\ numThreads' = numThreads - 1 /\ armed' = TRUE
      /\ UNCHANGED <<pid, blocked, firstThread, first, newPid>>
  BY DEF ReturnToNext, SchedulerReturn, fields
<1>4. /\ Linked(live', next', prev')
      /\ OneCycle'
      /\ next' \in [Threads -> Threads] /\ prev' \in [Threads -> Threads]
  BY <1>1, <1>3, DiscardLinked, DiscardCycle DEF RingLinked, OneCycle
<1>5. numThreads' \in Nat /\ CountIsLive'
  BY <1>1, <1>3, CountRemove DEF CountIsLive
<1>6. PICK u \in live : SwitchThread(ctx, u, TRUE)
  BY DEF ReturnToNext
<1>7. /\ ctx' \in [Threads -> Threads \cup {NoCtx}]
      /\ resumeIF' \in [Threads -> BOOLEAN]
      /\ cpu' \in Threads \cup {Boot}
      /\ ifl' \in BOOLEAN
      /\ mode' \in Modes
      /\ mode' = "run" => cpu' \in Threads
  <2>1. u \in Threads /\ ctx \in [Threads -> Threads \cup {NoCtx}]
    BY <1>6 DEF PointersTyped
  <2> QED
    BY <1>6, <2>1, SwitchThreadTyped
<1>8. PointersTyped'
  BY <1>1, <1>3, <1>4, <1>5, <1>7 DEF PointersTyped
<1>9. FlagsTyped'
  BY <1>3, <1>7 DEF FlagsTyped
<1>10. running' \in live' /\ RingLinked'
  BY <1>1, <1>2, <1>3, <1>4 DEF RingLinked
<1>11. Started'
  BY <1>1, <1>3, <1>7, <1>10 DEF Started
<1> QED
  BY <1>4, <1>5, <1>8, <1>9, <1>10, <1>11

\* scheduler_return, kill_and_switch_to_idle: the thread is unlinked, the idle
\* thread linked in, and the count is unchanged.
LEMMA ReturnToIdleIInv ==
  ASSUME IInv, SchedulerReturn, ReturnToIdle(running)
  PROVE  IInv'
<1> USE DEF IInv, TypeOK
<1> DEFINE rest == live \ {running}
<1>1. /\ running \in live /\ running \in Threads
      /\ next[running] \in live /\ next[running] \in Threads
      /\ prev[next[running]] = running
  BY DEF SchedulerReturn, ThreadRuns, RingLinked, Linked, PointersTyped
<1>2. PICK idle \in Threads \ rest :
        /\ PushThread(idle, DiscardNext(running), DiscardPrev(running), next[running], numThreads - 1)
        /\ live' = rest \cup {idle}
        /\ pid' = [pid EXCEPT ![idle] = IdlePid]
        /\ blocked' = [blocked EXCEPT ![idle] = FALSE]
        /\ ctx' = [ctx EXCEPT ![idle] = NoCtx]
        /\ resumeIF' = [resumeIF EXCEPT ![idle] = TRUE]
        /\ cpu' = idle
        /\ ifl' = TRUE
  BY DEF ReturnToIdle
<1>3. UNCHANGED <<numThreads, mode, first, newPid>> /\ armed' = TRUE
  BY DEF ReturnToIdle, SchedulerReturn
<1>4. /\ Linked(rest, DiscardNext(running), DiscardPrev(running))
      /\ Cycle(rest, DiscardNext(running))
      /\ DiscardNext(running) \in [Threads -> Threads]
      /\ DiscardPrev(running) \in [Threads -> Threads]
  BY <1>1, DiscardLinked, DiscardCycle DEF RingLinked, OneCycle
<1>5. /\ numThreads - 1 = 0 <=> rest = {}
      /\ numThreads = Cardinality(rest \cup {idle})
  BY <1>1, <1>2, CountRemove
<1>6. rest # {} => next[running] \in rest
  <2>1. next[running] = running => {running} = live
    BY <1>1, SelfLoopAlone
  <2> QED
    BY <1>1, <2>1
<1>7. /\ Linked(live', next', prev')
      /\ Cycle(live', next')
      /\ running' \in live'
      /\ next' \in [Threads -> Threads]
      /\ prev' \in [Threads -> Threads]
  <2>1. rest \in SUBSET Threads /\ (firstThread => rest = {})
    BY <1>1 DEF PointersTyped, Started
  <2> HIDE DEF rest, IInv
  <2>2. /\ Linked(rest \cup {idle}, next', prev')
        /\ Cycle(rest \cup {idle}, next')
        /\ running' \in rest \cup {idle}
        /\ next' \in [Threads -> Threads]
        /\ prev' \in [Threads -> Threads]
    BY <1>2, <1>4, <1>5, <1>6, <2>1, PushLinked
  <2> QED
    BY <1>2, <2>2
<1>8. firstThread' = FALSE
  BY <1>2, PushFirst DEF FlagsTyped
<1>9. PointersTyped'
  BY <1>2, <1>3, <1>7 DEF PointersTyped, IdlePid
<1>10. FlagsTyped'
  <2>1. blocked' \in [Threads -> BOOLEAN] /\ resumeIF' \in [Threads -> BOOLEAN]
    BY <1>2, Zenon DEF FlagsTyped
  <2> QED
    BY <1>2, <1>3, <1>8, <2>1 DEF FlagsTyped
<1>11. RingLinked' /\ OneCycle' /\ CountIsLive'
  BY <1>2, <1>3, <1>5, <1>7 DEF RingLinked, OneCycle, CountIsLive
<1>12. Started'
  BY <1>2, <1>3, <1>8 DEF Started
<1> QED
  BY <1>9, <1>10, <1>11, <1>12

\* block_thread, unblock_thread, get_thread_by_pid and sleep_thread leave the
\* ring alone.
LEMMA BlockIInv ==
  ASSUME IInv, NEW t \in Threads,
         BlockThread(t) \/ UnblockThread(t) \/ GetThreadByPid(t) \/ SleepThread
  PROVE  IInv'
<1> USE DEF IInv, TypeOK
<1>1. /\ mode = "run"
      /\ UNCHANGED <<ring, pid, firstThread, newPid>>
  BY DEF BlockThread, UnblockThread, GetThreadByPid, SleepThread, ThreadRuns, fields
<1>2. blocked' \in [Threads -> BOOLEAN]
  <2>1. blocked \in [Threads -> BOOLEAN]
    BY DEF FlagsTyped
  <2>2. \/ blocked' = blocked
        \/ blocked' = [blocked EXCEPT ![t] = TRUE]
        \/ blocked' = [blocked EXCEPT ![t] = FALSE]
    BY DEF BlockThread, UnblockThread, GetThreadByPid, SleepThread, fields
  <2> QED
    BY <2>1, <2>2, Zenon
<1>3. CASE Reschedule(FALSE, FALSE)
  BY <1>1, <1>2, <1>3, RescheduleIInv
<1>4. CASE UNCHANGED <<ctx, resumeIF, running, first, cpu, armed, mode>> /\ ifl' \in BOOLEAN
  <2>1. PointersTyped'
    BY <1>1, <1>4 DEF PointersTyped, ring
  <2>2. FlagsTyped'
    BY <1>1, <1>2, <1>4 DEF FlagsTyped
  <2>3. RingLinked' /\ OneCycle' /\ CountIsLive' /\ Started'
    BY <1>1, <1>4 DEF RingLinked, Linked, OneCycle, Cycle, CountIsLive, Started, ring
  <2> QED
    BY <2>1, <2>2, <2>3
<1>5. \/ Reschedule(FALSE, FALSE)
      \/ UNCHANGED <<ctx, resumeIF, running, first, cpu, armed, mode>> /\ ifl' \in BOOLEAN
  <2>1. ifl \in BOOLEAN
    BY DEF FlagsTyped
  <2> QED
    BY <2>1 DEF BlockThread, UnblockThread, GetThreadByPid, SleepThread
<1> QED
  BY <1>3, <1>4, <1>5

\* Every step of the scheduler keeps the invariant.
LEMMA NextIInv == IInv /\ [Next]_vars => IInv'
<1> SUFFICES ASSUME IInv, [Next]_vars PROVE IInv'
  OBVIOUS
<1>1. ASSUME NEW t \in Threads, HotCreateAndPushThread(t) PROVE IInv'
  BY <1>1, CreateIInv
<1>2. CASE BootReschedule
  BY <1>2, BootIInv
<1>3. CASE TimerInterrupt \/ YieldThread \/ HotReschedule
  <2>1. /\ mode = "run" /\ \E a, b \in BOOLEAN : Reschedule(a, b)
        /\ UNCHANGED <<ring, pid, firstThread, newPid>> /\ blocked' = blocked
    <3>1. ifl \in BOOLEAN
      BY DEF IInv, TypeOK, FlagsTyped
    <3> QED
      BY <1>3, <3>1 DEF TimerInterrupt, YieldThread, HotReschedule, ThreadRuns, fields
  <2>2. blocked' \in [Threads -> BOOLEAN]
    BY <2>1 DEF IInv, TypeOK, FlagsTyped
  <2> QED
    BY <2>1, <2>2, RescheduleIInv
<1>4. CASE SchedulerReturn
  BY <1>4, ReturnToNextIInv, ReturnToIdleIInv DEF SchedulerReturn
<1>5. ASSUME NEW t \in Threads, BlockThread(t) \/ UnblockThread(t) \/ GetThreadByPid(t) \/ SleepThread
      PROVE  IInv'
  BY <1>5, BlockIInv
<1>6. CASE UNCHANGED vars
  <2> USE <1>6 DEF vars, IInv, TypeOK
  <2>1. PointersTyped' /\ FlagsTyped'
    BY DEF PointersTyped, FlagsTyped
  <2>2. RingLinked' /\ OneCycle' /\ CountIsLive' /\ Started'
    BY DEF RingLinked, Linked, OneCycle, Cycle, CountIsLive, Started
  <2> QED
    BY <2>1, <2>2
<1> QED
  BY <1>1, <1>2, <1>3, <1>4, <1>5, <1>6, SchedulerAssumption DEF Next, SwitchNext

\* The types, the linked ring, its being one cycle and the thread count hold in
\* every state of the scheduler, with blocking, for every number of threads.
THEOREM RingCorrect == Spec => [](TypeOK /\ RingLinked /\ OneCycle /\ CountIsLive)
<1>1. IInv => TypeOK /\ RingLinked /\ OneCycle /\ CountIsLive
  BY DEF IInv
<1> QED
  BY InitIInv, NextIInv, <1>1, PTL DEF Spec

-----------------------------------------------------------------------------
(* Context switching, for threads that do not block.                       *)

NoneBlocked == \A t \in Threads : ~blocked[t]

\* The pid comparisons of reschedule and scheduler_return mean identity.
PidsDistinct ==
    /\ \A t, u \in live : pid[t] = pid[u] => t = u
    /\ \A t \in live : pid[t] <= newPid

\* The idle thread is only pushed when nothing else is left.
IdleAlone ==
    /\ \A t \in live : pid[t] = IdlePid => live = {t}
    /\ ~first => \A t \in live : pid[t] # IdlePid

OnCpu ==
    /\ first /\ mode = "run" => cpu = running
    /\ ~first => cpu = Boot /\ mode = "run"

SInv ==
    /\ IInv
    /\ NoneBlocked
    /\ PidsDistinct
    /\ IdleAlone
    /\ OnCpu
    /\ ContextsOwned
    /\ SwitchNeverFails

\* The boot state satisfies the invariant.
LEMMA InitSInv == Init => SInv
<1> SUFFICES ASSUME Init PROVE SInv
  OBVIOUS
<1>1. IInv
  BY InitIInv
<1>2. NoneBlocked
  BY Zenon DEF Init, NoneBlocked
<1>3. PidsDistinct /\ IdleAlone /\ OnCpu /\ ContextsOwned /\ SwitchNeverFails
  BY DEF Init, PidsDistinct, IdleAlone, OnCpu, ContextsOwned, SwitchNeverFails
<1> QED
  BY <1>1, <1>2, <1>3 DEF SInv

\* A slot that holds its own thread's context is resumed as that thread.
LEMMA SwitchThreadLoads ==
  ASSUME TypeOK, NEW saved \in [Threads -> Threads \cup {NoCtx}],
         NEW load \in Threads, saved[load] = load, NEW b,
         SwitchThread(saved, load, b)
  PROVE  /\ cpu' = load /\ mode' = mode
         /\ \A t \in Threads \ {load} : ctx'[t] = saved[t]
<1>1. saved[load] # NoCtx
  BY SchedulerAssumption
<1> QED
  BY <1>1 DEF SwitchThread

\* reschedule() leaves the thread it resumes on the CPU, and every other
\* context where it belongs.
LEMMA RescheduleSInv ==
  ASSUME SInv, mode = "run", NEW a, NEW b, Reschedule(a, b),
         UNCHANGED <<ring, fields, firstThread, newPid>>
  PROVE  /\ mode' = "run" /\ first' /\ cpu' = running'
         /\ \A t \in live \ {cpu'} : ctx'[t] = t
<1> DEFINE n == next[running]
<1>1. /\ first /\ first' = first /\ cpu = running /\ running \in live /\ running \in Threads
      /\ n \in live /\ n \in Threads /\ prev[n] = running /\ ~blocked[n]
  BY DEF SInv, IInv, TypeOK, PointersTyped, RingLinked, Linked, Started, OnCpu, Reschedule, NoneBlocked
<1>2. \A t \in live \ {cpu} : ctx[t] = t
  BY DEF SInv, ContextsOwned
<1>3. CASE RescheduleAlone(n, a)
  <2>1. pid[n] = pid[running] /\ running' = n /\ cpu' = cpu /\ ctx' = ctx /\ mode' = mode
    BY <1>1, <1>3 DEF RescheduleAlone
  <2>2. n = running
    BY <1>1, <2>1 DEF SInv, PidsDistinct
  <2> QED
    BY <1>1, <1>2, <2>1, <2>2
<1>4. CASE RescheduleBlocked(n, a)
  BY <1>1, <1>4 DEF RescheduleBlocked
<1>5. CASE RescheduleSwitch(n, b)
  <2> DEFINE saved == [ctx EXCEPT ![prev[n]] = cpu]
  <2>1. pid[n] # pid[running] /\ running' = n /\ SwitchThread(saved, n, b)
    BY <1>1, <1>5 DEF RescheduleSwitch
  <2>2. n # running
    BY <2>1
  <2>3. /\ saved \in [Threads -> Threads \cup {NoCtx}]
        /\ saved[n] = n
        /\ \A t \in live \ {n} : saved[t] = t
    BY <1>1, <1>2, <2>2 DEF SInv, IInv, TypeOK, PointersTyped
  <2> HIDE DEF saved, n
  <2>4. cpu' = n /\ mode' = mode /\ \A t \in Threads \ {n} : ctx'[t] = saved[t]
    BY <1>1, <2>1, <2>3, SwitchThreadLoads DEF SInv, IInv
  <2>5. live \subseteq Threads
    BY DEF SInv, IInv, TypeOK, PointersTyped
  <2> QED
    BY <1>1, <2>1, <2>3, <2>4, <2>5
<1> QED
  BY <1>3, <1>4, <1>5 DEF Reschedule

\* hot_create_and_push_thread gives the new thread a pid of its own and a
\* context of its own, and moves nobody.
LEMMA CreateSInv ==
  ASSUME SInv, NEW t \in Threads, HotCreateAndPushThread(t)
  PROVE  SInv'
<1> USE DEF SInv
<1>1. IInv'
  BY CreateIInv
<1>2. /\ t \notin live /\ live' = live \cup {t} /\ newPid' = newPid + 1
      /\ pid' = [pid EXCEPT ![t] = newPid']
      /\ ctx' = [ctx EXCEPT ![t] = t]
      /\ UNCHANGED <<first, cpu, mode>>
      /\ ThreadRuns \/ (mode = "run" /\ cpu = Boot)
  BY DEF HotCreateAndPushThread
<1>3. /\ pid \in [Threads -> Nat] /\ newPid \in Nat /\ live \subseteq Threads
      /\ ctx \in [Threads -> Threads \cup {NoCtx}]
  BY DEF IInv, TypeOK, PointersTyped
<1>4. NoneBlocked'
  <2>1. blocked' = [blocked EXCEPT ![t] = FALSE] /\ blocked \in [Threads -> BOOLEAN]
    BY DEF HotCreateAndPushThread, IInv, TypeOK, FlagsTyped
  <2> QED
    BY <2>1, Zenon DEF NoneBlocked
<1>5. PidsDistinct'
  BY <1>2, <1>3 DEF PidsDistinct
<1>6. \A u \in live : pid[u] # IdlePid
  <2>1. CASE ThreadRuns
    BY <2>1 DEF ThreadRuns, IdleAlone
  <2>2. CASE cpu = Boot /\ mode = "run"
    BY <2>2, SchedulerAssumption DEF IdleAlone, IInv, Started
  <2> QED
    BY <1>2, <2>1, <2>2
<1>7. IdleAlone'
  BY <1>2, <1>3, <1>6 DEF IdleAlone, IdlePid
<1>8. ASSUME first PROVE running' = running
  <2>1. ~(firstThread \/ numThreads = 0)
    <3>1. live # {} /\ ~firstThread
      BY <1>2, <1>8 DEF ThreadRuns, IInv, Started
    <3> QED
      BY <1>2, <3>1, CountAdd DEF IInv
  <2> QED
    BY <2>1 DEF HotCreateAndPushThread, PushThread
<1>9. OnCpu' /\ ContextsOwned' /\ SwitchNeverFails'
  BY <1>2, <1>3, <1>8 DEF OnCpu, ContextsOwned, SwitchNeverFails
<1> QED
  BY <1>1, <1>4, <1>5, <1>7, <1>9

\* scheduler_return unlinks the thread that executes and resumes its
\* successor, or the idle thread.
LEMMA ReturnSInv ==
  ASSUME SInv, SchedulerReturn
  PROVE  SInv' /\ live \ live' \subseteq {cpu}
<1> USE DEF SInv
<1>1. IInv'
  BY ReturnToNextIInv, ReturnToIdleIInv DEF SchedulerReturn
<1>2. /\ mode = "run" /\ first /\ cpu = running /\ cpu \in live /\ pid[cpu] # IdlePid
      /\ next[cpu] \in live /\ ~blocked[next[cpu]]
      /\ live \subseteq Threads /\ ctx \in [Threads -> Threads \cup {NoCtx}]
      /\ pid \in [Threads -> Nat] /\ newPid \in Nat
  BY SchedulerAssumption DEF SchedulerReturn, ThreadRuns, IInv, TypeOK, PointersTyped,
     RingLinked, Linked, OnCpu, NoneBlocked
<1>3. \A t \in live \ {cpu} : ctx[t] = t
  BY <1>2 DEF ContextsOwned
<1>4. first' = first /\ newPid' = newPid
  BY DEF SchedulerReturn
<1>5. CASE ReturnToNext(cpu)
  <2> DEFINE n == next[cpu]
  <2>1. /\ n # cpu /\ running' = n /\ live' = live \ {cpu}
        /\ UNCHANGED <<pid, blocked>>
    BY <1>2, <1>5, VisitedFirst DEF ReturnToNext, NoneToRun, fields
  <2>2. SwitchThread(ctx, n, TRUE)
    <3>1. PICK u \in live : LoopStopsAt(cpu, u) /\ SwitchThread(ctx, u, TRUE)
      BY <1>5 DEF ReturnToNext
    <3>2. u = n
      BY <1>2, <3>1, VisitedFirst DEF LoopStopsAt
    <3> QED
      BY <3>1, <3>2
  <2>3. n \in Threads /\ ctx[n] = n
    BY <1>2, <1>3, <2>1
  <2>4. cpu' = n /\ mode' = mode /\ \A t \in Threads \ {n} : ctx'[t] = ctx[t]
    <3> HIDE DEF n
    <3> QED
      BY <1>2, <2>2, <2>3, SwitchThreadLoads DEF IInv
  <2>5. NoneBlocked'
    BY <2>1 DEF NoneBlocked
  <2>6. PidsDistinct' /\ IdleAlone'
    BY <1>2, <1>4, <2>1 DEF PidsDistinct, IdleAlone
  <2>7. OnCpu' /\ ContextsOwned' /\ SwitchNeverFails'
    BY <1>2, <1>3, <1>4, <2>1, <2>4 DEF OnCpu, ContextsOwned, SwitchNeverFails
  <2> QED
    BY <1>1, <2>1, <2>5, <2>6, <2>7
<1>6. CASE ReturnToIdle(cpu)
  <2>1. live = {cpu}
    <3>1. pid[next[cpu]] = pid[cpu]
      BY <1>2, <1>6, VisitedFirst DEF ReturnToIdle, NoneToRun
    <3>2. next[cpu] = cpu
      BY <1>2, <3>1 DEF PidsDistinct
    <3> QED
      BY <1>2, <3>2, SelfLoopAlone
  <2>2. PICK idle \in Threads :
          /\ PushThread(idle, DiscardNext(cpu), DiscardPrev(cpu), next[cpu], numThreads - 1)
          /\ live' = {idle}
          /\ pid' = [pid EXCEPT ![idle] = IdlePid]
          /\ blocked' = [blocked EXCEPT ![idle] = FALSE]
          /\ cpu' = idle
    BY <1>6, <2>1 DEF ReturnToIdle
  <2>3. running' = idle /\ mode' = mode
    BY <1>1, <1>6, <2>2 DEF IInv, RingLinked, ReturnToIdle
  <2>4. NoneBlocked'
    <3>1. blocked \in [Threads -> BOOLEAN]
      BY DEF IInv, TypeOK, FlagsTyped
    <3> QED
      BY <2>2, <3>1, Zenon DEF NoneBlocked
  <2>5. PidsDistinct' /\ IdleAlone'
    BY <1>2, <1>4, <2>2 DEF PidsDistinct, IdleAlone, IdlePid
  <2>6. OnCpu' /\ ContextsOwned' /\ SwitchNeverFails'
    BY <1>2, <1>4, <2>2, <2>3 DEF OnCpu, ContextsOwned, SwitchNeverFails
  <2> QED
    BY <1>1, <2>1, <2>4, <2>5, <2>6
<1> QED
  BY <1>2, <1>5, <1>6 DEF SchedulerReturn

\* The first reschedule() enters the first thread.
LEMMA BootSInv ==
  ASSUME SInv, BootReschedule
  PROVE  SInv'
<1> USE DEF SInv
<1>1. IInv'
  BY BootIInv
<1>2. /\ UNCHANGED <<live, pid, blocked, newPid, running>>
      /\ first' = TRUE /\ mode = "run" /\ cpu = Boot
  BY DEF BootReschedule, RescheduleFirst, ring, fields
<1>3. NoneBlocked' /\ PidsDistinct' /\ IdleAlone'
  BY <1>2 DEF NoneBlocked, PidsDistinct, IdleAlone
<1>4. CASE running = NoThread
  <2>1. mode' = "halted"
    BY <1>4 DEF BootReschedule, RescheduleFirst
  <2> QED
    BY <1>1, <1>2, <1>3, <2>1 DEF OnCpu, ContextsOwned, SwitchNeverFails
<1>5. CASE running # NoThread
  <2>1. /\ running \in live /\ running \in Threads
        /\ live \subseteq Threads /\ ctx \in [Threads -> Threads \cup {NoCtx}]
    BY <1>5 DEF IInv, Started, RingLinked, TypeOK, PointersTyped
  <2>2. \A t \in live : ctx[t] = t
    BY <1>2, <2>1, SchedulerAssumption DEF ContextsOwned
  <2>3. SwitchThread(ctx, running, TRUE)
    BY <1>5 DEF BootReschedule, RescheduleFirst
  <2>4. cpu' = running /\ mode' = mode /\ \A t \in Threads \ {running} : ctx'[t] = ctx[t]
    BY <2>1, <2>2, <2>3, SwitchThreadLoads DEF IInv
  <2>5. OnCpu' /\ ContextsOwned' /\ SwitchNeverFails'
    BY <1>2, <2>1, <2>2, <2>4 DEF OnCpu, ContextsOwned, SwitchNeverFails
  <2> QED
    BY <1>1, <1>3, <2>5
<1> QED
  BY <1>4, <1>5

\* Every step of threads that do not block keeps the invariant, and removes at
\* most the executing thread.
LEMMA NextSInv == SInv /\ [SwitchNext]_vars => SInv' /\ live \ live' \subseteq {cpu}
<1> SUFFICES ASSUME SInv, [SwitchNext]_vars
             PROVE  SInv' /\ live \ live' \subseteq {cpu}
  OBVIOUS
<1>0. IInv'
  BY NextIInv DEF SInv, Next
<1>1. ASSUME NEW t \in Threads, HotCreateAndPushThread(t)
      PROVE  SInv' /\ live \ live' \subseteq {cpu}
  BY <1>1, CreateSInv DEF HotCreateAndPushThread
<1>2. CASE BootReschedule
  BY <1>2, BootSInv DEF BootReschedule, ring
<1>3. CASE TimerInterrupt \/ YieldThread \/ HotReschedule
  <2>1. /\ mode = "run" /\ \E a, b : Reschedule(a, b)
        /\ UNCHANGED <<ring, fields, firstThread, newPid>>
    BY <1>3 DEF TimerInterrupt, YieldThread, HotReschedule, ThreadRuns
  <2>2. /\ mode' = "run" /\ first' /\ cpu' = running'
        /\ \A t \in live \ {cpu'} : ctx'[t] = t
    BY <2>1, RescheduleSInv
  <2>3. live' = live /\ pid' = pid /\ blocked' = blocked /\ newPid' = newPid
    BY <2>1 DEF ring, fields
  <2>4. NoneBlocked' /\ PidsDistinct' /\ IdleAlone'
    BY <2>2, <2>3 DEF SInv, NoneBlocked, PidsDistinct, IdleAlone
  <2>5. OnCpu' /\ ContextsOwned' /\ SwitchNeverFails'
    BY <2>2, <2>3 DEF OnCpu, ContextsOwned, SwitchNeverFails
  <2> QED
    BY <1>0, <2>3, <2>4, <2>5 DEF SInv
<1>4. CASE SchedulerReturn
  BY <1>4, ReturnSInv
<1>5. CASE UNCHANGED vars
  BY <1>0, <1>5 DEF vars, SInv, NoneBlocked, PidsDistinct, IdleAlone, OnCpu, ContextsOwned,
     SwitchNeverFails
<1> QED
  BY <1>1, <1>2, <1>3, <1>4, <1>5 DEF SwitchNext

\* For threads that do not block, running_thread is the thread that executes,
\* every other thread's context is in its own slot, and no switch fails.
THEOREM SwitchCorrect ==
  SwitchSpec => [](CpuIsRunning /\ ContextsOwned /\ SwitchNeverFails)
<1>1. SInv => CpuIsRunning /\ ContextsOwned /\ SwitchNeverFails
  BY DEF SInv, OnCpu, CpuIsRunning
<1> QED
  BY InitSInv, NextSInv, <1>1, PTL DEF SwitchSpec

\* For threads that do not block, an exit removes the executing thread only.
THEOREM OnlySelfExitsCorrect == SwitchSpec => OnlySelfExits
<1>1. SInv /\ [SwitchNext]_vars => [live \ live' \subseteq {cpu}]_vars
  BY NextSInv
<1> QED
  BY InitSInv, NextSInv, <1>1, PTL DEF SwitchSpec, OnlySelfExits

-----------------------------------------------------------------------------
(* The timer.                                                              *)

\* Once reschedule() has been called the one-shot timer is always counting or its
\* interrupt pending: no path of reschedule, scheduler_return or block_thread,
\* with or without a switch, leaves a thread that could never be preempted again
\* even with interrupts enabled.
PreemptionArmed == first /\ mode = "run" => armed

\* reschedule() restarts the one-shot timer or spins; where it only skips a
\* blocked idle thread, the timer of before is still running.
LEMMA RescheduleArms ==
  ASSUME NEW a, NEW b, Reschedule(a, b), mode = "run", PreemptionArmed
  PROVE  PreemptionArmed'
<1>1. armed /\ (first' <=> first)
  BY Zenon DEF PreemptionArmed, Reschedule
<1>2. CASE RescheduleAlone(next[running], a) \/ RescheduleSwitch(next[running], b)
  BY <1>2, Zenon DEF RescheduleAlone, RescheduleSwitch, PreemptionArmed
<1>3. CASE RescheduleBlocked(next[running], a)
  BY <1>1, <1>3, Zenon DEF RescheduleBlocked, PreemptionArmed
<1> QED
  BY <1>2, <1>3, Zenon DEF Reschedule

LEMMA NextArmed == PreemptionArmed /\ [Next]_vars => PreemptionArmed'
<1> SUFFICES ASSUME PreemptionArmed, [Next]_vars
             PROVE  PreemptionArmed'
  OBVIOUS
<1>1. ASSUME NEW t \in Threads, HotCreateAndPushThread(t)
      PROVE  PreemptionArmed'
  BY <1>1, Zenon DEF HotCreateAndPushThread, PreemptionArmed
<1>2. CASE BootReschedule
  <2>1. mode' = "halted" \/ armed'
    BY <1>2, Zenon DEF BootReschedule, RescheduleFirst
  <2> QED
    BY <2>1 DEF PreemptionArmed
<1>3. CASE TimerInterrupt \/ YieldThread \/ HotReschedule
  <2>1. mode = "run" /\ \E a, b : Reschedule(a, b)
    BY <1>3 DEF TimerInterrupt, YieldThread, HotReschedule, ThreadRuns
  <2> QED
    BY <2>1, RescheduleArms
<1>4. CASE SchedulerReturn
  BY <1>4, Zenon DEF SchedulerReturn, PreemptionArmed
<1>5. ASSUME NEW t \in Threads, BlockThread(t)
      PROVE  PreemptionArmed'
  <2>1. CASE UNCHANGED <<first, armed, mode>>
    BY <2>1, Zenon DEF PreemptionArmed
  <2>2. CASE Reschedule(FALSE, FALSE)
    BY <1>5, <2>2, RescheduleArms DEF BlockThread, ThreadRuns
  <2> QED
    BY <1>5, <2>1, <2>2, Zenon DEF BlockThread
<1>6. CASE \/ \E t \in Threads : UnblockThread(t) \/ GetThreadByPid(t)
           \/ SleepThread
           \/ UNCHANGED vars
  BY <1>6, Zenon DEF UnblockThread, GetThreadByPid, SleepThread, vars, PreemptionArmed
<1> QED
  BY <1>1, <1>2, <1>3, <1>4, <1>5, <1>6, Zenon DEF Next, SwitchNext

\* Whatever the threads do, blocking included, the next timer interrupt is on its
\* way: only a cleared interrupt flag keeps a thread from being preempted.
THEOREM PreemptionCorrect == Spec => []PreemptionArmed
<1>1. Init => PreemptionArmed
  BY DEF Init, PreemptionArmed
<1> QED
  BY <1>1, NextArmed, PTL DEF Spec

-----------------------------------------------------------------------------
(* The order of the ring.                                                  *)

\* A set of natural numbers that is not empty has a least element.
LEMMA LeastIndex ==
  ASSUME NEW T \in SUBSET Nat, T # {}
  PROVE  \E x \in T : \A y \in T : x <= y
<1>1. PICK x \in T : \A y \in T : ~ (<<y, x>> \in OpToRel(<, Nat))
  BY WFMin, NatLessThanWellFounded
<1>2. \A y \in T : ~(y < x)
  BY <1>1 DEF OpToRel
<1> QED
  BY <1>2

\* q lists k different members of S, from r on along nx.
Walk(q, k, S, nx, r) ==
    /\ q \in [1 .. k -> S]
    /\ q[1] = r
    /\ \A i \in 1 .. k - 1 : nx[q[i]] = q[i + 1]
    /\ \A i, j \in 1 .. k : q[i] = q[j] => i = j

\* There are no more of them than members of S.
LEMMA WalkBound ==
  ASSUME NEW S, IsFiniteSet(S), NEW nx, NEW r, NEW k \in Nat, NEW q, Walk(q, k, S, nx, r)
  PROVE  k <= Cardinality(S)
<1>1. q \in Injection(1 .. k, S)
  BY DEF Walk, Injection, IsInjective
<1>2. Cardinality(1 .. k) = k
  BY FS_Interval
<1> QED
  BY <1>1, <1>2, FS_Injection

\* On a ring that is one cycle the longest walk goes all the way round.
LEMMA WalkRound ==
  ASSUME NEW S \in SUBSET Threads,
         NEW nx \in [Threads -> Threads], NEW pv \in [Threads -> Threads],
         Linked(S, nx, pv), Cycle(S, nx), NEW r \in S
  PROVE  /\ Cardinality(S) \in Nat \ {0}
         /\ \E q : /\ Walk(q, Cardinality(S), S, nx, r)
                   /\ nx[q[Cardinality(S)]] = r
                   /\ \A t \in S : \E i \in 1 .. Cardinality(S) : t = q[i]
<1> DEFINE n == Cardinality(S)
           K == {k \in Nat \ {0} : \E q : Walk(q, k, S, nx, r)}
<1>1. IsFiniteSet(S) /\ n \in Nat
  BY FS_Subset, FS_CardinalityType, SchedulerAssumption
<1>2. 1 \in K
  <2>1. Walk([i \in 1 .. 1 |-> r], 1, S, nx, r)
    BY DEF Walk
  <2> QED
    BY <2>1
<1>3. \A k \in K : k <= n
  BY <1>1, WalkBound
<1>4. PICK k \in K : \A j \in K : j <= k
  <2> DEFINE T == {n - j : j \in K}
  <2>1. T \in SUBSET Nat /\ T # {}
    BY <1>1, <1>2, <1>3
  <2>2. PICK x \in T : \A y \in T : x <= y
    BY <2>1, LeastIndex
  <2>3. PICK k \in K : x = n - k
    BY <2>2
  <2>4. \A j \in K : x <= n - j /\ j \in Nat
    BY <2>2
  <2> HIDE DEF K, n
  <2>5. \A j \in K : j <= k
    BY <1>1, <2>3, <2>4
  <2> QED
    BY <2>5
<1>5. PICK q : Walk(q, k, S, nx, r)
  BY <1>4
<1> DEFINE R == {q[i] : i \in 1 .. k}
<1>6. /\ k \in Nat \ {0} /\ q \in [1 .. k -> S] /\ q[k] \in S /\ nx[q[k]] \in S
      /\ R \in SUBSET S /\ r \in R
  BY <1>4, <1>5 DEF Walk, Linked
<1>7. nx[q[k]] \in R
  <2>1. SUFFICES ASSUME nx[q[k]] \notin R
                 PROVE  FALSE
    OBVIOUS
  <2> DEFINE f == [i \in 1 .. k + 1 |-> IF i = k + 1 THEN nx[q[k]] ELSE q[i]]
  <2>2. Walk(f, k + 1, S, nx, r)
    <3>1. f \in [1 .. k + 1 -> S] /\ f[1] = r
      BY <1>5, <1>6 DEF Walk
    <3>2. \A i \in 1 .. k : f[i] = q[i] /\ f[i] \in R
      BY <1>6
    <3>3. f[k + 1] = nx[q[k]]
      BY <1>6
    <3> HIDE DEF f, R
    <3>4. \A i \in 1 .. k : nx[f[i]] = f[i + 1]
      BY <1>5, <1>6, <3>2, <3>3 DEF Walk
    <3>5. \A i, j \in 1 .. k + 1 : f[i] = f[j] => i = j
      BY <1>5, <1>6, <2>1, <3>2, <3>3 DEF Walk
    <3> QED
      BY <1>6, <3>1, <3>4, <3>5 DEF Walk
  <2>3. k + 1 \in K
    BY <1>6, <2>2
  <2> QED
    BY <1>4, <1>6, <2>3
<1>8. R = S
  <2>1. \A u \in R : nx[u] \in R
    <3>1. \A i \in 1 .. k - 1 : nx[q[i]] = q[i + 1] /\ i + 1 \in 1 .. k
      BY <1>5, <1>6 DEF Walk
    <3>2. \A i \in 1 .. k : nx[q[i]] \in R
      BY <1>6, <1>7, <3>1
    <3> QED
      BY <3>2
  <2> QED
    BY <1>6, <2>1 DEF Cycle
<1>9. k = n
  <2>1. q \in Surjection(1 .. k, S)
    BY <1>6, <1>8 DEF Surjection
  <2>2. q \in Injection(1 .. k, S)
    BY <1>5 DEF Walk, Injection, IsInjective
  <2>3. IsFiniteSet(1 .. k) /\ Cardinality(1 .. k) = k
    BY <1>6, FS_Interval
  <2> QED
    BY <2>1, <2>2, <2>3, FS_Surjection
<1>10. nx[q[k]] = r
  <2>1. PICK j \in 1 .. k : nx[q[k]] = q[j]
    BY <1>7
  <2>2. CASE j > 1
    <3>1. j - 1 \in 1 .. k - 1 /\ nx[q[j - 1]] = q[j]
      BY <1>5, <1>6, <2>1, <2>2 DEF Walk
    <3>2. q[j - 1] \in S /\ q[j - 1] = q[k]
      BY <1>6, <2>1, <3>1 DEF Linked
    <3> QED
      BY <1>5, <1>6, <3>1, <3>2 DEF Walk
  <2> QED
    BY <1>5, <2>1, <2>2 DEF Walk
<1>11. \A t \in S : \E i \in 1 .. k : t = q[i]
  BY <1>8
<1> HIDE DEF n, R, K
<1> QED
  BY <1>5, <1>6, <1>9, <1>10, <1>11 DEF n

-----------------------------------------------------------------------------
(* The loop of scheduler_return, with blocking.                            *)

\* The ring from running_thread on: q lists the live threads.
Round(q) ==
    /\ Walk(q, numThreads, live, next, running)
    /\ next[q[numThreads]] = running
    /\ \A t \in live : \E i \in 1 .. numThreads : t = q[i]

LEMMA RoundExists ==
  ASSUME IInv, live # {}
  PROVE  numThreads \in Nat \ {0} /\ running \in live /\ \E q : Round(q)
<1>1. /\ live \in SUBSET Threads /\ next \in [Threads -> Threads] /\ prev \in [Threads -> Threads]
      /\ Linked(live, next, prev) /\ Cycle(live, next) /\ running \in live
      /\ numThreads = Cardinality(live)
  BY DEF IInv, TypeOK, PointersTyped, RingLinked, OneCycle, CountIsLive
<1> QED
  BY <1>1, WalkRound DEF Round

\* The members behind the first have other pids than it.
LEMMA RoundPids ==
  ASSUME IInv, PidsDistinct, live # {}, NEW q, Round(q)
  PROVE  /\ numThreads \in Nat \ {0} /\ q[1] = running /\ running \in live
         /\ \A i \in 1 .. numThreads : q[i] \in live /\ q[i] \in Threads
         /\ \A i \in 1 .. numThreads - 1 : next[q[i]] = q[i + 1]
         /\ \A i \in 2 .. numThreads : pid[q[i]] # pid[running] /\ q[i] # running
<1>1. numThreads \in Nat \ {0} /\ running \in live
  BY RoundExists
<1>2. q \in [1 .. numThreads -> live] /\ q[1] = running
  BY DEF Round, Walk
<1>3. \A i \in 2 .. numThreads : i \in 1 .. numThreads /\ 1 \in 1 .. numThreads /\ i # 1
  BY <1>1
<1>4. \A i \in 2 .. numThreads : q[i] # running
  BY <1>2, <1>3 DEF Round, Walk
<1>5. \A i \in 1 .. numThreads : q[i] \in live /\ q[i] \in Threads
  BY <1>2 DEF IInv, TypeOK, PointersTyped
<1>6. \A i \in 2 .. numThreads : pid[q[i]] # pid[running]
  BY <1>1, <1>3, <1>4, <1>5 DEF PidsDistinct
<1> QED
  BY <1>1, <1>2, <1>4, <1>5, <1>6 DEF Round, Walk

\* The loop gets past blocked threads.
LEMMA LoopPasses ==
  ASSUME IInv, PidsDistinct, live # {}, NEW q, Round(q),
         NEW k \in 2 .. numThreads, \A i \in 2 .. k - 1 : blocked[q[i]]
  PROVE  q[k] \in Visited(running)
<1>0. /\ numThreads \in Nat \ {0} /\ q[1] = running /\ q[k] \in Threads
      /\ \A i \in 1 .. numThreads - 1 : next[q[i]] = q[i + 1]
      /\ \A i \in 2 .. numThreads : pid[q[i]] # pid[running]
  BY RoundPids
<1>1. SUFFICES ASSUME NEW C \in SUBSET Threads,
                      next[running] \in C,
                      \A v \in C : blocked[v] /\ pid[v] # pid[running] => next[v] \in C
               PROVE  q[k] \in C
  BY <1>0, Zenon DEF Visited
<1> DEFINE T == {i \in 2 .. k : q[i] \notin C}
<1>2. SUFFICES T = {}
  BY <1>0
<1>3. SUFFICES ASSUME T # {}
               PROVE  FALSE
  OBVIOUS
<1>4. PICK x \in T : \A y \in T : x <= y
  <2>1. T \in SUBSET Nat
    BY <1>0
  <2> QED
    BY <1>3, <2>1, LeastIndex
<1>5. CASE x = 2
  BY <1>0, <1>1, <1>4, <1>5
<1>6. CASE x # 2
  <2>1. x - 1 \in 2 .. k - 1 /\ x - 1 \notin T
    BY <1>4, <1>6
  <2>2. q[x - 1] \in C /\ blocked[q[x - 1]] /\ pid[q[x - 1]] # pid[running]
    BY <1>0, <2>1
  <2>3. next[q[x - 1]] \in C
    BY <1>1, <2>2, Zenon
  <2> QED
    BY <1>0, <1>4, <2>1, <2>3
<1> QED
  BY <1>5, <1>6

\* The loop ends, and decides whether another thread is ready.
LEMMA LoopDecides ==
  ASSUME IInv, PidsDistinct, live # {}
  PROVE  IF \A t \in live \ {running} : blocked[t]
         THEN NoneToRun(running)
         ELSE ~NoneToRun(running) /\ \E u \in live \ {running} : LoopStopsAt(running, u)
<1>1. PICK q : Round(q)
  BY RoundExists
<1>2. /\ numThreads \in Nat \ {0} /\ q[1] = running /\ running \in live /\ running \in Threads
      /\ \A i \in 1 .. numThreads : q[i] \in live /\ q[i] \in Threads
      /\ \A i \in 1 .. numThreads - 1 : next[q[i]] = q[i + 1]
      /\ \A i \in 2 .. numThreads : pid[q[i]] # pid[running] /\ q[i] # running
  BY <1>1, RoundPids
<1>3. next[q[numThreads]] = running /\ \A t \in live : \E i \in 1 .. numThreads : t = q[i]
  BY <1>1 DEF Round
<1>4. CASE \A t \in live \ {running} : blocked[t]
  <2>1. running \in Visited(running)
    <3>1. CASE numThreads = 1
      <4>1. next[running] = running
        BY <1>2, <1>3, <3>1
      <4> QED
        BY <1>2, <4>1, VisitedFirst
    <3>2. CASE numThreads # 1
      <4>1. numThreads \in 2 .. numThreads /\ \A i \in 2 .. numThreads - 1 : i \in 2 .. numThreads
        BY <1>2, <3>2
      <4>2. \A i \in 2 .. numThreads : blocked[q[i]]
        <5>1. \A i \in 2 .. numThreads : q[i] \in live \ {running}
          BY <1>2
        <5> QED
          BY <1>4, <5>1, Zenon
      <4>3. q[numThreads] \in Visited(running)
        BY <1>1, <1>2, <4>1, <4>2, LoopPasses
      <4>4. blocked[q[numThreads]] /\ pid[q[numThreads]] # pid[running]
        BY <1>2, <4>1, <4>2
      <4> QED
        BY <1>2, <1>3, <4>3, <4>4, Zenon DEF Visited
    <3> QED
      BY <3>1, <3>2
  <2>2. NoneToRun(running)
    BY <2>1 DEF NoneToRun
  <2> QED
    BY <1>4, <2>2, Zenon
<1>5. CASE ~ \A t \in live \ {running} : blocked[t]
  <2> DEFINE T == {i \in 2 .. numThreads : ~blocked[q[i]]}
  <2>1. T \in SUBSET Nat /\ T # {}
    <3>1. PICK t \in live \ {running} : ~blocked[t]
      BY <1>5, Zenon
    <3>2. PICK i \in 1 .. numThreads : t = q[i]
      BY <1>3
    <3>3. i \in 2 .. numThreads
      BY <1>2, <3>1, <3>2
    <3>4. i \in T
      BY <3>1, <3>2, <3>3, Zenon
    <3> QED
      BY <3>4
  <2>2. PICK k \in T : \A y \in T : k <= y
    BY <2>1, LeastIndex
  <2>3. k \in 2 .. numThreads /\ ~blocked[q[k]]
    BY <2>2, Zenon
  <2>4. \A i \in 2 .. k - 1 : blocked[q[i]]
    <3>1. SUFFICES ASSUME NEW i \in 2 .. k - 1
                   PROVE  blocked[q[i]]
      OBVIOUS
    <3>2. i \in 2 .. numThreads /\ i < k
      BY <1>2, <2>3
    <3>3. i \notin T
      <4> HIDE DEF T
      <4> QED
        BY <1>2, <2>2, <2>3, <3>2
    <3> QED
      BY <3>2, <3>3, Zenon
  <2>5. q[k] \in Visited(running)
    BY <1>1, <1>2, <2>3, <2>4, LoopPasses
  <2> DEFINE C == {q[i] : i \in 2 .. k}
  <2>6. Visited(running) \subseteq C
    <3>1. C \in SUBSET Threads
      BY <1>2, <2>3
    <3>2. next[running] \in C
      <4>1. next[running] = q[2] /\ 2 \in 2 .. k
        BY <1>2, <2>3
      <4> QED
        BY <4>1
    <3>3. ASSUME NEW v \in C, blocked[v]
          PROVE  next[v] \in C
      <4>1. PICK i \in 2 .. k : v = q[i]
        OBVIOUS
      <4>2. i # k
        BY <2>3, <3>3, <4>1
      <4>3. next[v] = q[i + 1] /\ i + 1 \in 2 .. k
        BY <1>2, <2>3, <4>1, <4>2
      <4> QED
        BY <4>3
    <3> HIDE DEF C
    <3> QED
      BY <3>1, <3>2, <3>3, Zenon DEF Visited
  <2>7. ~NoneToRun(running)
    <3>1. \A u \in C : pid[u] # pid[running]
      BY <1>2, <2>3
    <3> QED
      BY <2>6, <3>1 DEF NoneToRun
  <2>8. q[k] \in live \ {running} /\ LoopStopsAt(running, q[k])
    <3>1. q[k] \in live \ {running} /\ pid[q[k]] # pid[running]
      BY <1>2, <2>3
    <3> QED
      BY <2>3, <2>5, <3>1, Zenon DEF LoopStopsAt
  <2> QED
    BY <1>5, <2>7, <2>8, Zenon
<1> QED
  BY <1>4, <1>5, Zenon

\* When there is an idle thread it executes and every other thread is blocked.
\* While it runs it stands behind running_thread and its context is not saved
\* anywhere, so that the next reschedule() either finds it alone, or finds the
\* blocked running_thread in front of it and has no context to load.
IdleOK ==
    \A t \in live : pid[t] = IdlePid =>
        /\ cpu = t
        /\ \A u \in live \ {t} : blocked[u]
        /\ live = {t} => mode = "run"
        /\ mode = "run" => next[running] = t /\ ctx[t] = NoCtx /\ ~blocked[t]

BInv == IInv /\ PidsDistinct /\ IdleOK

\* Who calls the scheduler is not the idle thread, so there is none.
LEMMA NoIdleYet ==
  ASSUME BInv, ThreadRuns \/ (mode = "run" /\ cpu = Boot)
  PROVE  \A t \in live : pid[t] # IdlePid
<1>1. mode = "run" /\ live \subseteq Threads /\ (cpu = Boot \/ pid[cpu] # IdlePid)
  BY DEF BInv, IInv, TypeOK, PointersTyped, ThreadRuns
<1>2. \A t \in live : pid[t] = IdlePid => cpu = t
  BY <1>1, Zenon DEF BInv, IdleOK
<1> QED
  BY <1>1, <1>2, SchedulerAssumption

\* Then every step that makes no thread keeps it so.
LEMMA StillNoIdle ==
  ASSUME BInv, \A t \in live : pid[t] # IdlePid,
         live' \subseteq live, pid' = pid, newPid' = newPid
  PROVE  PidsDistinct' /\ IdleOK'
<1>1. PidsDistinct'
  BY DEF BInv, PidsDistinct
<1>2. \A t \in live' : pid'[t] # IdlePid
  OBVIOUS
<1>3. IdleOK'
  BY <1>2, Zenon DEF IdleOK
<1> QED
  BY <1>1, <1>3

LEMMA CreateIdle ==
  ASSUME BInv, NEW t \in Threads, HotCreateAndPushThread(t)
  PROVE  PidsDistinct' /\ IdleOK'
<1>1. \A u \in live : pid[u] # IdlePid
  BY NoIdleYet DEF HotCreateAndPushThread
<1>2. /\ live' = live \cup {t} /\ t \notin live /\ newPid' = newPid + 1
      /\ pid' = [pid EXCEPT ![t] = newPid + 1]
      /\ live \subseteq Threads /\ pid \in [Threads -> Nat] /\ newPid \in Nat
  BY SchedulerAssumption DEF HotCreateAndPushThread, BInv, IInv, TypeOK, PointersTyped
<1>3. PidsDistinct'
  BY <1>2 DEF BInv, PidsDistinct
<1>4. \A u \in live' : pid'[u] # IdlePid
  BY <1>1, <1>2 DEF IdlePid
<1>5. IdleOK'
  BY <1>4, Zenon DEF IdleOK
<1> QED
  BY <1>3, <1>5

\* A timer interrupt in the idle thread does not leave it.
LEMMA TimerIdle ==
  ASSUME BInv, TimerInterrupt
  PROVE  PidsDistinct' /\ IdleOK'
<1>1. /\ mode = "run" /\ Reschedule(TRUE, TRUE)
      /\ UNCHANGED <<live, next, prev, numThreads, pid, blocked, newPid>>
  BY DEF TimerInterrupt, ring, fields
<1>2. CASE \A t \in live : pid[t] # IdlePid
  BY <1>1, <1>2, StillNoIdle
<1>3. ASSUME NEW t \in live, pid[t] = IdlePid
      PROVE  PidsDistinct' /\ IdleOK'
  <2>1. cpu = t /\ next[running] = t /\ ctx[t] = NoCtx /\ ~blocked[t] /\ \A u \in live \ {t} : blocked[u]
    BY <1>1, <1>3, Zenon DEF BInv, IdleOK
  <2>7. \A u \in live : pid[u] = IdlePid => u = t
    BY <1>3 DEF BInv, PidsDistinct
  <2>2. /\ t \in Threads /\ prev[t] \in live /\ prev[t] \in Threads /\ next[prev[t]] = t
        /\ ctx \in [Threads -> Threads \cup {NoCtx}]
    BY DEF BInv, IInv, TypeOK, PointersTyped, RingLinked, Linked
  <2>3. PidsDistinct'
    BY <1>1 DEF BInv, PidsDistinct
  <2>4. CASE RescheduleAlone(t, TRUE)
    <3>1. next[t] = t
      BY <2>2, <2>4 DEF RescheduleAlone, BInv, PidsDistinct
    <3>2. /\ mode' = "run" /\ cpu' = t /\ next'[running'] = t /\ ctx'[t] = NoCtx
          /\ live' = live /\ pid' = pid /\ blocked' = blocked
      BY <1>1, <2>1, <2>4, <3>1 DEF RescheduleAlone
    <3>4. IdleOK'
      BY <2>1, <2>7, <3>2, Zenon DEF IdleOK
    <3> QED
      BY <2>3, <3>4
  <2>5. CASE RescheduleSwitch(t, TRUE)
    <3>1. /\ prev[t] # t
          /\ SwitchThread([ctx EXCEPT ![prev[t]] = cpu], t, TRUE)
      BY <2>5 DEF RescheduleSwitch
    <3>2. [ctx EXCEPT ![prev[t]] = cpu][t] = NoCtx
      BY <2>1, <2>2, <3>1
    <3>3. mode' = "lost" /\ mode' # "run" /\ cpu' = t
      BY <2>1, <3>1, <3>2 DEF SwitchThread
    <3>4. live # {t}
      BY <2>2, <3>1
    <3>5. IdleOK'
      BY <1>1, <2>1, <2>7, <3>3, <3>4, Zenon DEF IdleOK
    <3> QED
      BY <2>3, <3>5
  <2>6. ~RescheduleBlocked(t, TRUE)
    BY <2>1 DEF RescheduleBlocked
  <2> QED
    BY <1>1, <2>1, <2>4, <2>5, <2>6 DEF Reschedule
<1> QED
  BY <1>2, <1>3

\* An idle thread is pushed when every other thread is blocked.
LEMMA ReturnToIdleIdle ==
  ASSUME BInv, SchedulerReturn, ReturnToIdle(running)
  PROVE  PidsDistinct' /\ IdleOK'
<1> DEFINE rest == live \ {running}
<1>1. /\ running \in live /\ running \in Threads /\ live \subseteq Threads
      /\ next[running] \in live /\ next[running] \in Threads
      /\ live # {} /\ mode = "run"
      /\ pid \in [Threads -> Nat] /\ newPid \in Nat /\ numThreads \in Nat
      /\ ctx \in [Threads -> Threads \cup {NoCtx}]
      /\ DiscardNext(running) \in [Threads -> Threads]
      /\ blocked \in [Threads -> BOOLEAN]
  BY DiscardLinked, SchedulerAssumption
     DEF SchedulerReturn, ThreadRuns, BInv, IInv, TypeOK, PointersTyped, FlagsTyped, RingLinked, Linked
<1>2. \A t \in live : pid[t] # IdlePid
  BY NoIdleYet DEF SchedulerReturn
<1>3. \A t \in rest : blocked[t]
  <2>1. NoneToRun(running)
    BY DEF ReturnToIdle
  <2> QED
    BY <1>1, <2>1, LoopDecides, Zenon DEF BInv
<1>4. PICK idle \in Threads \ rest :
        /\ PushThread(idle, DiscardNext(running), DiscardPrev(running), next[running], numThreads - 1)
        /\ live' = rest \cup {idle}
        /\ pid' = [pid EXCEPT ![idle] = IdlePid]
        /\ blocked' = [blocked EXCEPT ![idle] = FALSE]
        /\ ctx' = [ctx EXCEPT ![idle] = NoCtx]
        /\ cpu' = idle
  BY DEF ReturnToIdle
<1>5. newPid' = newPid
  BY DEF SchedulerReturn
<1>6. PidsDistinct'
  BY <1>1, <1>2, <1>4, <1>5 DEF BInv, PidsDistinct, IdlePid
<1>7. next'[running'] = idle
  <2>1. CASE firstThread \/ numThreads - 1 = 0
    BY <1>1, <1>4, <2>1 DEF PushThread
  <2>2. CASE ~(firstThread \/ numThreads - 1 = 0)
    <3>1. rest # {}
      BY <1>1, <2>2, CountRemove DEF BInv, IInv
    <3>2. next[running] \in rest
      <4>1. next[running] = running => {running} = live
        BY <1>1, SelfLoopAlone DEF BInv
      <4> QED
        BY <1>1, <3>1, <4>1
    <3> QED
      BY <1>1, <1>4, <2>2, <3>2 DEF PushThread, InsertNext
  <2> QED
    BY <2>1, <2>2
<1>8. \A t \in live' : pid'[t] = IdlePid => t = idle
  BY <1>1, <1>2, <1>4
<1>9. ctx'[idle] = NoCtx
  BY <1>1, <1>4
<1>10. ~blocked'[idle] /\ \A u \in live' \ {idle} : blocked'[u]
  <2>1. ~blocked'[idle]
    BY <1>1, <1>4, Zenon
  <2>2. \A u \in live' \ {idle} : u \in rest /\ u \in Threads
    BY <1>1, <1>4
  <2>3. \A u \in Threads \ {idle} : blocked'[u] = blocked[u]
    BY <1>1, <1>4, Zenon
  <2> QED
    BY <1>3, <2>1, <2>2, <2>3, Zenon
<1>11. IdleOK'
  <2>1. mode' = "run"
    BY <1>1 DEF ReturnToIdle
  <2> QED
    BY <1>4, <1>7, <1>8, <1>9, <1>10, <2>1, Zenon DEF IdleOK
<1> QED
  BY <1>6, <1>11

LEMMA NextBInv == BInv /\ [Next]_vars => BInv'
<1> SUFFICES ASSUME BInv, [Next]_vars
             PROVE  PidsDistinct' /\ IdleOK'
  BY NextIInv DEF BInv
<1>1. ASSUME NEW t \in Threads, HotCreateAndPushThread(t) PROVE PidsDistinct' /\ IdleOK'
  BY <1>1, CreateIdle
<1>2. CASE BootReschedule
  <2>1. mode = "run" /\ cpu = Boot /\ UNCHANGED <<live, pid, newPid>>
    BY <1>2 DEF BootReschedule, ring, fields
  <2> QED
    BY <2>1, NoIdleYet, StillNoIdle
<1>3. CASE TimerInterrupt
  BY <1>3, TimerIdle
<1>4. CASE YieldThread \/ HotReschedule \/ SleepThread
  <2>1. ThreadRuns /\ UNCHANGED <<live, pid, newPid>>
    BY <1>4 DEF YieldThread, HotReschedule, SleepThread, ring, fields
  <2> QED
    BY <2>1, NoIdleYet, StillNoIdle
<1>5. CASE SchedulerReturn
  <2>1. CASE ReturnToNext(running)
    <3>1. ThreadRuns /\ live' \subseteq live /\ UNCHANGED <<pid, newPid>>
      BY <1>5, <2>1 DEF SchedulerReturn, ReturnToNext, fields
    <3> QED
      BY <3>1, NoIdleYet, StillNoIdle
  <2>2. CASE ReturnToIdle(running)
    BY <1>5, <2>2, ReturnToIdleIdle
  <2> QED
    BY <1>5, <2>1, <2>2 DEF SchedulerReturn
<1>6. ASSUME NEW t \in Threads, BlockThread(t) \/ UnblockThread(t) \/ GetThreadByPid(t)
      PROVE  PidsDistinct' /\ IdleOK'
  <2>1. ThreadRuns /\ UNCHANGED <<live, pid, newPid>>
    BY <1>6 DEF BlockThread, UnblockThread, GetThreadByPid, ring, fields
  <2> QED
    BY <2>1, NoIdleYet, StillNoIdle
<1>7. CASE UNCHANGED vars
  BY <1>7 DEF vars, BInv, PidsDistinct, IdleOK
<1> QED
  BY <1>1, <1>2, <1>3, <1>4, <1>5, <1>6, <1>7, Zenon DEF Next, SwitchNext

\* The loop of scheduler_return, over the ring as every history of creations,
\* exits, blocking and unblocking leaves it, ends at a ready thread if there is
\* one besides the exiting thread and back at that one otherwise; the idle
\* thread is pushed only in the latter case, and keeps the CPU if it is alone.
THEOREM ExitCorrect == Spec => [](ExitFindsReady /\ IdleIsLast)
<1>1. Init => BInv
  BY InitIInv DEF BInv, Init, PidsDistinct, IdleOK
<1>2. BInv => ExitFindsReady
  <2>1. SUFFICES ASSUME BInv, running \in live
                 PROVE  ExitFindsReady
    BY Zenon DEF ExitFindsReady
  <2> QED
    BY <2>1, LoopDecides, Zenon DEF BInv, ExitFindsReady
<1>3. BInv => IdleIsLast
  BY Zenon DEF BInv, IdleOK, IdleIsLast
<1> QED
  BY <1>1, <1>2, <1>3, NextBInv, PTL DEF Spec

-----------------------------------------------------------------------------
(* How running_thread and the CPU part.                                    *)

\* While running_thread executes, reschedule() goes on with it, switches to a
\* thread whose own slot holds its context, or spins.
LEMMA RescheduleConsistent ==
  ASSUME BInv, Consistent, mode = "run", NEW a, NEW b, Reschedule(a, b),
         live' = live
  PROVE  Consistent'
<1> DEFINE n == next[running]
<1>1. /\ first /\ cpu \in Threads /\ cpu = running /\ running \in live /\ running \in Threads
      /\ n \in live /\ n \in Threads /\ prev[n] = running /\ live \subseteq Threads
      /\ ctx \in [Threads -> Threads \cup {NoCtx}]
  BY SchedulerAssumption DEF BInv, IInv, TypeOK, PointersTyped, RingLinked, Linked, Started,
     Reschedule, Consistent, CpuIsRunning
<1>2. \A t \in live \ {cpu} : ctx[t] = t
  BY DEF Consistent, ContextsOwned
<1>3. CASE RescheduleAlone(n, a)
  <2>1. pid[n] = pid[running] /\ running' = n /\ cpu' = cpu /\ ctx' = ctx /\ mode' = mode
    BY <1>1, <1>3 DEF RescheduleAlone
  <2>2. n = running
    BY <1>1, <2>1 DEF BInv, PidsDistinct
  <2> QED
    BY <1>1, <1>2, <2>1, <2>2 DEF Consistent, CpuIsRunning, ContextsOwned
<1>4. CASE RescheduleBlocked(n, a)
  <2>1. blocked[n]
    BY <1>4 DEF RescheduleBlocked
  <2>2. pid[n] # IdlePid
    BY <1>1, <2>1, Zenon DEF BInv, IdleOK
  <2>3. mode' = "hung"
    BY <1>4, <2>2 DEF RescheduleBlocked
  <2> QED
    BY <2>3 DEF Consistent, CpuIsRunning, ContextsOwned
<1>5. CASE RescheduleSwitch(n, b)
  <2> DEFINE saved == [ctx EXCEPT ![prev[n]] = cpu]
  <2>1. pid[n] # pid[running] /\ running' = n /\ SwitchThread(saved, n, b)
    BY <1>1, <1>5 DEF RescheduleSwitch
  <2>2. n # running
    BY <2>1
  <2>3. /\ saved \in [Threads -> Threads \cup {NoCtx}]
        /\ saved[n] = n
        /\ \A t \in live \ {n} : saved[t] = t
    BY <1>1, <1>2, <2>2
  <2> HIDE DEF saved, n
  <2>4. cpu' = n /\ mode' = mode /\ \A t \in Threads \ {n} : ctx'[t] = saved[t]
    BY <1>1, <2>1, <2>3, SwitchThreadLoads DEF BInv, IInv
  <2>5. \A t \in live' \ {cpu'} : ctx'[t] = t
    BY <1>1, <2>3, <2>4
  <2> QED
    BY <2>1, <2>4, <2>5 DEF Consistent, CpuIsRunning, ContextsOwned
<1> QED
  BY <1>3, <1>4, <1>5 DEF Reschedule

\* A creation moves nobody and gives the new thread a context of its own.
LEMMA CreateConsistent ==
  ASSUME BInv, Consistent, NEW t \in Threads, HotCreateAndPushThread(t)
  PROVE  Consistent'
<1>1. /\ t \notin live /\ live' = live \cup {t} /\ ctx' = [ctx EXCEPT ![t] = t]
      /\ cpu' = cpu /\ mode' = mode /\ live \subseteq Threads
      /\ ctx \in [Threads -> Threads \cup {NoCtx}]
  BY DEF HotCreateAndPushThread, BInv, IInv, TypeOK, PointersTyped
<1>2. ASSUME cpu # Boot
      PROVE  running' = running
  <2>1. live # {} /\ ~firstThread
    BY <1>2 DEF HotCreateAndPushThread, ThreadRuns, BInv, IInv, Started
  <2>2. ~(firstThread \/ numThreads = 0)
    BY <1>1, <2>1, CountAdd DEF BInv, IInv
  <2> QED
    BY <2>2 DEF HotCreateAndPushThread, PushThread
<1>3. ContextsOwned'
  BY <1>1 DEF Consistent, ContextsOwned
<1> QED
  BY <1>1, <1>2, <1>3 DEF Consistent, CpuIsRunning

\* The first reschedule() enters running_thread.
LEMMA BootConsistent ==
  ASSUME BInv, Consistent, BootReschedule
  PROVE  Consistent'
<1>1. UNCHANGED <<live, running>> /\ mode = "run" /\ cpu = Boot
  BY DEF BootReschedule, RescheduleFirst, ring
<1>2. CASE running = NoThread
  <2>1. mode' = "halted"
    BY <1>2 DEF BootReschedule, RescheduleFirst
  <2> QED
    BY <2>1 DEF Consistent, CpuIsRunning, ContextsOwned
<1>3. CASE running # NoThread
  <2>1. /\ running \in live /\ running \in Threads
        /\ live \subseteq Threads /\ ctx \in [Threads -> Threads \cup {NoCtx}]
    BY <1>3 DEF BInv, IInv, Started, RingLinked, TypeOK, PointersTyped
  <2>2. \A t \in live : ctx[t] = t
    BY <1>1, <2>1, SchedulerAssumption DEF Consistent, ContextsOwned
  <2>3. SwitchThread(ctx, running, TRUE)
    BY <1>3 DEF BootReschedule, RescheduleFirst
  <2>4. cpu' = running /\ mode' = mode /\ \A t \in Threads \ {running} : ctx'[t] = ctx[t]
    BY <2>1, <2>2, <2>3, SwitchThreadLoads DEF BInv, IInv
  <2> QED
    BY <1>1, <2>1, <2>2, <2>4 DEF Consistent, CpuIsRunning, ContextsOwned
<1> QED
  BY <1>2, <1>3

\* An exit whose successor is not blocked resumes that one, and running_thread is
\* it; without another thread both are the idle thread.
LEMMA ReturnConsistent ==
  ASSUME BInv, Consistent, SchedulerReturn, ~blocked[next[running]]
  PROVE  Consistent'
<1>1. /\ mode = "run" /\ cpu = running /\ cpu \in live
      /\ next[cpu] \in live /\ next[cpu] \in Threads /\ ~blocked[next[cpu]]
      /\ live \subseteq Threads /\ ctx \in [Threads -> Threads \cup {NoCtx}]
  BY SchedulerAssumption DEF SchedulerReturn, ThreadRuns, BInv, IInv, TypeOK, PointersTyped,
     RingLinked, Linked, Consistent, CpuIsRunning
<1>2. \A t \in live \ {cpu} : ctx[t] = t
  BY <1>1 DEF Consistent, ContextsOwned
<1>3. CASE ReturnToNext(cpu)
  <2> DEFINE n == next[cpu]
  <2>1. n # cpu /\ running' = n /\ live' = live \ {cpu}
    BY <1>1, <1>3, VisitedFirst DEF ReturnToNext, NoneToRun
  <2>2. SwitchThread(ctx, n, TRUE)
    <3>1. PICK u \in live : LoopStopsAt(cpu, u) /\ SwitchThread(ctx, u, TRUE)
      BY <1>3 DEF ReturnToNext
    <3>2. u = n
      BY <1>1, <3>1, VisitedFirst DEF LoopStopsAt
    <3> QED
      BY <3>1, <3>2
  <2>3. n \in Threads /\ ctx[n] = n
    BY <1>1, <1>2, <2>1
  <2>4. cpu' = n /\ mode' = mode /\ \A t \in Threads \ {n} : ctx'[t] = ctx[t]
    <3> HIDE DEF n
    <3> QED
      BY <1>1, <2>2, <2>3, SwitchThreadLoads DEF BInv, IInv
  <2> QED
    BY <1>1, <1>2, <2>1, <2>4 DEF Consistent, CpuIsRunning, ContextsOwned
<1>4. CASE ReturnToIdle(cpu)
  <2>1. live = {cpu}
    <3>1. pid[next[cpu]] = pid[cpu]
      BY <1>1, <1>4, VisitedFirst DEF ReturnToIdle, NoneToRun
    <3>2. next[cpu] = cpu
      BY <1>1, <3>1 DEF BInv, PidsDistinct
    <3> QED
      BY <1>1, <3>2, SelfLoopAlone DEF BInv
  <2>2. PICK idle \in Threads : live' = {idle} /\ cpu' = idle /\ mode' = mode
    BY <1>4, <2>1 DEF ReturnToIdle
  <2>3. running' = idle
    <3>1. IInv'
      BY <1>1, <1>4, ReturnToIdleIInv DEF BInv
    <3> QED
      BY <2>2, <3>1 DEF IInv, RingLinked
  <2> QED
    BY <1>1, <2>2, <2>3 DEF Consistent, CpuIsRunning, ContextsOwned
<1> QED
  BY <1>1, <1>3, <1>4 DEF SchedulerReturn

LEMMA NextConsistent ==
  BInv /\ Consistent /\ [Next]_vars => Consistent' \/ (SchedulerReturn /\ blocked[next[running]])
<1> SUFFICES ASSUME BInv, Consistent, [Next]_vars
             PROVE  Consistent' \/ (SchedulerReturn /\ blocked[next[running]])
  OBVIOUS
<1>1. ASSUME NEW t \in Threads, HotCreateAndPushThread(t) PROVE Consistent'
  BY <1>1, CreateConsistent
<1>2. CASE BootReschedule
  BY <1>2, BootConsistent
<1>3. CASE TimerInterrupt \/ YieldThread \/ HotReschedule
  <2>1. mode = "run" /\ (\E a, b : Reschedule(a, b)) /\ live' = live
    BY <1>3 DEF TimerInterrupt, YieldThread, HotReschedule, ThreadRuns, ring
  <2> QED
    BY <2>1, RescheduleConsistent
<1>4. CASE SchedulerReturn
  BY <1>4, ReturnConsistent
<1>5. ASSUME NEW t \in Threads, BlockThread(t) PROVE Consistent'
  <2>1. mode = "run" /\ live' = live
    BY <1>5 DEF BlockThread, ThreadRuns, ring
  <2>2. CASE UNCHANGED <<ctx, running, cpu, mode>>
    BY <2>1, <2>2 DEF Consistent, CpuIsRunning, ContextsOwned
  <2>3. CASE Reschedule(FALSE, FALSE)
    BY <2>1, <2>3, RescheduleConsistent
  <2> QED
    BY <1>5, <2>2, <2>3 DEF BlockThread
<1>6. CASE \/ \E t \in Threads : UnblockThread(t) \/ GetThreadByPid(t)
           \/ SleepThread
           \/ UNCHANGED vars
  <2>1. UNCHANGED <<live, ctx, running, cpu, mode>>
    BY <1>6 DEF UnblockThread, GetThreadByPid, SleepThread, ring, vars
  <2> QED
    BY <2>1 DEF Consistent, CpuIsRunning, ContextsOwned
<1> QED
  BY <1>1, <1>2, <1>3, <1>4, <1>5, <1>6, Zenon DEF Next, SwitchNext

\* For any number of threads and any history, blocking and unblocking included,
\* the only step after which running_thread is not the thread that executes, or a
\* context is not in its own slot, is an exit whose successor is blocked.
THEOREM DriftCorrect == Spec => DriftsOnlyByExit
<1>1. Init => BInv
  BY InitIInv DEF BInv, Init, PidsDistinct, IdleOK
<1>2. BInv /\ [Next]_vars
        => [Consistent /\ ~Consistent' => SchedulerReturn /\ blocked[next[running]]]_vars
  BY NextConsistent, Zenon
<1> QED
  BY <1>1, <1>2, NextBInv, PTL DEF Spec, DriftsOnlyByExit

-----------------------------------------------------------------------------
(* The ring is a round-robin queue.                                        *)

\* A function on 1 .. n is a sequence of length n.
LEMMA FunctionIsSeq ==
  ASSUME NEW S, NEW n \in Nat, NEW f \in [1 .. n -> S]
  PROVE  f \in Seq(S) /\ Len(f) = n /\ DOMAIN f = 1 .. n
<1>1. f \in Seq(S)
  BY SeqDef
<1> QED
  BY <1>1, LenProperties

\* The queues RunQueue makes of a queue q, and their members: what Leave leaves
\* of it, what Rotate makes of it, and what Arrive does.
Rest(q)      == Tail(q)
Turned(q)    == Append(Tail(q), Head(q))
Joined(q, t) == <<Head(q), t>> \o Tail(q)

LEMMA HeadShape ==
  ASSUME NEW S, NEW n \in Nat \ {0}, NEW q \in [1 .. n -> S]
  PROVE  q \in Seq(S) /\ q # <<>> /\ Len(q) = n /\ Head(q) = q[1] /\ q[1] \in S
<1>1. q \in Seq(S) /\ Len(q) = n /\ q # <<>> /\ q[1] \in S
  BY FunctionIsSeq, EmptySeq
<1>2. Head(q) = q[1]
  BY <1>1
<1> QED
  BY <1>1, <1>2

RestIs(w, q, n, S) ==
    /\ w \in Seq(S) /\ Len(w) = n - 1
    /\ w \in [1 .. n - 1 -> S]
    /\ \A i \in 1 .. n - 1 : w[i] = q[i + 1]

LEMMA RestShape ==
  ASSUME NEW S, NEW n, NEW q, n \in Nat \ {0}, q \in [1 .. n -> S]
  PROVE  RestIs(Rest(q), q, n, S)
<1>1. q \in Seq(S) /\ Len(q) = n /\ q # <<>>
  BY HeadShape
<1>2. /\ Rest(q) \in Seq(S) /\ Len(Rest(q)) = n - 1
      /\ \A i \in 1 .. n - 1 : Rest(q)[i] = q[i + 1]
  BY <1>1, HeadTailProperties DEF Rest
<1>3. Rest(q) \in [1 .. n - 1 -> S]
  BY <1>2, LenProperties
<1> QED
  BY <1>2, <1>3 DEF RestIs

LEMMA RotateShape ==
  ASSUME NEW S, NEW n \in Nat \ {0}, NEW q \in [1 .. n -> S]
  PROVE  /\ Turned(q) \in [1 .. n -> S]
         /\ \A i \in 1 .. n - 1 : Turned(q)[i] = q[i + 1]
         /\ Turned(q)[n] = q[1]
<1> DEFINE f == Turned(q)
<1>1. PICK h : h = Head(q)
  OBVIOUS
<1>2. PICK w : w = Rest(q)
  OBVIOUS
<1>3. /\ h = q[1] /\ h \in S /\ w \in Seq(S) /\ Len(w) = n - 1
      /\ \A i \in 1 .. n - 1 : w[i] = q[i + 1]
  <2>1. h = q[1] /\ h \in S
    BY <1>1, HeadShape
  <2>2. RestIs(w, q, n, S)
    BY <1>2, RestShape, Zenon
  <2> QED
    BY <2>1, <2>2 DEF RestIs
<1>4. f = Append(w, h)
  BY <1>1, <1>2 DEF Turned, Rest
<1> HIDE DEF f
<1>5. /\ f \in Seq(S) /\ Len(f) = n
      /\ \A i \in 1 .. n - 1 : f[i] = w[i]
      /\ f[n] = h
  BY <1>3, <1>4, AppendProperties
<1>6. f \in [1 .. n -> S]
  BY <1>5, LenProperties
<1> QED
  BY <1>3, <1>5, <1>6 DEF f

LEMMA InsertShape ==
  ASSUME NEW S, NEW n \in Nat \ {0}, NEW q \in [1 .. n -> S], NEW t
  PROVE  /\ Joined(q, t) \in [1 .. n + 1 -> S \cup {t}]
         /\ Joined(q, t)[1] = q[1] /\ Joined(q, t)[2] = t
         /\ \A i \in 3 .. n + 1 : Joined(q, t)[i] = q[i - 1]
<1> DEFINE g == Joined(q, t)
<1>1. PICK h : h = Head(q)
  OBVIOUS
<1>2. PICK w : w = Rest(q)
  OBVIOUS
<1>3. /\ h = q[1] /\ h \in S /\ w \in Seq(S) /\ Len(w) = n - 1
      /\ \A i \in 1 .. n - 1 : w[i] = q[i + 1]
  <2>1. h = q[1] /\ h \in S
    BY <1>1, HeadShape
  <2>2. RestIs(w, q, n, S)
    BY <1>2, RestShape, Zenon
  <2> QED
    BY <2>1, <2>2 DEF RestIs
<1>4. PICK v : v = <<h, t>>
  OBVIOUS
<1>5. v \in Seq(S \cup {t}) /\ Len(v) = 2 /\ v[1] = h /\ v[2] = t
  BY <1>3, <1>4
<1>6. w \in Seq(S \cup {t})
  BY <1>3, SeqMonotonic
<1>7. g = v \o w
  BY <1>1, <1>2, <1>4 DEF Joined, Rest
<1> HIDE DEF g
<1>8. /\ g \in Seq(S \cup {t}) /\ Len(g) = n + 1
      /\ \A i \in 1 .. n + 1 : g[i] = IF i <= 2 THEN v[i] ELSE w[i - 2]
  <2>1. PICK U : U = S \cup {t}
    OBVIOUS
  <2>2. v \in Seq(U) /\ w \in Seq(U)
    BY <1>5, <1>6, <2>1
  <2>3. /\ v \o w \in Seq(U) /\ Len(v \o w) = Len(v) + Len(w)
        /\ \A i \in 1 .. Len(v) + Len(w) :
              (v \o w)[i] = IF i <= Len(v) THEN v[i] ELSE w[i - Len(v)]
    BY <2>2, ConcatProperties
  <2> QED
    BY <1>3, <1>5, <1>7, <2>1, <2>3
<1>9. g \in [1 .. n + 1 -> S \cup {t}]
  BY <1>8, LenProperties
<1>10. g[1] = h /\ g[2] = t
  BY <1>5, <1>8
<1>11. ASSUME NEW i \in 3 .. n + 1
       PROVE  g[i] = q[i - 1]
  <2>1. g[i] = w[i - 2] /\ i - 2 \in 1 .. n - 1
    BY <1>8, <1>11
  <2>2. w[i - 2] = q[(i - 2) + 1] /\ (i - 2) + 1 = i - 1
    BY <1>3, <2>1
  <2> QED
    BY <2>1, <2>2
<1> QED
  BY <1>3, <1>9, <1>10, <1>11 DEF g

\* The order of a ring is unique, so that QueueOf is any order one can show.
LEMMA OrderUnique ==
  ASSUME NEW n \in Nat, NEW S, NEW nx, NEW r, NEW q, RingOrder(q, n, S, nx, r)
  PROVE  QueueOf(n, S, nx, r) = q
<1> DEFINE p == QueueOf(n, S, nx, r)
<1>1. RingOrder(p, n, S, nx, r)
  <2>1. q \in [1 .. n -> S]
    BY DEF RingOrder
  <2> QED
    BY <2>1 DEF QueueOf
<1> HIDE DEF p
<1>2. /\ p \in [1 .. n -> S] /\ q \in [1 .. n -> S]
      /\ n > 0 => p[1] = q[1]
      /\ \A i \in 1 .. n - 1 : nx[p[i]] = p[i + 1] /\ nx[q[i]] = q[i + 1]
  BY <1>1 DEF RingOrder
<1> DEFINE T == {i \in 1 .. n : p[i] # q[i]}
<1>3. T = {}
  <2>1. SUFFICES ASSUME T # {}
                 PROVE  FALSE
    OBVIOUS
  <2>2. T \in SUBSET Nat
    OBVIOUS
  <2>3. PICK x \in T : \A y \in T : x <= y
    BY <2>1, <2>2, LeastIndex
  <2>4. x # 1
    BY <1>2, <2>3
  <2>5. x - 1 \in 1 .. n - 1 /\ x - 1 \notin T
    BY <2>3, <2>4
  <2>6. p[x - 1] = q[x - 1]
    BY <2>5
  <2> QED
    BY <1>2, <2>3, <2>5, <2>6
<1>4. \A i \in 1 .. n : p[i] = q[i]
  BY <1>3
<1>5. p = q
  BY <1>2, <1>4
<1> QED
  BY <1>5 DEF p

\* A ring that has been walked round, in order.
LEMMA WalkOrder ==
  ASSUME NEW n \in Nat \ {0}, NEW S, NEW nx, NEW r, NEW q,
         Walk(q, n, S, nx, r), nx[q[n]] = r
  PROVE  RingOrder(q, n, S, nx, r)
BY DEF Walk, RingOrder

\* A ring of one thread, and none.
LEMMA OneOrder ==
  ASSUME NEW t, NEW nx, nx[t] = t
  PROVE  RingOrder(<<t>>, 1, {t}, nx, t)
<1>1. <<t>> \in [1 .. 1 -> {t}] /\ <<t>>[1] = t
  OBVIOUS
<1> QED
  BY <1>1 DEF RingOrder

LEMMA NoOrder ==
  ASSUME NEW nx, NEW r
  PROVE  RingOrder(<<>>, 0, {}, nx, r)
<1>1. <<>> \in [1 .. 0 -> {}]
  OBVIOUS
<1> QED
  BY <1>1 DEF RingOrder

\* reschedule() moves running_thread on: the ring from there on, in order.
LEMMA RotateOrder ==
  ASSUME NEW n \in Nat \ {0}, NEW S, NEW nx, NEW r, NEW q, RingOrder(q, n, S, nx, r)
  PROVE  RingOrder(Turned(q), n, S, nx, nx[r]) /\ Turned(q)[1] = nx[r]
<1> DEFINE f == Turned(q)
<1>1. /\ q \in [1 .. n -> S] /\ q[1] = r /\ nx[q[n]] = q[1]
      /\ \A i \in 1 .. n - 1 : nx[q[i]] = q[i + 1]
  BY DEF RingOrder
<1>0. f \in [1 .. n -> S] /\ f[n] = q[1] /\ \A i \in 1 .. n - 1 : f[i] = q[i + 1]
  <2>1. q \in [1 .. n -> S]
    BY <1>1
  <2> HIDE DEF f
  <2>2. /\ Turned(q) \in [1 .. n -> S]
        /\ \A i \in 1 .. n - 1 : Turned(q)[i] = q[i + 1]
        /\ Turned(q)[n] = q[1]
    BY <2>1, RotateShape
  <2> QED
    BY <2>2, Zenon DEF f
<1> HIDE DEF f
<1>2. f[1] = nx[r]
  BY <1>0, <1>1
<1>3. ASSUME NEW i \in 1 .. n
      PROVE  nx[f[i]] = f[IF i = n THEN 1 ELSE i + 1]
  <2>1. CASE i = n
    BY <1>0, <1>1, <1>2, <2>1
  <2>2. CASE i = n - 1
    BY <1>0, <1>1, <1>3, <2>2
  <2>3. CASE i < n - 1
    <3>1. i \in 1 .. n - 1 /\ i + 1 \in 1 .. n - 1 /\ i # n
      BY <1>3, <2>3
    <3>2. f[i] = q[i + 1] /\ f[i + 1] = q[(i + 1) + 1] /\ nx[q[i + 1]] = q[(i + 1) + 1]
      BY <1>0, <1>1, <3>1
    <3> QED
      BY <3>1, <3>2
  <2> QED
    BY <1>3, <2>1, <2>2, <2>3
<1> QED
  BY <1>0, <1>2, <1>3 DEF RingOrder, f

\* insert_thread puts the new thread right behind running_thread.
LEMMA InsertOrder ==
  ASSUME NEW n \in Nat \ {0}, NEW S \in SUBSET Threads, NEW nx \in [Threads -> Threads],
         NEW r, NEW q, RingOrder(q, n, S, nx, r),
         \A i \in 2 .. n : q[i] # r, NEW t \in Threads \ S
  PROVE  RingOrder(Joined(q, t), n + 1, S \cup {t}, InsertNext(nx, r, t, nx[r]), r)
<1> DEFINE nn == InsertNext(nx, r, t, nx[r])
<1> DEFINE g == Joined(q, t)
<1>1. /\ q \in [1 .. n -> S] /\ q[1] = r /\ nx[q[n]] = q[1] /\ r \in S /\ t # r
      /\ \A i \in 1 .. n - 1 : nx[q[i]] = q[i + 1]
  BY DEF RingOrder
<1>2. /\ nn[r] = t /\ nn[t] = nx[r]
      /\ \A u \in S \ {r} : nn[u] = nx[u]
  BY <1>1 DEF InsertNext
<1>0. /\ g \in [1 .. n + 1 -> S \cup {t}] /\ g[1] = q[1] /\ g[2] = t
      /\ \A i \in 3 .. n + 1 : g[i] = q[i - 1]
  BY <1>1, InsertShape
<1> HIDE DEF nn, g
<1>3. ASSUME NEW i \in 1 .. n + 1
      PROVE  nn[g[i]] = g[IF i = n + 1 THEN 1 ELSE i + 1]
  <2>1. CASE i = 1
    BY <1>0, <1>1, <1>2, <2>1
  <2>2. CASE i = 2
    <3>1. nn[g[2]] = nx[q[1]]
      BY <1>0, <1>1, <1>2
    <3>2. CASE n = 1
      BY <1>0, <1>1, <2>2, <3>1, <3>2
    <3>3. CASE n > 1
      <4>1. nx[q[1]] = q[2] /\ g[3] = q[2] /\ i # n + 1
        BY <1>0, <1>1, <2>2, <3>3
      <4> QED
        BY <2>2, <3>1, <4>1
    <3> QED
      BY <3>2, <3>3
  <2>3. CASE i > 2
    <3>1. i - 1 \in 2 .. n /\ g[i] = q[i - 1]
      BY <1>0, <1>3, <2>3
    <3>2. q[i - 1] \in S \ {r}
      BY <1>0, <1>1, <3>1
    <3>3. nn[g[i]] = nx[q[i - 1]]
      BY <1>0, <1>2, <3>1, <3>2
    <3>4. CASE i = n + 1
      BY <1>0, <1>1, <3>3, <3>4
    <3>5. CASE i # n + 1
      <4>1. i - 1 \in 1 .. n - 1 /\ (i - 1) + 1 = i /\ i + 1 \in 3 .. n + 1 /\ (i + 1) - 1 = i
        BY <1>0, <1>3, <2>3, <3>5
      <4>2. nx[q[i - 1]] = q[i] /\ g[i + 1] = q[i]
        BY <1>0, <1>1, <4>1
      <4> QED
        BY <3>3, <3>5, <4>2
    <3> QED
      BY <3>4, <3>5
  <2> QED
    BY <1>0, <1>3, <2>1, <2>2, <2>3
<1> QED
  BY <1>0, <1>1, <1>3 DEF RingOrder, nn, g

\* discard_thread takes running_thread out, and its successor follows it.
LEMMA DiscardOrder ==
  ASSUME PointersTyped, Linked(live, next, prev),
         NEW n \in Nat, n > 1, NEW q, RingOrder(q, n, live, next, running),
         \A i \in 2 .. n : q[i] # running
  PROVE  /\ RingOrder(Rest(q), n - 1, live \ {running}, DiscardNext(running), next[running])
         /\ Rest(q)[1] = next[running]
<1> DEFINE nn == DiscardNext(running)
<1> DEFINE w == Rest(q)
<1>1. /\ q \in [1 .. n -> live] /\ q[1] = running /\ next[q[n]] = q[1]
      /\ \A i \in 1 .. n - 1 : next[q[i]] = q[i + 1]
  BY DEF RingOrder
<1>2. /\ running \in live
      /\ \A u \in live : nn[u] = IF u = prev[running] THEN next[running] ELSE next[u]
  BY <1>1 DEF DiscardNext, PointersTyped
<1>3. \A u \in live : u = prev[running] <=> next[u] = running
  BY <1>2 DEF Linked
<1>0. w \in [1 .. n - 1 -> live] /\ \A i \in 1 .. n - 1 : w[i] = q[i + 1]
  <2>1. n \in Nat \ {0} /\ q \in [1 .. n -> live]
    BY <1>1
  <2>2. RestIs(w, q, n, live)
    BY <2>1, RestShape, Zenon
  <2> HIDE DEF w
  <2> QED
    BY <2>2 DEF RestIs
<1> HIDE DEF nn, w
<1>4. w \in [1 .. n - 1 -> live \ {running}]
  <2>1. \A i \in 1 .. n - 1 : w[i] \in live \ {running}
    BY <1>0, <1>1
  <2> QED
    BY <1>0, <2>1
<1>5. w[1] = next[running]
  BY <1>0, <1>1
<1>6. ASSUME NEW i \in 1 .. n - 1
      PROVE  nn[w[i]] = w[IF i = n - 1 THEN 1 ELSE i + 1]
  <2>1. CASE i = n - 1
    <3>1. w[i] = q[n] /\ q[n] \in live
      BY <1>0, <1>1, <1>6, <2>1
    <3>2. nn[q[n]] = next[running]
      BY <1>0, <1>1, <1>2, <1>3, <3>1
    <3> QED
      BY <1>0, <1>5, <2>1, <3>1, <3>2
  <2>2. CASE i < n - 1
    <3>1. i + 1 \in 1 .. n - 1 /\ (i + 1) + 1 \in 2 .. n /\ i # n - 1
      BY <1>0, <1>6, <2>2
    <3>2. w[i] = q[i + 1] /\ w[i + 1] = q[(i + 1) + 1] /\ next[q[i + 1]] = q[(i + 1) + 1]
      BY <1>0, <1>1, <1>6, <3>1
    <3>3. q[(i + 1) + 1] # running /\ q[i + 1] \in live
      BY <1>0, <1>1, <3>1
    <3> QED
      BY <1>0, <1>2, <1>3, <3>1, <3>2, <3>3
  <2> QED
    BY <1>0, <1>6, <2>1, <2>2
<1> QED
  BY <1>0, <1>4, <1>5, <1>6 DEF RingOrder, nn, w

\* On the threads the kernel has, RingAsQueue is the round from running_thread.
LEMMA QueueIsRound ==
  ASSUME IInv, live # {}
  PROVE  /\ numThreads \in Nat \ {0} /\ running \in live
         /\ \E q : /\ RingOrder(q, numThreads, live, next, running)
                   /\ q \in [1 .. numThreads -> live] /\ q[1] = running
                   /\ \A i \in 2 .. numThreads : q[i] # running
                   /\ RingAsQueue = q
<1>1. numThreads \in Nat \ {0} /\ running \in live /\ \E q : Round(q)
  BY RoundExists
<1>2. PICK q : Round(q)
  BY <1>1
<1>3. /\ Walk(q, numThreads, live, next, running)
      /\ next[q[numThreads]] = running
  BY <1>2 DEF Round
<1>4. RingOrder(q, numThreads, live, next, running)
  BY <1>1, <1>3, WalkOrder
<1>5. q \in [1 .. numThreads -> live] /\ q[1] = running /\ \A i \in 2 .. numThreads : q[i] # running
  BY <1>1, <1>3 DEF Walk
<1>6. RingAsQueue = q
  BY <1>1, <1>4, OrderUnique DEF RingAsQueue
<1> QED
  BY <1>1, <1>4, <1>5, <1>6

\* ... and empty before the first of them.
LEMMA QueueIsEmpty ==
  ASSUME numThreads = 0, live = {}
  PROVE  RingAsQueue = <<>>
<1>1. RingOrder(<<>>, 0, {}, next, running)
  BY NoOrder
<1>2. QueueOf(0, {}, next, running) = <<>>
  BY <1>1, OrderUnique
<1> QED
  BY <1>2 DEF RingAsQueue

\* The boot state is the empty queue.
LEMMA InitMaps == Init => Queue!QInit
<1> SUFFICES ASSUME Init PROVE Queue!QInit
  OBVIOUS
<1>1. RingAsQueue = <<>> /\ cpu = Boot
  BY QueueIsEmpty DEF Init
<1> QED
  BY <1>1 DEF Queue!QInit

\* A reschedule that returns or switches, from the timer or from a thread, sends
\* the head to the back and runs the next.
LEMMA RescheduleMaps ==
  ASSUME SInv, mode = "run", NEW a, NEW b, Reschedule(a, b),
         UNCHANGED <<ring, fields, firstThread, newPid>>
  PROVE  Queue!Rotate
<1>1. /\ first /\ cpu = running /\ running \in live /\ live \subseteq Threads
      /\ ~blocked[next[running]]
  BY DEF SInv, IInv, TypeOK, PointersTyped, RingLinked, Linked, Started, OnCpu, Reschedule, NoneBlocked
<1>2. /\ running' = next[running] /\ cpu' = running'
      /\ live' = live /\ next' = next /\ numThreads' = numThreads
  <2>1. cpu' = running'
    BY RescheduleSInv
  <2>2. running' = next[running]
    BY <1>1 DEF Reschedule, RescheduleAlone, RescheduleBlocked, RescheduleSwitch
  <2> QED
    BY <2>1, <2>2 DEF ring
<1>3. PICK n : n = numThreads
  OBVIOUS
<1>4. PICK q : /\ n \in Nat \ {0} /\ RingOrder(q, n, live, next, running)
               /\ q \in [1 .. n -> live] /\ q[1] = running /\ RingAsQueue = q
  BY <1>1, <1>3, QueueIsRound DEF SInv
<1>5. RingOrder(Turned(q), n, live, next, next[running]) /\ Turned(q)[1] = next[running]
  BY <1>4, RotateOrder
<1>6. RingAsQueue' = Turned(q)
  <2>1. RingAsQueue' = QueueOf(n, live, next, next[running])
    BY <1>2, <1>3, Zenon DEF RingAsQueue
  <2>2. n \in Nat
    BY <1>4
  <2> QED
    BY <1>5, <2>1, <2>2, OrderUnique, Zenon
<1>7. Head(Turned(q)) = Turned(q)[1]
  <2>1. Turned(q) \in [1 .. n -> live]
    BY <1>5 DEF RingOrder
  <2> QED
    BY <1>4, <2>1, HeadShape
<1>10. cpu # Boot /\ cpu # NoThread /\ cpu' # Boot
  <2>1. next[running] \in live
    BY <1>1 DEF SInv, IInv, RingLinked, Linked
  <2> QED
    BY <1>1, <1>2, <2>1, SchedulerAssumption
<1> QED
  BY <1>2, <1>4, <1>5, <1>6, <1>7, <1>10, Zenon DEF Queue!Rotate, Turned

\* A new thread is the queue, or runs next.
LEMMA CreateMaps ==
  ASSUME SInv, NEW t \in Threads, HotCreateAndPushThread(t)
  PROVE  Queue!Arrive(t)
<1>1. /\ t \notin live /\ live' = live \cup {t} /\ numThreads' = numThreads + 1 /\ cpu' = cpu
      /\ PushThread(t, next, prev, running, numThreads)
      /\ live \in SUBSET Threads /\ next \in [Threads -> Threads]
  BY DEF HotCreateAndPushThread, SInv, IInv, TypeOK, PointersTyped
<1>2. (firstThread \/ numThreads = 0) <=> live = {}
  <2>1. firstThread <=> live = {}
    BY DEF SInv, IInv, Started
  <2>2. numThreads = 0 <=> live = {}
    BY <1>1, CountAdd DEF SInv, IInv
  <2> QED
    BY <2>1, <2>2, Zenon
<1>3. CASE live = {}
  <2>1. numThreads = 0
    BY <1>3, FS_EmptySet DEF SInv, IInv, CountIsLive
  <2>2. RingAsQueue = <<>>
    BY <1>3, <2>1, QueueIsEmpty
  <2>3. running' = t /\ next' = [next EXCEPT ![t] = t]
    BY <1>1, <1>2, <1>3 DEF PushThread
  <2>4. RingAsQueue' = QueueOf(1, {t}, next', t)
    BY <1>1, <1>3, <2>1, <2>3 DEF RingAsQueue
  <2>5. next'[t] = t
    BY <1>1, <2>3
  <2>6. PICK nn : nn = next'
    OBVIOUS
  <2>7. RingOrder(<<t>>, 1, {t}, nn, t)
    BY <2>5, <2>6, OneOrder
  <2>8. RingAsQueue' = <<t>>
    BY <2>4, <2>6, <2>7, OrderUnique
  <2>9. \A i \in 1 .. Len(<<>>) : <<>>[i] # t
    OBVIOUS
  <2> QED
    BY <1>1, <2>2, <2>8, <2>9, Zenon DEF Queue!Arrive
<1>4. CASE live # {}
  <2>1. PICK n : n = numThreads
    OBVIOUS
  <2>2. PICK q : /\ n \in Nat \ {0} /\ RingOrder(q, n, live, next, running)
                 /\ q \in [1 .. n -> live] /\ q[1] = running /\ RingAsQueue = q
                 /\ \A i \in 2 .. n : q[i] # running
    BY <1>4, <2>1, QueueIsRound DEF SInv
  <2>3. running' = running /\ next' = InsertNext(next, running, t, next[running])
    BY <1>1, <1>2, <1>4 DEF PushThread
  <2>4. RingOrder(Joined(q, t), n + 1, live \cup {t},
                  InsertNext(next, running, t, next[running]), running)
    BY <1>1, <2>2, InsertOrder
  <2>5. RingAsQueue' = QueueOf(n + 1, live \cup {t},
                               InsertNext(next, running, t, next[running]), running)
    BY <1>1, <2>1, <2>3, Zenon DEF RingAsQueue
  <2>6. n + 1 \in Nat
    BY <2>2
  <2>7. RingAsQueue' = Joined(q, t)
    BY <2>4, <2>5, <2>6, OrderUnique, Zenon
  <2>8. q # <<>> /\ Len(q) = n
    BY <2>2, HeadShape
  <2>9. \A i \in 1 .. n : q[i] # t
    BY <1>1, <2>2
  <2> QED
    BY <1>1, <2>2, <2>7, <2>8, <2>9, Zenon DEF Queue!Arrive, Joined
<1> QED
  BY <1>3, <1>4

\* The first reschedule() starts the head of the queue; with an empty queue the
\* CPU halts and the queue stays as it is.
LEMMA BootMaps ==
  ASSUME SInv, BootReschedule
  PROVE  Queue!Begin \/ UNCHANGED Queue!qvars
<1>1. /\ cpu = Boot /\ running' = running /\ live' = live /\ next' = next
      /\ numThreads' = numThreads
  BY DEF BootReschedule, RescheduleFirst, ring
<1>2. RingAsQueue' = RingAsQueue
  BY <1>1, Zenon DEF RingAsQueue
<1>3. CASE running = NoThread
  <2>1. cpu' = cpu
    BY <1>3 DEF BootReschedule, RescheduleFirst
  <2> QED
    BY <1>2, <2>1, Zenon DEF Queue!qvars
<1>4. CASE running # NoThread
  <2>1. live # {} /\ running \in live /\ running \in Threads
    BY <1>4 DEF SInv, IInv, Started, RingLinked, TypeOK, PointersTyped
  <2>2. cpu' = running
    <3>1. /\ SwitchThread(ctx, running, TRUE) /\ mode = "run"
          /\ ctx \in [Threads -> Threads \cup {NoCtx}]
      BY <1>4 DEF BootReschedule, RescheduleFirst, SInv, IInv, TypeOK, PointersTyped
    <3>2. ctx[running] = running
      BY <1>1, <2>1, <3>1, SchedulerAssumption DEF SInv, ContextsOwned
    <3> QED
      BY <2>1, <3>1, <3>2, SwitchThreadLoads DEF SInv, IInv
  <2>3. PICK q : /\ numThreads \in Nat \ {0} /\ q \in [1 .. numThreads -> live]
                 /\ q[1] = running /\ RingAsQueue = q
    BY <2>1, QueueIsRound DEF SInv
  <2>4. q # <<>> /\ Head(q) = running
    BY <2>3, HeadShape
  <2>5. running # Boot
    BY <2>1, SchedulerAssumption
  <2> QED
    BY <1>1, <1>2, <2>2, <2>3, <2>4, <2>5, Zenon DEF Queue!Begin
<1> QED
  BY <1>3, <1>4

\* scheduler_return drops the head; the idle thread replaces the last one.
LEMMA ReturnMaps ==
  ASSUME SInv, SchedulerReturn
  PROVE  Queue!Leave
<1>1. /\ mode = "run" /\ first /\ cpu = running /\ cpu \in live /\ cpu \in Threads
      /\ next[cpu] \in live /\ live # {} /\ PointersTyped /\ Linked(live, next, prev)
  BY SchedulerAssumption DEF SchedulerReturn, ThreadRuns, SInv, IInv, TypeOK, PointersTyped,
     RingLinked, Linked, OnCpu
<1>2. SInv'
  BY ReturnSInv
<1>3. cpu # Boot /\ cpu # NoThread /\ cpu' = running' /\ running' \in live' /\ cpu' # Boot
  <2>1. first' = first /\ mode' = mode
    <3>1. CASE ReturnToNext(running)
      <4>1. mode' = "run"
        <5>1. mode' \in {"run", "halted"} /\ (mode' = mode \/ mode' = "lost")
          BY <1>2, <3>1 DEF ReturnToNext, SwitchThread, SInv, SwitchNeverFails
        <5> QED
          BY <1>1, <5>1
      <4> QED
        BY <1>1, <4>1 DEF SchedulerReturn
    <3>2. CASE ReturnToIdle(running)
      BY <3>2 DEF ReturnToIdle, SchedulerReturn
    <3> QED
      BY <3>1, <3>2 DEF SchedulerReturn
  <2>2. cpu' = running' /\ running' \in live' /\ live' \subseteq Threads
    BY <1>1, <1>2, <2>1 DEF SInv, IInv, TypeOK, PointersTyped, RingLinked, OnCpu, Started
  <2> QED
    BY <1>1, <2>2, SchedulerAssumption
<1>4. PICK n : n = numThreads
  OBVIOUS
<1>5. PICK q : /\ n \in Nat \ {0} /\ RingOrder(q, n, live, next, running)
               /\ q \in [1 .. n -> live] /\ q[1] = running /\ RingAsQueue = q
               /\ \A i \in 2 .. n : q[i] # running
  BY <1>1, <1>4, QueueIsRound DEF SInv
<1>6. Len(q) = n
  BY <1>5, HeadShape
<1>7. CASE ReturnToNext(running)
  <2>1. /\ running' = next[running] /\ next' = DiscardNext(running)
        /\ live' = live \ {running} /\ numThreads' = n - 1 /\ ~NoneToRun(running)
    BY <1>4, <1>7 DEF ReturnToNext
  <2>2. next[running] # running
    BY <1>1, <2>1, VisitedFirst DEF NoneToRun
  <2>3. n > 1
    BY <1>5, <2>2 DEF RingOrder
  <2>4. /\ RingOrder(Rest(q), n - 1, live \ {running}, DiscardNext(running), next[running])
        /\ Rest(q)[1] = next[running]
    BY <1>1, <1>5, <2>3, DiscardOrder
  <2>5. RingAsQueue' = QueueOf(n - 1, live \ {running}, DiscardNext(running), next[running])
    BY <2>1, Zenon DEF RingAsQueue
  <2>6. n - 1 \in Nat \ {0} /\ n - 1 \in Nat
    BY <1>5, <2>3
  <2>7. RingAsQueue' = Rest(q)
    BY <2>4, <2>5, <2>6, OrderUnique, Zenon
  <2>8. Head(Rest(q)) = running'
    <3>1. Rest(q) \in [1 .. n - 1 -> live \ {running}]
      BY <2>4 DEF RingOrder
    <3>2. Head(Rest(q)) = Rest(q)[1]
      BY <2>6, <3>1, HeadShape
    <3> QED
      BY <2>1, <2>4, <3>2
  <2> QED
    BY <1>3, <1>5, <1>6, <2>3, <2>7, <2>8, Zenon DEF Queue!Leave, Rest
<1>8. CASE ReturnToIdle(running)
  <2>1. live = {running}
    <3>1. pid[next[running]] = pid[running]
      BY <1>1, <1>8, VisitedFirst DEF ReturnToIdle, NoneToRun, SInv, NoneBlocked, TypeOK, PointersTyped
    <3>2. next[running] = running
      BY <1>1, <3>1 DEF SInv, PidsDistinct
    <3> QED
      BY <1>1, <3>2, SelfLoopAlone DEF SInv
  <2>2. n = 1
    BY <1>4, <2>1, FS_Singleton DEF SInv, IInv, CountIsLive
  <2>3. PICK idle \in Threads : live' = {idle}
    BY <1>8, <2>1 DEF ReturnToIdle
  <2>4. numThreads' = 1 /\ running' = idle /\ next'[idle] = idle
    <3>1. numThreads' = numThreads
      BY <1>8 DEF ReturnToIdle
    <3>2. next'[idle] \in live'
      BY <1>2, <2>3 DEF SInv, IInv, RingLinked, Linked
    <3> QED
      BY <1>3, <1>4, <2>2, <2>3, <3>1, <3>2
  <2>5. PICK nn : nn = next'
    OBVIOUS
  <2>6. RingAsQueue' = QueueOf(1, {idle}, nn, idle)
    BY <2>3, <2>4, <2>5, Zenon DEF RingAsQueue
  <2>7. RingAsQueue' = <<idle>>
    BY <2>4, <2>5, <2>6, OneOrder, OrderUnique
  <2>8. Head(<<idle>>) = idle
    OBVIOUS
  <2> QED
    BY <1>3, <1>5, <1>6, <2>2, <2>4, <2>7, <2>8, Zenon DEF Queue!Leave
<1> QED
  BY <1>7, <1>8 DEF SchedulerReturn

\* Every step of threads that do not block is a step of the queue, or none.
LEMMA NextMaps == SInv /\ [SwitchNext]_vars => [Queue!QNext]_(Queue!qvars)
<1> SUFFICES ASSUME SInv, [SwitchNext]_vars
             PROVE  [Queue!QNext]_(Queue!qvars)
  OBVIOUS
<1>1. ASSUME NEW t \in Threads, HotCreateAndPushThread(t)
      PROVE  Queue!QNext
  BY <1>1, CreateMaps DEF Queue!QNext
<1>2. CASE BootReschedule
  BY <1>2, BootMaps DEF Queue!QNext
<1>3. CASE TimerInterrupt \/ YieldThread \/ HotReschedule
  <2>1. /\ mode = "run" /\ \E a, b : Reschedule(a, b)
        /\ UNCHANGED <<ring, fields, firstThread, newPid>>
    BY <1>3 DEF TimerInterrupt, YieldThread, HotReschedule, ThreadRuns
  <2> QED
    BY <2>1, RescheduleMaps DEF Queue!QNext
<1>4. CASE SchedulerReturn
  BY <1>4, ReturnMaps DEF Queue!QNext
<1>5. CASE UNCHANGED vars
  <2>1. RingAsQueue' = RingAsQueue /\ cpu' = cpu
    BY <1>5, Zenon DEF vars, RingAsQueue
  <2> QED
    BY <2>1, Zenon DEF Queue!qvars
<1> QED
  BY <1>1, <1>2, <1>3, <1>4, <1>5, Zenon DEF SwitchNext

\* The ring, for threads that do not block, implements the round-robin queue:
\* push_thread, reschedule and scheduler_return do to the order of the threads,
\* and to the thread that executes, exactly what RunQueue allows.
THEOREM SwitchRefinesRunQueue == SwitchSpec => RefinesRunQueue
<1>1. SwitchSpec => []SInv
  BY InitSInv, NextSInv, PTL DEF SwitchSpec
<1> QED
  BY <1>1, InitMaps, NextMaps, PTL DEF SwitchSpec, RefinesRunQueue, Queue!QSpec
=============================================================================
