------------------------------ MODULE Scheduler ------------------------------
(***************************************************************************)
(* The thread scheduler of kernel/src/scheduler.c and scheduler.asm on the *)
(* one CPU the kernel runs on.                                             *)
(*                                                                         *)
(* Every function of scheduler.c runs with interrupts disabled, so each is *)
(* one action; the interleaving is the choice between what the thread on   *)
(* the CPU calls next and the local-APIC one-shot timer (vector 72), which *)
(* can only be delivered while the interrupt flag is set.                  *)
(*                                                                         *)
(* A thread_context is a member of Threads, and its fields are functions   *)
(* on Threads.  A member outside of live is memory that kfree has returned *)
(* (or that was never allocated).  running is the global the C code calls  *)
(* running_thread; cpu is the thread that really executes, that is, whose  *)
(* stack rsp points into.  The code has no variable for the latter: that   *)
(* the two agree is a property, not an assumption.                         *)
(***************************************************************************)
EXTENDS Naturals, FiniteSets

CONSTANTS
    Threads,    \* the thread_context structures the heap can hold
    NoThread,   \* the NULL pointer
    Boot,       \* the context kmain runs in, which is no thread_context
    NoCtx,      \* a saved stack pointer that has been consumed
    MaxPid      \* bound on the calls of get_new_pid()

ASSUME SchedulerAssumption ==
    /\ IsFiniteSet(Threads)
    /\ Threads # {}
    /\ NoThread \notin Threads
    /\ Boot \notin Threads
    /\ NoCtx \notin Threads
    /\ MaxPid \in Nat

\* 0xDEADBEEFCAFEBABE: get_new_pid() counts from 1 and never returns it.
IdlePid == 0

VARIABLES
    live,         \* the thread_contexts that are allocated and pushed
    next,         \* next_thread
    prev,         \* prev_thread
    pid,          \* pid
    blocked,      \* status[3] == 1
    ctx,          \* current_rsp: the thread whose registers it points at
    resumeIF,     \* the interrupt flag the thread has once it is resumed
    running,      \* running_thread
    numThreads,   \* num_threads
    firstThread,  \* first_thread
    first,        \* first: reschedule() has been called before
    newPid,       \* new_pid
    cpu,          \* the thread the CPU executes, or Boot
    ifl,          \* RFLAGS.IF
    armed,        \* the one-shot timer is counting, or its interrupt pending
    mode          \* "run", or the way in which the CPU stopped

ring   == <<live, next, prev, numThreads>>
fields == <<pid, blocked>>
vars   == <<live, next, prev, pid, blocked, ctx, resumeIF, running, numThreads,
            firstThread, first, newPid, cpu, ifl, armed, mode>>

(***************************************************************************)
(* "halted": cli; hlt with no thread to run.  "hung": spinning for ever    *)
(* with interrupts disabled.  "lost": rsp was loaded from a slot whose     *)
(* frame has already been popped; what executes then is not modelled.      *)
(***************************************************************************)
Modes == {"run", "halted", "hung", "lost"}

Init ==
    /\ live = {}
    /\ next = [t \in Threads |-> t]
    /\ prev = [t \in Threads |-> t]
    /\ pid = [t \in Threads |-> IdlePid]
    /\ blocked = [t \in Threads |-> FALSE]
    /\ ctx = [t \in Threads |-> NoCtx]
    /\ resumeIF = [t \in Threads |-> TRUE]
    /\ running = NoThread
    /\ numThreads = 0
    /\ firstThread = TRUE
    /\ first = FALSE
    /\ newPid = 0
    /\ cpu = Boot
    /\ ifl = TRUE
    /\ armed = FALSE
    /\ mode = "run"

-----------------------------------------------------------------------------
(* The ring: insert_thread, discard_thread, push_thread.                   *)

\* Faulty: insert_thread leaves the new thread's next_thread NULL.
InsertNextOpen(nx, l, t, r) == [nx EXCEPT ![l] = t, ![t] = NoThread]

\* Faulty: insert_thread does not let the right neighbour point back.
InsertPrevOneSided(pv, l, t, r) == [pv EXCEPT ![t] = l]

\* The next_thread and prev_thread fields after insert_thread(l, t, r).
InsertNext(nx, l, t, r) == [nx EXCEPT ![l] = t, ![t] = r]
InsertPrev(pv, l, t, r) == [pv EXCEPT ![r] = t, ![t] = l]

\* ... and after discard_thread(t).
DiscardNext(t) == [next EXCEPT ![prev[t]] = next[t]]
DiscardPrev(t) == [prev EXCEPT ![next[t]] = prev[t]]

\* Faulty: push_thread takes one thread for none.
PushThreadSplits(t, nx, pv, rt, n) ==
    \/ /\ firstThread \/ n <= 1
       /\ running' = t
       /\ next' = [nx EXCEPT ![t] = t]
       /\ prev' = [pv EXCEPT ![t] = t]
       /\ firstThread' = FALSE
    \/ /\ ~(firstThread \/ n <= 1)
       /\ running' = rt
       /\ next' = InsertNext(nx, rt, t, nx[rt])
       /\ prev' = InsertPrev(pv, rt, t, nx[rt])
       /\ UNCHANGED firstThread

\* push_thread(t) on a ring given by nx and pv, with rt as running_thread and
\* n as num_threads: t alone in a ring of its own, or right behind rt.
PushThread(t, nx, pv, rt, n) ==
    \/ /\ firstThread \/ n = 0
       /\ running' = t
       /\ next' = [nx EXCEPT ![t] = t]
       /\ prev' = [pv EXCEPT ![t] = t]
       /\ firstThread' = FALSE
    \/ /\ ~(firstThread \/ n = 0)
       /\ running' = rt
       /\ next' = InsertNext(nx, rt, t, nx[rt])
       /\ prev' = InsertPrev(pv, rt, t, nx[rt])
       /\ UNCHANGED firstThread

-----------------------------------------------------------------------------
(* Context switching.                                                      *)

\* switch_thread: push the registers, store rsp into the slot save (Boot: a
\* local that nobody reads), load rsp from the slot load, pop, sti, ret.
\* saved is the array of slots the load sees; the caller, when it is resumed,
\* goes on with the interrupt flag onResume.
SwitchThread(saved, load, onResume) ==
    /\ resumeIF' = IF cpu \in Threads THEN [resumeIF EXCEPT ![cpu] = onResume] ELSE resumeIF
    /\ ctx' = [saved EXCEPT ![load] = NoCtx]
    /\ \/ /\ saved[load] # NoCtx
          /\ cpu' = saved[load]
          /\ ifl' = resumeIF'[saved[load]]
          /\ UNCHANGED mode
       \/ /\ saved[load] = NoCtx
          /\ mode' = "lost"
          /\ UNCHANGED <<cpu, ifl>>

\* reschedule(), first call: kmain jumps into the first thread and is never
\* resumed; with no thread it halts.
RescheduleFirst ==
    /\ ~first
    /\ first' = TRUE
    /\ \/ /\ running = NoThread
          /\ mode' = "halted"
          /\ ifl' = FALSE
          /\ UNCHANGED <<ctx, resumeIF, cpu, armed>>
       \/ /\ running # NoThread
          /\ armed' = TRUE
          /\ SwitchThread(ctx, running, TRUE)
    /\ UNCHANGED running

\* Faulty: the early return does not restart the one-shot timer.
RescheduleAloneUnarmed(n, onReturn) ==
    /\ pid[n] = pid[prev[n]]
    /\ running' = n
    /\ armed' = FALSE
    /\ ifl' = onReturn
    /\ UNCHANGED <<ctx, resumeIF, cpu, mode>>

\* The next thread is the only one: nothing to switch to, just return.
\* The code tells it by comparing pids.
RescheduleAlone(n, onReturn) ==
    /\ pid[n] = pid[prev[n]]
    /\ running' = n
    /\ armed' = TRUE
    /\ ifl' = onReturn
    /\ UNCHANGED <<ctx, resumeIF, cpu, mode>>

\* The next thread is blocked.  The loop advances running_thread but tests
\* next_thread, which stays the same: it is left only if that is the idle
\* thread (which nobody is left to block), and spins for ever otherwise.
RescheduleBlocked(n, onReturn) ==
    /\ pid[n] # pid[prev[n]]
    /\ blocked[n]
    /\ running' = IF pid[n] = IdlePid THEN next[n] ELSE n
    /\ armed' = (armed \/ pid[n] = IdlePid)
    /\ ifl' = (onReturn /\ pid[n] = IdlePid)
    /\ mode' = IF pid[n] = IdlePid THEN "run" ELSE "hung"
    /\ UNCHANGED <<ctx, resumeIF, cpu>>

\* Faulty: running_thread is not advanced before the switch.
RescheduleSwitchStale(n, onResume) ==
    /\ pid[n] # pid[prev[n]]
    /\ ~blocked[n]
    /\ armed' = TRUE
    /\ SwitchThread([ctx EXCEPT ![prev[n]] = cpu], n, onResume)
    /\ UNCHANGED running

\* Faulty: the old stack pointer goes into a local instead of the slot.
RescheduleSwitchUnsaved(n, onResume) ==
    /\ pid[n] # pid[prev[n]]
    /\ ~blocked[n]
    /\ running' = n
    /\ armed' = TRUE
    /\ SwitchThread(ctx, n, onResume)

RescheduleSwitch(n, onResume) ==
    /\ pid[n] # pid[prev[n]]
    /\ ~blocked[n]
    /\ running' = n
    /\ armed' = TRUE
    /\ SwitchThread([ctx EXCEPT ![prev[n]] = cpu], n, onResume)

\* reschedule(), later calls.  onReturn is the interrupt flag after it returns
\* without having switched, onResume after the caller is switched back in.
Reschedule(onReturn, onResume) ==
    /\ first
    /\ \/ RescheduleAlone(next[running], onReturn)
       \/ RescheduleBlocked(next[running], onReturn)
       \/ RescheduleSwitch(next[running], onResume)
    /\ UNCHANGED first

-----------------------------------------------------------------------------
(* Who may call: the boot code, and every thread but the idle thread, which *)
(* only pauses.                                                            *)

ThreadRuns == mode = "run" /\ cpu \in live /\ pid[cpu] # IdlePid

\* hot_create_and_push_thread, hot_create_and_push_user_thread and
\* hot_exec_elf with the pid of get_new_pid().  They differ in the address
\* space and the elf fields of the new thread only; the caller's interrupt
\* flag is saved and restored.
HotCreateAndPushThread(t) ==
    /\ ThreadRuns \/ (mode = "run" /\ cpu = Boot)
    /\ t \in Threads \ live
    /\ newPid < MaxPid
    /\ newPid' = newPid + 1
    /\ PushThread(t, next, prev, running, numThreads)
    /\ live' = live \cup {t}
    /\ numThreads' = numThreads + 1
    /\ pid' = [pid EXCEPT ![t] = newPid']
    /\ blocked' = [blocked EXCEPT ![t] = FALSE]
    /\ ctx' = [ctx EXCEPT ![t] = t]
    /\ resumeIF' = [resumeIF EXCEPT ![t] = TRUE]
    /\ UNCHANGED <<first, cpu, ifl, armed, mode>>

\* kmain and init_vfs: while (1) reschedule();
BootReschedule ==
    /\ mode = "run"
    /\ cpu = Boot
    /\ RescheduleFirst
    /\ UNCHANGED <<ring, fields, firstThread, newPid>>

\* The timer interrupt: thread_interrupter_handler, then iretq, which gives
\* the interrupted thread its interrupt flag (set) back.
TimerInterrupt ==
    /\ mode = "run"
    /\ armed
    /\ ifl
    /\ Reschedule(TRUE, TRUE)
    /\ UNCHANGED <<ring, fields, firstThread, newPid>>

\* yield_thread(), and a thread that calls reschedule() itself: interrupts are
\* enabled again by switch_thread only.
YieldThread ==
    /\ ThreadRuns
    /\ Reschedule(FALSE, TRUE)
    /\ UNCHANGED <<ring, fields, firstThread, newPid>>

\* hot_reschedule() restores the flag of its caller.
HotReschedule ==
    /\ ThreadRuns
    /\ Reschedule(ifl, TRUE)
    /\ UNCHANGED <<ring, fields, firstThread, newPid>>

-----------------------------------------------------------------------------
(* scheduler_return(): a thread ends.                                      *)

\* Faulty: the loop over blocked threads is an if.
VisitedOnce(temp) ==
    {next[temp]} \cup (IF blocked[next[temp]] THEN {next[next[temp]]} ELSE {})

\* The threads the loop looks at: the successor of the exiting thread, and the
\* one behind each of them that is blocked, until it meets the pid of the
\* exiting thread.  (What every set with these threads contains.)
Visited(temp) ==
    {u \in Threads :
        \A C \in SUBSET Threads :
            /\ next[temp] \in C
            /\ \A v \in C : blocked[v] /\ pid[v] # pid[temp] => next[v] \in C
            => u \in C}

\* Faulty: the loop gives up at the first blocked thread.
NoneToRunFirst(temp) == pid[next[temp]] = pid[temp] \/ blocked[next[temp]]

\* No thread is left to run (kill_and_switch_to_idle): the successor is the
\* exiting thread, or the loop comes back to it.
NoneToRun(temp) == \E u \in Visited(temp) : pid[u] = pid[temp]

\* The thread u at which it stops otherwise.
LoopStopsAt(temp, u) ==
    /\ u \in Visited(temp)
    /\ pid[u] # pid[temp]
    /\ ~blocked[u]

\* Faulty: num_threads is not decremented.
ReturnToNextUncounted(temp) ==
    /\ ~NoneToRun(temp)
    /\ running' = next[temp]
    /\ next' = DiscardNext(temp)
    /\ prev' = DiscardPrev(temp)
    /\ live' = live \ {temp}
    /\ \E u \in live : LoopStopsAt(temp, u) /\ SwitchThread(ctx, u, TRUE)
    /\ UNCHANGED <<fields, firstThread, numThreads>>

\* The normal path: unlink and free the thread, continue with the next
\* unblocked one.  running_thread becomes the successor, blocked or not.
ReturnToNext(temp) ==
    /\ ~NoneToRun(temp)
    /\ running' = next[temp]
    /\ next' = DiscardNext(temp)
    /\ prev' = DiscardPrev(temp)
    /\ live' = live \ {temp}
    /\ numThreads' = numThreads - 1
    /\ \E u \in live : LoopStopsAt(temp, u) /\ SwitchThread(ctx, u, TRUE)
    /\ UNCHANGED <<fields, firstThread>>

\* kill_and_switch_to_idle: unlink and free the thread, push an idle thread
\* (its thread_context may reuse the memory just freed) and switch to it.
ReturnToIdle(temp) ==
    /\ NoneToRun(temp)
    /\ \E idle \in Threads \ (live \ {temp}) :
          /\ PushThread(idle, DiscardNext(temp), DiscardPrev(temp), next[temp], numThreads - 1)
          /\ live' = (live \ {temp}) \cup {idle}
          /\ pid' = [pid EXCEPT ![idle] = IdlePid]
          /\ blocked' = [blocked EXCEPT ![idle] = FALSE]
          /\ ctx' = [ctx EXCEPT ![idle] = NoCtx]
          /\ resumeIF' = [resumeIF EXCEPT ![idle] = TRUE]
          /\ cpu' = idle
          /\ ifl' = TRUE
    /\ UNCHANGED <<numThreads, mode>>

\* Faulty: running_thread is read after it has been advanced.
SchedulerReturnLate ==
    /\ ThreadRuns
    /\ ReturnToNext(next[running]) \/ ReturnToIdle(next[running])
    /\ armed' = TRUE
    /\ UNCHANGED <<first, newPid>>

\* The exiting thread is running_thread, whoever executes.  The context of the
\* caller is stored into a local variable and never resumed.
SchedulerReturn ==
    /\ ThreadRuns
    /\ ReturnToNext(running) \/ ReturnToIdle(running)
    /\ armed' = TRUE
    /\ UNCHANGED <<first, newPid>>

-----------------------------------------------------------------------------
(* block_thread and unblock_thread.                                        *)

\* block_thread(pid): the walk over num_threads + 1 ring members finds the
\* thread.  The second irq_disable_save overwrites the caller's interrupt flag
\* with "disabled", so that irq_restore restores nothing.  A thread that
\* blocks itself raises vector 72.
BlockThread(t) ==
    /\ ThreadRuns
    /\ t \in live
    /\ \/ /\ blocked[t]
          /\ ifl' = FALSE
          /\ UNCHANGED <<blocked, ctx, resumeIF, running, first, cpu, armed, mode>>
       \/ /\ ~blocked[t]
          /\ pid[t] # pid[running]
          /\ blocked' = [blocked EXCEPT ![t] = TRUE]
          /\ ifl' = FALSE
          /\ UNCHANGED <<ctx, resumeIF, running, first, cpu, armed, mode>>
       \/ /\ ~blocked[t]
          /\ pid[t] = pid[running]
          /\ blocked' = [blocked EXCEPT ![t] = TRUE]
          /\ Reschedule(FALSE, FALSE)
    /\ UNCHANGED <<ring, pid, firstThread, newPid>>

\* unblock_thread(t): the caller's interrupt flag is saved and restored.
UnblockThread(t) ==
    /\ ThreadRuns
    /\ t \in live
    /\ blocked' = [blocked EXCEPT ![t] = FALSE]
    /\ UNCHANGED <<ring, pid, ctx, resumeIF, running, firstThread, first, newPid,
                   cpu, ifl, armed, mode>>

\* get_thread_by_pid(pid) returns a thread it finds without irq_restore; for
\* an unknown pid it restores the flag, which changes nothing.
GetThreadByPid(t) ==
    /\ ThreadRuns
    /\ t \in live
    /\ ifl' = FALSE
    /\ UNCHANGED <<ring, fields, ctx, resumeIF, running, firstThread, first, newPid,
                   cpu, armed, mode>>

\* sleep_thread(pid, ms) walks ready_queue_head, which nothing ever sets: the
\* thread is "not found" and all that remains is the sti.
SleepThread ==
    /\ ThreadRuns
    /\ ifl' = TRUE
    /\ UNCHANGED <<ring, fields, ctx, resumeIF, running, firstThread, first, newPid,
                   cpu, armed, mode>>

-----------------------------------------------------------------------------
(* Specifications.                                                         *)

\* Threads that are created, preempted, yield and exit, but never block.
SwitchNext ==
    \/ \E t \in Threads : HotCreateAndPushThread(t)
    \/ BootReschedule
    \/ TimerInterrupt
    \/ YieldThread
    \/ HotReschedule
    \/ SchedulerReturn

Next ==
    \/ SwitchNext
    \/ \E t \in Threads : BlockThread(t) \/ UnblockThread(t) \/ GetThreadByPid(t)
    \/ SleepThread

SwitchSpec == Init /\ [][SwitchNext]_vars
Spec       == Init /\ [][Next]_vars

\* The hardware delivers a timer interrupt that is pending and not masked, and
\* the boot code reaches its call of reschedule(); no thread is obliged to
\* call anything.
FairSwitchSpec ==
    SwitchSpec /\ WF_vars(TimerInterrupt) /\ WF_vars(BootReschedule)

-----------------------------------------------------------------------------
(* Properties.                                                             *)

PointersTyped ==
    /\ live \subseteq Threads
    /\ next \in [Threads -> Threads]
    /\ prev \in [Threads -> Threads]
    /\ pid \in [Threads -> Nat]
    /\ ctx \in [Threads -> Threads \cup {NoCtx}]
    /\ running \in Threads \cup {NoThread}
    /\ numThreads \in Nat
    /\ newPid \in 0 .. MaxPid
    /\ cpu \in Threads \cup {Boot}
    /\ mode \in Modes

FlagsTyped ==
    /\ blocked \in [Threads -> BOOLEAN]
    /\ resumeIF \in [Threads -> BOOLEAN]
    /\ firstThread \in BOOLEAN
    /\ first \in BOOLEAN
    /\ ifl \in BOOLEAN
    /\ armed \in BOOLEAN

\* The values the fields of a thread_context, the globals of scheduler.c and
\* the CPU's flags can have.
TypeOK == PointersTyped /\ FlagsTyped

\* nx and pv make the members of S doubly linked rings.
Linked(S, nx, pv) ==
    \A t \in S : /\ nx[t] \in S
                 /\ pv[t] \in S
                 /\ pv[nx[t]] = t
                 /\ nx[pv[t]] = t

\* The run queue is doubly linked with no dangling pointer: every allocated
\* thread's neighbours are allocated and point back at it, and running_thread
\* is one of them (insert_thread, discard_thread and push_thread over every
\* history of create, exit, block and switch).
RingLinked ==
    /\ Linked(live, next, prev)
    /\ live # {} => running \in live

\* num_threads counts the allocated threads: push_thread and the walks of
\* block_thread and get_thread_by_pid trust it.
CountIsLive == numThreads = Cardinality(live)

\* nx visits all of S from any of its members.
Cycle(S, nx) ==
    \A C \in SUBSET S : C # {} /\ (\A t \in C : nx[t] \in C) => C = S

\* The ring is one cycle: following next_thread from any thread, as
\* reschedule, block_thread and get_thread_by_pid do, meets every allocated
\* thread; no sequence of pushes and exits splits the queue or strands a
\* thread outside of it.
OneCycle == Cycle(live, next)

\* get_current_thread() returns the thread that executes (scheduler.h:114).
CpuIsRunning == mode = "run" /\ cpu # Boot => cpu = running

\* Every thread that is off the CPU has its own registers saved in its own
\* current_rsp: no reschedule or exit stores a context into another thread's
\* slot or resumes a frame twice.
ContextsOwned ==
    mode = "run" => \A t \in live \ {cpu} : ctx[t] = t

\* Only the executing thread leaves the run queue: scheduler_return never
\* frees a thread that is merely next in line.
OnlySelfExits == [][live \ live' \subseteq {cpu}]_vars

\* Preemptive round robin: a thread on the ring gets the CPU or exits, as long
\* as interrupts do not stay disabled for ever (thread_interrupter_handler,
\* the re-arming of the one-shot timer on every path of reschedule and
\* scheduler_return).
EveryThreadRuns ==
    []<>ifl => \A t \in Threads : (t \in live) ~> (cpu = t \/ t \notin live)

\* The same without the proviso, which README.md:16 promises: "every thread
\* gets equal CPU time unless they voluntarily yield early".
EveryThreadRunsAlways ==
    \A t \in Threads : (t \in live) ~> (cpu = t \/ t \notin live)

\* No context switch resumes a frame that was popped before, and no path of
\* reschedule spins: the CPU stops only where kmain finds no thread at all.
SwitchNeverFails == mode \in {"run", "halted"}

\* kill_and_switch_to_idle pushes the idle thread only when every other thread is
\* blocked: no thread that was ready is abandoned, and nobody blocks the idle
\* thread.  If it is alone it keeps the CPU, tick after tick.  If blocked threads
\* are left nothing is said of what follows: running_thread is one of them, and
\* the next reschedule resumes the idle thread's frame a second time ("lost").
IdleIsLast ==
    \A t \in live : pid[t] = IdlePid =>
        /\ cpu = t
        /\ \A u \in live \ {t} : blocked[u]
        /\ live = {t} => mode = "run"

\* running_thread is the thread that executes, and whoever is off the CPU has its
\* registers in its own slot.
Consistent == mode # "lost" /\ CpuIsRunning /\ ContextsOwned

\* With threads that block and unblock each other, in any order with creations,
\* ticks, yields and exits, running_thread and the CPU part in one way only: an
\* exit whose successor is blocked, where scheduler_return resumes a later thread
\* (or an idle one) but leaves running_thread at the successor.  No other step
\* puts a context into the wrong slot or resumes a frame twice, not even next to
\* blocked threads, unless such an exit went before it.
DriftsOnlyByExit ==
    [][Consistent /\ ~Consistent' => SchedulerReturn /\ blocked[next[running]]]_vars

\* The loop of scheduler_return ends, whichever threads are blocked: it goes back
\* to the exiting thread if there is no other that is ready, and stops at one of
\* those otherwise.
ExitFindsReady ==
    mode = "run" /\ running \in live =>
        IF \A t \in live \ {running} : blocked[t]
        THEN NoneToRun(running)
        ELSE ~NoneToRun(running) /\ \E u \in live \ {running} : LoopStopsAt(running, u)

-----------------------------------------------------------------------------
(* The ring read as a queue: from running_thread along next_thread, and     *)
(* round to where it starts.                                               *)

RingOrder(q, n, S, nx, r) ==
    /\ q \in [1 .. n -> S]
    /\ n > 0 => q[1] = r
    /\ \A i \in 1 .. n : nx[q[i]] = q[IF i = n THEN 1 ELSE i + 1]

QueueOf(n, S, nx, r) == CHOOSE q \in [1 .. n -> S] : RingOrder(q, n, S, nx, r)

RingAsQueue == QueueOf(numThreads, live, next, running)

Queue == INSTANCE RunQueue WITH
    queue     <- RingAsQueue,
    executing <- IF cpu = Boot THEN NoThread ELSE cpu

\* The ring of scheduler.c, with its pid comparisons, its num_threads and its
\* special cases for the first and the last thread, is a round-robin queue
\* whose head executes.
RefinesRunQueue == Queue!QSpec
=============================================================================
