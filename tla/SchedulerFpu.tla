---------------------------- MODULE SchedulerFpu ----------------------------
(***************************************************************************)
(* The SSE registers across a context switch.  The kernel is compiled      *)
(* without SSE; user threads use it (CR4.OSFXSR is set in kmain), and      *)
(* switch_thread saves and restores the registers with fxsave and fxrstor  *)
(* in the ssefxsave area of get_current_thread().                          *)
(*                                                                         *)
(* The contents of the registers, or of an area, are the thread that wrote *)
(* them last, or Zero.                                                     *)
(***************************************************************************)
EXTENDS Scheduler

CONSTANT Zero   \* cleared registers

VARIABLES
    fpu,        \* the SSE registers of the CPU
    ssefxsave,  \* ssefxsave
    usesFpu     \* the live threads that have computed something in them

fpuVars == <<fpu, ssefxsave, usesFpu>>

FpuInit ==
    /\ Init
    /\ fpu = Zero
    /\ ssefxsave = [t \in Threads |-> Zero]
    /\ usesFpu = {}

\* fxsave and fxrstor of switch_thread, both with the running_thread that the
\* caller of switch_thread has set before the call; create_thread clears the
\* area of a new thread.
FxSaveRestore ==
    /\ \/ /\ cpu' # cpu
          /\ ssefxsave' = [ssefxsave EXCEPT ![running'] = fpu]
          /\ fpu' = ssefxsave'[running']
       \/ /\ cpu' = cpu
          /\ fpu' = fpu
          /\ ssefxsave' = [t \in Threads |-> IF t \in live' \ live THEN Zero ELSE ssefxsave[t]]
    /\ usesFpu' = usesFpu \cap live \cap live'

\* A user thread computes with SSE instructions.
UseFpu ==
    /\ ThreadRuns
    /\ fpu' = cpu
    /\ usesFpu' = usesFpu \cup {cpu}
    /\ UNCHANGED <<vars, ssefxsave>>

FpuNext == (SwitchNext /\ FxSaveRestore) \/ UseFpu

FpuSpec == FpuInit /\ [][FpuNext]_<<vars, fpuVars>>

\* A thread that computes with SSE finds its own values in the registers when
\* it is switched back in: ssefxsave is the thread's "sse stuff"
\* (scheduler.h:47).
FpuIsOwn == mode = "run" /\ cpu \in usesFpu => fpu = cpu
=============================================================================
