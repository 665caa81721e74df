----------------------------- MODULE MutexProofs -----------------------------
(* The mutex is never left locked, and an acquire with interrupts disabled *)
(* returns, for every number of threads.                                   *)
EXTENDS Mutex, TLAPS

\* A thread that has interrupts disabled keeps the CPU.
MaskedStays == \A t \in Ids : masked[t] => cpu = t

\* With interrupts disabled one failed turn is all there is: the thread keeps the
\* CPU, so that what the failed comparison has stored into old is still the value
\* of the mutex when it is compared again, and acquire_mutex returns.
MaskedSpinsOnce ==
    \A t \in Ids :
        masked[t] /\ pc[t] = "spin" => cpu = t /\ (old[t] = 0 \/ locked = old[t])

MInv == TypeOK /\ LockedIsHeld /\ MaskedStays /\ MaskedSpinsOnce

LEMMA InitMInv == Init => MInv
  BY MutexAssumption DEF Init, MInv, TypeOK, LockedIsHeld, MaskedStays, MaskedSpinsOnce, Ids

LEMMA NextMInv == MInv /\ [Next]_mutexVars => MInv'
<1> SUFFICES ASSUME MInv, [Next]_mutexVars
             PROVE  MInv'
  OBVIOUS
<1> USE DEF MInv, TypeOK
<1>1. ASSUME NEW t \in Ids, NEW mask \in BOOLEAN, AcquireMutex(t, mask)
      PROVE  MInv'
  <2>1. masked' \in [Ids -> BOOLEAN] /\ \A s \in Ids \ {t} : masked'[s] <=> masked[s]
    BY <1>1, Zenon DEF AcquireMutex
  <2>2. TypeOK' /\ LockedIsHeld'
    BY <1>1, <2>1 DEF AcquireMutex, LockedIsHeld
  <2>3. MaskedStays'
    BY <1>1, <2>1 DEF AcquireMutex, MaskedStays
  <2>4. MaskedSpinsOnce'
    BY <1>1, <2>1 DEF AcquireMutex, MaskedStays, MaskedSpinsOnce
  <2> QED
    BY <2>2, <2>3, <2>4
<1>2. ASSUME NEW t \in Ids, CompareExchange(t)
      PROVE  MInv'
  <2>1. TypeOK' /\ LockedIsHeld' /\ MaskedStays'
    BY <1>2 DEF CompareExchange, LockedIsHeld, MaskedStays
  <2>2. MaskedSpinsOnce'
    BY <1>2 DEF CompareExchange, MaskedStays, MaskedSpinsOnce
  <2> QED
    BY <2>1, <2>2
<1>3. ASSUME NEW t \in Ids, ReleaseMutex(t)
      PROVE  MInv'
  <2>1. /\ masked' \in [Ids -> BOOLEAN] /\ ~masked'[t]
        /\ \A s \in Ids \ {t} : masked'[s] <=> masked[s]
    BY <1>3, Zenon DEF ReleaseMutex
  <2>2. TypeOK' /\ LockedIsHeld'
    BY <1>3, <2>1 DEF ReleaseMutex, LockedIsHeld
  <2>3. MaskedStays' /\ MaskedSpinsOnce'
    BY <1>3, <2>1 DEF ReleaseMutex, MaskedStays, MaskedSpinsOnce
  <2> QED
    BY <2>2, <2>3
<1>4. CASE Preempt
  <2>1. cpu' \in Ids
    BY <1>4, MutexAssumption DEF Preempt, Ids
  <2>2. \A t \in Ids : ~masked[t]
    BY <1>4 DEF Preempt, MaskedStays
  <2> QED
    BY <1>4, <2>1, <2>2 DEF Preempt, LockedIsHeld, MaskedStays, MaskedSpinsOnce
<1>5. CASE UNCHANGED mutexVars
  BY <1>5 DEF mutexVars, LockedIsHeld, MaskedStays, MaskedSpinsOnce
<1> QED
  BY <1>1, <1>2, <1>3, <1>4, <1>5 DEF Next

\* A locked mutex has a holder, whatever the interleaving of acquire_mutex and
\* release_mutex.
THEOREM MutexNeverStuck == Spec => [](TypeOK /\ LockedIsHeld)
  BY InitMInv, NextMInv, PTL DEF Spec, MInv

\* For every number of threads, acquire_mutex with interrupts disabled returns
\* with its second turn at the latest.
THEOREM MaskedAcquireBounded == Spec => []MaskedSpinsOnce
  BY InitMInv, NextMInv, PTL DEF Spec, MInv
=============================================================================
