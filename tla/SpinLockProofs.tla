--------------------------- MODULE SpinLockProofs ---------------------------
(***************************************************************************)
(* The spin lock of SpinLock.tla for any set of CPUs: its debugging checks *)
(* are exact, and it implements the abstract lock.                         *)
(***************************************************************************)
EXTENDS SpinLock, TLAPS

LEMMA LockInitInv == LockInit => LockInv
BY NoCpuAssumption DEF LockInit, LockInv, LockTypeOK, PC, NoFalsePanic, MisuseCaught

\* Each access of spin_lock or spin_unlock preserves the invariant.
LEMMA LockStepInv ==
  ASSUME LockInv, [LockNext]_lockvars
  PROVE  LockInv'
<1> USE NoCpuAssumption DEF LockInv, LockTypeOK, PC, NoFalsePanic, MisuseCaught, Continue
<1>1. CASE UNCHANGED lockvars
  BY <1>1 DEF lockvars
<1>2. CASE LockNext
  <2>1. PICK c \in Cpu : CallLock(c) \/ CallUnlock(c) \/ Inside(c)
    BY <1>2 DEF LockNext
  <2>2. CASE CallLock(c)
    BY <2>2 DEF CallLock
  <2>3. CASE CallUnlock(c)
    BY <2>3 DEF CallUnlock
  <2>4. CASE LockReadsLocked(c)
    BY <2>4 DEF LockReadsLocked
  <2>5. CASE LockReadsCpu(c)
    BY <2>5 DEF LockReadsCpu
  <2>6. CASE Xchg(c)
    BY <2>6 DEF Xchg
  <2>7. CASE Record(c)
    BY <2>7 DEF Record
  <2>8. CASE UnlockReadsLocked(c)
    BY <2>8 DEF UnlockReadsLocked
  <2>9. CASE UnlockReadsCpu(c)
    BY <2>9 DEF UnlockReadsCpu
  <2>10. CASE Clear(c)
    BY <2>10 DEF Clear
  <2>11. CASE Release(c)
    BY <2>11 DEF Release
  <2> QED
    BY <2>1, <2>2, <2>3, <2>4, <2>5, <2>6, <2>7, <2>8, <2>9, <2>10, <2>11 DEF Inside
<1> QED BY <1>1, <1>2

\* The invariant holds for any number of CPUs that call the functions at will.
THEOREM LockInvariant == LockSpec => []LockInv
BY LockInitInv, LockStepInv, PTL DEF LockSpec

\* The checks at spinlock.c:65 and 87 stop every caller that misuses the lock,
\* although they read it without holding it.
THEOREM ChecksExact == LockSpec => []MisuseCaught
<1>1. LockInv => MisuseCaught
  BY DEF LockInv
<1> QED BY <1>1, LockInvariant, PTL

\* No CPU that uses the lock as it should panics for what another CPU is just
\* writing (spinlock.c:43).
THEOREM NoFalsePanics == LockSpec => []NoFalsePanic
<1>1. LockInv => NoFalsePanic
  BY DEF LockInv
<1> QED BY <1>1, LockInvariant, PTL

\* spin_lock and spin_unlock implement the abstract lock, even for callers that
\* misuse them: nobody takes a lock that is held or gives back another's.
THEOREM LockRefinement == LockSpec => ImplementsLock
<1>1. LockInit => Abstract!Init
  BY DEF LockInit, Abstract!Init
<1>2. LockInv /\ [LockNext]_lockvars => [Abstract!Next]_owner
  <2> SUFFICES ASSUME LockInv, LockNext, owner' # owner PROVE Abstract!Next
    BY DEF lockvars
  <2>1. PICK c \in Cpu : Xchg(c) \/ Release(c)
    BY DEF LockNext, Inside, CallLock, CallUnlock, LockReadsLocked, LockReadsCpu, Record,
           UnlockReadsLocked, UnlockReadsCpu, Clear
  <2>2. CASE Xchg(c)
    BY <2>2 DEF Xchg, LockInv, Abstract!Next, Abstract!Acquire
  <2>3. CASE Release(c)
    BY <2>3 DEF Release, LockInv, Abstract!Next, Abstract!Release
  <2> QED BY <2>1, <2>2, <2>3
<1> QED BY <1>1, <1>2, LockInvariant, PTL DEF LockSpec, ImplementsLock, Abstract!Spec

=============================================================================
