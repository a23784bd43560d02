------------------------------ MODULE SpinLock ------------------------------
(***************************************************************************)
(* kern/spinlock.c, compiled with DEBUG_SPINLOCK as spinlock.h:7 does: the *)
(* lock word, the debugging owner field and the memory accesses of         *)
(* spin_lock and spin_unlock, one access per step.                         *)
(*                                                                         *)
(* The debugging checks read the lock without holding it: holding() reads  *)
(* lk->locked and then lk->cpu, and other CPUs may write both in between.  *)
(* The model lets a CPU call either function at any time, in particular    *)
(* spin_lock when it already has the lock and spin_unlock when it does     *)
(* not, so that the checks have both something to catch and something to   *)
(* leave alone.                                                            *)
(***************************************************************************)
CONSTANTS Cpu,     \* the CPUs
          NoCpu    \* lk->cpu == 0

ASSUME NoCpuAssumption == NoCpu \notin Cpu

VARIABLES locked,     \* lk->locked, 0 or 1
          cpu,        \* lk->cpu, the owner recorded for debugging
          pc,         \* where each CPU is
          misused,    \* did the caller break the rules of the call it is in?
          owner       \* history: the CPU whose xchg took the lock

lockvars == <<locked, cpu, pc, misused, owner>>

PC == {"out",       \* running code outside the lock's functions
       "holding1",  \* spin_lock:65, holding() is about to read lk->locked
       "holding2",  \* spin_lock:65, holding() is about to read lk->cpu
       "xchg",      \* spin_lock:72, the spin
       "record",    \* spin_lock:77, lk->cpu = thiscpu
       "unholding1", "unholding2",  \* spin_unlock:87, the same two reads
       "clear",     \* spin_unlock:108, lk->cpu = 0
       "release",   \* spin_unlock:120, xchg(&lk->locked, 0)
       "panic"}

LockTypeOK == /\ locked \in {0, 1}
              /\ cpu \in Cpu \cup {NoCpu}
              /\ pc \in [Cpu -> PC]
              /\ misused \in [Cpu -> BOOLEAN]
              /\ owner \in Cpu \cup {NoCpu}

\* __spin_initlock
LockInit == /\ locked = 0
            /\ cpu = NoCpu
            /\ pc = [c \in Cpu |-> "out"]
            /\ misused = [c \in Cpu |-> FALSE]
            /\ owner = NoCpu

Continue(c, label) == pc' = [pc EXCEPT ![c] = label]

-----------------------------------------------------------------------------
\* spin_lock(lk)

CallLock(c) == /\ pc[c] = "out"
               /\ Continue(c, "holding1")
               /\ misused' = [misused EXCEPT ![c] = (owner = c)]
               /\ UNCHANGED <<locked, cpu, owner>>

\* holding(): lk->locked, and only if it is set, lk->cpu == thiscpu
LockReadsLocked(c) == /\ pc[c] = "holding1"
                      /\ Continue(c, IF locked = 1 THEN "holding2" ELSE "xchg")
                      /\ UNCHANGED <<locked, cpu, misused, owner>>

LockReadsCpu(c) == /\ pc[c] = "holding2"
                   /\ Continue(c, IF cpu = c THEN "panic" ELSE "xchg")
                   /\ UNCHANGED <<locked, cpu, misused, owner>>

\* Mutant: the exchange counts as won whatever it found.
Xchg_AnyResult(c) == /\ pc[c] = "xchg"
                        /\ locked' = 1
                        /\ Continue(c, "record")
                        /\ owner' = c
                        /\ UNCHANGED <<cpu, misused>>

\* The exchange that finds 0 wins the lock; one that finds 1 changes nothing.
Xchg(c) == /\ pc[c] = "xchg"
           /\ locked = 0
           /\ locked' = 1
           /\ Continue(c, "record")
           /\ owner' = c
           /\ UNCHANGED <<cpu, misused>>

Record(c) == /\ pc[c] = "record"
             /\ cpu' = c
             /\ Continue(c, "out")
             /\ UNCHANGED <<locked, misused, owner>>

-----------------------------------------------------------------------------
\* spin_unlock(lk)

CallUnlock(c) == /\ pc[c] = "out"
                 /\ Continue(c, "unholding1")
                 /\ misused' = [misused EXCEPT ![c] = (owner # c)]
                 /\ UNCHANGED <<locked, cpu, owner>>

UnlockReadsLocked(c) == /\ pc[c] = "unholding1"
                        /\ Continue(c, IF locked = 1 THEN "unholding2" ELSE "panic")
                        /\ UNCHANGED <<locked, cpu, misused, owner>>

\* Mutant: any set lock word passes for "held by this CPU".
UnlockReadsCpu_AnyOwner(c) == /\ pc[c] = "unholding2"
                              /\ Continue(c, "clear")
                              /\ UNCHANGED <<locked, cpu, misused, owner>>

UnlockReadsCpu(c) == /\ pc[c] = "unholding2"
                     /\ Continue(c, IF cpu = c THEN "clear" ELSE "panic")
                     /\ UNCHANGED <<locked, cpu, misused, owner>>

\* Mutant: lk->cpu keeps the last owner.
Clear_Forgotten(c) == /\ pc[c] = "clear"
                      /\ Continue(c, "release")
                      /\ UNCHANGED <<locked, cpu, misused, owner>>

Clear(c) == /\ pc[c] = "clear"
            /\ cpu' = NoCpu
            /\ Continue(c, "release")
            /\ UNCHANGED <<locked, misused, owner>>

\* Mutant: the final exchange is left out.
Release_Forgotten(c) == /\ pc[c] = "release"
                        /\ owner' = NoCpu
                        /\ Continue(c, "out")
                        /\ UNCHANGED <<locked, cpu, misused>>

Release(c) == /\ pc[c] = "release"
              /\ locked' = 0
              /\ owner' = NoCpu
              /\ Continue(c, "out")
              /\ UNCHANGED <<cpu, misused>>

-----------------------------------------------------------------------------
\* The steps inside the two functions; calling them is the caller's choice.
Inside(c) == \/ LockReadsLocked(c) \/ LockReadsCpu(c) \/ Xchg(c) \/ Record(c)
             \/ UnlockReadsLocked(c) \/ UnlockReadsCpu(c) \/ Clear(c) \/ Release(c)

LockNext == \E c \in Cpu : CallLock(c) \/ CallUnlock(c) \/ Inside(c)

\* A CPU in one of the functions keeps executing.  Nothing makes an exchange
\* that is attempted again and again succeed: fairness is weak.
LockFairness == \A c \in Cpu : WF_lockvars(Inside(c))

LockSpec == LockInit /\ [][LockNext]_lockvars /\ LockFairness

-----------------------------------------------------------------------------
\* The debugging checks (spinlock.c:65 and 87) stop a CPU exactly when it
\* misuses the lock: a CPU that keeps the rules never panics, whatever the
\* others write between the two reads of holding().
NoFalsePanic == \A c \in Cpu : pc[c] = "panic" => misused[c]

\* No misuse slips through: a CPU that calls spin_lock while it has the lock
\* never gets as far as spinning on itself, and one that calls spin_unlock
\* without having it never gets as far as clearing the owner or the word.
MisuseCaught == \A c \in Cpu :
                   misused[c] => pc[c] \notin {"xchg", "record", "clear", "release"}

\* The lock, seen through the CPU whose exchange won it, is the abstract lock:
\* never taken from its holder, never released by another (spinlock.c:72, 120).
Abstract == INSTANCE AbstractLock WITH holder <- owner
ImplementsLock == Abstract!Spec

\* The inductive invariant: the word, the recorded owner and the history owner
\* agree except between the two writes of each function, and what a caller did
\* wrong is still wrong when the check looks.
LockInv ==
  /\ LockTypeOK
  /\ owner = NoCpu <=> locked = 0
  /\ cpu # NoCpu => owner = cpu
  /\ \A c \in Cpu :
       /\ pc[c] \in {"record", "clear", "release"} => owner = c
       /\ pc[c] \in {"record", "release"} => cpu = NoCpu
       /\ owner = c /\ pc[c] \notin {"record", "release"} => cpu = c
       /\ pc[c] \in {"holding1", "holding2"} => (misused[c] <=> owner = c)
       /\ pc[c] \in {"unholding1", "unholding2"} => (misused[c] <=> owner # c)
       /\ pc[c] = "xchg" => owner # c
  /\ NoFalsePanic
  /\ MisuseCaught

\* A CPU that begins to give the lock back while others spin hands it over:
\* the release is completed, and one of the spinners then wins the exchange
\* (spinlock.c:72 and 120), however often the others come and go.
Handover == ((\E c \in Cpu : pc[c] \in {"clear", "release"}) /\ (\E c \in Cpu : pc[c] = "xchg"))
              ~> (\E c \in Cpu : pc[c] = "record")

=============================================================================
