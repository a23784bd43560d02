---------------------------- MODULE AbstractLock ----------------------------
(***************************************************************************)
(* What the kernel expects of a lock (kern/spinlock.h, lock_kernel and     *)
(* unlock_kernel): at most one CPU has it, only a free lock is taken, and  *)
(* only the CPU that has it gives it back.                                 *)
(***************************************************************************)
CONSTANTS Cpu,     \* the CPUs
          NoCpu    \* stands for "nobody"

VARIABLE holder    \* the CPU that has the lock, or NoCpu

Init == holder = NoCpu

Acquire(c) == holder = NoCpu /\ holder' = c

Release(c) == holder = c /\ holder' = NoCpu

Next == \E c \in Cpu : Acquire(c) \/ Release(c)

Spec == Init /\ [][Next]_holder
=============================================================================
