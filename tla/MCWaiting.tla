----------------------------- MODULE MCWaiting -----------------------------
\* Small instances of three parts in which some wait for others, for TLC: each
\* initial state is one of the spin lock, of the start of the CPUs or of message
\* passing.  The other parts rest meanwhile: no CPU is in the lock's functions,
\* all CPUs are in user code, all environments run their own code.
EXTENDS SpinLock, Startup, Ipc

VARIABLE part

NoLock == LockInit
NoStart == /\ bootcpu = 0 /\ ncpu = 0 /\ next = 0 /\ kstack = Nobody /\ started = {}
           /\ tss = <<>> /\ place = [c \in Processor |-> "user"] /\ stack = [c \in Processor |-> Nobody]
           /\ holder = Nobody /\ created = FALSE /\ alive = FALSE
NoIpc == Init /\ page = [e \in Env |-> None]

WaitingInit == \/ part = "lock" /\ LockInit /\ NoStart /\ NoIpc
               \/ part = "start" /\ StartInit /\ NoLock /\ NoIpc
               \/ part = "ipc" /\ Init /\ NoLock /\ NoStart

WaitingNext ==
  /\ UNCHANGED part
  /\ \/ part = "lock" /\ LockNext /\ UNCHANGED <<startvars, vars>>
     \/ part = "start" /\ StartNext /\ UNCHANGED <<lockvars, vars>>
     \/ part = "ipc" /\ Next /\ UNCHANGED <<lockvars, startvars>>

WaitingSpec == /\ WaitingInit /\ [][WaitingNext]_<<part, lockvars, startvars, vars>>
               /\ LockFairness /\ StartFairness /\ Fairness
=============================================================================
