----------------------------- MODULE LifeCycle -----------------------------
(***************************************************************************)
(* What the kernel promises about the life of an environment (inc/env.h,   *)
(* kern/env.c, kern/sched.c): from its creation to its end it is stopped,  *)
(* waiting for a message, ready, or on exactly one CPU, where it runs or,  *)
(* killed by another CPU, dies.  Locks, traps, page directories and the    *)
(* free list are not visible here; every step is one atomic change.        *)
(***************************************************************************)
CONSTANTS Cpu,     \* the CPUs
          Env,     \* the places for environments
          None     \* stands for "no environment"

VARIABLES life,    \* where each environment is in its life
          on       \* the environment each CPU executes, or None

vars == <<life, on>>

\* The environment on CPU c executes: it may ask the kernel for something.
Executes(c) == on[c] # None /\ life[on[c]] = "running"

Move(e, l) == life' = [life EXCEPT ![e] = l]

Leave(c) == on' = [on EXCEPT ![c] = None]

Init == /\ life \in [Env -> {"none", "ready"}]
        /\ on = [c \in Cpu |-> None]

-----------------------------------------------------------------------------
\* CPU c turns to a ready environment; the one it leaves becomes ready.
Dispatch(c, e) ==
  /\ life[e] = "ready"
  /\ on[c] # None => Executes(c)
  /\ life' = [f \in Env |-> CASE f = e -> "running"
                              [] f # e /\ f = on[c] -> "ready"
                              [] f # e /\ f # on[c] -> life[f]]
  /\ on' = [on EXCEPT ![c] = e]

\* The environment on CPU c makes a child, which waits to be started.
Create(c, e) ==
  Executes(c) /\ life[e] = "none" /\ Move(e, "stopped") /\ UNCHANGED on

\* It starts or stops one that is in no CPU's hands,
Restatus(c, e) ==
  /\ Executes(c)
  /\ life[e] \in {"stopped", "ready"}
  /\ Move(e, "stopped") \/ Move(e, "ready")
  /\ UNCHANGED on

\* or itself, and leaves the CPU; or waits for a message; or ends.
LeaveFor(c, l) == Executes(c) /\ Move(on[c], l) /\ Leave(c)
StopItself(c) == LeaveFor(c, "stopped") \/ LeaveFor(c, "ready")
Receive(c) == LeaveFor(c, "receiving")
End(c) == LeaveFor(c, "none")

\* It sends a message to an environment that waits for one.
Deliver(c, e) ==
  Executes(c) /\ life[e] = "receiving" /\ Move(e, "ready") /\ UNCHANGED on

\* It kills another one: at once, but for one that is on a CPU.
Kill(c, e) ==
  /\ Executes(c)
  /\ e # on[c]
  /\ \/ life[e] \in {"stopped", "receiving", "ready"} /\ Move(e, "none")
     \/ life[e] = "running" /\ Move(e, "dying")
  /\ UNCHANGED on

\* The CPU of a dying environment, and no other, ends it.
Reap(c) ==
  on[c] # None /\ life[on[c]] = "dying" /\ Move(on[c], "none") /\ Leave(c)

Next == \E c \in Cpu :
          \/ StopItself(c) \/ Receive(c) \/ End(c) \/ Reap(c)
          \/ \E e \in Env : Dispatch(c, e) \/ Create(c, e) \/ Restatus(c, e)
                            \/ Deliver(c, e) \/ Kill(c, e)

Spec == Init /\ [][Next]_vars

\* Each environment that runs or dies is on one CPU, and only such a one is.
OnePlace ==
  \A e \in Env :
    /\ life[e] \in {"running", "dying"} => \E c \in Cpu : on[c] = e
    /\ \A c, d \in Cpu : on[c] = e /\ on[d] = e => c = d /\ life[e] \in {"running", "dying"}
=============================================================================
