------------------------------ MODULE Startup ------------------------------
(***************************************************************************)
(* Multiprocessor start: mp_init in kern/mpconfig.c, boot_aps and mp_main  *)
(* in kern/init.c, kern/mpentry.S, lapic_startap.  The boot CPU starts the *)
(* others one at a time; it passes each its stack in the one variable      *)
(* mpentry_kstack, holding the kernel lock that all of them then want.     *)
(*                                                                         *)
(* It ends where Kernel begins: a CPU that has scheduled runs user code,   *)
(* traps, takes the lock and schedules again.                              *)
(***************************************************************************)
EXTENDS Integers

CONSTANTS NPROC,      \* processors in the MP configuration table
          NCPU,       \* the most that the kernel uses
          BootCpus,   \* where in the table the boot processor may be
          Nobody

Processor == 0 .. NPROC - 1

\* mp_init has no place in cpus[] for a boot processor beyond the first NCPU.
ASSUME CountAssumption == NPROC \in Nat \ {0} /\ NCPU \in Nat \ {0}
ASSUME BootAssumption == BootCpus \subseteq {c \in Processor : c < NCPU}
ASSUME NobodyAssumption == Nobody \notin Int

VARIABLES bootcpu,   \* the boot processor, also its index in the table
          ncpu,      \* how many CPUs are used
          next,      \* the loop variable of boot_aps
          kstack,    \* mpentry_kstack: the owner of the stack it points to
          started,   \* the CPUs whose cpu_status is CPU_STARTED
          tss,       \* the owner of the stack that a CPU's traps go to
          place,     \* where each CPU is
          stack,     \* the owner of the kernel stack it is on
          holder,    \* of the kernel lock
          created,   \* the idle environments exist
          alive      \* some other environment is ENV_RUNNABLE or ENV_RUNNING

startvars == <<bootcpu, ncpu, next, kstack, started, tss, place, stack, holder, created, alive>>

BootStack == -1
Places == {"trap_init", "mp_init", "init_lock",    \* i386_init
           "loop", "startap", "wait", "create",    \* boot_aps, and i386_init again
           "halted", "mpentry", "mp_main", "mp_lock",
           "sched", "monitor", "run",              \* sched_yield, and env_run(curenv)
           "user", "trap"}

StartTypeOK ==
  /\ bootcpu \in BootCpus /\ ncpu \in 0 .. NCPU /\ next \in 0 .. NCPU
  /\ kstack \in Processor \cup {Nobody}
  /\ started \subseteq Processor
  /\ tss \in [Processor -> Processor \cup {Nobody}]
  /\ place \in [Processor -> Places]
  /\ stack \in [Processor -> Processor \cup {BootStack, Nobody}]
  /\ holder \in Processor \cup {Nobody}
  /\ created \in BOOLEAN /\ alive \in BOOLEAN

StartInit ==
  /\ bootcpu \in BootCpus
  /\ ncpu = 0 /\ next = 0
  /\ kstack = Nobody
  /\ started = {}
  /\ tss = [c \in Processor |-> Nobody]
  /\ place = [c \in Processor |-> IF c = bootcpu THEN "trap_init" ELSE "halted"]
  /\ stack = [c \in Processor |-> IF c = bootcpu THEN BootStack ELSE Nobody]
  /\ holder = Nobody
  /\ created = FALSE /\ alive = FALSE

Proceed(c, label) == place' = [place EXCEPT ![c] = label]

\* cpunum(): until mp_init has found the local APIC it is 0, whoever asks.
CpuNum(c) == IF place[bootcpu] \in {"trap_init", "mp_init"} THEN 0 ELSE c

\* trap_init_percpu: traps of the CPU go to the stack of the CPU it takes itself
\* for, through the TSS of that CPU.
TrapInitPercpu(c) == tss' = [tss EXCEPT ![c] = CpuNum(c)]

-----------------------------------------------------------------------------
(* The boot CPU                                                            *)

TrapInit == /\ place[bootcpu] = "trap_init"
            /\ TrapInitPercpu(bootcpu)
            /\ Proceed(bootcpu, "mp_init")
            /\ UNCHANGED <<bootcpu, ncpu, next, kstack, started, stack, holder, created, alive>>

\* The entries of the table that get a place in cpus[].
CpusUsed == IF NPROC < NCPU THEN NPROC ELSE NCPU

MpInit == /\ place[bootcpu] = "mp_init"
          /\ ncpu' = CpusUsed
          /\ started' = {bootcpu}
          /\ Proceed(bootcpu, "init_lock")
          /\ UNCHANGED <<bootcpu, next, kstack, tss, stack, holder, created, alive>>

\* Mutant: the lock is not taken before the others are started.
InitLock_Left == /\ place[bootcpu] = "init_lock"
                 /\ Proceed(bootcpu, "loop")
                 /\ UNCHANGED <<bootcpu, ncpu, next, kstack, started, tss, stack, holder, created, alive>>

\* init.c:54
InitLock == /\ place[bootcpu] = "init_lock" /\ holder = Nobody
            /\ holder' = bootcpu
            /\ Proceed(bootcpu, "loop")
            /\ UNCHANGED <<bootcpu, ncpu, next, kstack, started, tss, stack, created, alive>>

\* The head of the loop of boot_aps: itself it skips.
Loop ==
  /\ place[bootcpu] = "loop"
  /\ IF next >= ncpu
     THEN Proceed(bootcpu, "create") /\ UNCHANGED <<next, kstack>>
     ELSE IF next = bootcpu
     THEN next' = next + 1 /\ UNCHANGED <<place, kstack>>
     ELSE kstack' = next /\ Proceed(bootcpu, "startap") /\ UNCHANGED next
  /\ UNCHANGED <<bootcpu, ncpu, started, tss, stack, holder, created, alive>>

\* lapic_startap.  The second STARTUP finds the CPU running and is ignored.
StartAp == /\ place[bootcpu] = "startap"
           /\ place' = [place EXCEPT ![bootcpu] = "wait", ![next] = "mpentry"]
           /\ UNCHANGED <<bootcpu, ncpu, next, kstack, started, tss, stack, holder, created, alive>>

\* Mutant: it does not wait.
IsUp_Assumed(c) == TRUE

\* The condition that ends the wait (init.c:107).
IsUp(c) == c \in started

WaitForAp == /\ place[bootcpu] = "wait" /\ IsUp(next)
             /\ next' = next + 1
             /\ Proceed(bootcpu, "loop")
             /\ UNCHANGED <<bootcpu, ncpu, kstack, started, tss, stack, holder, created, alive>>

\* ENV_CREATE of the idle environments and of the others, then sched_yield.
CreateEnvs == /\ place[bootcpu] = "create"
              /\ created' = TRUE /\ alive' = TRUE
              /\ Proceed(bootcpu, "sched")
              /\ UNCHANGED <<bootcpu, ncpu, next, kstack, started, tss, stack, holder>>

-----------------------------------------------------------------------------
(* The others                                                              *)

\* mpentry.S: real mode, paging, and the stack from mpentry_kstack.
MpEntry(c) == /\ place[c] = "mpentry"
              /\ stack' = [stack EXCEPT ![c] = kstack]
              /\ Proceed(c, "mp_main")
              /\ UNCHANGED <<bootcpu, ncpu, next, kstack, started, tss, holder, created, alive>>

\* Mutant: a CPU takes the lock before it says that it is up.
MpMain_LocksFirst(c) == /\ place[c] = "mp_main" /\ holder = Nobody
                        /\ holder' = c
                        /\ TrapInitPercpu(c)
                        /\ started' = started \cup {c}
                        /\ Proceed(c, "sched")
                        /\ UNCHANGED <<bootcpu, ncpu, next, kstack, stack, created, alive>>

\* mp_main up to the xchg: kern_pgdir, lapic_init, env_init_percpu, and
\* trap_init_percpu with the stack of this CPU.
MpMain(c) == /\ place[c] = "mp_main"
             /\ TrapInitPercpu(c)
             /\ started' = started \cup {c}
             /\ Proceed(c, "mp_lock")
             /\ UNCHANGED <<bootcpu, ncpu, next, kstack, stack, holder, created, alive>>

MpLock(c) == /\ place[c] = "mp_lock" /\ holder = Nobody
             /\ holder' = c
             /\ Proceed(c, "sched")
             /\ UNCHANGED <<bootcpu, ncpu, next, kstack, started, tss, stack, created, alive>>

-----------------------------------------------------------------------------
(* All of them, once they schedule                                         *)

\* env_run: unlock_kernel, and the CPU leaves the kernel stack.
EnvRun(c) == /\ holder' = Nobody
             /\ stack' = [stack EXCEPT ![c] = Nobody]
             /\ Proceed(c, "user")
             /\ UNCHANGED <<bootcpu, ncpu, next, kstack, started, tss, created, alive>>

\* sched_yield finds a user environment, or runs the idle one while another CPU
\* has one.
SchedYield(c) == place[c] = "sched" /\ alive /\ EnvRun(c)

\* "No more runnable environments!": the CPU stays in the monitor, with the lock.
SchedMonitor(c) == /\ place[c] = "sched" /\ ~alive
                   /\ Proceed(c, "monitor")
                   /\ UNCHANGED <<bootcpu, ncpu, next, kstack, started, tss, stack, holder, created, alive>>

\* Any trap goes to the stack that the TSS names.
Trap(c) == /\ place[c] = "user"
           /\ stack' = [stack EXCEPT ![c] = tss[c]]
           /\ Proceed(c, "trap")
           /\ UNCHANGED <<bootcpu, ncpu, next, kstack, started, tss, holder, created, alive>>

\* The rest of trap: it may end the last user environment, and it ends in
\* sched_yield or in env_run(curenv), the idle environment included.
TrapLock(c) == /\ place[c] = "trap" /\ holder = Nobody
               /\ holder' = c
               /\ alive' \in {alive, FALSE}
               /\ \E label \in {"sched", "run"} : Proceed(c, label)
               /\ UNCHANGED <<bootcpu, ncpu, next, kstack, started, tss, stack, created>>

TrapReturn(c) == place[c] = "run" /\ EnvRun(c)

Boot == TrapInit \/ MpInit \/ InitLock \/ Loop \/ StartAp \/ WaitForAp \/ CreateEnvs
Start(c) == MpEntry(c) \/ MpMain(c)
Leave(c) == SchedYield(c) \/ SchedMonitor(c) \/ TrapReturn(c)
StartNext == \/ Boot
             \/ \E c \in Processor : Start(c) \/ MpLock(c) \/ Leave(c) \/ Trap(c) \/ TrapLock(c)

StartSpec == StartInit /\ [][StartNext]_startvars

\* CPUs run: each one takes its next step.  Nobody queues for the lock, but a
\* lock that is free again and again is in the end taken by those in mp_main,
\* each of which takes it there once.
StartFairness ==
  /\ \A c \in Processor : WF_startvars((c = bootcpu /\ Boot) \/ Start(c) \/ Leave(c))
  /\ SF_startvars(\E c \in Processor : MpLock(c))

-----------------------------------------------------------------------------
\* Two CPUs in the kernel are never on one stack, although all of them are told
\* their stack in one variable and nobody tells the boot CPU when it was read:
\* "Boot each AP one at a time" (init.c:96), each on the stack of its own index
\* ("percpu_kstacks[i]", pmap.c:278).  It takes the boot processor to be entry 0
\* of the table: any other has the TSS, and with it the stack, of CPU 0.
OwnStack == \A c, d \in Processor : c # d /\ stack[c] # Nobody => stack[c] # stack[d]

\* Nobody is in the scheduler before the idle environments exist: the panic of
\* sched.c:77 would be the result.  "Acquire the big kernel lock before waking up
\* APs" (init.c:51).
EnvsFirst == \A c \in Processor : place[c] = "sched" => created /\ holder = c

\* The boot CPU waits for every other one, which in turn wants the lock that the
\* boot CPU holds: each of them gets to user code all the same, unless a CPU that
\* found all programs gone is in the monitor before (sched.c:60-73).
EveryCpuRuns == \A c \in Processor : c < CpusUsed =>
                   <>(place[c] = "user" \/ \E d \in Processor : place[d] = "monitor")
=============================================================================
