------------------------------- MODULE Kernel -------------------------------
(***************************************************************************)
(* Environments, scheduling and traps of the lab 4 kernel on several CPUs: *)
(* kern/env.c, kern/sched.c, kern/trap.c, the environment and IPC calls of *)
(* kern/syscall.c, from init.c:76 on, when the idle environments and one   *)
(* user environment exist and every CPU is about to enter the scheduler.   *)
(*                                                                         *)
(* A CPU runs user code without the big kernel lock, traps, spins for the  *)
(* lock, handles the trap, and leaves through env_run, which releases the  *)
(* lock before it loads the page directory of the environment it enters    *)
(* (env.c:642-646).  Other CPUs move in every step that does not need the  *)
(* lock.  An environment is named by its index in envs[]; an id is the     *)
(* generation and the index, and <<0, 0>> is the id 0.                     *)
(***************************************************************************)
EXTENDS Integers, Sequences, FiniteSets

CONSTANTS ncpu,     \* CPUs that run (kern/mpconfig.c)
          NCPU,     \* idle environments created (init.c:61)
          NENV,     \* slots of envs[]
          MaxGen,   \* the last generation before the id turns negative
          None,     \* NULL, kern_pgdir, or nobody
          RestatusAny,   \* which calls programs make (MayRestatus, MayDestroy
          DestroyTwice,  \* and MayReceive): the kernel lets them make any
          RecvUnaligned

Cpu == 0 .. ncpu - 1
Env == 0 .. NENV - 1

ASSUME SizeAssumption == /\ ncpu \in Nat /\ NCPU \in Nat /\ NENV \in Nat
                         /\ 0 < ncpu /\ ncpu <= NCPU /\ NCPU < NENV
ASSUME GenAssumption == MaxGen \in Nat \ {0}
ASSUME NoneAssumption == None \notin Int
ASSUME DisciplineAssumption == {RestatusAny, DestroyTwice, RecvUnaligned} \subseteq BOOLEAN

VARIABLES status,          \* envs[e].env_status
          env_type,        \* envs[e].env_type
          env_gen,         \* the generation in envs[e].env_id, 0 before the first use
          env_parent_id,   \* envs[e].env_parent_id
          ipc_recving,     \* envs[e].env_ipc_recving
          env_free_list,   \* the list through env_link, head first
          curenv,          \* cpus[c].cpu_env
          cr3,             \* the id of the environment whose directory CPU c uses
          kernel_lock,     \* the CPU that has the big lock
          pc               \* where CPU c is

envVars == <<status, env_type, env_gen, env_parent_id, ipc_recving, env_free_list>>
vars == <<status, env_type, env_gen, env_parent_id, ipc_recving, env_free_list,
          curenv, cr3, kernel_lock, pc>>

Status == {"FREE", "DYING", "RUNNABLE", "RUNNING", "NOT_RUNNABLE"}
EnvId == (0 .. MaxGen) \X Env
Id(e) == <<env_gen[e], e>>

PC == {"boot",     \* mp_main, init.c:133: lock_kernel, then the scheduler
       "user",     \* user code of curenv
       "spin",     \* trap, trap.c:338: lock_kernel
       "trap",     \* trap.c:341: curenv dying?  If not, trap_dispatch
       "return",   \* trap.c:366: back to curenv?
       "sched",    \* sched_yield
       "lcr3",     \* env_run, env.c:644: lock released, old directory loaded
       "monitor",  \* sched.c:71: no more runnable environments, lock kept
       "panic"}

TypeOK == /\ status \in [Env -> Status]
          /\ env_type \in [Env -> {"USER", "IDLE"}]
          /\ env_gen \in [Env -> 0 .. MaxGen]
          /\ env_parent_id \in [Env -> EnvId]
          /\ ipc_recving \in [Env -> BOOLEAN]
          /\ env_free_list \in Seq(Env)
          /\ curenv \in [Cpu -> Env \cup {None}]
          /\ cr3 \in [Cpu -> EnvId \cup {None}]
          /\ kernel_lock \in Cpu \cup {None}
          /\ pc \in [Cpu -> PC]

\* env_init, then the ENV_CREATEs of i386_init: the slots are taken in order
\* from the free list, the idle environments first.  CPU 0 has the lock and
\* still uses the directory of the environment it loaded last (env.c:426).
Init == /\ status = [e \in Env |-> IF e <= NCPU THEN "RUNNABLE" ELSE "FREE"]
        /\ env_type = [e \in Env |-> IF e < NCPU THEN "IDLE" ELSE "USER"]
        /\ env_gen = [e \in Env |-> IF e <= NCPU THEN 1 ELSE 0]
        /\ env_parent_id = [e \in Env |-> <<0, 0>>]
        /\ ipc_recving = [e \in Env |-> FALSE]
        /\ env_free_list = [i \in 1 .. NENV - NCPU - 1 |-> NCPU + i]
        /\ curenv = [c \in Cpu |-> None]
        /\ cr3 = [c \in Cpu |-> IF c = 0 THEN <<1, NCPU>> ELSE None]
        /\ kernel_lock = 0
        /\ pc = [c \in Cpu |-> IF c = 0 THEN "sched" ELSE "boot"]

Goto(c, label) == pc' = [pc EXCEPT ![c] = label]

-----------------------------------------------------------------------------
(* Entering the kernel and leaving it                                      *)

\* A trap from user mode: interrupt, fault or system call.  trap() asserts
\* curenv before it asks for the lock, and a CPU that traps after a panic halts.
TrapFromUser(c) ==
  /\ pc[c] = "user"
  /\ \A d \in Cpu : pc[d] # "panic"
  /\ Goto(c, IF curenv[c] = None THEN "panic" ELSE "spin")
  /\ UNCHANGED <<envVars, curenv, cr3, kernel_lock>>

\* lock_kernel in trap and in mp_main.  A CPU that has the lock already
\* would panic in spin_lock.
LockKernel(c) ==
  /\ pc[c] \in {"spin", "boot"}
  /\ kernel_lock \in {None, c}
  /\ kernel_lock' = c
  /\ Goto(c, CASE kernel_lock = c -> "panic"
               [] kernel_lock # c /\ pc[c] = "spin" -> "trap"
               [] kernel_lock # c /\ pc[c] = "boot" -> "sched")
  /\ UNCHANGED <<envVars, curenv, cr3>>

\* Mutant: the environment that leaves the CPU stays RUNNING.
EnvRun_PrevStays(c, e) ==
  /\ status' = [status EXCEPT ![e] = "RUNNING"]
  /\ curenv' = [curenv EXCEPT ![c] = e]
  /\ kernel_lock' = IF kernel_lock = c THEN None ELSE kernel_lock
  /\ Goto(c, IF kernel_lock = c THEN "lcr3" ELSE "panic")
  /\ UNCHANGED <<env_type, env_gen, env_parent_id, ipc_recving, env_free_list, cr3>>

\* env_run(e), up to unlock_kernel, which panics on a CPU without the lock.
EnvRun(c, e) ==
  /\ status' = [f \in Env |->
                  IF f = e THEN "RUNNING"
                  ELSE IF f = curenv[c] /\ status[f] = "RUNNING" THEN "RUNNABLE"
                  ELSE status[f]]
  /\ curenv' = [curenv EXCEPT ![c] = e]
  /\ kernel_lock' = IF kernel_lock = c THEN None ELSE kernel_lock
  /\ Goto(c, IF kernel_lock = c THEN "lcr3" ELSE "panic")
  /\ UNCHANGED <<env_type, env_gen, env_parent_id, ipc_recving, env_free_list, cr3>>

\* Mutant: the directory is not switched.
LoadCr3_Skipped(c) ==
  /\ pc[c] = "lcr3"
  /\ Goto(c, "user")
  /\ UNCHANGED <<envVars, curenv, kernel_lock, cr3>>

\* The rest of env_run: lcr3 and env_pop_tf.  The directory of a freed
\* environment is NULL (env.c:540), and PADDR(NULL) panics.
LoadCr3(c) ==
  /\ pc[c] = "lcr3"
  /\ IF status[curenv[c]] = "FREE"
     THEN Goto(c, "panic") /\ UNCHANGED cr3
     ELSE Goto(c, "user") /\ cr3' = [cr3 EXCEPT ![c] = Id(curenv[c])]
  /\ UNCHANGED <<envVars, curenv, kernel_lock>>

-----------------------------------------------------------------------------
(* The scheduler                                                           *)

\* Mutant: a running environment is good enough.
Ready_Running(e) == env_type[e] = "USER" /\ status[e] \in {"RUNNABLE", "RUNNING"}

\* The environments the search of sched.c:42 is for.
Ready(e) == env_type[e] = "USER" /\ status[e] = "RUNNABLE"

\* Mutant: the search always starts at the first slot.
LastId_First(c) == 0

\* Where the search starts: the environment this CPU ran last, if it has one.
LastId(c) == IF curenv[c] = None THEN 0 ELSE curenv[c]

\* The place of e in the circular search that starts just after `last'.
Distance(e, last) == (e - last - 1 + NENV) % NENV

\* e is the environment the loop of sched.c:40 stops at.
Found(c, e) ==
  /\ e # LastId(c) /\ Ready(e)
  /\ \A f \in Env \ {LastId(c)} :
        Ready(f) => Distance(e, LastId(c)) <= Distance(f, LastId(c))

NoneFound(c) == \A e \in Env \ {LastId(c)} : ~Ready(e)

\* sched.c:49: the search came back to curenv, and it is RUNNABLE.
StayOnCurenv(c) ==
  NoneFound(c) /\ curenv[c] # None /\ status[LastId(c)] = "RUNNABLE"

\* sched.c:63-67
SomeUserAlive ==
  \E e \in Env : env_type[e] = "USER" /\ status[e] \in {"RUNNABLE", "RUNNING"}

SchedNext(c) == /\ pc[c] = "sched"
                /\ \E e \in Env : Found(c, e) /\ EnvRun(c, e)

SchedCurenv(c) == /\ pc[c] = "sched"
                  /\ StayOnCurenv(c)
                  /\ EnvRun(c, curenv[c])

\* sched.c:69-73: while (1) monitor(NULL), with the lock.
SchedMonitor(c) == /\ pc[c] = "sched"
                   /\ NoneFound(c) /\ ~StayOnCurenv(c) /\ ~SomeUserAlive
                   /\ Goto(c, "monitor")
                   /\ UNCHANGED <<envVars, curenv, cr3, kernel_lock>>

\* sched.c:76-79: the CPU's own idle environment, or the panic.
SchedIdle(c) == /\ pc[c] = "sched"
                /\ NoneFound(c) /\ ~StayOnCurenv(c) /\ SomeUserAlive
                /\ IF status[c] \in {"RUNNABLE", "RUNNING"}
                   THEN EnvRun(c, c)
                   ELSE Goto(c, "panic") /\ UNCHANGED <<envVars, curenv, cr3, kernel_lock>>

-----------------------------------------------------------------------------
(* Allocating and freeing environments                                     *)

\* env.c:257-259: the generation after g; a negative id starts again at 1.
NextGen(g) == IF g = MaxGen THEN 1 ELSE g + 1

\* Mutant: the slot stays on the free list.
EnvAlloc_KeepsSlot(parent) ==
  LET e == Head(env_free_list)
  IN /\ env_gen' = [env_gen EXCEPT ![e] = NextGen(@)]
     /\ env_parent_id' = [env_parent_id EXCEPT ![e] = parent]
     /\ env_type' = [env_type EXCEPT ![e] = "USER"]
     /\ ipc_recving' = [ipc_recving EXCEPT ![e] = FALSE]
     /\ UNCHANGED env_free_list

\* env_alloc(&e, parent) once env_setup_vm succeeded, its status apart.
EnvAlloc(parent) ==
  LET e == Head(env_free_list)
  IN /\ env_gen' = [env_gen EXCEPT ![e] = NextGen(@)]
     /\ env_parent_id' = [env_parent_id EXCEPT ![e] = parent]
     /\ env_type' = [env_type EXCEPT ![e] = "USER"]
     /\ ipc_recving' = [ipc_recving EXCEPT ![e] = FALSE]
     /\ env_free_list' = Tail(env_free_list)

\* env_free(e) on CPU c, which leaves e's directory first if e is its curenv.
EnvFree(c, e) ==
  /\ status' = [status EXCEPT ![e] = "FREE"]
  /\ env_free_list' = <<e>> \o env_free_list
  /\ cr3' = IF e = curenv[c] THEN [cr3 EXCEPT ![c] = None] ELSE cr3
  /\ UNCHANGED <<env_type, env_gen, env_parent_id, ipc_recving>>

\* Mutant: an environment running on another CPU is freed at once.
EnvDestroy_NoZombie(c, e) ==
  /\ EnvFree(c, e)
  /\ curenv' = [curenv EXCEPT ![c] = IF @ = e THEN None ELSE @]
  /\ Goto(c, IF e = curenv[c] THEN "sched" ELSE "return")
  /\ UNCHANGED kernel_lock

\* env_destroy(e) on CPU c: a zombie if e runs on another CPU, freed if not.
EnvDestroy(c, e) ==
  /\ IF status[e] = "RUNNING" /\ curenv[c] # e
     THEN /\ status' = [status EXCEPT ![e] = "DYING"]
          /\ UNCHANGED <<env_type, env_gen, env_parent_id, ipc_recving, env_free_list, cr3>>
     ELSE EnvFree(c, e)
  /\ curenv' = [curenv EXCEPT ![c] = IF @ = e THEN None ELSE @]
  /\ Goto(c, IF e = curenv[c] THEN "sched" ELSE "return")
  /\ UNCHANGED kernel_lock

\* Mutant: envid2env trusts the index alone and finds freed environments too.
Resolve_NoFreeCheck(c, id, e, checkperm) ==
  IF id = <<0, 0>> THEN e = curenv[c]
  ELSE e = id[2] /\ (checkperm => e = curenv[c] \/ env_parent_id[e] = Id(curenv[c]))

\* envid2env(id, &e, checkperm) on CPU c succeeds with e.
Resolve(c, id, e, checkperm) ==
  IF id = <<0, 0>> THEN e = curenv[c]
  ELSE /\ e = id[2] /\ status[e] # "FREE" /\ Id(e) = id
       /\ checkperm => e = curenv[c] \/ env_parent_id[e] = Id(curenv[c])

-----------------------------------------------------------------------------
(* Traps: CPU c has the lock and came from user code of curenv[c]          *)

\* trap.c:341-345: the current environment was destroyed by another CPU.
ReapZombie(c) ==
  /\ pc[c] = "trap"
  /\ status[curenv[c]] = "DYING"
  /\ EnvFree(c, curenv[c])
  /\ curenv' = [curenv EXCEPT ![c] = None]
  /\ Goto(c, "sched")
  /\ UNCHANGED kernel_lock

\* Mutant: zombies are not noticed on the way in.
Dispatching_Zombies(c) == pc[c] = "trap"

\* The trap is dispatched (trap.c:360).
Dispatching(c) == pc[c] = "trap" /\ status[curenv[c]] # "DYING"

\* Idle environments run user/idle.c, which does nothing but yield.
UserTrap(c) == Dispatching(c) /\ env_type[curenv[c]] = "USER"

\* The clock interrupt, or sys_yield.
Yield(c) == /\ Dispatching(c)
            /\ Goto(c, "sched")
            /\ UNCHANGED <<envVars, curenv, cr3, kernel_lock>>

\* A trap that changes nothing here: another interrupt, a call that only
\* reads or fails (also sys_exofork without memory or slot), a page call.
ReturnUnchanged(c) == /\ Dispatching(c)
                      /\ Goto(c, "return")
                      /\ UNCHANGED <<envVars, curenv, cr3, kernel_lock>>

\* page_fault_handler with an upcall: env_run(curenv), whatever its status.
PageFaultUpcall(c) == UserTrap(c) /\ EnvRun(c, curenv[c])

\* A fault without upcall, a bad pointer (user_mem_assert), another exception.
FaultDestroy(c) == UserTrap(c) /\ EnvDestroy(c, curenv[c])

SysExofork(c) ==
  /\ UserTrap(c)
  /\ env_free_list # << >>
  /\ EnvAlloc(Id(curenv[c]))
  /\ status' = [status EXCEPT ![Head(env_free_list)] = "NOT_RUNNABLE"]
  /\ Goto(c, "return")
  /\ UNCHANGED <<curenv, cr3, kernel_lock>>

\* Whatever the status of e is: also a zombie is destroyed once more.
SysEnvDestroy(c, e) ==
  /\ UserTrap(c)
  /\ \E id \in EnvId : Resolve(c, id, e, TRUE)
  /\ EnvDestroy(c, e)

\* Overwrites the status of e, whatever that is.
SysEnvSetStatus(c, e, s) ==
  /\ UserTrap(c)
  /\ \E id \in EnvId : Resolve(c, id, e, TRUE)
  /\ status' = [status EXCEPT ![e] = s]
  /\ Goto(c, "return")
  /\ UNCHANGED <<env_type, env_gen, env_parent_id, ipc_recving, env_free_list,
                 curenv, cr3, kernel_lock>>

\* Mutant: env_ipc_recving is not reset.
SysIpcTrySend_KeepsRecving(c) ==
  /\ UserTrap(c)
  /\ \E id \in EnvId, e \in Env :
       /\ Resolve(c, id, e, FALSE)
       /\ ipc_recving[e]
       /\ status' = [status EXCEPT ![e] = "RUNNABLE"]
  /\ Goto(c, "return")
  /\ UNCHANGED <<env_type, env_gen, env_parent_id, ipc_recving, env_free_list,
                 curenv, cr3, kernel_lock>>

\* sys_ipc_try_send that succeeds: the receiver becomes runnable.
SysIpcTrySend(c) ==
  /\ UserTrap(c)
  /\ \E id \in EnvId, e \in Env :
       /\ Resolve(c, id, e, FALSE)
       /\ ipc_recving[e]
       /\ status' = [status EXCEPT ![e] = "RUNNABLE"]
       /\ ipc_recving' = [ipc_recving EXCEPT ![e] = FALSE]
  /\ Goto(c, "return")
  /\ UNCHANGED <<env_type, env_gen, env_parent_id, env_free_list, curenv, cr3, kernel_lock>>

\* sys_ipc_recv: sleeps and never returns, for its only return, the one for an
\* address that is not aligned, runs into the panic of syscall.c:573.
SysIpcRecv(c, aligned) ==
  /\ UserTrap(c)
  /\ ipc_recving' = [ipc_recving EXCEPT ![curenv[c]] = @ \/ aligned]
  /\ status' = [status EXCEPT ![curenv[c]] = IF aligned THEN "NOT_RUNNABLE" ELSE @]
  /\ Goto(c, IF aligned THEN "sched" ELSE "panic")
  /\ UNCHANGED <<env_type, env_gen, env_parent_id, env_free_list, curenv, cr3, kernel_lock>>

\* trap.c:366-369, when the handler returned.
ReturnToCurenv(c) == /\ pc[c] = "return"
                     /\ curenv[c] # None /\ status[curenv[c]] = "RUNNING"
                     /\ EnvRun(c, curenv[c])

ReturnToSched(c) == /\ pc[c] = "return"
                    /\ ~(curenv[c] # None /\ status[curenv[c]] = "RUNNING")
                    /\ Goto(c, "sched")
                    /\ UNCHANGED <<envVars, curenv, cr3, kernel_lock>>

-----------------------------------------------------------------------------
(* What programs ask for.  The kernel tests none of this: the constants say *)
(* whether a program of the instance makes such a call.  None of user/ and  *)
(* lib/ does.                                                               *)

\* The status of another environment is set while that runs, dies or receives.
MayRestatus(c, e) ==
  \/ RestatusAny
  \/ e = curenv[c]
  \/ status[e] \in {"RUNNABLE", "NOT_RUNNABLE"} /\ ~ipc_recving[e]

\* An environment that was destroyed before, and is a zombie, is destroyed again.
MayDestroy(e) == DestroyTwice \/ status[e] # "DYING"

\* A message is received at an address that is not page aligned.
MayReceive(aligned) == RecvUnaligned \/ aligned

-----------------------------------------------------------------------------
Sched(c) == SchedNext(c) \/ SchedCurenv(c) \/ SchedMonitor(c) \/ SchedIdle(c)

Syscall(c) ==
  \/ SysExofork(c)
  \/ \E e \in Env : MayDestroy(e) /\ SysEnvDestroy(c, e)
  \/ \E e \in Env, s \in {"RUNNABLE", "NOT_RUNNABLE"} :
        MayRestatus(c, e) /\ SysEnvSetStatus(c, e, s)
  \/ SysIpcTrySend(c)
  \/ \E aligned \in BOOLEAN : MayReceive(aligned) /\ SysIpcRecv(c, aligned)

Trap(c) == \/ ReapZombie(c) \/ Yield(c) \/ ReturnUnchanged(c)
           \/ PageFaultUpcall(c) \/ FaultDestroy(c) \/ Syscall(c)
           \/ ReturnToCurenv(c) \/ ReturnToSched(c)

CpuStep(c) == TrapFromUser(c) \/ LockKernel(c) \/ LoadCr3(c) \/ Sched(c) \/ Trap(c)

Next == \E c \in Cpu : CpuStep(c)

Spec == Init /\ [][Next]_vars

-----------------------------------------------------------------------------
(* Safety                                                                  *)

Active(e) == status[e] \in {"RUNNING", "DYING"}

\* No environment is the current one of two CPUs ("Never choose an
\* environment that's currently running on another CPU", sched.c:25-27),
\* through yields, wake-ups, status changes and kills by other CPUs.
OneCpuPerEnv == \A c, d \in Cpu :
                   c # d /\ curenv[c] # None => curenv[c] # curenv[d]

\* Running environments and zombies are exactly on some CPU: none is left
\* behind where nobody would preempt or reap it (env.c:557-563), and user code
\* runs only for an environment whose status says so.
ActiveIsCurrent ==
  /\ \A e \in Env : Active(e) => \E c \in Cpu : curenv[c] = e
  /\ \A c \in Cpu : pc[c] \in {"user", "spin", "lcr3"} =>
                       curenv[c] # None /\ Active(curenv[c])

\* The sequence s lists the elements of S, each of them once.
Lists(s, S) == /\ {s[i] : i \in DOMAIN s} = S
               /\ \A i, j \in DOMAIN s : s[i] = s[j] => i = j

\* The free list has every FREE slot exactly once (env.c:300 and 544-546), so
\* no slot is lost and none is handed out twice.
FreeListExact == Lists(env_free_list, {e \in Env : status[e] = "FREE"})

\* Only an environment that sleeps waits for a message: one that was woken,
\* restarted, or put in a recycled slot is not a receiver (syscall.c:461-472,
\* env.c:297), so no message is written into a running environment.
ReceiverSleeps == \A e \in Env : ipc_recving[e] => status[e] \in {"NOT_RUNNABLE", "FREE"}

\* The kernel stops in none of its panics: trap.c:336 (no curenv), spin_lock
\* held twice and spin_unlock not held, sched.c:78 (no idle environment), PADDR
\* of a freed environment's directory at env.c:644, and syscall.c:573.
NoPanic == \A c \in Cpu : pc[c] # "panic"

\* A CPU in the kernel proper has the lock, and the CPU that has it is there.
LockedKernel ==
  \A c \in Cpu : kernel_lock = c <=> pc[c] \in {"trap", "return", "sched", "monitor"}

\* User code of an environment runs on that environment's own directory, and
\* outside the window of env.c:642-644 no CPU uses a directory that was freed.
OwnAddressSpace ==
  /\ \A c \in Cpu : pc[c] \in {"user", "spin", "trap"} => cr3[c] = Id(curenv[c])
  /\ \A c \in Cpu : pc[c] # "lcr3" /\ cr3[c] # None =>
                       \E e \in Env : cr3[c] = Id(e) /\ status[e] # "FREE"

\* The ids that matter are not 0, which nobody's parent id may match.
LiveIds == \A e \in Env : status[e] # "FREE" => env_gen[e] # 0

\* The idle environment of a CPU is there whenever that CPU may need it: it is
\* never blocked, killed or freed, and no other CPU takes it (sched.c:76-78).
IdleKept ==
  /\ \A e \in Env : env_type[e] = IF e < NCPU THEN "IDLE" ELSE "USER"
  /\ \A e \in 0 .. NCPU - 1 : /\ status[e] \in {"RUNNABLE", "RUNNING"}
                             /\ env_parent_id[e] = <<0, 0>>
                             /\ \A c \in Cpu : curenv[c] = e => c = e

\* The current environment of a CPU that has the lock: the trap's own until
\* it is handled, then one that is neither a zombie nor free.
CurenvInKernel ==
  \A c \in Cpu :
    /\ pc[c] = "boot" => curenv[c] = None /\ cr3[c] = None
    /\ pc[c] = "trap" => curenv[c] # None /\ Active(curenv[c])
    /\ pc[c] = "return" => curenv[c] # None
    /\ pc[c] \in {"return", "sched", "monitor"} /\ curenv[c] # None =>
         status[curenv[c]] \in {"RUNNING", "RUNNABLE", "NOT_RUNNABLE"}

\* The inductive invariant: the properties above with what makes each step
\* preserve them (KernelProofs).
KernelInv == /\ TypeOK /\ OneCpuPerEnv /\ ActiveIsCurrent /\ FreeListExact
             /\ ReceiverSleeps /\ NoPanic /\ LockedKernel /\ OwnAddressSpace
             /\ LiveIds /\ IdleKept /\ CurenvInKernel

\* What env.c:506-508 is careful about: no CPU is ever on a freed directory.
NoFreedDirectory ==
  \A c \in Cpu : cr3[c] # None => \E e \in Env : cr3[c] = Id(e) /\ status[e] # "FREE"

-----------------------------------------------------------------------------
(* What a step may do                                                      *)

\* "A zombie environment will be freed the next time it traps to the kernel"
\* (env.c:557-559): the CPU it runs on frees it, in that trap, and nobody before.
ZombieFreedByItsCpu ==
  [][\A e \in Env : status[e] = "DYING" /\ status'[e] # "DYING" =>
        \E c \in Cpu : /\ curenv[c] = e /\ pc[c] = "trap"
                       /\ status'[e] = "FREE" /\ curenv'[c] = None]_vars

\* The life of an environment, read off its slot of envs[].
LifeOf(e) == CASE status[e] = "FREE" -> "none"
               [] status[e] = "NOT_RUNNABLE" /\ ~ipc_recving[e] -> "stopped"
               [] status[e] = "NOT_RUNNABLE" /\ ipc_recving[e] -> "receiving"
               [] status[e] = "RUNNABLE" -> "ready"
               [] status[e] = "RUNNING" -> "running"
               [] status[e] = "DYING" -> "dying"

\* The environment a CPU executes: curenv, once it went to sleep or was made
\* RUNNABLE by its own call, is only what sched_yield searches from.
Executing(c) == IF curenv[c] # None /\ Active(curenv[c]) THEN curenv[c] ELSE None

\* Seen from the programs, the kernel's steps are those of the life cycle, one
\* at a time, although a CPU keeps executing what another one kills, wakes,
\* stops or recycles meanwhile (env.c:560-563, syscall.c:140 and 461-472).
Life == INSTANCE LifeCycle WITH life <- [e \in Env |-> LifeOf(e)],
                                on <- [c \in Cpu |-> Executing(c)]
ImplementsLifeCycle == Life!Spec

-----------------------------------------------------------------------------
(* Liveness                                                                *)

\* A CPU goes on executing, its spin on the lock succeeds some time (the pause
\* of spinlock.h:41-45 is there for that), and its clock keeps interrupting
\* the user code, whatever calls that makes.
Fairness == \A c \in Cpu : /\ WF_vars(CpuStep(c))
                           /\ SF_vars(LockKernel(c))
                           /\ SF_vars(Yield(c))

FairSpec == Spec /\ Fairness

Stopped == \E c \in Cpu : pc[c] = "monitor"

\* "A zombie environment will be freed the next time it traps to the kernel"
\* (env.c:558), unless the kernel has stopped in the monitor before.
ZombieReaped == \A e \in Env : status[e] = "DYING" ~> status[e] = "FREE" \/ Stopped

\* A CPU forgets which environment it ran last: that one ended here.
LosesPlace(c) == curenv[c] # None /\ curenv'[c] = None

\* Round robin: unless CPUs lose their place in the circle again and again, a
\* RUNNABLE user environment gets a CPU or is put to sleep, however many others
\* there are, and whatever they do with each other (sched.c:15-19).
RoundRobin ==
  <>[][\A c \in Cpu : ~LosesPlace(c)]_vars => \A e \in Env : Ready(e) ~> ~Ready(e)

\* "In circular fashion starting just after the env this CPU was last running"
\* (sched.c:17-19): then no RUNNABLE user environment is passed over for ever.
NoStarvation == \A e \in Env : Ready(e) ~> ~Ready(e)
=============================================================================
