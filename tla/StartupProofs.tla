---------------------------- MODULE StartupProofs ----------------------------
(***************************************************************************)
(* The safety of the multiprocessor start, for any number of processors.   *)
(***************************************************************************)
EXTENDS Startup, TLAPS

Booting == {"trap_init", "mp_init", "init_lock", "loop", "startap", "wait", "create"}

\* Who can be where: only the boot CPU boots, and it starts the others in turn.
Order ==
  /\ \A c \in Processor : place[c] \in Booting => c = bootcpu
  /\ place[bootcpu] \notin {"halted", "mpentry", "mp_main", "mp_lock"}
  /\ place[bootcpu] \in {"trap_init", "mp_init"} \/ ncpu = CpusUsed
  /\ place[bootcpu] \in {"trap_init", "mp_init", "init_lock"} => next = 0
  /\ place[bootcpu] \in {"startap", "wait"} => next < ncpu /\ next # bootcpu /\ kstack = next
  /\ \A c \in Processor : c # bootcpu /\ c >= next /\ ~(c = next /\ place[bootcpu] = "wait")
                      => place[c] = "halted"
  /\ \A c \in Processor : place[c] \in {"mpentry", "mp_main"} => c = next /\ place[bootcpu] = "wait"
  /\ \A c \in started : place[c] \notin {"halted", "mpentry", "mp_main"}

\* A CPU is on its own stack or on none, but for the boot CPU, which begins on
\* another one and which traps to the stack of CPU 0, wherever it is in the table.
Stacks ==
  \A c \in Processor :
    /\ \/ tss[c] = c
       \/ c = bootcpu /\ tss[c] = 0
       \/ place[c] \in {"halted", "mpentry", "mp_main", "trap_init"}
    /\ stack[c] \in {Nobody, c} \/ (c = bootcpu /\ stack[c] \in {BootStack, 0})

\* The boot CPU keeps the lock until the idle environments exist; it is kept from
\* the scheduler to env_run, and in the monitor.
Locked ==
  /\ created <=> place[bootcpu] \notin Booting
  /\ place[bootcpu] \in {"loop", "startap", "wait", "create"} => holder = bootcpu
  /\ \A c \in Processor : place[c] \in {"run", "monitor"} => holder = c
  /\ EnvsFirst

StartupInv == StartTypeOK /\ Order /\ Stacks /\ Locked

LEMMA InitStartup == StartInit => StartupInv
<1>. SUFFICES ASSUME StartInit PROVE StartupInv
  OBVIOUS
<1>. USE CountAssumption, BootAssumption, NobodyAssumption DEF StartInit, Processor
<1>1. StartTypeOK
  <2>1. bootcpu \in BootCpus /\ ncpu \in 0 .. NCPU /\ next \in 0 .. NCPU
    OBVIOUS
  <2>2. place \in [Processor -> Places]
    BY DEF Places
  <2>3. tss \in [Processor -> Processor \cup {Nobody}] /\ stack \in [Processor -> Processor \cup {BootStack, Nobody}]
    OBVIOUS
  <2>. QED
    BY <2>1, <2>2, <2>3 DEF StartTypeOK
<1>2. bootcpu \in Processor /\ place[bootcpu] = "trap_init" /\ \A c \in Processor \ {bootcpu} : place[c] = "halted"
  OBVIOUS
<1>3. Order
  BY <1>2 DEF Order, Booting
<1>4. Stacks
  BY <1>2 DEF Stacks
<1>5. Locked
  BY <1>2 DEF Locked, EnvsFirst, Booting
<1>. QED
  BY <1>1, <1>3, <1>4, <1>5 DEF StartupInv

\* The actions of the boot CPU.
LEMMA BootStep == StartupInv /\ Boot => StartupInv'
<1>. SUFFICES ASSUME StartupInv, Boot PROVE StartupInv'
  OBVIOUS
<1>. USE CountAssumption, BootAssumption, NobodyAssumption DEF StartupInv, StartTypeOK, Places, Processor, Proceed, CpusUsed, BootStack
<1>0. CASE TrapInit
  <2>1. StartTypeOK' /\ Order'
    BY <1>0 DEF TrapInit, TrapInitPercpu, CpuNum, Order, Booting
  <2>2. Stacks' /\ Locked'
    BY <1>0 DEF TrapInit, TrapInitPercpu, CpuNum, Order, Stacks, Locked, EnvsFirst, Booting
  <2>. QED
    BY <2>1, <2>2
<1>1. CASE MpInit
  <2>1. StartTypeOK'
    BY <1>1 DEF MpInit
  <2>2. Order'
    BY <1>1 DEF MpInit, Order, Booting
  <2>3. Stacks' /\ Locked'
    BY <1>1 DEF MpInit, Order, Stacks, Locked, EnvsFirst, Booting
  <2>. QED
    BY <2>1, <2>2, <2>3
<1>2. CASE InitLock
  <2>1. StartTypeOK' /\ Order'
    BY <1>2 DEF InitLock, Order, Booting
  <2>2. Stacks' /\ Locked'
    BY <1>2 DEF InitLock, Order, Stacks, Locked, EnvsFirst, Booting
  <2>. QED
    BY <2>1, <2>2
<1>3. CASE Loop
  <2>1. StartTypeOK' /\ Order'
    BY <1>3 DEF Loop, Order, Booting
  <2>2. Stacks' /\ Locked'
    BY <1>3 DEF Loop, Order, Stacks, Locked, EnvsFirst, Booting
  <2>. QED
    BY <2>1, <2>2
<1>4. CASE StartAp
  <2>1. StartTypeOK' /\ Order'
    BY <1>4 DEF StartAp, Order, Booting
  <2>2. Stacks' /\ Locked'
    BY <1>4 DEF StartAp, Order, Stacks, Locked, EnvsFirst, Booting
  <2>. QED
    BY <2>1, <2>2
<1>5. CASE WaitForAp
  <2>1. StartTypeOK' /\ Order'
    BY <1>5 DEF WaitForAp, IsUp, Order, Booting
  <2>2. Stacks' /\ Locked'
    BY <1>5 DEF WaitForAp, Order, Stacks, Locked, EnvsFirst, Booting
  <2>. QED
    BY <2>1, <2>2
<1>6. CASE CreateEnvs
  <2>1. StartTypeOK' /\ Order'
    BY <1>6 DEF CreateEnvs, Order, Booting
  <2>2. Stacks' /\ Locked'
    BY <1>6 DEF CreateEnvs, Order, Stacks, Locked, EnvsFirst, Booting
  <2>. QED
    BY <2>1, <2>2
<1>. QED
  BY <1>0, <1>1, <1>2, <1>3, <1>4, <1>5, <1>6 DEF Boot

\* The actions that every CPU has.
LEMMA CpuStep ==
  ASSUME NEW c \in Processor, StartupInv,
         Start(c) \/ MpLock(c) \/ Leave(c) \/ Trap(c) \/ TrapLock(c)
  PROVE  StartupInv'
<1>. USE CountAssumption, BootAssumption, NobodyAssumption DEF StartupInv, StartTypeOK, Places, Processor, Proceed, CpusUsed, BootStack
<1>1. CASE MpEntry(c)
  <2>1. StartTypeOK' /\ Order'
    BY <1>1 DEF MpEntry, Order, Booting
  <2>2. Stacks' /\ Locked'
    BY <1>1 DEF MpEntry, Order, Stacks, Locked, EnvsFirst, Booting
  <2>. QED
    BY <2>1, <2>2
<1>2. CASE MpMain(c)
  <2>1. StartTypeOK' /\ Order'
    BY <1>2 DEF MpMain, TrapInitPercpu, CpuNum, Order, Booting
  <2>2. Stacks' /\ Locked'
    BY <1>2 DEF MpMain, TrapInitPercpu, CpuNum, Order, Stacks, Locked, EnvsFirst, Booting
  <2>. QED
    BY <2>1, <2>2
<1>3. CASE MpLock(c)
  <2>1. StartTypeOK' /\ Order'
    BY <1>3 DEF MpLock, Order, Booting
  <2>2. Stacks' /\ Locked'
    BY <1>3 DEF MpLock, Order, Stacks, Locked, EnvsFirst, Booting
  <2>. QED
    BY <2>1, <2>2
<1>4. CASE SchedYield(c)
  <2>1. StartTypeOK' /\ Order'
    BY <1>4 DEF SchedYield, EnvRun, Order, Booting
  <2>2. Stacks' /\ Locked'
    BY <1>4 DEF SchedYield, EnvRun, Order, Stacks, Locked, EnvsFirst, Booting
  <2>. QED
    BY <2>1, <2>2
<1>5. CASE Trap(c)
  <2>1. StartTypeOK' /\ Order'
    BY <1>5 DEF Trap, Order, Stacks, Booting
  <2>2. Stacks' /\ Locked'
    BY <1>5 DEF Trap, Order, Stacks, Locked, EnvsFirst, Booting
  <2>. QED
    BY <2>1, <2>2
<1>6. CASE TrapLock(c)
  <2>1. StartTypeOK' /\ Order'
    BY <1>6 DEF TrapLock, Order, Booting
  <2>2. Stacks' /\ Locked'
    BY <1>6 DEF TrapLock, Order, Stacks, Locked, EnvsFirst, Booting
  <2>. QED
    BY <2>1, <2>2
<1>7. CASE SchedMonitor(c)
  <2>1. StartTypeOK' /\ Order'
    BY <1>7 DEF SchedMonitor, Order, Booting
  <2>2. Stacks' /\ Locked'
    BY <1>7 DEF SchedMonitor, Order, Stacks, Locked, EnvsFirst, Booting
  <2>. QED
    BY <2>1, <2>2
<1>8. CASE TrapReturn(c)
  <2>1. StartTypeOK' /\ Order'
    BY <1>8 DEF TrapReturn, EnvRun, Order, Booting
  <2>2. Stacks' /\ Locked'
    BY <1>8 DEF TrapReturn, EnvRun, Order, Stacks, Locked, EnvsFirst, Booting
  <2>. QED
    BY <2>1, <2>2
<1>. QED
  BY <1>1, <1>2, <1>3, <1>4, <1>5, <1>6, <1>7, <1>8 DEF Start, Leave

\* The state of the start is consistent: the others run only after the boot CPU
\* has told them their stack, and the boot CPU has the lock until it is done.
THEOREM StartupInvariant == StartSpec => []StartupInv
<1>1. StartupInv /\ [StartNext]_startvars => StartupInv'
  <2>. SUFFICES ASSUME StartupInv, [StartNext]_startvars PROVE StartupInv'
    OBVIOUS
  <2>1. CASE StartNext
    BY <2>1, BootStep, CpuStep DEF StartNext
  <2>2. CASE UNCHANGED startvars
    BY <2>2 DEF startvars, StartupInv, StartTypeOK, Order, Stacks, Locked, EnvsFirst, CpusUsed
  <2>. QED
    BY <2>1, <2>2
<1>. QED
  BY <1>1, InitStartup, PTL DEF StartSpec

\* Type correctness of the multiprocessor start (boot_aps, mp_main).
THEOREM StartupTypes == StartSpec => []StartTypeOK
<1>1. StartupInv => StartTypeOK
  BY DEF StartupInv
<1>. QED
  BY <1>1, StartupInvariant, PTL

\* If the boot processor is entry 0 of the table, no two CPUs in the kernel are on
\* one stack, although mpentry_kstack is shared and cpunum() is 0 in trap_init.
THEOREM StacksApart == BootCpus = {0} => (StartSpec => []OwnStack)
<1>. SUFFICES ASSUME BootCpus = {0} PROVE StartSpec => []OwnStack
  OBVIOUS
<1>1. StartupInv => OwnStack
  <2>. SUFFICES ASSUME StartupInv, NEW c \in Processor, NEW d \in Processor, c # d, stack[c] # Nobody
               PROVE  stack[c] # stack[d]
    BY DEF OwnStack
  <2>1. bootcpu = 0
    BY DEF StartupInv, StartTypeOK
  <2>2. stack[c] = c \/ (c = bootcpu /\ stack[c] = BootStack)
    BY <2>1 DEF StartupInv, Stacks
  <2>3. stack[d] \in {Nobody, d} \/ (d = bootcpu /\ stack[d] = BootStack)
    BY <2>1 DEF StartupInv, Stacks
  <2>. QED
    BY <2>2, <2>3, NobodyAssumption, CountAssumption DEF Processor, BootStack
<1>. QED
  BY <1>1, StartupInvariant, PTL

\* No CPU is in the scheduler before i386_init has created the idle environments.
THEOREM EnvironmentsFirst == StartSpec => []EnvsFirst
<1>1. StartupInv => EnvsFirst
  BY DEF StartupInv, Locked
<1>. QED
  BY <1>1, StartupInvariant, PTL
=============================================================================
