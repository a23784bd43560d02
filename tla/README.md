# Verification of the lab 4 JOS kernel

This directory holds TLA+ models of the kernel in `src/lab4`, the TLC
configurations that check them on small instances, and TLAPS proofs of what
the models promise for every instance. Labs 1 to 3 are earlier states of the
same single-CPU kernel and are not modelled; lab 4 has the last form of every
part.

## The system

JOS is an exokernel for x86 multiprocessors. One big lock serialises the
kernel; user environments run without it, on any CPU, and are preempted by each
CPU's clock.

| Part | State it keeps | Operations | Talks to |
|---|---|---|---|
| Spin lock (`kern/spinlock.c`) | lock word, owner | `spin_lock`, `spin_unlock`, `holding` | every entry to and exit from the kernel |
| Environments (`kern/env.c`) | `envs[]`: status, id, parent, type; `env_free_list`; `curenv` and CR3 per CPU | `env_alloc`, `env_free`, `env_destroy`, `env_run`, `envid2env` | page tables, scheduler, system calls |
| Scheduler (`kern/sched.c`) | none of its own | `sched_yield` | `envs[]`, `env_run`, the monitor |
| Traps (`kern/trap.c`) | trap frame of `curenv` | `trap`, `trap_dispatch`, `page_fault_handler` | the lock, system calls, scheduler |
| Environment and IPC calls (`kern/syscall.c`) | IPC fields of `struct Env` | `sys_exofork`, `sys_env_destroy`, `sys_env_set_status`, `sys_ipc_recv`, `sys_ipc_try_send`, `sys_yield` | environments, scheduler |
| Start of memory (`kern/pmap.c`) | `nextfree`, `page_free_list`, `kern_pgdir` | `boot_alloc`, `mem_init`, `page_init`, `boot_map_region`, the self tests | entry page directory, all address spaces |
| Page allocator, page tables (`kern/pmap.c`) | `page_free_list`, `pp_ref`, directories and tables, TLBs | `page_alloc`, `page_free`, `page_decref`, `pgdir_walk`, `page_insert`, `page_lookup`, `page_remove`, `tlb_invalidate` | every address space |
| Page calls (`kern/syscall.c`) | none of their own | `sys_page_alloc`, `sys_page_map`, `sys_page_unmap` | environments, page tables |
| User memory checks (`kern/pmap.c`) | `user_mem_check_addr` | `user_mem_check`, `user_mem_assert` | page tables, `env_destroy` |
| Copy-on-write fork (`lib/fork.c`) | the PTE_COW bit of user entries | `fork`, `duppage`, `pgfault` | page calls, upcall |
| Page-fault upcall (`kern/trap.c`, `lib/pfentry.S`) | the user exception stack | push of the frame, return from it | trap, fork |
| IPC library (`lib/ipc.c`) | none | `ipc_send` (retries), `ipc_recv` | IPC calls |
| Multiprocessor start (`kern/init.c`) | `cpu_status`, `mpentry_kstack` | `mp_init`, `boot_aps`, `lapic_startap`, `mp_main` | the lock, scheduler |
| Loader (`kern/env.c`) | the memory of a new environment | `load_icode`, `region_alloc` | page allocator |
| Console (`kern/console.c`) | modifiers, input ring | `kbd_proc_data`, `cons_intr`, `cons_getc` | keyboard, `sys_cgetc`, the monitor |
| Debugging information (`kern/kdebug.c`) | stabs, constant | `stab_binsearch`, `debuginfo_eip` | the monitor |
| Monitor, printing, drivers, boot loader | | | pure I/O or sequential helpers |

What is hard in it: CPUs whose steps interleave wherever the lock is not held
(the spin, the checks of `holding`, the window of `env_run` after
`unlock_kernel`); environments that are killed, woken or restatused while they
run elsewhere; slots and ids that are reused; reference counts that several
paths raise and lower; page tables changed under a running environment; retries
and round robin that must not starve anybody. PROJECT.json lists these under
"hazards", each at its line.

What makes each part correct:

- *Spin lock*: at most one holder, only the holder releases, the debugging
  checks stop the misuses and nothing else, a release wakes a waiter.
- *Environments and scheduler*: an environment is current on one CPU at most;
  whatever is RUNNING or DYING is on a CPU; free slots are on the free list
  once; a zombie is freed by its own CPU, and is freed; no panic; a runnable
  environment gets its turn.
- *IPC*: only a sleeping environment is a receiver; it wakes with one message,
  which it reads whole although it reads it in pieces; a sleeping receiver is
  served while somebody sends; nobody retries for ever against a dead one.
- *Address spaces*: user code runs on its own directory; no CPU is on a freed
  one; every reference is counted; a page in use is not free; a TLB holds
  nothing that the tables do not.
- *fork*: parent and child see memory as of one instant; no two of them can
  ever write one page; exception stacks are not shared.
- *upcall*: nested faults return to where they came from with every register
  and stack word as it was; the kernel never faults on a frame that it writes.
- *Start*: no two CPUs share a kernel stack; nobody schedules before the idle
  environments exist; every CPU gets to user code. Memory that the entry page
  directory does not map is not touched before `lcr3`; afterwards every page is
  mapped, every stack has a gap below it, and what is free is on the free list.
- *Helpers*: user_mem_check lets through what is mapped and nothing else; no
  segment of a program overwrites another; characters come out as they were
  typed; a search for an address finds the stab that contains it.

## The modules and the code

| Module | Models | State ↔ code | Actions ↔ code |
|---|---|---|---|
| `AbstractLock` | what a lock promises | `holder` | `Acquire`, `Release` |
| `SpinLock` | `kern/spinlock.c`, one memory access per step | `locked`, `cpu` are `lk->locked`, `lk->cpu`; `pc` is the place in the function; `misused`, `owner` are history variables | `LockReads…`, `UnlockReads…`: the two reads of `holding()`; `Xchg`, `Record`, `Clear`, `Release`: the stores |
| `LifeCycle` | what the kernel promises of an environment's life | `life`: none, stopped, receiving, ready, running, dying; `on`: what each CPU executes | `Dispatch`, `Create`, `Restatus`, `StopItself`, `Receive`, `Deliver`, `Kill`, `End`, `Reap` |
| `Kernel` | `env.c`, `sched.c`, `trap.c`, environment and IPC calls | `status`, `env_type`, `env_gen`, `env_parent_id`, `ipc_recving` are fields of `envs[e]`; `curenv`, `cr3`, `pc` belong to each CPU | `TrapFromUser`, `LockKernel`, `LoadCr3`: the steps without the lock; `Sched…`: the exits of `sched_yield`; one action per trap and per call; `ReturnTo…`: the end of `trap` |
| `AddressSpaces` | what the page calls promise to programs | `space`, `dirty` | `Change`, `Store` |
| `PageTables` | `pmap.c`, page calls, `env_setup_vm`, `env_free` | `pages` is `struct Page pages[]`, the free list and the contents of the pages; `env_pgdir`, `curenv`; `tlb` is the hardware's; `freeing` is the place in `env_free` | the functions of `pmap.c` are operators on the state of the pages; `Sys…`, `EnvSetupVm`, `EnvFree`, `FreePage`, `FreeTable`, `FreeDirectory`, `EnvRun`; `Fill`, `Store`: the hardware and user code |
| `ForkMemory` | what fork promises to programs | `memory`: what each environment reads | `Store`, `Fork` (copies at one instant), `End` |
| `CowFork` | `lib/fork.c`, `lib/pgfault.c` | `pte` is what `vpt` shows: page, PTE_W, PTE_COW; `mem` the pages; `upcall`; `pc`, `child`, `pn` the place in `fork`; `fault` the place in `pgfault` | one per system call that fork, duppage and pgfault make; `Store`, `PageFault`: user code |
| `ExceptionStack` | `page_fault_handler`, `lib/pfentry.S` | `reg` five registers; `xs`, `ns` the words of both stacks; `xpage`, `upcall`; `saved` a history of the faults not yet returned from | one per instruction of the upcall that touches memory; `PageFault`: the kernel |
| `Rendezvous` | what message passing promises | `offer`, `waiting`, `inbox` | a message goes from an offer to an inbox |
| `Ipc` | `sys_ipc_try_send`, `sys_ipc_recv`, `lib/ipc.c` | `recving`, `from`, `value`, `perm` are the IPC fields; `page` the mapping at the page address; `at`, `call`, `got` are the places and locals of the library | `BadEnv`, `NotRecv`, `NoMem`, `Deliver`: the outcomes of one `sys_ipc_try_send`; `ReadFrom`, `ReadPerm`, `ReadValue`: the unlocked reads of `ipc_recv` |
| `Startup` | `trap_init`, `mp_init`, `boot_aps`, `lapic_startap`, `mpentry.S`, `mp_main` | `kstack` is `mpentry_kstack`; `started` is `cpu_status`; `tss`, `stack` the stacks, by whose they are; `holder` the lock; `alive`: is a user environment left to run? | the steps of the boot CPU, of the others, and of all once they schedule, into user code or into the monitor |
| `BootMemory` | `mem_init`, `boot_alloc`, `page_init`, `boot_map_region`, the self tests | `nextfree`, `freelist`; `kdir`, `kmap` are `kern_pgdir` and its tables; `stage`, `region` the place in `mem_init` | one per call in `mem_init` |
| `Loader` | `load_icode`, `region_alloc` | `ph`, `image` | `LoadSegment`, `LoadStack` |
| `UserMem` | `user_mem_check` | its arguments | a function of them |
| `Console` | `kbd_proc_data`, `cons_intr`, `cons_getc` | `shift`, `buf`, `rpos`, `wpos` are theirs; `line`, `held`, `caps` the keyboard; `typed` a history | `ConsIntr`, `Polled`, `ConsGetc`; `Press`, `Release`: the keyboard |
| `StabSearch` | `stab_binsearch` | `l`, `r`, `left`, `right`, `addr`, `any_matches` are its variables | the three outcomes of a comparison, `NoMatch`, `Finish` |
| `MC…` | instances for TLC; `MCWaiting` has `SpinLock`, `Startup` and `Ipc` side by side, `MCHelpers` the last five modules and `ExceptionStack` | | |
| `…Proofs` | theorems about the module of that name, and their proofs; `HelpersProofs` for `UserMem`, `Loader`, `Console`, `StabSearch`, `BootMemory` | | |

`Kernel`, `PageTables`, `CowFork`, `ExceptionStack` and `Ipc` look at one set of
environments from five sides, and each says what it takes from the others: in
`Kernel` an address space is one directory id, which `PageTables` opens;
`CowFork` takes a system call to be one step, which is what the lock in `Kernel`
is for, and a page to be free when nobody maps it, which is `RefExact` and
`FreeExact` of `PageTables`; `ExceptionStack` opens the one step by which
`CowFork` enters the handler; `Ipc` adds to the calls in `Kernel` the value and
the page. `Startup` and `BootMemory` end in the states in which `Kernel` and
`PageTables` begin. The lock that `Kernel` and `Startup` take and release in one
step is `AbstractLock`, which `SpinLock` implements (`ImplementsLock`). `LifeCycle` is `Kernel` without lock, traps, directories
and free list: `LifeOf` reads an environment's life off its slot, and a CPU
executes its `curenv` only while that runs or dies. After a call that puts
`curenv` to sleep the pointer stays, as the place `sched_yield` searches from.

Choices that need a word:

- *An environment is its slot.* `envs[]` never moves, so a pointer to an
  environment is an index. An id is a pair of generation and index; the
  generation wraps at `MaxGen` as the sign check of `env.c:258` makes it wrap.
- *What holds the lock is one step.* A CPU that has the kernel lock runs a
  handler that no CPU can observe half-way, since every other one is in user
  code, spinning, or in the window of `env_run`, and those steps touch only
  their own `pc` and `cr3`. `Kernel` still splits a trap where the code has a
  separate decision: on entry (zombie or not), the handler, the return, the
  scheduler.
- *`env_run` is two steps*, `EnvRun` up to the unlock and `LoadCr3` after it,
  because other CPUs act in between.
- *Failing calls* return without a change, or undo it (`SysPageAlloc` gives
  its page back, zeroed, when there is none left for a table): those that
  change nothing are `ReturnUnchanged` in `Kernel` and absent from `PageTables`.
- *The boot CPU's start* is over in `Init` of `Kernel`: the idle environments
  and one user environment exist and CPU 0 has the lock (`init.c:54-76`), on the
  entry directory, which is not an environment's.
- *Page tables.* Directories, tables and data come from one allocator, and a
  page's contents are what a table walk would read in it; user stores are
  recorded by page, which is enough to see one reach a table. Every path back
  to user mode passes `lcr3`, which empties the TLB, so `tlb_invalidate` has
  nothing left to do on the CPU that makes the call and is part of `Flush`.
  Page 0 is reserved, as `page_init` reserves it. Any environment may change
  any other that runs on no other CPU, a superset of the parent rule of
  `envid2env`; `sys_ipc_try_send` maps its page as `sys_page_map` does, into a
  receiver that sleeps. `env_free` gives back one page per step, so user
  stores of other CPUs come between.
- *fork.* A page is one value, and the stack is one page that any code of an
  environment may store to, also between two calls of duppage: that is the
  hazard. `load_icode` maps everything writable; `ReadOnly` lets an instance
  have pages that are not. What happens without memory is modelled as it is
  (positive error codes pass for success), and `NPAGES` decides whether it can
  happen. The instant at which fork copies a page for `ForkMemory` is its second
  mapping; the refinement mapping shows the copies of a fork under way to nobody
  until the child runs.
- *Exception stack.* Memory is counted in words and every word says what it is,
  so that a register restored from the wrong place is seen. Two registers stand
  for the eight of PushRegs: one that the upcall uses before it restores it and
  one that it does not. The C handler is any code with at most `MAXLOCALS` words
  of locals that touches them in order, as `push` does; `Overrun` lets it
  subtract first and fault beyond the page, as compiled code with big frames may.
- *Messages.* Three reads of the environment table are three steps, with other
  environments between. Ids are not reused in `Ipc`; `Kernel` has that.
- *Start.* `cpunum()` is 0 until `mp_init` has found the local APIC, and
  `trap_init` runs before: the boot CPU sets up the TSS of CPU 0, whoever it is,
  and traps to the stack of CPU 0 ever after. If it is not entry 0 of the table
  it shares that stack with the CPU that is; `BootCpus` says where it may be, and
  is {0} in the run. In the scheduler a CPU goes on to user code while a user
  environment is left (`alive`), and otherwise stays in the monitor with the lock.
  `mpentry_kstack`, the lock and the TSS are all that the CPUs share;
  the order of `mp_main`'s other steps is invisible. The second STARTUP interrupt
  of `lapic_startap` finds the CPU running and is ignored, as the hardware does.
- *Start of memory.* Addresses are page numbers and a table has `NPT` entries,
  so that an instance can have memory beyond the entry page directory.
  `(2^32) - KERNBASE` is taken as C takes it. The assertions of the self tests
  that the model cannot fail by its data are parts of `MemoryReady`; those that
  a small machine fails (too few pages, or none left on one side of the I/O hole
  when `check_page_free_list` runs for the first or the second time) stop the
  model as they stop the kernel.
  `MapAssumption` is what `mem_init` takes from `memlayout.h` and the linker
  without a test, in pages of 4096 bytes: the 64 tables of the kernel and the 5
  below are among 1024; the 8 stacks with their gaps have 128 of the 1024 pages
  of one table; the 8192 pages of I/O memory are among the 65536 from `KERNBASE`
  on; at most 67 tables come out of the 158 pages below the I/O hole; and the
  image, with at most 112 pages for the array behind it, ends within 4 MB.
- *Helpers* that run alone with the lock held are functions or one step per
  loop iteration, over every input of a small size.

### Rules for programs

Some calls let a program break the kernel's own state: the code tests for none of
them. The handlers of the modules do not either; what programs of an instance ask
for is said apart from them (`MayRestatus`, `MayDestroy` and `MayReceive` in
`Kernel`). Each rule is a constant that is FALSE in the runs of the part proper
and TRUE in a configuration that shows the consequence; what those runs show is
shown for programs that keep the rules. No program of `user/` or `lib/` breaks one.

| Constant | What it allows | Configuration |
|---|---|---|
| `RestatusAny` | `sys_env_set_status` of a child that runs, dies or waits for a message | `KernelRestatus` |
| `DestroyTwice` | `sys_env_destroy` of a child that is already a zombie | `KernelDestroyTwice`, a run |
| `RecvUnaligned` | `sys_ipc_recv` at an address that is not page aligned | `KernelRecv` |
| `NameUnmapped` | `sys_page_map` or `sys_page_unmap` of an address without a page, in a table that exists | `PageTablesUnmapped`, a run |
| `EditRunning` | page calls for an environment that runs on another CPU | `PageTablesRemote` |
| `Careless` | sending a page to a receiver that did not ask for one | `IpcUnwanted`, a run |
| `ReadOnly` | a program maps a page of its own without PTE_W and stores to it | `CowForkReadOnly` |
| `Overrun` | the page fault handler has more locals than the exception stack has room | `ExceptionStackOverflow` |

With all of them FALSE the models still have every other interleaving: kills of
running environments, reused slots and ids, sends to environments that die,
stores between any two calls, faults in the fault handler.

## The runs

| Run | Instance | Shows |
|---|---|---|
| `KernelSafety` | 2 CPUs, 5 slots: 2 idle and up to 3 user environments, one generation | the safety invariants, the inductive invariant of the proofs; `LifeCycle` is implemented |
| `KernelLiveness` | 2 CPUs, 4 slots, 2 generations | `OwnAddressSpace` when ids wrap and repeat; zombies are reaped |
| `KernelRoundRobin` | 1 CPU, 4 slots: 3 user environments | round robin reaches every runnable environment when the CPU no longer loses its place |
| `KernelStarvation` | the same | it does not when environments come and go for ever (expected violation) |
| `KernelDestroyTwice` | 2 CPUs, 4 slots, 2 generations, `DestroyTwice` | a second destroy frees a zombie that still runs (expected violation) |
| `PageTables` | 2 CPUs, 2 environments, 6 pages, 3 addresses in 2 tables | counts, free list, private tables, fresh TLBs; `AddressSpaces` is implemented |
| `PageTablesUnmapped` | the same | `page_lookup` finds page 0 where nothing is mapped (expected violation) |
| `CowFork` | 3 environments, one data page and the stack, 14 pages | pages that are writable are private, exception stacks too, `ForkMemory` is implemented |
| `Waiting` | `SpinLock` with 3 CPUs; `Startup` with 4 processors of which 3 are used, the first of the table booting; `Ipc` with 2 senders, a receiver, 2 values, one page | the debugging checks stop exactly the misuses, the lock implements `AbstractLock`, a release hands it to a waiter; stacks apart, environments first, every CPU runs; `Rendezvous` is implemented, receivers are served, senders to the dead stop |
| `IpcUnwanted` | the same with 3 senders, one of them also the receiver, `Careless` | a page for a receiver that asked for none panics the kernel (expected violation) |
| `Helpers` | every call and input of the sizes in the configuration; `ExceptionStack` with a page of 44 words, 2 locals, a user stack of 4 words | user_mem_check, loader, `mem_init`, console, `stab_binsearch`; frames survive nested faults, returns are exact, no frame leaves the page |
| `UserMemUnaligned` | the same | user_mem_check misses the last page of a range that starts inside a page (expected violation) |

`Waiting` and `Helpers` put parts side by side that do not interact: an initial
state belongs to one of them, in which only that one takes steps, and the others
rest where they enable nothing. So each property is checked of its part in all its
states, and holds of the rest states of the others.

Why these bounds are enough to be interesting. Three CPUs are the holder, a
waiter and one that reads a stale pair of the lock's fields. Two CPUs and three
user environments give a parent, a child and a bystander, with the child on the
other CPU, queued, blocked or a zombie; the free list fills and empties. With
two generations a slot's third life repeats the id of its first. For round robin
one CPU is the hard case: three environments compete for it, so that the order of
the search decides who is next, and a search that always begins at the first slot
starves the third (the mutant `LastId_First`). Six pages
less page 0 hold two directories, three tables and data in many proportions, so
allocation fails at every point of a call; two addresses share a table and the
third needs another. `RefMod` is larger than the number of mappings an instance
can have, as 2^16 is for the programs in the tree; at the bound itself the
count wraps, in the model as in the code. Environments, CPUs and free pages of
`PageTables` are interchangeable, and TLC uses that symmetry; no liveness is
checked with it.

`CowFork`: with three environments a page is shared by a grandparent, a parent
and a child, any of which stores, forks, faults or ends first, and an
environment that ended is created anew. A data page and the stack are the two
kinds of pages there are. Fourteen pages are as many as the three can map at
once, and two more: then memory does not run out (`EnoughPages` of
`CowForkProofs`); `CowForkNoMemory` is for that.
States that differ in the names of pages or in what is in free ones are one
(`View`), and the children are interchangeable. `ExceptionStack`: the page holds
about four frames, with the words between them, so that faults in the program, the
handler and the upcall nest until a frame does not fit. Its `View` takes as one
the states that differ below the stack pointers. `Ipc`: two senders race for the
receiver, and send to each other, who never receive; each may
remap its page at any moment or die. `Startup`: one processor is beyond the
limit of `cpus[]`, and two are started after each other, which is what the one
`mpentry_kstack` has to survive. `Helpers`: most memory sizes of `mem_init` have pages that
the entry directory does not map; memories too small for the self tests are
among them, and so are those whose tables take the last page below the I/O hole.
The keyboard wraps the ring of three, with one place free as the
protocol needs. Six stabs of which any may be of another type give searches that
go every way at every depth.

Deadlock checking is off: the monitor, a CPU stopped by a panic, a program that
has ended, a finished start and exhausted memory are legitimate ends.

### Configurations to run by hand

Each shows a consequence, as a violation of the property named, of a call that
breaks a rule or of a limit that the runs stay below:
`tlc -config KernelWindow.cfg MCKernel`.

| Configuration | Module | Violates | What one sees |
|---|---|---|---|
| `KernelRestatus` | `MCKernel` | `OneCpuPerEnv` | a running environment set RUNNABLE is run by a second CPU |
| `KernelRecv` | `MCKernel` | `NoPanic` | the error return of `sys_ipc_recv` falls into a panic |
| `KernelWindow` | `MCKernel` | `NoFreedDirectory` | between `unlock_kernel` and `lcr3` a CPU is on a directory another one freed |
| `PageTablesRemote` | `MCPageTables` | `TlbFresh` | a TLB keeps an entry that another CPU removed |
| `CowForkNoMemory` | `MCCowFork` | `Isolated` | `pgfault` maps its previous copy again when there is no page left |
| `CowForkReadOnly` | `MCCowFork` | `OnlyCowCopied` | a store to a read-only page gets a private copy instead of the panic of `fork.c:42` |
| `StartupElsewhere` | `MCWaiting` | `OwnStack` | a boot CPU that is entry 1 of the table traps to the stack of CPU 0, which is on it |
| `ExceptionStackOverflow` | `MCHelpers` | `FramesDescend` | when `esp` has left the page, the next frame goes to its top, over those in use |
| `ConsoleFull` | `MCHelpers` | `TypedInOrder` | a full ring looks empty |
| `StabSearchAdjacent` | `MCHelpers` | `SearchTotal` | an exact match is lost when the next stab is at the next address; an address before all stabs is attributed to the one before |

## Fairness

`SpinLock`: a CPU inside a function of the lock goes on executing. Nothing is
assumed of the callers, or of who wins the exchange.

`Kernel`: `WF(CpuStep(c))`, a CPU goes on executing. `SF(LockKernel(c))`, a spin
succeeds some time when the lock is free again and again: the hardware gives no
such promise, and the `pause` of `spinlock.h:41-45` is the code's answer to
CPUs that re-acquire at once. `SF(Yield(c))`, the clock interrupts user code
again and again whatever calls it makes: the LAPIC timer of each CPU is
periodic and interrupts are on in user mode.

`RoundRobin` is stated for executions in which CPUs at some point no longer lose
their place in the circle (`LosesPlace`: the environment that a CPU ran last ended
there, so that its `curenv` is null). Environments may still be created, killed
while they are queued, put to sleep and woken. Without the condition it is
false: `KernelStarvation`.

`Ipc`: `WF(Library(e))` while the kernel has not panicked: an environment in a
library call takes its next step, which is the round robin of `Kernel`. Nothing
is assumed of what programs do next, or of who wins a race: a sender may lose
every one of them to others, and `Served` promises something to the receiver
only.

`Startup`: the boot CPU, a CPU that was started and one in the scheduler or at the
end of `trap` go on executing, each under one `WF`. `SF(\E c : MpLock(c))`: a lock
that is free again and again, with the others trapping for ever, is some time
taken by a CPU that waits for it in `mp_main`. Each takes it there once, so all
of them get it; the hardware promises no more than for the lock of `Kernel`.
Nothing is assumed of traps or of programs, which may all end:
`EveryCpuRuns` then allows a CPU in the monitor, which keeps the lock.

The other modules state safety only and assume no fairness.

## What is proved

All theorems hold for every value of the constants that satisfies the named
assumptions. A further hypothesis stands in the theorem itself and is one of
three things: a rule for programs of the table above (`Disciplined` is the three
of `Kernel`), each with a configuration that shows what happens without it;
memory that does not run out; a counter or a ring that is large enough. For
the last two there is either a theorem that a size of the instance suffices, or
a configuration in which it does not.

- `SpinLockProofs`: `LockInvariant`, `ChecksExact`, `NoFalsePanics`,
  `LockRefinement`. `LockInv` adds to the properties which `pc` a CPU may have in
  each combination of word, recorded owner and winner of the exchange. It is
  needed because what a stale read of `holding()` returns is decided by what the
  *reading* CPU itself last did: others write the owner only to themselves or to
  0.
- `KernelProofs`: `KernelInvariant` and, from it, `TypeCorrect`, `Scheduling`,
  `ActiveOnTheirCpu`, `FreeListCorrect`, `ReceiversSleep`, `PanicFree`,
  `AddressSpaces`, `LivesAsPromised` (the refinement of `LifeCycle`),
  `OnOnePlace`. They are about programs that keep the three rules of `Kernel`
  (`Disciplined`). `KernelInv` strengthens the properties with `LockedKernel`
  (who has the lock is in the kernel proper), `CurenvInKernel` (what `curenv` can
  be at each place), `IdleKept` (a CPU's idle environment stays its own) and
  `LiveIds` (no live id is 0). The properties are not inductive without them:
  `OneCpuPerEnv`, for instance, needs that a RUNNABLE environment is on no other
  CPU, which follows from what `curenv` can be on a CPU that does not have the
  lock, and the panic of `sched.c:78` needs `IdleKept`. There is a lemma per
  action; the lemmas `LockedStep`, `StatusStep` and `PcStep` carry what several
  actions share. For the refinement each call is one step of `LifeCycle`, and
  `Elsewhere` is what makes it one: whatever the CPU that has the lock does to
  an environment, no other CPU begins or ceases to execute one by it.
- `PageTablesProofs`: `PageTypes`; `CountsExact` (`RefExact` and `FreeExact`),
  `TranslationsTrue` (`TablesPrivate` and `TlbFresh`), `SpacesImplemented` (the
  refinement of `AddressSpaces`), `ExactWithWideCounter`. `TypeInv` adds to
  `TypeOK` that running environments and the one being freed have a directory,
  without which their walks would not be into a page. `Good` is the invariant of
  the pages as a function of their state, so that it can be stated between two
  functions of `pmap.c` and not only between two calls: the tables of all
  environments are a forest and no user mapping leads into it (`Tree`), empty
  entries are zero (`Entries`, needed for page 0), every count is the number of
  pointers from the three levels (`Count`), and what is not counted is on the
  free list once, less what the call has taken and not used yet. There is a lemma
  per function of `pmap.c` that takes `Good` to `Good` and says which entries
  it changed. `Private` is what the TLBs need besides. Hypotheses: no program
  names an address that it has not mapped (`PageTablesUnmapped` shows the
  count that is lost then); for the TLBs, none edits an environment that runs
  elsewhere (`PageTablesRemote`); and no page has more pointers than `pp_ref`, 16
  bits in the code, can count. `WideCounter` is enough for the last: a counter of
  all entries of all tables.
- `CowForkProofs`: `ForkTypes`, `ForkIsolates`, `ExceptionStacksPrivate`,
  `ForkIsAtomic` (the refinement of `ForkMemory`), and the same without a
  hypothesis about memory for enough pages, `ApartWithEnoughPages` and
  `AtomicWithEnoughPages`. `Isolated` does not hold inside `duppage`, where the
  child has a page copy-on-write that the parent may still write. `Apart` of
  the invariant `Separate` is the form that holds always: pages are apart but for
  a parent that copies towards its own child. The child does not run yet and
  `Embryos` says that it can write nothing but its exception stack; `Stacks` and
  `Scratch` say that exception stacks and, from its allocation on, PFTEMP are
  nobody else's. For the refinement `Faithful` says how far the
  child's copy has got (`Copying`), and that a page that pgfault has
  copied stays equal to the original until it is mapped (`Filled`), which needs
  that the original cannot be written by anybody. `MemoryLeft`, two pages being
  free, is the hypothesis that `CowForkNoMemory` drops, and `EnoughPages`
  implies it by counting; `ReadOnly = {}` is the one that `CowForkReadOnly`
  drops.
- `IpcProofs`: `IpcInvariant`, `IpcTypes`, `SleepsWhileRecving`
  and the refinement `MessagesWhole`: every step of the
  calls and of the library is a step of `Rendezvous` or a stutter. `IpcInv` adds
  to `WaitsIffRecving` that a sender has a call whose page agrees with what the
  receiver wants (`CallsOK`). The heart of the
  refinement is that nothing writes the fields of an environment in one of the
  three reads, as it is not `recving`; `WaitsIffRecving` gives that.
- `ExceptionStackProofs`: `ExceptionStackTypes`, `FramesFit`, `FramesUntouched`,
  `FramesBelow`, `FaultsInvisible`. The lemma `WholeFrame` is the argument for
  `FramesFit`: the kernel checks only the first word of a nested frame, and that is
  enough, as the frame ends at the word below `esp`, which is on the page. The
  others rest on the invariant `Nested`, a statement for each fault that has not
  returned yet. `Unwinding` says, for each place of the upcall, what is in the
  registers, what is still in the frame and what has already been written below the
  stack pointer of the code that was interrupted; `Keeps`, that nothing at or above
  that pointer has changed since. For a fault that was itself interrupted
  both speak of the registers and words that the next one saved, so that returning
  from the innermost fault gives the statement for the one outside it. All but
  `FramesFit` assume that the handler does not leave the page with its locals
  (`~Overrun`); `ExceptionStackOverflow` shows why.
- `StartupProofs`: `StartupInvariant`, `StartupTypes`, `StacksApart`,
  `EnvironmentsFirst`. The invariant says where each CPU may be relative to
  `next`: below it CPUs are up, above it halted, and only `next` itself can be
  between STARTUP and `mp_main`; while it is, `mpentry_kstack` is its own. Until
  the environments exist the boot CPU holds the lock, so the others wait for it.
  `Stacks` says that every CPU is on its own stack or on none, but for the boot
  CPU, whose traps go to the stack of CPU 0. `StacksApart` therefore has the
  hypothesis that the boot CPU is entry 0 of the table, which `StartupElsewhere`
  drops; the other three have none.
- `HelpersProofs`: `ChecksMemory`, `ProgramsLoaded`, `SearchFinds`,
  `InputInOrder`, `BootTypes`, `BootFaultFree`, `MemoryAlwaysReady`. `UserMem` needs arithmetic only: the pages of a range are those
  probed if it starts a page or is within one. `LoaderInv` says that the segments
  loaded so far are intact; the extra page of a segment whose end is rounded up
  does no harm as segments come in the order of their pages. `StabInv` says that
  the entry looked for, if it is not `left`, is between `l` and `r`, and that
  `right` is just before an entry that has not begun. The code goes on behind an
  exact match with the address plus one, so the lower side of this holds only while
  no entry is at that next address (`Distinct`, a hypothesis of `SearchExact`
  itself; `StabSearchAdjacent` shows the case). `ConsoleInv` says that the
  modifier bits *after* all bytes in the controller are those of the keys that
  are down, and that ring and controller together have the characters typed. What
  a sequence of bytes decodes to is a recursive function; the proof shows that it
  exists and how a byte at the front or at the end changes it, by induction over
  numbers with a set in the place of the predicate. The hypothesis is that
  fewer characters wait than the ring has entries, which `ConsoleFull` drops.

  `BootInv` is the invariant of `mem_init`. `ListInv`: the pages on the free list
  and those that hold a table are together the pages that nothing uses, each of
  them in one place. `LowInv`: until `lcr3` the list begins with at least
  `Reserve` pages that `entry_pgdir` maps, and `Reserve` is never less than the
  number of tables that are still missing (`EnoughTables`); `NoBootFault` is about
  the pages of one call and would not be inductive without it. It is
  `check_page_free_list` that brings these pages to the front: the mapping
  depends on what the check changes (`Reordered_Not`). `DirInv`: the tables are
  those that `env_setup_vm` copies, in different pages. `MapInv`: the regions mapped so
  far have the entries of their call of `boot_map_region`, and nothing else is
  mapped; only the I/O memory replaces earlier entries (`RegionsApart`). The
  rest is arithmetic on the memory map: `LayoutHolds` for the places,
  `AllMemory` for the length that is computed with an exclusive or, `StackGaps`
  for the gaps. `Only`, the walk along the list, is a recursive function;
  `OnlyRight` says which pages it keeps, and that it keeps each of them once,
  by the same induction as for the console.

Model-checked only:

- liveness (`Handover`, `ZombieReaped`, `RoundRobin`, `Served`, `SenderStops`,
  `EveryCpuRuns`), which the provers do not reach;
- `SearchTotal`, `CheckCovers`, `OnlyCowCopied` and the other properties that a
  configuration refutes have nothing to prove.

## What the violations say

PROJECT.json's "findings" quotes the comments that the code contradicts in the
runs `PageTablesUnmapped`, `IpcUnwanted`, `UserMemUnaligned`,
`KernelDestroyTwice` and `KernelStarvation`. The first four need a call that no
program in the tree makes; the last needs a family of environments that fork and
exit for ever, each call of which is an ordinary one. Of the configurations run by
hand `KernelWindow` is one that any two CPUs can run into: the window is a few
instructions of kernel code with interrupts off and the kernel part of a freed
directory stays intact until the page is given out again, so nothing has been
seen to fail. `StartupElsewhere` needs a machine whose boot processor has an APIC
id other than 0. `StabSearchAdjacent` concerns backtraces only.

Other differences between code and comments, or between code and what one would
expect, met while modelling; the models follow the code:

- `sys_page_alloc` and `validate_perm`, `validate_va` return positive error codes
  (`syscall.c:225`, `521`), which callers take for success. The first is in
  `CowFork`; the second means that no argument of the page calls is rejected.
- `fork.c:41` tests bits with `|`: every write fault is taken for copy-on-write.
- `mp_init` sets `bootcpu` before it looks whether there is room for it
  (`mpconfig.c:186-192`); a boot CPU beyond the limit has no place in `cpus[]`,
  so `Startup` assumes it is within.
- `user_mem_check` adds `va` and `len` in 32 bits; a range that wraps is not
  looked at, and `CheckExact` excludes it.
- `set_pgfault_handler` registers the upcall before it sets the handler; a fault
  in between would call address 0. Nothing faults there in the library, and the
  models set both at once.
- A sender in `ipc_send` may lose every race: nothing queues senders.
- The keyboard driver keeps one bit for each modifier: with both of a kind held,
  releasing one ends the effect. `Console` holds one of a kind at a time.
- `debuginfo_eip` takes the line number of the last stab of its range, not of the
  one found (`kdebug.c:214`), and ignores what `user_mem_check` says.

## What is not modelled

- *Labs 1 to 3.* They are earlier states of the same kernel, file by file: what
  they have of `pmap.c`, `env.c`, `trap.c`, `syscall.c`, `console.c`, `kdebug.c`
  and the library is in lab 4 again, mostly line by line, and more completely.
  A second model of the same function would say nothing new. Counted in lines
  they are three fifths of the repository.
- *`entrypgdir.c`* of the first three labs: the same table of 1024 constants as
  in lab 4, of which `EntryMapped` in `BootMemory` is the meaning.
- *Monitor, `printfmt.c`, `string.c`, `readline.c`, serial and CGA output*:
  sequential text processing, within reach of unit tests and with formatting
  for its content. Of `kdebug.c` the search is modelled, not the assembly of
  the result.
- *`lapic.c`, `picirq.c`, `kclock.c`, the MP tables*: device registers. What they
  do for the rest is a fairness assumption (the clock) or an action
  (`StartAp`); the table of processors is an input of `Startup`.
- *Boot loader*: reads the kernel from disk, once.
- *`hw2.md` to `hw7.md`*: notes on exercises with another kernel, whose source is
  not in the tree.
- *User programs* of `user/`: tests. The models let programs make any call at any
  time, which includes what these do. `dumbfork` copies pages by the calls that
  `PageTables` has.
- *Arguments of page calls outside user space* (`syscall.c:521`): what a call for
  an address of UTOP or above changes is the kernel's own part of the directory,
  which `PageTables` does not have.
- Register contents and trap frames other than in `ExceptionStack`; large pages;
  the accessed and dirty bits.

## Plan

All modules of the table above are written, and every safety property and
refinement that a run checks is proved.
