------------------------------ MODULE CowFork ------------------------------
(***************************************************************************)
(* Copy-on-write fork: lib/fork.c, lib/pgfault.c, and what the page calls, *)
(* sys_exofork and page_fault_handler do for it.                           *)
(*                                                                         *)
(* Every system call is one step, and so is every store.  Between any two  *)
(* steps of one environment the others run, and so does the rest of its    *)
(* own code: whatever it executes may push onto its stack, also inside     *)
(* fork.  Pages are counted and freed as PageTables does it; here a page   *)
(* is free when nobody maps it.                                            *)
(***************************************************************************)
EXTENDS Integers, FiniteSets

CONSTANTS Env, Root,    \* environments; the one that the kernel created
          NDATA,        \* pages of text, data and heap
          NPAGES,       \* physical pages
          Value, Zero,  \* what programs store, what a new page holds
          ReadOnly,     \* data pages that Root maps without PTE_W
          None

\* The pages of an address space in the order of their addresses.
PFTEMP == 0
DataPages == 1 .. NDATA
STACK == NDATA + 1      \* the page below USTACKTOP
UXSTACK == NDATA + 2    \* the exception stack, the page below UXSTACKTOP
Va == 0 .. UXSTACK
Addr == DataPages \cup {STACK}
Page == 1 .. NPAGES

ASSUME EnvAssumption == Root \in Env
ASSUME SizeAssumption == NDATA \in Nat /\ NPAGES \in Nat /\ NPAGES > NDATA
ASSUME ReadOnlyAssumption == ReadOnly \subseteq DataPages
ASSUME NoneAssumption == /\ None \notin Env /\ None \notin [Addr -> Value \cup {Zero}]
                         /\ None \notin [page : Page, w : BOOLEAN, cow : BOOLEAN]
                         /\ None \notin [va : Va, at : {"alloc", "copy", "map"}]

VARIABLES pte,      \* vpt of each environment: PPN, PTE_W, PTE_COW
          mem,      \* what each physical page holds
          upcall,   \* env_pgfault_upcall is set, and so is _pgfault_handler
          pc,       \* where each environment is
          child,    \* the environment that its fork is building
          pn,       \* the page its fork is at
          fault     \* the page fault it is handling: address, place in pgfault

vars == <<pte, mem, upcall, pc, child, pn, fault>>

Entry == [page : Page, w : BOOLEAN, cow : BOOLEAN]
Fault == [va : Va, at : {"alloc", "copy", "map"}]
PC == {"free",     \* no such environment
       "embryo",   \* created by sys_exofork, not yet runnable
       "user",     \* any code but fork
       "child",    \* fork, duppage: the mapping in the child, fork.c:99
       "own",      \* fork, duppage: its own mapping, fork.c:102
       "status"}   \* fork, fork.c:207

TypeOK == /\ pte \in [Env -> [Va -> Entry \cup {None}]]
          /\ mem \in [Page -> Value \cup {Zero}]
          /\ upcall \in [Env -> BOOLEAN]
          /\ pc \in [Env -> PC]
          /\ child \in [Env -> Env \cup {None}]
          /\ pn \in [Env -> Va]
          /\ fault \in [Env -> Fault \cup {None}]

Mapping(p, w, cow) == [page |-> p, w |-> w, cow |-> cow]
Unmapped == [va \in Va |-> None]

\* load_icode: data pages and a stack, no exception stack yet.
Init == /\ pte = [e \in Env |-> [va \in Va |->
                    IF e = Root /\ va \in Addr THEN Mapping(va, va \notin ReadOnly, FALSE)
                    ELSE None]]
        /\ mem = [p \in Page |-> Zero]
        /\ upcall = [e \in Env |-> FALSE]
        /\ pc = [e \in Env |-> IF e = Root THEN "user" ELSE "free"]
        /\ child = [e \in Env |-> None]
        /\ pn = [e \in Env |-> 0]
        /\ fault = [e \in Env |-> None]

Live(e) == pc[e] \notin {"free", "embryo"}

\* e executes ordinary code: it is not in its page fault handler.
Running(e) == Live(e) /\ fault[e] = None

Writable(e, va) == pte[e][va] # None /\ pte[e][va].w

-----------------------------------------------------------------------------
(* Memory                                                                  *)

FreePages(tables) ==
  {p \in Page : \A e \in Env, va \in Va : tables[e][va] # None => tables[e][va].page # p}

\* sys_page_alloc(e, va, perm) on the state s of tables and pages, which takes
\* any free page.  Without one it returns E_NO_MEM, and the callers, who test
\* for a negative value, take that for success (syscall.c:225).
SysPageAlloc(s, e, va) ==
  LET free == FreePages(s.pte)
      p == CHOOSE p \in free : \A q \in free : p <= q
  IN IF free = {} THEN s
     ELSE [pte |-> [s.pte EXCEPT ![e][va] = Mapping(p, TRUE, FALSE)],
           mem |-> [s.mem EXCEPT ![p] = Zero]]

Memory == [pte |-> pte, mem |-> mem]
Becomes(s) == pte' = s.pte /\ mem' = s.mem

\* sys_page_map(e, va, f, vb, perm); PTE_W is asked for only where it is had.
SysPageMap(e, va, f, vb, w, cow) ==
  pte' = [pte EXCEPT ![f][vb] = Mapping(pte[e][va].page, w, cow)]

\* env_free(e); the environments that e was building stay as they are.
EnvFree(e) == /\ pte' = [pte EXCEPT ![e] = Unmapped]
              /\ upcall' = [upcall EXCEPT ![e] = FALSE]
              /\ pc' = [pc EXCEPT ![e] = "free"]
              /\ child' = [child EXCEPT ![e] = None]
              /\ pn' = [pn EXCEPT ![e] = 0]
              /\ fault' = [fault EXCEPT ![e] = None]
              /\ UNCHANGED mem

\* A store to a page that e may write.  The code of fork itself stores to the
\* stack and nowhere else.
Store(e, a, v) ==
  /\ Running(e) /\ (a = STACK \/ pc[e] = "user")
  /\ Writable(e, a)
  /\ mem' = [mem EXCEPT ![pte[e][a].page] = v]
  /\ UNCHANGED <<pte, upcall, pc, child, pn, fault>>

\* A store to a page that e maps and may not write: page_fault_handler enters
\* the upcall if there is one and if the exception stack can be written.
PageFault(e, a) ==
  /\ Running(e) /\ (a = STACK \/ pc[e] = "user")
  /\ pte[e][a] # None /\ ~Writable(e, a)
  /\ IF upcall[e] /\ Writable(e, UXSTACK)
     THEN /\ fault' = [fault EXCEPT ![e] = [va |-> a, at |-> "alloc"]]
          /\ UNCHANGED <<pte, mem, upcall, pc, child, pn>>
     ELSE EnvFree(e)

Exit(e) == Running(e) /\ pc[e] = "user" /\ EnvFree(e)

-----------------------------------------------------------------------------
(* pgfault                                                                 *)

Handling(e, at) == fault[e] # None /\ fault[e].at = at
NextIn(e, at) == fault' = [fault EXCEPT ![e].at = at]

\* fork.c:41-61.  The test of the copy-on-write bit holds of every entry.
PgfaultAlloc(e) ==
  /\ Handling(e, "alloc")
  /\ Becomes(SysPageAlloc(Memory, e, PFTEMP))
  /\ NextIn(e, "copy")
  /\ UNCHANGED <<upcall, pc, child, pn>>

\* Mutant: the new page is not filled.
PgfaultCopy_Skipped(e) ==
  /\ Handling(e, "copy")
  /\ NextIn(e, "map")
  /\ UNCHANGED <<mem, pte, upcall, pc, child, pn>>

\* fork.c:63.  If PFTEMP cannot be written the handler faults in its turn, again
\* and again, and e gets no further: page_fault_handler destroys it when a frame
\* does not fit.
PgfaultCopy(e) ==
  /\ Handling(e, "copy")
  /\ IF Writable(e, PFTEMP)
     THEN /\ mem' = [mem EXCEPT ![pte[e][PFTEMP].page] = mem[pte[e][fault[e].va].page]]
          /\ NextIn(e, "map")
          /\ UNCHANGED <<pte, upcall, pc, child, pn>>
     ELSE EnvFree(e)

\* fork.c:65, and the return to the store that faulted.  PFTEMP stays mapped.
PgfaultMap(e) ==
  /\ Handling(e, "map")
  /\ SysPageMap(e, PFTEMP, e, fault[e].va, TRUE, FALSE)
  /\ fault' = [fault EXCEPT ![e] = None]
  /\ UNCHANGED <<mem, upcall, pc, child, pn>>

-----------------------------------------------------------------------------
(* fork                                                                    *)

Goto(e, label) == pc' = [pc EXCEPT ![e] = label]

\* The call pushes a return address.  Then set_pgfault_handler, which the first
\* time allocates the exception stack and sets the upcall; sys_exofork; the
\* child's upcall and exception stack (fork.c:134-162).  Nobody but e reaches
\* the child before it is runnable.  A child that runs has the _pgfault_handler
\* of its parent, so that it is not its first time.
Fork(e, f) ==
  /\ Running(e) /\ pc[e] = "user" /\ Writable(e, STACK) /\ pc[f] = "free"
  /\ LET own == IF upcall[e] THEN Memory ELSE SysPageAlloc(Memory, e, UXSTACK)
     IN Becomes(SysPageAlloc(own, f, UXSTACK))
  /\ upcall' = [upcall EXCEPT ![e] = TRUE, ![f] = TRUE]
  /\ pc' = [pc EXCEPT ![e] = "child", ![f] = "embryo"]
  /\ child' = [child EXCEPT ![e] = f]
  /\ pn' = [pn EXCEPT ![e] = PFTEMP]
  /\ UNCHANGED fault

\* Mutant: the exception stack is copied with the rest.
LastPage_All == UXSTACK

\* The loop stops below the stack, which is copied last (fork.c:194, 204).
LastPage == STACK

\* fork.c:93: writable or copy-on-write.
Copied(entry) == entry # None /\ (entry.w \/ entry.cow)

\* Mutant: duppage marks its own page first.
DupTarget_OwnFirst(e, call) == IF call = 1 THEN e ELSE child[e]

\* The environment each of duppage's two calls of sys_page_map maps into.
DupTarget(e, call) == IF call = 1 THEN child[e] ELSE e

\* duppage of the next page it does something for: the first call.
MapInChild(e, va) ==
  /\ Running(e) /\ pc[e] = "child"
  /\ va >= pn[e] /\ va <= LastPage /\ Copied(pte[e][va])
  /\ \A vb \in pn[e] .. va - 1 : ~Copied(pte[e][vb])
  /\ SysPageMap(e, va, DupTarget(e, 1), va, FALSE, TRUE)
  /\ pn' = [pn EXCEPT ![e] = va]
  /\ Goto(e, "own")
  /\ UNCHANGED <<mem, upcall, child, fault>>

\* The second call, which marks e's own mapping.
MapOwn(e) ==
  /\ Running(e) /\ pc[e] = "own"
  /\ SysPageMap(e, pn[e], DupTarget(e, 2), pn[e], FALSE, TRUE)
  /\ pn' = [pn EXCEPT ![e] = @ + 1]
  /\ Goto(e, IF pn[e] = LastPage THEN "status" ELSE "child")
  /\ UNCHANGED <<mem, upcall, child, fault>>

\* fork.c:207-211
SetStatus(e) ==
  /\ Running(e) /\ pc[e] = "status"
  /\ pc' = [pc EXCEPT ![e] = "user", ![child[e]] = "user"]
  /\ child' = [child EXCEPT ![e] = None]
  /\ pn' = [pn EXCEPT ![e] = 0]
  /\ UNCHANGED <<pte, mem, upcall, fault>>

Pgfault(e) == PgfaultAlloc(e) \/ PgfaultCopy(e) \/ PgfaultMap(e)

Next == \E e \in Env :
          \/ \E a \in Addr : PageFault(e, a) \/ \E v \in Value : Store(e, a, v)
          \/ Pgfault(e) \/ Exit(e)
          \/ \E f \in Env : Fork(e, f)
          \/ \E va \in Va : MapInChild(e, va)
          \/ MapOwn(e) \/ SetStatus(e)

Spec == Init /\ [][Next]_vars

-----------------------------------------------------------------------------
\* "map in our own private writable copy" (fork.c:15): a page that somebody may
\* write has no other user, be it another environment or another address of the
\* same one, through any chain of forks, faults and exits.  The scratch address
\* of pgfault keeps the last copy, and the child under construction has what its
\* parent has not marked yet.
Isolated ==
  \A e \in Env, va \in Va : Writable(e, va) =>
    \A f \in Env, vb \in Va :
      /\ pte[f][vb] # None /\ <<e, va>> # <<f, vb>>
      /\ pte[f][vb].page = pte[e][va].page
      => \/ e = f /\ PFTEMP \in {va, vb}
         \/ child[e] = f

\* "Neither user exception stack should ever be marked copy-on-write" (fork.c:
\* 123): whoever has an upcall has an exception stack of its own that can be
\* written, so that the faults which fork relies on are not fatal (trap.c:449).
ExceptionStackPrivate ==
  \A e \in Env : upcall[e] =>
    /\ Writable(e, UXSTACK)
    /\ \A f \in Env, va \in Va : pte[f][va] # None /\ <<f, va>> # <<e, UXSTACK>> =>
                                    pte[f][va].page # pte[e][UXSTACK].page

\* pgfault copies copy-on-write pages and no others: "Check that the faulting
\* access was (1) a write, and (2) to a copy-on-write page" (fork.c:23-25).
OnlyCowCopied ==
  [][\A e \in Env : Handling(e, "map") /\ fault'[e] = None /\ Live(e)' =>
        pte[e][fault[e].va].cow]_vars

\* The memory of an environment, from the moment its parent has marked the
\* last page.
Complete(f) == Live(f) \/ \E e \in Env : child[e] = f /\ pc[e] = "status"
memory == [e \in Env |-> IF Complete(e) THEN [a \in Addr |-> mem[pte[e][a].page]] ELSE None]

\* However system calls, stack pushes, faults and the other environments'
\* stores interleave, programs see fork copy the memory at one instant, and
\* nobody sees another one's stores.
Abstract == INSTANCE ForkMemory
ImplementsFork == Abstract!Spec
=============================================================================
