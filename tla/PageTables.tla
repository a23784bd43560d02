----------------------------- MODULE PageTables -----------------------------
(***************************************************************************)
(* Physical pages, page tables and TLBs: kern/pmap.c, the page calls of    *)
(* kern/syscall.c, and the parts of kern/env.c that set up and tear down   *)
(* an address space.                                                       *)
(*                                                                         *)
(* Directories and tables live in physical pages of the same allocator as  *)
(* user data.  A call runs under the kernel lock and is one step, except   *)
(* env_free, which takes one step for every page it gives back.  User code *)
(* of other CPUs runs between any two steps and reaches memory through the *)
(* TLB of its CPU.                                                         *)
(***************************************************************************)
EXTENDS Integers, Sequences, FiniteSets

CONSTANTS Cpu, Env, Page,
          Page0,        \* physical page 0, never given out (pmap.c:346)
          RefMod,       \* pp_ref counts modulo RefMod, 2^16 in the code
          NIDX,         \* entries of a directory or a table
          Va,           \* user addresses in use: directory and table index
          None,
          NameUnmapped, \* may a program unmap or share an address it did not map?
          EditRunning   \* may it change the tables of one that runs elsewhere?

Idx == 0 .. NIDX - 1

ASSUME EnvAssumption == IsFiniteSet(Env)
ASSUME PagesAssumption == Page0 \in Page /\ IsFiniteSet(Page)
ASSUME SizeAssumption == NIDX \in Nat \ {0} /\ RefMod \in Nat \ {0, 1}
ASSUME VaAssumption == Va \subseteq Idx \X Idx
ASSUME NoneAssumption == None \notin Page \cup Env \cup [ppn : Page, w : BOOLEAN]
ASSUME FlagAssumption == {NameUnmapped, EditRunning} \subseteq BOOLEAN

VARIABLES pages,     \* the allocator and the contents of the pages
          env_pgdir, \* the page of each environment's directory, None if it has none
          curenv,    \* the environment each CPU runs
          tlb,       \* the translations each CPU has cached
          freeing    \* the CPU that is in env_free and the environment, or None

vars == <<pages, env_pgdir, curenv, tlb, freeing>>

\* An entry of a directory or a table.  PTE_U is set in all of them.
Entry == [ppn : Page, p : BOOLEAN, w : BOOLEAN]
Empty == [ppn |-> Page0, p |-> FALSE, w |-> FALSE]
Zeros == [i \in Idx |-> Empty]
Translation == [va : Va, ppn : Page, w : BOOLEAN]

\* The struct Pages and the pages themselves: the counts, page_free_list head
\* first, the contents as a table would be read, and who was stored to since
\* it was zeroed.
Pages == [ref : [Page -> 0 .. RefMod - 1], free : Seq(Page),
          mem : [Page -> [Idx -> Entry]], stored : SUBSET Page]

TypeOK == /\ pages \in Pages
          /\ env_pgdir \in [Env -> Page \cup {None}]
          /\ curenv \in [Cpu -> Env \cup {None}]
          /\ tlb \in [Cpu -> SUBSET Translation]
          /\ freeing \in (Cpu \X Env) \cup {None}

\* s lists the elements of S, each of them once.
Lists(s, S) == /\ {s[i] : i \in DOMAIN s} = S
               /\ \A i, j \in DOMAIN s : s[i] = s[j] => i = j

\* page_init; the order of the free list does not matter.  No environment yet.
Init == /\ \E free \in [1 .. Cardinality(Page) - 1 -> Page \ {Page0}] :
             /\ Lists(free, Page \ {Page0})
             /\ pages = [ref |-> [p \in Page |-> 0], free |-> free,
                         mem |-> [p \in Page |-> Zeros], stored |-> {}]
        /\ env_pgdir = [e \in Env |-> None]
        /\ curenv = [c \in Cpu |-> None]
        /\ tlb = [c \in Cpu |-> {}]
        /\ freeing = None

-----------------------------------------------------------------------------
(* pmap.c, as functions of the state m of the pages                        *)

\* Mutant: ALLOC_ZERO is forgotten.
PageAlloc_NotZeroed(m) == [m EXCEPT !.free = Tail(@)]

\* page_alloc(ALLOC_ZERO); the page is Head(m.free)
PageAlloc(m) == [m EXCEPT !.free = Tail(@), !.mem[Head(m.free)] = Zeros,
                          !.stored = @ \ {Head(m.free)}]

PageFree(m, p) == [m EXCEPT !.free = <<p>> \o @]

PageDecref(m, p) ==
  LET r == (m.ref[p] - 1) % RefMod
      d == [m EXCEPT !.ref[p] = r]
  IN IF r = 0 THEN PageFree(d, p) ELSE d

PageIncref(m, p) == [m EXCEPT !.ref[p] = (@ + 1) % RefMod]

HasTable(m, dir, va) == m.mem[dir][va[1]].p
Table(m, dir, va) == m.mem[dir][va[1]].ppn
Pte(m, dir, va) == m.mem[Table(m, dir, va)][va[2]]
SetPte(m, dir, va, entry) == [m EXCEPT !.mem[Table(m, dir, va)][va[2]] = entry]

\* pgdir_walk(dir, va, 1)
CanWalk(m, dir, va) == HasTable(m, dir, va) \/ m.free # << >>
Walk(m, dir, va) ==
  IF HasTable(m, dir, va) THEN m
  ELSE LET t == Head(m.free)
       IN [PageAlloc(m) EXCEPT !.mem[dir][va[1]] = [ppn |-> t, p |-> TRUE, w |-> TRUE],
                               !.ref[t] = 1]

\* The page page_lookup returns: the address in the entry, present or not.
PageLookup(m, dir, va) == IF HasTable(m, dir, va) THEN Pte(m, dir, va).ppn ELSE None

PageRemove(m, dir, va) ==
  IF PageLookup(m, dir, va) = None THEN m
  ELSE SetPte(PageDecref(m, PageLookup(m, dir, va)), dir, va, Empty)

\* Mutant: a page that is inserted where it already is counts once more.
PageInsert_CountsAgain(m, dir, p, va, w) ==
  LET walked == Walk(m, dir, va)
      old == Pte(walked, dir, va)
      counted == PageIncref(IF old.p /\ old.ppn # p THEN PageRemove(walked, dir, va)
                            ELSE walked, p)
  IN SetPte(counted, dir, va, [ppn |-> p, p |-> TRUE, w |-> w])

\* Mutant: the old page is removed first, even if it is the new one.
PageInsert_RemovesFirst(m, dir, p, va, w) ==
  LET walked == Walk(m, dir, va)
      old == Pte(walked, dir, va)
      counted == PageIncref(IF old.p THEN PageRemove(walked, dir, va) ELSE walked, p)
  IN SetPte(counted, dir, va, [ppn |-> p, p |-> TRUE, w |-> w])

\* page_insert when the walk succeeds
PageInsert(m, dir, p, va, w) ==
  LET walked == Walk(m, dir, va)
      old == Pte(walked, dir, va)
      counted == IF old.ppn = p THEN walked
                 ELSE PageIncref(IF old.p THEN PageRemove(walked, dir, va) ELSE walked, p)
  IN SetPte(counted, dir, va, [ppn |-> p, p |-> TRUE, w |-> w])

Mapped(m, dir, va) == HasTable(m, dir, va) /\ Pte(m, dir, va).p

-----------------------------------------------------------------------------
(* System calls of the environment that runs on CPU c                      *)

InUser(c) == curenv[c] # None /\ (freeing # None => freeing[1] # c)

\* The lock is free, and e is an address space the caller may change.
Editing(c, e) ==
  /\ freeing = None /\ curenv[c] # None /\ env_pgdir[e] # None
  /\ EditRunning \/ \A d \in Cpu \ {c} : curenv[d] # e

\* Mutant: cr3 is not loaded again.
Flush_Forgotten(c) == UNCHANGED tlb

\* Every return to user mode goes through lcr3 in env_run, which empties the TLB.
Flush(c) == tlb' = [tlb EXCEPT ![c] = {}]

\* env_setup_vm, for sys_exofork and for the environments the kernel creates
EnvSetupVm(c, e) ==
  /\ freeing = None /\ env_pgdir[e] = None /\ pages.free # << >>
  /\ pages' = PageIncref(PageAlloc(pages), Head(pages.free))
  /\ env_pgdir' = [env_pgdir EXCEPT ![e] = Head(pages.free)]
  /\ Flush(c)
  /\ UNCHANGED <<curenv, freeing>>

SysPageAlloc(c, e, va, w) ==
  /\ Editing(c, e) /\ pages.free # << >>
  /\ LET p == Head(pages.free)
         m == PageAlloc(pages)
     IN pages' = IF CanWalk(m, env_pgdir[e], va)
                 THEN PageInsert(m, env_pgdir[e], p, va, w) ELSE PageFree(m, p)
  /\ Flush(c)
  /\ UNCHANGED <<env_pgdir, curenv, freeing>>

\* Mutant: a read-only page may be mapped writable.
SysPageMap_AnyRights(c, srce, srcva, dste, dstva, w) ==
  LET src == env_pgdir[srce]
      dst == env_pgdir[dste]
  IN /\ Editing(c, dste) /\ src # None
     /\ Mapped(pages, src, srcva)
     /\ CanWalk(pages, dst, dstva)
     /\ pages' = PageInsert(pages, dst, PageLookup(pages, src, srcva), dstva, w)
     /\ Flush(c)
     /\ UNCHANGED <<env_pgdir, curenv, freeing>>

\* sys_page_map, and the page of sys_ipc_try_send
SysPageMap(c, srce, srcva, dste, dstva, w) ==
  LET src == env_pgdir[srce]
      dst == env_pgdir[dste]
  IN /\ Editing(c, dste) /\ src # None
     /\ HasTable(pages, src, srcva)
     /\ NameUnmapped \/ Mapped(pages, src, srcva)
     /\ w => Pte(pages, src, srcva).w
     /\ CanWalk(pages, dst, dstva)
     /\ pages' = PageInsert(pages, dst, PageLookup(pages, src, srcva), dstva, w)
     /\ Flush(c)
     /\ UNCHANGED <<env_pgdir, curenv, freeing>>

SysPageUnmap(c, e, va) ==
  /\ Editing(c, e)
  /\ HasTable(pages, env_pgdir[e], va)
  /\ NameUnmapped \/ Mapped(pages, env_pgdir[e], va)
  /\ pages' = PageRemove(pages, env_pgdir[e], va)
  /\ Flush(c)
  /\ UNCHANGED <<env_pgdir, curenv, freeing>>

-----------------------------------------------------------------------------
(* env_free                                                                *)

\* e is current on no other CPU (env_destroy makes it a zombie otherwise); if
\* it is current here, the CPU leaves its directory first.
EnvFree(c, e) ==
  /\ freeing = None /\ env_pgdir[e] # None
  /\ \A d \in Cpu \ {c} : curenv[d] # e
  /\ freeing' = <<c, e>>
  /\ tlb' = IF curenv[c] = e THEN [tlb EXCEPT ![c] = {}] ELSE tlb
  /\ UNCHANGED <<pages, env_pgdir, curenv>>

Dir == env_pgdir[freeing[2]]

\* The loops run through the directory and each table in order.
FirstTable(i) == /\ pages.mem[Dir][i].p
                 /\ \A k \in Idx : k < i => ~pages.mem[Dir][k].p
FirstPage(i, j) == /\ FirstTable(i) /\ Pte(pages, Dir, <<i, j>>).p
                   /\ \A k \in Idx : k < j => ~Pte(pages, Dir, <<i, k>>).p

FreePage == /\ freeing # None
            /\ \E i, j \in Idx : /\ FirstPage(i, j)
                                 /\ pages' = PageRemove(pages, Dir, <<i, j>>)
            /\ UNCHANGED <<env_pgdir, curenv, tlb, freeing>>

FreeTable == /\ freeing # None
             /\ \E i \in Idx :
                  /\ FirstTable(i) /\ \A j \in Idx : ~Pte(pages, Dir, <<i, j>>).p
                  /\ pages' = PageDecref([pages EXCEPT !.mem[Dir][i] = Empty],
                                         pages.mem[Dir][i].ppn)
             /\ UNCHANGED <<env_pgdir, curenv, tlb, freeing>>

FreeDirectory ==
  /\ freeing # None
  /\ \A i \in Idx : ~pages.mem[Dir][i].p
  /\ pages' = PageDecref(pages, Dir)
  /\ env_pgdir' = [env_pgdir EXCEPT ![freeing[2]] = None]
  /\ curenv' = [c \in Cpu |-> IF curenv[c] = freeing[2] THEN None ELSE curenv[c]]
  /\ freeing' = None
  /\ Flush(freeing[1])

-----------------------------------------------------------------------------
(* CPUs                                                                    *)

\* The scheduler enters e on CPU c, and lcr3 empties the TLB.
EnvRun(c, e) == /\ freeing = None /\ env_pgdir[e] # None
                /\ \A d \in Cpu : curenv[d] # e
                /\ curenv' = [curenv EXCEPT ![c] = e]
                /\ Flush(c)
                /\ UNCHANGED <<pages, env_pgdir, freeing>>

\* The hardware walks the tables of curenv and caches what it finds.
Fill(c, va) ==
  /\ InUser(c)
  /\ Mapped(pages, env_pgdir[curenv[c]], va)
  /\ LET entry == Pte(pages, env_pgdir[curenv[c]], va)
     IN tlb' = [tlb EXCEPT ![c] = {t \in @ : t.va # va}
                                    \cup {[va |-> va, ppn |-> entry.ppn, w |-> entry.w]}]
  /\ UNCHANGED <<pages, env_pgdir, curenv, freeing>>

\* User code stores through a cached translation.
Store(c, t) == /\ InUser(c) /\ t.w
               /\ pages' = [pages EXCEPT !.stored = @ \cup {t.ppn}]
               /\ UNCHANGED <<env_pgdir, curenv, tlb, freeing>>

Call(c) == \E e \in Env, va \in Va :
             \/ \E w \in BOOLEAN : SysPageAlloc(c, e, va, w)
             \/ \E f \in Env, vb \in Va, w \in BOOLEAN : SysPageMap(c, e, va, f, vb, w)
             \/ SysPageUnmap(c, e, va)

Next == \/ \E c \in Cpu : \/ Call(c)
                          \/ \E e \in Env : EnvSetupVm(c, e) \/ EnvFree(c, e) \/ EnvRun(c, e)
                          \/ \E va \in Va : Fill(c, va)
                          \/ \E t \in tlb[c] : Store(c, t)
        \/ FreePage \/ FreeTable \/ FreeDirectory

Spec == Init /\ [][Next]_vars

-----------------------------------------------------------------------------
(* What the pages are used for                                             *)

Live == {e \in Env : env_pgdir[e] # None}
Pde(e, i) == pages.mem[env_pgdir[e]][i]

\* The pointers to page p: from an environment, a directory, a table.
DirRefs(p) == {e \in Live : env_pgdir[e] = p}
TableRefs(p) == {x \in Live \X Idx : Pde(x[1], x[2]).p /\ Pde(x[1], x[2]).ppn = p}
PageRefs(p) == {x \in Live \X Idx \X Idx :
                  /\ Pde(x[1], x[2]).p
                  /\ LET entry == Pte(pages, env_pgdir[x[1]], <<x[2], x[3]>>)
                     IN entry.p /\ entry.ppn = p}
Refs(p) == Cardinality(DirRefs(p)) + Cardinality(TableRefs(p)) + Cardinality(PageRefs(p))

\* "pp_ref is the count of pointers (usually in page table entries) to this
\* page" (memlayout.h:185), however pages are shared, re-inserted, replaced,
\* or given back half way through env_free.
RefExact == \A p \in Page : pages.ref[p] = Refs(p)

\* The free list has the pages that nothing points to, each once: no page is
\* lost, also when a call fails for want of memory, and none in use is given
\* out again (pmap.c:414, 446, syscall.c:229).
FreeExact == Lists(pages.free, {p \in Page \ {Page0} : Refs(p) = 0})

\* A directory or a table belongs to one place, is mapped nowhere in user
\* space, and starts from zeros: no program writes into page tables.
TablesPrivate == \A p \in Page :
  DirRefs(p) # {} \/ TableRefs(p) # {} =>
    Refs(p) = 1 /\ PageRefs(p) = {} /\ p \notin pages.stored

\* A CPU that runs user code caches nothing its tables do not say: "The TLB
\* must be invalidated if a page was formerly present" (pmap.c:555, 631).
TlbFresh == \A c \in Cpu : InUser(c) => \A t \in tlb[c] :
  /\ Mapped(pages, env_pgdir[curenv[c]], t.va)
  /\ LET entry == Pte(pages, env_pgdir[curenv[c]], t.va)
     IN entry.ppn = t.ppn /\ (t.w => entry.w)

\* What each environment has mapped, and the pages that are not zero.
space == [e \in Env |-> [va \in Va |->
            IF e \in Live /\ Mapped(pages, env_pgdir[e], va)
            THEN LET entry == Pte(pages, env_pgdir[e], va)
                 IN [ppn |-> entry.ppn, w |-> entry.w]
            ELSE None]]
dirty == {p \in pages.stored : PageRefs(p) # {}}

\* Behind tables, counts and TLBs, programs see address spaces: one address
\* changes per step, new pages are zero and nobody else's, rights never grow,
\* and a store goes where the map of its environment says.
Abstract == INSTANCE AddressSpaces
ImplementsSpaces == Abstract!Spec
=============================================================================
