--------------------------- MODULE CowForkProofs ---------------------------
(***************************************************************************)
(* For any number of environments, pages and values: the types of CowFork; *)
(* pages that somebody may write and nobody else has; exception stacks of  *)
(* their own; and fork as programs see it, a copy of the memory made at    *)
(* one instant.                                                            *)
(*                                                                         *)
(* Three invariants, each of which needs the one before it.  TypeInv says  *)
(* who builds which child and how far its duppage loop is.  Separate says  *)
(* which two entries may lead to one page that can be written: the scratch *)
(* address of pgfault and the address it copies, and a child's entry and   *)
(* the one its parent marks next.  Faithful says that what a parent has    *)
(* marked is what its child has, and that a page pgfault has filled holds  *)
(* what the page holds that it replaces.                                   *)
(***************************************************************************)
EXTENDS CowFork, FiniteSetTheorems, WellFoundedInduction, TLAPS

Forking == {"child", "own", "status"}

\* Who builds which child, what is known of free environments, and what a page
\* fault handler is at.
Families ==
  /\ \A e \in Env : child[e] # None <=> pc[e] \in Forking
  /\ \A e \in Env : child[e] # None => pc[child[e]] = "embryo"
  /\ \A e, f \in Env : child[e] = child[f] /\ child[e] # None => e = f
  /\ \A e \in Env : pc[e] = "free" => ~upcall[e] /\ \A va \in Va : pte[e][va] = None
  /\ \A e \in Env : pc[e] \in Forking => upcall[e]
  /\ \A e \in Env : fault[e] # None =>
       /\ pc[e] \in {"user", "status"} /\ fault[e].va \in Addr /\ pte[e][fault[e].va] # None
       /\ fault[e].at = "map" => pte[e][PFTEMP] # None

\* duppage never faults: the stack can be written until it is marked.
Progress == \A e \in Env : pc[e] \in {"child", "own"} =>
  /\ Writable(e, STACK) /\ pn[e] <= STACK
  /\ \A va \in Va : va < pn[e] => ~Writable(e, va)
  /\ pc[e] = "own" => pte[e][pn[e]] # None

TypeInv == TypeOK /\ Families /\ Progress

Tables == [Env -> [Va -> Entry \cup {None}]]
Memories == [Page -> Value \cup {Zero}]

\* The addresses of the model, in order.
LEMMA Places ==
  /\ PFTEMP \in Va /\ STACK \in Va /\ UXSTACK \in Va /\ Addr \subseteq Va /\ Va \subseteq Int
  /\ STACK \in Addr /\ PFTEMP \notin Addr /\ UXSTACK \notin Addr /\ STACK # UXSTACK
  /\ PFTEMP # UXSTACK /\ PFTEMP # STACK /\ PFTEMP <= STACK
  /\ \A va \in Va : PFTEMP <= va /\ (va <= STACK <=> va # UXSTACK)
  /\ \A va \in Va : va <= STACK => va + 1 \in Va /\ (va # STACK => va + 1 <= STACK)
  /\ LastPage = STACK /\ \A a \in Addr : a <= STACK
BY SizeAssumption DEF PFTEMP, STACK, UXSTACK, Addr, DataPages, Va, LastPage

\* Addresses are numbers.
LEMMA VaOrder ==
  ASSUME NEW va \in Va, NEW vb \in Va
  PROVE  /\ va < vb \/ vb <= va
         /\ va < vb + 1 <=> (va < vb \/ va = vb)
         /\ va <= vb <=> (va < vb \/ va = vb)
         /\ va <= STACK => va + 1 \in Va
<1>1. va \in Int /\ vb \in Int /\ (va <= STACK => va + 1 \in Va)
  BY SizeAssumption DEF Va, STACK, UXSTACK
<1> QED BY <1>1

\* The two kinds of entries that the calls make.
LEMMA MappingFacts ==
  ASSUME NEW p \in Page
  PROVE  /\ Mapping(p, TRUE, FALSE) \in Entry /\ Mapping(p, FALSE, TRUE) \in Entry
         /\ Mapping(p, TRUE, FALSE) # None /\ Mapping(p, FALSE, TRUE) # None
         /\ Mapping(p, TRUE, FALSE).page = p /\ Mapping(p, FALSE, TRUE).page = p
         /\ Mapping(p, TRUE, FALSE).w /\ ~Mapping(p, FALSE, TRUE).w
         /\ ~Mapping(p, TRUE, FALSE).cow /\ Mapping(p, FALSE, TRUE).cow
<1>1. Mapping(p, TRUE, FALSE) \in Entry /\ Mapping(p, FALSE, TRUE) \in Entry
  BY DEF Mapping, Entry
<1>2. None \notin Entry
  BY NoneAssumption DEF Entry
<1>3. /\ Mapping(p, TRUE, FALSE).page = p /\ Mapping(p, FALSE, TRUE).page = p
      /\ Mapping(p, TRUE, FALSE).w /\ ~Mapping(p, FALSE, TRUE).w
      /\ ~Mapping(p, TRUE, FALSE).cow /\ Mapping(p, FALSE, TRUE).cow
  BY DEF Mapping
<1> QED BY <1>1, <1>2, <1>3

\* A set of numbers that is not empty has a least one.
LEMMA Least == ASSUME NEW S, S \subseteq Nat, S # {} PROVE \E p \in S : \A q \in S : p <= q
<1>1. PICK p \in S : \A q \in S : ~ (<<q, p>> \in OpToRel(<,Nat))
  <2> DEFINE R == OpToRel(<,Nat)
  <2>1. IsWellFoundedOn(R, Nat)
    BY NatLessThanWellFounded
  <2> HIDE DEF R
  <2>2. \E p \in S : \A q \in S : ~(<<q, p>> \in R)
    BY <2>1, WFMin
  <2> QED BY <2>2 DEF R
<1>2. \A q \in S : ~ (q < p)
  BY <1>1 DEF OpToRel
<1> QED BY <1>2

\* The table u is t but for the entry of e's va.
Sets(t, e, va, entry, u) ==
  u \in Tables /\ \A f \in Env, vb \in Va :
                    u[f][vb] = IF f = e /\ vb = va THEN entry ELSE t[f][vb]

\* One entry of a table is set.
LEMMA SetFacts ==
  ASSUME NEW t \in Tables, NEW e \in Env, NEW va \in Va, NEW entry \in Entry \cup {None},
         NEW u, u = [t EXCEPT ![e][va] = entry]
  PROVE  Sets(t, e, va, entry, u)
BY DEF Tables, Sets

\* The table u and the pages n are t and m after the free page p has been mapped
\* at e's va.
Gets(t, m, e, va, p, u, n) ==
  /\ p \in FreePages(t) /\ p \in Page /\ n \in Memories
  /\ u = [t EXCEPT ![e][va] = Mapping(p, TRUE, FALSE)]
  /\ Sets(t, e, va, Mapping(p, TRUE, FALSE), u)
  /\ \A q \in Page : n[q] = IF q = p THEN Zero ELSE m[q]

\* sys_page_alloc maps a free page, if there is one: the smallest is one of them.
Allocates(t, m, e, va, u, n) ==
  IF FreePages(t) = {} THEN u = t /\ n = m
  ELSE \E p \in Page : Gets(t, m, e, va, p, u, n)

\* sys_page_alloc leaves everything, or maps the least free page and clears it.
LEMMA AllocFacts ==
  ASSUME NEW s, s.pte \in Tables, s.mem \in Memories, NEW e \in Env, NEW va \in Va
  PROVE  Allocates(s.pte, s.mem, e, va, SysPageAlloc(s, e, va).pte, SysPageAlloc(s, e, va).mem)
<1> DEFINE t == s.pte
           m == s.mem
           free == FreePages(t)
           least == CHOOSE p \in free : \A q \in free : p <= q
           r == SysPageAlloc(s, e, va)
<1>1. CASE free = {}
  <2>1. r = s
    BY <1>1 DEF SysPageAlloc
  <2> QED BY <1>1, <2>1 DEF Allocates
<1>2. CASE free # {}
  <2>1. free \subseteq Nat /\ free \subseteq Page
    BY SizeAssumption DEF FreePages, Page
  <2>2. least \in free
    <3> HIDE DEF free
    <3>1. \E p \in free : \A q \in free : p <= q
      BY <1>2, <2>1, Least
    <3> QED BY <3>1
  <2>3. r = [pte |-> [t EXCEPT ![e][va] = Mapping(least, TRUE, FALSE)], mem |-> [m EXCEPT ![least] = Zero]]
    BY <1>2 DEF SysPageAlloc
  <2>4. r.pte = [t EXCEPT ![e][va] = Mapping(least, TRUE, FALSE)] /\ r.mem = [m EXCEPT ![least] = Zero]
    BY <2>3
  <2>5. least \in Page /\ t \in Tables /\ m \in Memories
    BY <2>1, <2>2
  <2>6. Mapping(least, TRUE, FALSE) \in Entry
    BY <2>5, MappingFacts
  <2> HIDE DEF least, r, t, m
  <2>7. Sets(t, e, va, Mapping(least, TRUE, FALSE), r.pte)
    BY <2>4, <2>5, <2>6, SetFacts
  <2>8. r.mem \in Memories /\ \A q \in Page : r.mem[q] = IF q = least THEN Zero ELSE m[q]
    BY <2>4, <2>5 DEF Memories
  <2>9. Gets(t, m, e, va, least, r.pte, r.mem)
    BY <2>2, <2>4, <2>5, <2>7, <2>8 DEF Gets
  <2>10. Allocates(t, m, e, va, r.pte, r.mem)
    BY <1>2, <2>5, <2>9 DEF Allocates
  <2> QED BY <2>10 DEF t, m, r
<1> QED BY <1>1, <1>2

\* The invariant of types holds when the kernel has created Root.
LEMMA InitTypes == Init => TypeInv
<1> SUFFICES ASSUME Init PROVE TypeInv
  OBVIOUS
<1> USE DEF Init
<1>1. \A e \in Env, va \in Va : pte[e][va] \in Entry \cup {None}
  <2>1. \A va \in Addr : va \in Page
    BY SizeAssumption DEF Addr, DataPages, STACK, Page
  <2>2. \A va \in Addr : Mapping(va, va \notin ReadOnly, FALSE) \in Entry
    BY <2>1 DEF Mapping, Entry
  <2> QED BY <2>2
<1>2. pte \in Tables
  BY <1>1 DEF Tables
<1>3. TypeOK
  BY <1>2, Places, EnvAssumption DEF TypeOK, PC, PFTEMP, Tables
<1>4. Families
  BY NoneAssumption DEF Families, Forking
<1>5. Progress
  BY DEF Progress
<1> QED BY <1>3, <1>4, <1>5 DEF TypeInv

\* A step that leaves all but the contents of pages as it was.
LEMMA MemTypes ==
  ASSUME TypeInv, mem' \in Memories, UNCHANGED <<pte, upcall, pc, child, pn, fault>>
  PROVE  TypeInv'
BY DEF TypeInv, TypeOK, Families, Progress, Writable, Memories

\* A store.
LEMMA StoreTypes ==
  ASSUME TypeInv, NEW e \in Env, NEW a \in Addr, NEW v \in Value, Store(e, a, v)
  PROVE  TypeInv'
<1>1. pte[e][a].page \in Page
  BY Places DEF TypeInv, TypeOK, Store, Writable, Entry
<1>2. mem' \in Memories
  BY <1>1 DEF TypeInv, TypeOK, Store, Memories
<1> QED BY <1>2, MemTypes DEF Store

\* What env_free leaves of the others, and of e.
LEMMA FreedFacts ==
  ASSUME TypeInv, NEW e \in Env, EnvFree(e)
  PROVE  /\ \A f \in Env : f # e => /\ pte'[f] = pte[f] /\ upcall'[f] = upcall[f] /\ pc'[f] = pc[f]
                                    /\ child'[f] = child[f] /\ pn'[f] = pn[f] /\ fault'[f] = fault[f]
         /\ \A va \in Va : pte'[e][va] = None
         /\ ~upcall'[e] /\ pc'[e] = "free" /\ child'[e] = None /\ pn'[e] = 0 /\ fault'[e] = None
         /\ mem' = mem
BY DEF TypeInv, TypeOK, EnvFree, Unmapped

\* An environment that is destroyed is no child under construction.
LEMMA FreeTypes ==
  ASSUME TypeInv, NEW e \in Env, EnvFree(e), pc[e] # "embryo"
  PROVE  TypeInv'
<1>1. TypeOK'
  <2>1. Unmapped \in [Va -> Entry \cup {None}]
    BY DEF Unmapped
  <2>2. 0 \in Va /\ "free" \in PC
    BY Places DEF PFTEMP, PC
  <2> QED BY <2>1, <2>2 DEF TypeInv, TypeOK, EnvFree
<1>2. \A g \in Env : child[g] # e
  BY NoneAssumption DEF TypeInv, Families
<1>3. Families'
  <2>1. /\ \A g \in Env : child'[g] # None <=> pc'[g] \in Forking
        /\ \A g \in Env : pc'[g] = "free" => ~upcall'[g] /\ \A va \in Va : pte'[g][va] = None
        /\ \A g \in Env : pc'[g] \in Forking => upcall'[g]
    BY FreedFacts DEF TypeInv, Families, Forking
  <2>2. \A g \in Env : child'[g] # None => pc'[child'[g]] = "embryo"
    BY FreedFacts, <1>2 DEF TypeInv, TypeOK, Families
  <2>3. \A g, h \in Env : child'[g] = child'[h] /\ child'[g] # None => g = h
    BY FreedFacts DEF TypeInv, Families
  <2>4. \A g \in Env : fault'[g] # None =>
           /\ pc'[g] \in {"user", "status"} /\ fault'[g].va \in Addr /\ pte'[g][fault'[g].va] # None
           /\ fault'[g].at = "map" => pte'[g][PFTEMP] # None
    BY FreedFacts DEF TypeInv, Families
  <2> QED BY <2>1, <2>2, <2>3, <2>4 DEF Families
<1>4. Progress'
  BY FreedFacts DEF TypeInv, Progress, Writable
<1> QED BY <1>1, <1>3, <1>4 DEF TypeInv

\* An exit.
LEMMA ExitTypes ==
  ASSUME TypeInv, NEW e \in Env, Exit(e)
  PROVE  TypeInv'
BY FreeTypes DEF Exit

\* While fork copies, the stack can be written: a fault is one of ordinary code
\* or of the code after the copying.
LEMMA FaultPlaces ==
  ASSUME TypeInv, NEW e \in Env, NEW a \in Addr, PageFault(e, a)
  PROVE  pc[e] \in {"user", "status"}
<1>1. pc[e] \in {"child", "own"} => a = STACK /\ Writable(e, STACK)
  BY DEF TypeInv, Progress, PageFault
<1>2. pc[e] \in PC /\ pc[e] # "free" /\ pc[e] # "embryo"
  BY DEF TypeInv, TypeOK, PageFault, Running, Live
<1> QED BY <1>1, <1>2 DEF PageFault, PC

\* page_fault_handler.
LEMMA PageFaultTypes ==
  ASSUME TypeInv, NEW e \in Env, NEW a \in Addr, PageFault(e, a)
  PROVE  TypeInv'
<1>1. CASE EnvFree(e)
  BY <1>1, FaultPlaces, FreeTypes
<1>2. CASE /\ fault' = [fault EXCEPT ![e] = [va |-> a, at |-> "alloc"]]
           /\ UNCHANGED <<pte, mem, upcall, pc, child, pn>>
  <2>1. TypeOK'
    <3>1. [va |-> a, at |-> "alloc"] \in Fault
      BY Places DEF Fault
    <3> QED BY <1>2, <3>1 DEF TypeInv, TypeOK
  <2>2. \A g \in Env : fault'[g] = IF g = e THEN [va |-> a, at |-> "alloc"] ELSE fault[g]
    BY <1>2 DEF TypeInv, TypeOK
  <2>3. Families'
    <3>1. \A g \in Env : fault'[g] # None =>
            /\ pc'[g] \in {"user", "status"} /\ fault'[g].va \in Addr /\ pte'[g][fault'[g].va] # None
            /\ fault'[g].at = "map" => pte'[g][PFTEMP] # None
      <4>1. pte[e][a] # None /\ pc[e] \in {"user", "status"}
        BY FaultPlaces DEF PageFault
      <4>2. \A g \in Env : g # e => fault'[g] = fault[g]
        BY <2>2
      <4>3. fault'[e].va = a /\ fault'[e].at = "alloc"
        BY <2>2
      <4> QED BY <1>2, <4>1, <4>2, <4>3 DEF TypeInv, Families
    <3> QED BY <1>2, <3>1 DEF TypeInv, Families
  <2>4. Progress'
    BY <1>2 DEF TypeInv, Progress, Writable
  <2> QED BY <2>1, <2>3, <2>4 DEF TypeInv
<1> QED BY <1>1, <1>2 DEF PageFault

\* A step of e that changes e's table at one address, where it maps something,
\* outside fork's copying.
LEMMA EntryTypes ==
  ASSUME TypeInv, NEW e \in Env, NEW va \in Va, NEW entry \in Entry,
         pte' = [pte EXCEPT ![e][va] = entry], mem' \in Memories,
         pc[e] \in {"user", "status"},
         NEW next \in Fault \cup {None}, fault' = [fault EXCEPT ![e] = next],
         next # None => /\ next.va \in Addr /\ pte[e][next.va] # None
                        /\ next.at = "map" => va = PFTEMP \/ pte[e][PFTEMP] # None,
         UNCHANGED <<upcall, pc, child, pn>>
  PROVE  TypeInv'
<1>1. pte' \in Tables /\ \A f \in Env, vb \in Va :
        pte'[f][vb] = IF f = e /\ vb = va THEN entry ELSE pte[f][vb]
  BY SetFacts DEF TypeInv, TypeOK, Tables, Sets
<1>2. \A g \in Env : fault'[g] = IF g = e THEN next ELSE fault[g]
  BY DEF TypeInv, TypeOK
<1>3. entry # None
  BY NoneAssumption DEF Entry
<1>4. TypeOK'
  BY <1>1 DEF TypeInv, TypeOK, Tables, Memories
<1>5. Families'
  <2>1. \A g \in Env : pc'[g] = "free" => ~upcall'[g] /\ \A vb \in Va : pte'[g][vb] = None
    BY <1>1 DEF TypeInv, Families
  <2>2. \A g \in Env : fault'[g] # None =>
          /\ pc'[g] \in {"user", "status"} /\ fault'[g].va \in Addr /\ pte'[g][fault'[g].va] # None
          /\ fault'[g].at = "map" => pte'[g][PFTEMP] # None
    BY <1>1, <1>2, <1>3, Places DEF TypeInv, Families
  <2> QED BY <2>1, <2>2 DEF TypeInv, Families
<1>6. Progress'
  <2> SUFFICES ASSUME NEW g \in Env, pc'[g] \in {"child", "own"}
      PROVE  /\ Writable(g, STACK)' /\ pn'[g] <= STACK
             /\ \A vb \in Va : vb < pn'[g] => ~Writable(g, vb)'
             /\ pc'[g] = "own" => pte'[g][pn'[g]] # None
    BY DEF Progress
  <2>1. g # e /\ pc[g] \in {"child", "own"} /\ pn'[g] = pn[g] /\ pn[g] \in Va
    BY DEF TypeInv, TypeOK
  <2>2. \A vb \in Va : pte'[g][vb] = pte[g][vb]
    BY <1>1, <2>1
  <2>3. \A vb \in Va : Writable(g, vb)' <=> Writable(g, vb)
    BY <2>2 DEF Writable
  <2> QED BY <2>1, <2>2, <2>3, Places DEF TypeInv, Progress
<1> QED BY <1>4, <1>5, <1>6 DEF TypeInv

\* A step of e in its page fault handler that leaves the tables alone.
LEMMA FaultTypes ==
  ASSUME TypeInv, NEW e \in Env, mem' \in Memories, pc[e] \in {"user", "status"},
         NEW next \in Fault \cup {None}, fault' = [fault EXCEPT ![e] = next],
         next # None => /\ next.va \in Addr /\ pte[e][next.va] # None
                        /\ next.at = "map" => pte[e][PFTEMP] # None,
         UNCHANGED <<pte, upcall, pc, child, pn>>
  PROVE  TypeInv'
<1>1. \A g \in Env : fault'[g] = IF g = e THEN next ELSE fault[g]
  BY DEF TypeInv, TypeOK
<1>2. TypeOK'
  BY DEF TypeInv, TypeOK, Memories
<1>3. Families'
  <2>1. \A g \in Env : fault'[g] # None =>
          /\ pc'[g] \in {"user", "status"} /\ fault'[g].va \in Addr /\ pte'[g][fault'[g].va] # None
          /\ fault'[g].at = "map" => pte'[g][PFTEMP] # None
    BY <1>1 DEF TypeInv, Families
  <2> QED BY <2>1 DEF TypeInv, Families
<1>4. Progress'
  BY DEF TypeInv, Progress, Writable
<1> QED BY <1>2, <1>3, <1>4 DEF TypeInv

\* What a handler knows of its fault, and how it goes on.
LEMMA HandlingFacts ==
  ASSUME TypeInv, NEW e \in Env, NEW at \in {"alloc", "copy", "map"}, Handling(e, at),
         NEW to \in {"alloc", "copy", "map"}
  PROVE  /\ pc[e] \in {"user", "status"} /\ fault[e] \in Fault
         /\ fault[e].va \in Addr /\ fault[e].va \in Va /\ pte[e][fault[e].va] # None
         /\ pte[e][fault[e].va].page \in Page
         /\ at = "map" => pte[e][PFTEMP] # None /\ pte[e][PFTEMP].page \in Page
         /\ NextIn(e, to) => \E next \in Fault :
              /\ fault' = [fault EXCEPT ![e] = next] /\ next.va = fault[e].va /\ next.at = to
<1>1. /\ fault[e] # None /\ fault[e] \in Fault \cup {None} /\ fault[e].at = at
      /\ pc[e] \in {"user", "status"} /\ fault[e].va \in Addr /\ pte[e][fault[e].va] # None
      /\ at = "map" => pte[e][PFTEMP] # None
  BY DEF TypeInv, TypeOK, Families, Handling
<1>2. fault[e] \in Fault
  BY <1>1
<1>3. \A va \in Va : pte[e][va] # None => pte[e][va].page \in Page
  BY DEF TypeInv, TypeOK, Entry
<1>4. ASSUME NextIn(e, to)
      PROVE  \E next \in Fault : /\ fault' = [fault EXCEPT ![e] = next]
                                 /\ next.va = fault[e].va /\ next.at = to
  <2> DEFINE next == [va |-> fault[e].va, at |-> to]
  <2>1. next \in Fault /\ next = [fault[e] EXCEPT !.at = to]
    BY <1>2 DEF Fault
  <2>2. fault' = [fault EXCEPT ![e] = [fault[e] EXCEPT !.at = to]]
    BY <1>4 DEF NextIn
  <2>3. fault' = [fault EXCEPT ![e] = next]
    BY <2>1, <2>2
  <2> QED BY <2>1, <2>3
<1> QED BY <1>1, <1>2, <1>3, <1>4, Places

\* The first call of pgfault leaves the tables or maps a free page at PFTEMP.
LEMMA PgfaultAllocFacts ==
  ASSUME TypeInv, NEW e \in Env, PgfaultAlloc(e)
  PROVE  Allocates(pte, mem, e, PFTEMP, pte', mem')
<1>1. Memory.pte = pte /\ Memory.mem = mem
  BY DEF Memory
<1>2. Memory.pte \in Tables /\ Memory.mem \in Memories
  BY <1>1 DEF TypeInv, TypeOK, Tables, Memories
<1>3. pte' = SysPageAlloc(Memory, e, PFTEMP).pte /\ mem' = SysPageAlloc(Memory, e, PFTEMP).mem
  BY DEF PgfaultAlloc, Becomes
<1> HIDE DEF Memory
<1> QED BY <1>1, <1>2, <1>3, AllocFacts, Places

\* pgfault's call of sys_page_alloc.
LEMMA PgfaultAllocTypes ==
  ASSUME TypeInv, NEW e \in Env, PgfaultAlloc(e)
  PROVE  TypeInv'
<1>1. Handling(e, "alloc") /\ NextIn(e, "copy") /\ UNCHANGED <<upcall, pc, child, pn>>
  BY DEF PgfaultAlloc
<1>2. PICK next \in Fault : /\ fault' = [fault EXCEPT ![e] = next]
                            /\ next.va = fault[e].va /\ next.at = "copy"
  BY <1>1, HandlingFacts
<1>3. pc[e] \in {"user", "status"} /\ next.va \in Addr /\ pte[e][next.va] # None
  BY <1>1, <1>2, HandlingFacts
<1>4. CASE pte' = pte /\ mem' = mem
  <2>1. mem' \in Memories
    BY <1>4 DEF TypeInv, TypeOK, Memories
  <2> QED BY <1>1, <1>2, <1>3, <1>4, <2>1, FaultTypes
<1>5. CASE \E p \in Page : Gets(pte, mem, e, PFTEMP, p, pte', mem')
  <2>1. PICK p \in Page : /\ pte' = [pte EXCEPT ![e][PFTEMP] = Mapping(p, TRUE, FALSE)]
                          /\ mem' \in Memories
    BY <1>5 DEF Gets
  <2>2. Mapping(p, TRUE, FALSE) \in Entry
    BY MappingFacts
  <2> QED BY <1>1, <1>2, <1>3, <2>1, <2>2, Places, EntryTypes
<1> QED BY <1>4, <1>5, PgfaultAllocFacts DEF Allocates

\* pgfault's memmove.
LEMMA PgfaultCopyTypes ==
  ASSUME TypeInv, NEW e \in Env, PgfaultCopy(e)
  PROVE  TypeInv'
<1>1. Handling(e, "copy")
  BY DEF PgfaultCopy
<1>2. pc[e] \in {"user", "status"} /\ fault[e].va \in Addr /\ pte[e][fault[e].va] # None
      /\ pte[e][fault[e].va].page \in Page
  BY <1>1, HandlingFacts
<1>3. CASE EnvFree(e)
  BY <1>2, <1>3, FreeTypes
<1>4. CASE /\ Writable(e, PFTEMP)
           /\ mem' = [mem EXCEPT ![pte[e][PFTEMP].page] = mem[pte[e][fault[e].va].page]]
           /\ NextIn(e, "map")
           /\ UNCHANGED <<pte, upcall, pc, child, pn>>
  <2>1. PICK next \in Fault : /\ fault' = [fault EXCEPT ![e] = next]
                              /\ next.va = fault[e].va /\ next.at = "map"
    BY <1>1, <1>4, HandlingFacts
  <2>2. mem' \in Memories
    BY <1>2, <1>4 DEF TypeInv, TypeOK, Memories
  <2>3. pte[e][PFTEMP] # None
    BY <1>4 DEF Writable
  <2> QED BY <1>2, <1>4, <2>1, <2>2, <2>3, FaultTypes
<1> QED BY <1>3, <1>4 DEF PgfaultCopy

\* pgfault's call of sys_page_map.
LEMMA PgfaultMapTypes ==
  ASSUME TypeInv, NEW e \in Env, PgfaultMap(e)
  PROVE  TypeInv'
<1>1. /\ Handling(e, "map") /\ UNCHANGED <<mem, upcall, pc, child, pn>>
      /\ pte' = [pte EXCEPT ![e][fault[e].va] = Mapping(pte[e][PFTEMP].page, TRUE, FALSE)]
      /\ fault' = [fault EXCEPT ![e] = None]
  BY DEF PgfaultMap, SysPageMap
<1>2. pc[e] \in {"user", "status"} /\ fault[e].va \in Va /\ pte[e][PFTEMP].page \in Page
  BY <1>1, HandlingFacts
<1>3. Mapping(pte[e][PFTEMP].page, TRUE, FALSE) \in Entry
  BY <1>2, MappingFacts
<1>4. mem' \in Memories
  BY <1>1 DEF TypeInv, TypeOK, Memories
<1> QED BY <1>1, <1>2, <1>3, <1>4, EntryTypes

\* Whatever sys_page_alloc does, tables and pages keep their types and the other
\* addresses their entries; no entry is removed.
LEMMA AllocatesTypes ==
  ASSUME NEW t \in Tables, NEW m \in Memories, NEW e \in Env, NEW va \in Va, NEW u, NEW n,
         Allocates(t, m, e, va, u, n)
  PROVE  /\ u \in Tables /\ n \in Memories
         /\ \A g \in Env, vb \in Va : g # e \/ vb # va => u[g][vb] = t[g][vb]
         /\ t[e][va] # None => u[e][va] # None
<1>1. CASE FreePages(t) = {}
  BY <1>1 DEF Allocates
<1>2. CASE FreePages(t) # {}
  <2>1. PICK p \in Page : Gets(t, m, e, va, p, u, n)
    BY <1>2 DEF Allocates
  <2>2. Mapping(p, TRUE, FALSE) # None
    BY MappingFacts
  <2>3. u \in Tables /\ n \in Memories
    BY <2>1 DEF Gets, Sets
  <2>4. \A g \in Env, vb \in Va :
          u[g][vb] = IF g = e /\ vb = va THEN Mapping(p, TRUE, FALSE) ELSE t[g][vb]
    BY <2>1 DEF Gets, Sets
  <2> QED BY <2>2, <2>3, <2>4
<1> QED BY <1>1, <1>2

\* The tables and pages between the two allocations of fork.
Between(e, t, m) ==
  IF upcall[e] THEN t = pte /\ m = mem ELSE Allocates(pte, mem, e, UXSTACK, t, m)

\* What fork allocates, one after the other.
LEMMA ForkFacts ==
  ASSUME TypeInv, NEW e \in Env, NEW f \in Env, Fork(e, f)
  PROVE  /\ e # f /\ Running(e) /\ pc[e] = "user" /\ pc[f] = "free" /\ Writable(e, STACK)
         /\ \E t \in Tables, m \in Memories :
              Between(e, t, m) /\ Allocates(t, m, f, UXSTACK, pte', mem')
<1>1. e # f /\ Running(e) /\ pc[e] = "user" /\ pc[f] = "free" /\ Writable(e, STACK)
  BY DEF Fork
<1> DEFINE own == IF upcall[e] THEN Memory ELSE SysPageAlloc(Memory, e, UXSTACK)
           all == SysPageAlloc(own, f, UXSTACK)
<1>2. pte' = all.pte /\ mem' = all.mem
  BY DEF Fork, Becomes
<1>3. Memory.pte = pte /\ Memory.mem = mem
  BY DEF Memory
<1>4. pte \in Tables /\ mem \in Memories /\ UXSTACK \in Va
  BY Places DEF TypeInv, TypeOK, Tables, Memories
<1>5. own.pte \in Tables /\ own.mem \in Memories /\ Between(e, own.pte, own.mem)
  <2>1. CASE upcall[e]
    BY <1>3, <1>4, <2>1 DEF Between
  <2>2. CASE ~upcall[e]
    <3>1. own = SysPageAlloc(Memory, e, UXSTACK)
      BY <2>2
    <3> HIDE DEF own, Memory
    <3>2. Allocates(pte, mem, e, UXSTACK, own.pte, own.mem)
      BY <1>3, <1>4, <3>1, AllocFacts
    <3>3. own.pte \in Tables /\ own.mem \in Memories
      BY <1>4, <3>2, AllocatesTypes
    <3> QED BY <2>2, <3>2, <3>3 DEF Between
  <2> QED BY <2>1, <2>2
<1> HIDE DEF own
<1>6. Allocates(own.pte, own.mem, f, UXSTACK, all.pte, all.mem)
  BY <1>4, <1>5, AllocFacts
<1> HIDE DEF all
<1>7. Allocates(own.pte, own.mem, f, UXSTACK, pte', mem')
  BY <1>2, <1>6
<1> QED BY <1>1, <1>5, <1>7

\* Fork changes no entry but those of the two exception stacks.
LEMMA ForkTables ==
  ASSUME TypeInv, NEW e \in Env, NEW f \in Env, Fork(e, f)
  PROVE  /\ pte' \in Tables /\ mem' \in Memories
         /\ \A g \in Env, vb \in Va : vb # UXSTACK \/ g \notin {e, f} => pte'[g][vb] = pte[g][vb]
         /\ \A g \in Env, vb \in Va : pte[g][vb] # None => pte'[g][vb] # None
<1>1. PICK t \in Tables, m \in Memories :
        Between(e, t, m) /\ Allocates(t, m, f, UXSTACK, pte', mem')
  BY ForkFacts
<1>2. pte \in Tables /\ mem \in Memories /\ UXSTACK \in Va
  BY Places DEF TypeInv, TypeOK, Tables, Memories
<1>3. /\ \A g \in Env, vb \in Va : vb # UXSTACK \/ g # e => t[g][vb] = pte[g][vb]
      /\ \A g \in Env, vb \in Va : pte[g][vb] # None => t[g][vb] # None
  <2>1. CASE upcall[e]
    BY <1>1, <2>1 DEF Between
  <2>2. CASE ~upcall[e]
    <3>1. Allocates(pte, mem, e, UXSTACK, t, m)
      BY <1>1, <2>2 DEF Between
    <3>2. /\ \A g \in Env, vb \in Va : g # e \/ vb # UXSTACK => t[g][vb] = pte[g][vb]
          /\ pte[e][UXSTACK] # None => t[e][UXSTACK] # None
      BY <1>2, <3>1, AllocatesTypes
    <3> QED BY <3>2
  <2> QED BY <2>1, <2>2
<1>4. /\ pte' \in Tables /\ mem' \in Memories
      /\ \A g \in Env, vb \in Va : g # f \/ vb # UXSTACK => pte'[g][vb] = t[g][vb]
      /\ t[f][UXSTACK] # None => pte'[f][UXSTACK] # None
  BY <1>1, <1>2, AllocatesTypes
<1>5. \A g \in Env, vb \in Va : vb # UXSTACK \/ g \notin {e, f} => pte'[g][vb] = pte[g][vb]
  BY <1>3, <1>4
<1>6. \A g \in Env, vb \in Va : pte[g][vb] # None => pte'[g][vb] # None
  BY <1>3, <1>4
<1> QED BY <1>4, <1>5, <1>6

\* The rest of what fork does, one environment at a time.
LEMMA ForkPoints ==
  ASSUME TypeInv, NEW e \in Env, NEW f \in Env, Fork(e, f)
  PROVE  /\ \A g \in Env : upcall'[g] = (g \in {e, f} \/ upcall[g])
         /\ \A g \in Env : pc'[g] = IF g = f THEN "embryo" ELSE IF g = e THEN "child" ELSE pc[g]
         /\ \A g \in Env : child'[g] = IF g = e THEN f ELSE child[g]
         /\ \A g \in Env : pn'[g] = IF g = e THEN PFTEMP ELSE pn[g]
         /\ fault' = fault /\ fault[e] = None
<1>1. e # f
  BY ForkFacts
<1>2. /\ upcall' = [upcall EXCEPT ![e] = TRUE, ![f] = TRUE]
      /\ pc' = [pc EXCEPT ![e] = "child", ![f] = "embryo"]
      /\ child' = [child EXCEPT ![e] = f] /\ pn' = [pn EXCEPT ![e] = PFTEMP]
      /\ fault' = fault /\ fault[e] = None
  BY DEF Fork, Running
<1>3. upcall \in [Env -> BOOLEAN] /\ pc \in [Env -> PC] /\ child \in [Env -> Env \cup {None}]
      /\ pn \in [Env -> Va]
  BY DEF TypeInv, TypeOK
<1> QED BY <1>1, <1>2, <1>3

\* fork up to its loop.
LEMMA ForkKeepsTypes ==
  ASSUME TypeInv, NEW e \in Env, NEW f \in Env, Fork(e, f)
  PROVE  TypeInv'
<1>1. /\ upcall' = [upcall EXCEPT ![e] = TRUE, ![f] = TRUE]
      /\ pc' = [pc EXCEPT ![e] = "child", ![f] = "embryo"]
      /\ child' = [child EXCEPT ![e] = f] /\ pn' = [pn EXCEPT ![e] = PFTEMP] /\ fault' = fault
  BY DEF Fork
<1>2. TypeOK'
  BY <1>1, ForkTables, Places DEF TypeInv, TypeOK, PC, Tables, Memories
<1>3. e # f /\ pc[e] = "user" /\ pc[f] = "free" /\ child[e] = None /\ child[f] = None
      /\ \A g \in Env : child[g] # f
  <2>1. \A g \in Env : child[g] # f
    BY NoneAssumption, ForkFacts DEF TypeInv, Families
  <2> QED BY ForkFacts, <2>1 DEF TypeInv, Families, Forking
<1>4. Families'
  <2>1. \A g \in Env : child'[g] # None <=> pc'[g] \in Forking
    BY <1>3, ForkPoints, NoneAssumption DEF TypeInv, Families, Forking
  <2>2. \A g \in Env : child'[g] # None => pc'[child'[g]] = "embryo"
    <3>1. \A g \in Env : child[g] # None => child[g] \in Env /\ child[g] # e /\ pc[child[g]] = "embryo"
      BY <1>3 DEF TypeInv, TypeOK, Families
    <3> QED BY <1>3, <3>1, ForkPoints
  <2>3. \A g, h \in Env : child'[g] = child'[h] /\ child'[g] # None => g = h
    BY <1>3, ForkPoints DEF TypeInv, Families
  <2>4. \A g \in Env : pc'[g] = "free" => ~upcall'[g] /\ \A va \in Va : pte'[g][va] = None
    <3> SUFFICES ASSUME NEW g \in Env, pc'[g] = "free"
        PROVE  ~upcall'[g] /\ \A va \in Va : pte'[g][va] = None
      OBVIOUS
    <3>1. g # e /\ g # f /\ pc[g] = "free"
      BY ForkPoints, <1>3
    <3>2. ~upcall[g] /\ \A va \in Va : pte[g][va] = None
      BY <3>1 DEF TypeInv, Families
    <3>3. \A va \in Va : pte'[g][va] = pte[g][va]
      BY <3>1, ForkTables
    <3> QED BY <3>1, <3>2, <3>3, ForkPoints
  <2>5. \A g \in Env : pc'[g] \in Forking => upcall'[g]
    BY ForkPoints DEF TypeInv, Families, Forking
  <2>6. \A g \in Env : fault'[g] # None =>
          /\ pc'[g] \in {"user", "status"} /\ fault'[g].va \in Addr /\ pte'[g][fault'[g].va] # None
          /\ fault'[g].at = "map" => pte'[g][PFTEMP] # None
    <3> SUFFICES ASSUME NEW g \in Env, fault[g] # None
        PROVE  /\ pc'[g] \in {"user", "status"} /\ fault[g].va \in Addr /\ pte'[g][fault[g].va] # None
               /\ fault[g].at = "map" => pte'[g][PFTEMP] # None
      BY ForkPoints
    <3>1. /\ pc[g] \in {"user", "status"} /\ fault[g].va \in Addr /\ pte[g][fault[g].va] # None
          /\ fault[g].at = "map" => pte[g][PFTEMP] # None
      BY DEF TypeInv, Families
    <3>2. g # e /\ g # f
      BY <1>3, <3>1, ForkPoints
    <3>3. pte'[g][fault[g].va] # None
      BY <3>1, ForkTables, Places
    <3>4. pte[g][PFTEMP] # None => pte'[g][PFTEMP] # None
      BY ForkTables, Places
    <3>5. pc'[g] = pc[g]
      BY <3>2, ForkPoints
    <3> QED BY <3>1, <3>3, <3>4, <3>5
  <2> QED BY <2>1, <2>2, <2>3, <2>4, <2>5, <2>6 DEF Families
<1>5. Progress'
  <2> SUFFICES ASSUME NEW g \in Env, pc'[g] \in {"child", "own"}
      PROVE  /\ Writable(g, STACK)' /\ pn'[g] <= STACK
             /\ \A vb \in Va : vb < pn'[g] => ~Writable(g, vb)'
             /\ pc'[g] = "own" => pte'[g][pn'[g]] # None
    BY DEF Progress
  <2>1. CASE g = e
    <3>1. Writable(e, STACK)'
      BY ForkFacts, ForkTables, Places DEF Writable
    <3>2. pn'[e] = PFTEMP /\ pc'[e] = "child"
      BY ForkPoints, <1>3
    <3>3. \A vb \in Va : ~(vb < PFTEMP)
      BY Places
    <3> QED BY <2>1, <3>1, <3>2, <3>3, Places
  <2>2. CASE g # e
    <3>1. g # f /\ pc[g] \in {"child", "own"} /\ pn'[g] = pn[g] /\ pn[g] \in Va /\ pc'[g] = pc[g]
      BY <2>2, ForkPoints DEF TypeInv, TypeOK
    <3>2. \A vb \in Va : pte'[g][vb] = pte[g][vb]
      BY <2>2, <3>1, ForkTables
    <3>3. \A vb \in Va : Writable(g, vb)' <=> Writable(g, vb)
      BY <3>2 DEF Writable
    <3> QED BY <3>1, <3>2, <3>3, Places DEF TypeInv, Progress
  <2> QED BY <2>1, <2>2
<1> QED BY <1>2, <1>4, <1>5 DEF TypeInv

\* duppage's first call, entry by entry.
LEMMA MapInChildFacts ==
  ASSUME TypeInv, NEW e \in Env, NEW va \in Va, MapInChild(e, va)
  PROVE  /\ pc[e] = "child" /\ fault[e] = None /\ child[e] \in Env /\ child[e] # e /\ pc[child[e]] = "embryo"
         /\ va <= STACK /\ pn[e] <= va /\ Copied(pte[e][va]) /\ pte[e][va].page \in Page
         /\ \A vb \in Va : pn[e] <= vb /\ vb < va => ~Copied(pte[e][vb])
         /\ Sets(pte, child[e], va, Mapping(pte[e][va].page, FALSE, TRUE), pte')
<1>1. pc[e] = "child" /\ child[e] # None
  BY DEF MapInChild, TypeInv, Families, Forking
<1>2. child[e] \in Env /\ pc[child[e]] = "embryo"
  BY <1>1 DEF TypeInv, TypeOK, Families
<1>3. child[e] # e /\ fault[e] = None
  BY <1>1, <1>2 DEF MapInChild, Running
<1>4. va <= STACK /\ pn[e] <= va /\ Copied(pte[e][va]) /\ pn[e] \in Va
  BY Places DEF MapInChild, TypeInv, TypeOK
<1>5. pte[e][va].page \in Page
  BY <1>4 DEF TypeInv, TypeOK, Copied, Entry
<1>6. \A vb \in Va : pn[e] <= vb /\ vb < va => ~Copied(pte[e][vb])
  <2>1. \A vb \in pn[e] .. va - 1 : ~Copied(pte[e][vb])
    BY DEF MapInChild
  <2> QED BY <1>4, <2>1, Places
<1>7. Sets(pte, child[e], va, Mapping(pte[e][va].page, FALSE, TRUE), pte')
  <2>1. pte \in Tables /\ Mapping(pte[e][va].page, FALSE, TRUE) \in Entry \cup {None}
    BY <1>5, MappingFacts DEF TypeInv, TypeOK, Tables
  <2>2. pte' = [pte EXCEPT ![child[e]][va] = Mapping(pte[e][va].page, FALSE, TRUE)]
    BY DEF MapInChild, SysPageMap, DupTarget
  <2> QED BY <1>2, <2>1, <2>2, SetFacts
<1> QED BY <1>1, <1>2, <1>3, <1>4, <1>5, <1>6, <1>7

\* The rest of duppage's first call, one environment at a time.
LEMMA MapInChildSteps ==
  ASSUME TypeInv, NEW e \in Env, NEW va \in Va, MapInChild(e, va)
  PROVE  /\ pc[e] = "child" /\ pc[child[e]] = "embryo" /\ child[e] \in Env
         /\ \A g \in Env : pc'[g] = IF g = e THEN "own" ELSE pc[g]
         /\ \A g \in Env : pn'[g] = IF g = e THEN va ELSE pn[g]
         /\ mem' = mem /\ upcall' = upcall /\ child' = child /\ fault' = fault
<1>1. /\ \A g \in Env : pc'[g] = IF g = e THEN "own" ELSE pc[g]
      /\ \A g \in Env : pn'[g] = IF g = e THEN va ELSE pn[g]
      /\ mem' = mem /\ upcall' = upcall /\ child' = child /\ fault' = fault
  BY DEF MapInChild, Goto, TypeInv, TypeOK
<1> QED BY <1>1, MapInChildFacts

\* duppage's first call.
LEMMA MapInChildTypes ==
  ASSUME TypeInv, NEW e \in Env, NEW va \in Va, MapInChild(e, va)
  PROVE  TypeInv'
<1> DEFINE entry == Mapping(pte[e][va].page, FALSE, TRUE)
<1>1. /\ pte' \in Tables
      /\ \A g \in Env, vb \in Va : pte'[g][vb] = IF g = child[e] /\ vb = va THEN entry ELSE pte[g][vb]
      /\ entry # None
  BY MapInChildFacts, MappingFacts DEF Sets
<1> HIDE DEF entry
<1>2. TypeOK'
  <2>1. pc' = [pc EXCEPT ![e] = "own"] /\ pn' = [pn EXCEPT ![e] = va] /\ UNCHANGED <<mem, upcall, child, fault>>
    BY DEF MapInChild, Goto
  <2> QED BY <1>1, <2>1 DEF TypeInv, TypeOK, Tables, PC
<1>3. \A g \in Env, vb \in Va : pte[g][vb] # None => pte'[g][vb] # None
  BY <1>1
<1>4. Families'
  <2>1. \A g \in Env : child'[g] # None <=> pc'[g] \in Forking
    BY MapInChildSteps DEF TypeInv, Families, Forking
  <2>2. \A g \in Env : child'[g] # None => pc'[child'[g]] = "embryo"
    BY MapInChildSteps DEF TypeInv, TypeOK, Families
  <2>3. \A g, h \in Env : child'[g] = child'[h] /\ child'[g] # None => g = h
    BY MapInChildSteps DEF TypeInv, Families
  <2>4. \A g \in Env : pc'[g] = "free" => ~upcall'[g] /\ \A vb \in Va : pte'[g][vb] = None
    <3> SUFFICES ASSUME NEW g \in Env, pc'[g] = "free"
        PROVE  ~upcall'[g] /\ \A vb \in Va : pte'[g][vb] = None
      OBVIOUS
    <3>1. g # e /\ g # child[e] /\ pc[g] = "free" /\ upcall' = upcall
      BY MapInChildSteps
    <3>2. ~upcall[g] /\ \A vb \in Va : pte[g][vb] = None
      BY <3>1 DEF TypeInv, Families
    <3> QED BY <1>1, <3>1, <3>2
  <2>5. \A g \in Env : pc'[g] \in Forking => upcall'[g]
    BY MapInChildSteps DEF TypeInv, Families, Forking
  <2>6. \A g \in Env : fault'[g] # None =>
          /\ pc'[g] \in {"user", "status"} /\ fault'[g].va \in Addr /\ pte'[g][fault'[g].va] # None
          /\ fault'[g].at = "map" => pte'[g][PFTEMP] # None
    <3> SUFFICES ASSUME NEW g \in Env, fault[g] # None
        PROVE  /\ pc'[g] \in {"user", "status"} /\ fault[g].va \in Addr /\ pte'[g][fault[g].va] # None
               /\ fault[g].at = "map" => pte'[g][PFTEMP] # None
      BY MapInChildSteps
    <3>1. /\ pc[g] \in {"user", "status"} /\ fault[g].va \in Addr /\ pte[g][fault[g].va] # None
          /\ fault[g].at = "map" => pte[g][PFTEMP] # None
      BY DEF TypeInv, Families
    <3>2. pc'[g] = pc[g]
      BY <3>1, MapInChildSteps
    <3> QED BY <1>3, <3>1, <3>2, Places
  <2> QED BY <2>1, <2>2, <2>3, <2>4, <2>5, <2>6 DEF Families
<1>5. Progress'
  <2> SUFFICES ASSUME NEW g \in Env, pc'[g] \in {"child", "own"}
      PROVE  /\ Writable(g, STACK)' /\ pn'[g] <= STACK
             /\ \A vb \in Va : vb < pn'[g] => ~Writable(g, vb)'
             /\ pc'[g] = "own" => pte'[g][pn'[g]] # None
    BY DEF Progress
  <2>1. g # child[e] /\ pc[g] \in {"child", "own"}
    BY MapInChildSteps
  <2>2. \A vb \in Va : pte'[g][vb] = pte[g][vb]
    BY <1>1, <2>1
  <2>3. \A vb \in Va : Writable(g, vb)' <=> Writable(g, vb)
    BY <2>2 DEF Writable
  <2>4. /\ Writable(g, STACK) /\ pn[g] <= STACK /\ pn[g] \in Va
        /\ \A vb \in Va : vb < pn[g] => ~Writable(g, vb)
        /\ pc[g] = "own" => pte[g][pn[g]] # None
    BY <2>1 DEF TypeInv, TypeOK, Progress
  <2>5. CASE g = e
    <3>1. pn'[e] = va /\ pn[e] <= va /\ va <= STACK /\ pte[e][va] # None
      <4>1. pn'[e] = va
        BY MapInChildSteps
      <4>2. pn[e] <= va /\ va <= STACK /\ Copied(pte[e][va])
        BY MapInChildFacts
      <4> QED BY <4>1, <4>2 DEF Copied
    <3>2. \A vb \in Va : vb < va => ~Writable(e, vb)
      <4>1. \A vb \in Va : pn[e] <= vb /\ vb < va => ~Writable(e, vb)
        <5>1. \A vb \in Va : pn[e] <= vb /\ vb < va => ~Copied(pte[e][vb])
          BY MapInChildFacts
        <5> QED BY <5>1 DEF Copied, Writable
      <4>2. \A vb \in Va : vb < pn[e] => ~Writable(e, vb)
        BY <2>4, <2>5
      <4>3. \A vb \in Va : vb < pn[e] \/ pn[e] <= vb
        <5>1. pn[e] \in Va
          BY <2>4, <2>5
        <5> QED BY <5>1, VaOrder
      <4> QED BY <4>1, <4>2, <4>3
    <3>3. \A vb \in Va : Writable(e, vb)' <=> Writable(e, vb)
      BY <2>3, <2>5
    <3>4. pte'[e][va] # None /\ Writable(e, STACK)
      BY <2>2, <2>4, <2>5, <3>1
    <3> QED BY <2>5, <3>1, <3>2, <3>3, <3>4, Places
  <2>6. CASE g # e
    <3>1. pn'[g] = pn[g] /\ pc'[g] = pc[g]
      BY <2>6, MapInChildSteps
    <3> QED BY <2>2, <2>3, <2>4, <3>1, Places
  <2> QED BY <2>5, <2>6
<1> QED BY <1>2, <1>4, <1>5 DEF TypeInv

\* duppage's second call, entry by entry.
LEMMA MapOwnFacts ==
  ASSUME TypeInv, NEW e \in Env, MapOwn(e)
  PROVE  /\ pc[e] = "own" /\ fault[e] = None /\ child[e] \in Env /\ child[e] # e /\ pc[child[e]] = "embryo"
         /\ pn[e] \in Va /\ pn[e] <= STACK /\ pte[e][pn[e]] # None /\ pte[e][pn[e]].page \in Page
         /\ Sets(pte, e, pn[e], Mapping(pte[e][pn[e]].page, FALSE, TRUE), pte')
<1>1. pc[e] = "own" /\ child[e] # None
  BY DEF MapOwn, TypeInv, Families, Forking
<1>2. child[e] \in Env /\ pc[child[e]] = "embryo"
  BY <1>1 DEF TypeInv, TypeOK, Families
<1>3. child[e] # e /\ fault[e] = None
  BY <1>1, <1>2 DEF MapOwn, Running
<1>4. pn[e] \in Va /\ pn[e] <= STACK /\ pte[e][pn[e]] # None
  BY <1>1 DEF TypeInv, TypeOK, Progress
<1>5. pte[e][pn[e]].page \in Page
  BY <1>4 DEF TypeInv, TypeOK, Entry
<1>6. Sets(pte, e, pn[e], Mapping(pte[e][pn[e]].page, FALSE, TRUE), pte')
  <2>1. pte \in Tables /\ Mapping(pte[e][pn[e]].page, FALSE, TRUE) \in Entry \cup {None}
    BY <1>5, MappingFacts DEF TypeInv, TypeOK, Tables
  <2>2. pte' = [pte EXCEPT ![e][pn[e]] = Mapping(pte[e][pn[e]].page, FALSE, TRUE)]
    BY DEF MapOwn, SysPageMap, DupTarget
  <2> QED BY <1>4, <2>1, <2>2, SetFacts
<1> QED BY <1>1, <1>2, <1>3, <1>4, <1>5, <1>6

\* The rest of duppage's second call, one environment at a time.
LEMMA MapOwnSteps ==
  ASSUME TypeInv, NEW e \in Env, MapOwn(e)
  PROVE  /\ pc[e] = "own" /\ pc[child[e]] = "embryo" /\ child[e] \in Env
         /\ \A g \in Env : pc'[g] = IF g = e THEN (IF pn[e] = STACK THEN "status" ELSE "child") ELSE pc[g]
         /\ \A g \in Env : g # e => pn'[g] = pn[g]
         /\ pn'[e] = pn[e] + 1 /\ pn'[e] \in Va
         /\ mem' = mem /\ upcall' = upcall /\ child' = child /\ fault' = fault
<1>1. /\ \A g \in Env : pc'[g] = IF g = e THEN (IF pn[e] = STACK THEN "status" ELSE "child") ELSE pc[g]
      /\ \A g \in Env : g # e => pn'[g] = pn[g]
      /\ pn'[e] = pn[e] + 1
      /\ mem' = mem /\ upcall' = upcall /\ child' = child /\ fault' = fault
  <2>1. pc' = [pc EXCEPT ![e] = IF pn[e] = STACK THEN "status" ELSE "child"]
    BY DEF MapOwn, Goto, LastPage
  <2>2. pn' = [pn EXCEPT ![e] = pn[e] + 1] /\ UNCHANGED <<mem, upcall, child, fault>>
    BY DEF MapOwn
  <2>3. pc \in [Env -> PC] /\ pn \in [Env -> Va]
    BY DEF TypeInv, TypeOK
  <2> QED BY <2>1, <2>2, <2>3
<1>2. pn'[e] \in Va
  <2>1. pn[e] \in Va /\ pn[e] <= STACK
    BY MapOwnFacts
  <2> QED BY <1>1, <2>1, VaOrder
<1> QED BY <1>1, <1>2, MapOwnFacts

\* duppage's second call.
LEMMA MapOwnTypes ==
  ASSUME TypeInv, NEW e \in Env, MapOwn(e)
  PROVE  TypeInv'
<1> DEFINE entry == Mapping(pte[e][pn[e]].page, FALSE, TRUE)
<1>1. /\ pte' \in Tables
      /\ \A g \in Env, vb \in Va : pte'[g][vb] = IF g = e /\ vb = pn[e] THEN entry ELSE pte[g][vb]
      /\ entry # None /\ ~entry.w
  BY MapOwnFacts, MappingFacts DEF Sets
<1> HIDE DEF entry
<1>2. TypeOK'
  <2>1. /\ pc' = [pc EXCEPT ![e] = IF pn[e] = LastPage THEN "status" ELSE "child"]
        /\ pn' = [pn EXCEPT ![e] = pn[e] + 1] /\ UNCHANGED <<mem, upcall, child, fault>>
    BY DEF MapOwn, Goto
  <2>2. pn[e] + 1 \in Va
    BY MapOwnSteps
  <2> QED BY <1>1, <2>1, <2>2 DEF TypeInv, TypeOK, Tables, PC
<1>3. \A g \in Env, vb \in Va : pte[g][vb] # None => pte'[g][vb] # None
  BY <1>1
<1>4. Families'
  <2>1. \A g \in Env : child'[g] # None <=> pc'[g] \in Forking
    BY MapOwnSteps DEF TypeInv, Families, Forking
  <2>2. \A g \in Env : child'[g] # None => pc'[child'[g]] = "embryo"
    BY MapOwnSteps DEF TypeInv, TypeOK, Families
  <2>3. \A g, h \in Env : child'[g] = child'[h] /\ child'[g] # None => g = h
    BY MapOwnSteps DEF TypeInv, Families
  <2>4. \A g \in Env : pc'[g] = "free" => ~upcall'[g] /\ \A vb \in Va : pte'[g][vb] = None
    <3> SUFFICES ASSUME NEW g \in Env, pc'[g] = "free"
        PROVE  ~upcall'[g] /\ \A vb \in Va : pte'[g][vb] = None
      OBVIOUS
    <3>1. g # e /\ pc[g] = "free" /\ upcall' = upcall
      BY MapOwnSteps
    <3>2. ~upcall[g] /\ \A vb \in Va : pte[g][vb] = None
      BY <3>1 DEF TypeInv, Families
    <3> QED BY <1>1, <3>1, <3>2
  <2>5. \A g \in Env : pc'[g] \in Forking => upcall'[g]
    BY MapOwnSteps DEF TypeInv, Families, Forking
  <2>6. \A g \in Env : fault'[g] # None =>
          /\ pc'[g] \in {"user", "status"} /\ fault'[g].va \in Addr /\ pte'[g][fault'[g].va] # None
          /\ fault'[g].at = "map" => pte'[g][PFTEMP] # None
    <3> SUFFICES ASSUME NEW g \in Env, fault[g] # None
        PROVE  /\ pc'[g] \in {"user", "status"} /\ fault[g].va \in Addr /\ pte'[g][fault[g].va] # None
               /\ fault[g].at = "map" => pte'[g][PFTEMP] # None
      BY MapOwnSteps
    <3>1. /\ pc[g] \in {"user", "status"} /\ fault[g].va \in Addr /\ pte[g][fault[g].va] # None
          /\ fault[g].at = "map" => pte[g][PFTEMP] # None
      BY DEF TypeInv, Families
    <3>2. pc'[g] = pc[g]
      BY <3>1, MapOwnSteps
    <3> QED BY <1>3, <3>1, <3>2, Places
  <2> QED BY <2>1, <2>2, <2>3, <2>4, <2>5, <2>6 DEF Families
<1>5. Progress'
  <2> SUFFICES ASSUME NEW g \in Env, pc'[g] \in {"child", "own"}
      PROVE  /\ Writable(g, STACK)' /\ pn'[g] <= STACK
             /\ \A vb \in Va : vb < pn'[g] => ~Writable(g, vb)'
             /\ pc'[g] = "own" => pte'[g][pn'[g]] # None
    BY DEF Progress
  <2>1. pc[g] \in {"child", "own"}
    BY MapOwnSteps
  <2>2. /\ Writable(g, STACK) /\ pn[g] <= STACK /\ pn[g] \in Va
        /\ \A vb \in Va : vb < pn[g] => ~Writable(g, vb)
        /\ pc[g] = "own" => pte[g][pn[g]] # None
    BY <2>1 DEF TypeInv, TypeOK, Progress
  <2>3. CASE g = e
    <3>1. pn[e] # STACK /\ pc'[e] = "child" /\ pn'[e] = pn[e] + 1
      BY <2>3, MapOwnSteps
    <3>2. pn'[e] <= STACK
      BY <2>2, <2>3, <3>1, Places
    <3>3. Writable(e, STACK)'
      <4>1. pte'[e][STACK] = pte[e][STACK]
        BY <1>1, <3>1, Places
      <4> QED BY <2>2, <2>3, <4>1 DEF Writable
    <3>4. \A vb \in Va : vb < pn'[e] => ~Writable(e, vb)'
      <4> SUFFICES ASSUME NEW vb \in Va, vb < pn'[e] PROVE ~Writable(e, vb)'
        OBVIOUS
      <4>1. CASE vb = pn[e]
        <5>1. pte'[e][vb] = entry
          BY <1>1, <4>1
        <5> QED BY <1>1, <5>1 DEF Writable
      <4>2. CASE vb # pn[e]
        <5>1. vb < pn[e]
          BY <2>2, <2>3, <3>1, <4>2, Places
        <5>2. ~Writable(e, vb)
          BY <2>2, <2>3, <5>1
        <5>3. pte'[e][vb] = pte[e][vb]
          BY <1>1, <4>2
        <5> QED BY <5>2, <5>3 DEF Writable
      <4> QED BY <4>1, <4>2
    <3> QED BY <2>3, <3>1, <3>2, <3>3, <3>4
  <2>4. CASE g # e
    <3>1. \A vb \in Va : pte'[g][vb] = pte[g][vb]
      BY <1>1, <2>4
    <3>2. \A vb \in Va : Writable(g, vb)' <=> Writable(g, vb)
      BY <3>1 DEF Writable
    <3>3. pn'[g] = pn[g] /\ pc'[g] = pc[g]
      BY <2>4, MapOwnSteps
    <3> QED BY <2>2, <3>1, <3>2, <3>3, Places
  <2> QED BY <2>3, <2>4
<1> QED BY <1>2, <1>4, <1>5 DEF TypeInv

\* The end of fork, one environment at a time.
LEMMA SetStatusFacts ==
  ASSUME TypeInv, NEW e \in Env, SetStatus(e)
  PROVE  /\ pc[e] = "status" /\ fault[e] = None /\ child[e] \in Env /\ child[e] # e /\ pc[child[e]] = "embryo"
         /\ \A g \in Env : pc'[g] = IF g \in {e, child[e]} THEN "user" ELSE pc[g]
         /\ \A g \in Env : child'[g] = IF g = e THEN None ELSE child[g]
         /\ \A g \in Env : pn'[g] = IF g = e THEN 0 ELSE pn[g]
         /\ pte' = pte /\ mem' = mem /\ upcall' = upcall /\ fault' = fault
<1>1. pc[e] = "status" /\ fault[e] = None
  BY DEF SetStatus, Running
<1>2. child[e] \in Env /\ pc[child[e]] = "embryo"
  BY <1>1 DEF TypeInv, TypeOK, Families, Forking
<1>3. /\ pc' = [pc EXCEPT ![e] = "user", ![child[e]] = "user"]
      /\ child' = [child EXCEPT ![e] = None] /\ pn' = [pn EXCEPT ![e] = 0]
      /\ pte' = pte /\ mem' = mem /\ upcall' = upcall /\ fault' = fault
  BY DEF SetStatus
<1>4. pc \in [Env -> PC] /\ child \in [Env -> Env \cup {None}] /\ pn \in [Env -> Va]
  BY DEF TypeInv, TypeOK
<1> QED BY <1>1, <1>2, <1>3, <1>4

\* The end of fork.
LEMMA SetStatusTypes ==
  ASSUME TypeInv, NEW e \in Env, SetStatus(e)
  PROVE  TypeInv'
<1>1. TypeOK'
  <2>1. /\ pc' = [pc EXCEPT ![e] = "user", ![child[e]] = "user"]
        /\ child' = [child EXCEPT ![e] = None] /\ pn' = [pn EXCEPT ![e] = 0]
        /\ pte' = pte /\ mem' = mem /\ upcall' = upcall /\ fault' = fault
    BY DEF SetStatus
  <2> QED BY <2>1, Places DEF TypeInv, TypeOK, PC, PFTEMP
<1>2. \A g \in Env : g # e /\ child[g] # None => child[g] # child[e] /\ child[g] # e /\ g # child[e]
  <2>1. pc[e] = "status" /\ pc[child[e]] = "embryo" /\ child[e] # None
    BY SetStatusFacts DEF TypeInv, Families, Forking
  <2> QED BY <2>1, SetStatusFacts DEF TypeInv, Families, Forking
<1>3. Families'
  <2>1. \A g \in Env : child'[g] # None <=> pc'[g] \in Forking
    <3> SUFFICES ASSUME NEW g \in Env PROVE child'[g] # None <=> pc'[g] \in Forking
      OBVIOUS
    <3>1. child[g] # None <=> pc[g] \in Forking
      BY DEF TypeInv, Families
    <3> QED BY <1>2, <3>1, SetStatusFacts DEF Forking
  <2>2. \A g \in Env : child'[g] # None => pc'[child'[g]] = "embryo"
    <3> SUFFICES ASSUME NEW g \in Env, child'[g] # None PROVE pc'[child'[g]] = "embryo"
      OBVIOUS
    <3>1. g # e /\ child'[g] = child[g] /\ child[g] # None
      BY SetStatusFacts
    <3>2. child[g] \in Env /\ pc[child[g]] = "embryo"
      BY <3>1 DEF TypeInv, TypeOK, Families
    <3> QED BY <1>2, <3>1, <3>2, SetStatusFacts
  <2>3. \A g, h \in Env : child'[g] = child'[h] /\ child'[g] # None => g = h
    BY SetStatusFacts DEF TypeInv, Families
  <2>4. \A g \in Env : pc'[g] = "free" => ~upcall'[g] /\ \A vb \in Va : pte'[g][vb] = None
    BY SetStatusFacts DEF TypeInv, Families
  <2>5. \A g \in Env : pc'[g] \in Forking => upcall'[g]
    BY SetStatusFacts DEF TypeInv, Families, Forking
  <2>6. \A g \in Env : fault'[g] # None =>
          /\ pc'[g] \in {"user", "status"} /\ fault'[g].va \in Addr /\ pte'[g][fault'[g].va] # None
          /\ fault'[g].at = "map" => pte'[g][PFTEMP] # None
    BY SetStatusFacts DEF TypeInv, Families
  <2> QED BY <2>1, <2>2, <2>3, <2>4, <2>5, <2>6 DEF Families
<1>4. Progress'
  BY SetStatusFacts DEF TypeInv, Progress, Writable
<1> QED BY <1>1, <1>3, <1>4 DEF TypeInv

\* Every action keeps the invariant of types,
LEMMA NextTypes ==
  ASSUME TypeInv, Next
  PROVE  TypeInv'
<1>1. PICK e \in Env :
        \/ \E a \in Addr : PageFault(e, a) \/ \E v \in Value : Store(e, a, v)
        \/ Pgfault(e) \/ Exit(e)
        \/ \E f \in Env : Fork(e, f)
        \/ \E va \in Va : MapInChild(e, va)
        \/ MapOwn(e) \/ SetStatus(e)
  BY DEF Next
<1> QED BY <1>1, PageFaultTypes, StoreTypes, PgfaultAllocTypes, PgfaultCopyTypes, PgfaultMapTypes,
           ExitTypes, ForkKeepsTypes, MapInChildTypes, MapOwnTypes, SetStatusTypes DEF Pgfault

\* and so does every step.
LEMMA StepTypes ==
  ASSUME TypeInv, [Next]_vars
  PROVE  TypeInv'
<1>1. CASE UNCHANGED vars
  BY <1>1 DEF vars, TypeInv, TypeOK, Families, Progress, Writable
<1> QED BY <1>1, NextTypes

\* The invariant of types is one.
LEMMA AlwaysTypes == Spec => []TypeInv
BY InitTypes, StepTypes, PTL DEF Spec

\* Tables, pages and the places in fork and in its page fault handler keep their
\* types, whatever memory there is.
THEOREM ForkTypes == Spec => []TypeOK
<1>1. TypeInv => TypeOK
  BY DEF TypeInv
<1> QED BY <1>1, AlwaysTypes, PTL

-----------------------------------------------------------------------------
(* Who shares pages with whom                                              *)

\* Two mappings of one page.
Shares(t, e, va, f, vb) == /\ t[e][va] # None /\ t[f][vb] # None /\ ~(e = f /\ va = vb)
                           /\ t[e][va].page = t[f][vb].page
Alone(t, e, va) == \A f \in Env, vb \in Va : ~Shares(t, e, va, f, vb)

\* sys_page_alloc finds a page, also the second time fork calls it.
MemoryLeft == \E p, q \in FreePages(pte) : p # q

\* Of what duppage shares a child under construction can write nothing.
Embryos == \A f \in Env, va \in Va : pc[f] = "embryo" /\ Writable(f, va) => va = UXSTACK

\* Exception stacks are never shared while they can be written, and whoever has
\* an upcall has one.
Stacks == \A e \in Env : /\ upcall[e] => Writable(e, UXSTACK)
                         /\ Writable(e, UXSTACK) => Alone(pte, e, UXSTACK)

\* From the allocation in pgfault to its end PFTEMP is a page of its own.
Scratch == \A e \in Env : fault[e] # None /\ fault[e].at # "alloc" =>
                             Writable(e, PFTEMP) /\ Alone(pte, e, PFTEMP)

\* Isolated, which the child under construction is exempt from only while its
\* parent copies.
Duping(e, f) == child[e] = f /\ pc[e] \in {"child", "own"}
Apart == \A e, f \in Env, va, vb \in Va :
           Writable(e, va) /\ Shares(pte, e, va, f, vb) =>
             (e = f /\ PFTEMP \in {va, vb}) \/ Duping(e, f)

Separate == Embryos /\ Stacks /\ Scratch /\ Apart

\* A step that shares no more than there was and lets nobody write what was
\* shared.
Kept == \A e, f \in Env, va, vb \in Va : Shares(pte', e, va, f, vb) =>
          Shares(pte, e, va, f, vb) /\ (Writable(e, va)' => Writable(e, va))

\* Entries that are kept stay apart,
LEMMA KeptApart ==
  ASSUME Kept, Apart,
         \A e, f \in Env, va, vb \in Va :
           Writable(e, va)' /\ Shares(pte', e, va, f, vb) /\ Duping(e, f) => Duping(e, f)'
  PROVE  Apart'
<1> SUFFICES ASSUME NEW e \in Env, NEW f \in Env, NEW va \in Va, NEW vb \in Va,
                    Writable(e, va)', Shares(pte', e, va, f, vb)
    PROVE  (e = f /\ PFTEMP \in {va, vb}) \/ Duping(e, f)'
  BY DEF Apart
<1>1. Writable(e, va) /\ Shares(pte, e, va, f, vb)
  BY DEF Kept
<1>2. (e = f /\ PFTEMP \in {va, vb}) \/ Duping(e, f)
  BY <1>1 DEF Apart
<1> QED BY <1>2

\* exception stacks that are kept stay private,
LEMMA KeptStacks ==
  ASSUME Kept, Stacks, \A e \in Env : upcall'[e] => Writable(e, UXSTACK)'
  PROVE  Stacks'
<1> SUFFICES ASSUME NEW e \in Env, Writable(e, UXSTACK)', NEW f \in Env, NEW vb \in Va
    PROVE  ~Shares(pte', e, UXSTACK, f, vb)
  BY DEF Stacks, Alone
<1> QED BY Places DEF Kept, Stacks, Alone

\* and so does what is mapped at the scratch address.
LEMMA KeptScratch ==
  ASSUME Kept, Scratch,
         \A e \in Env : fault'[e] # None /\ fault'[e].at # "alloc" =>
           /\ Writable(e, PFTEMP)'
           /\ (fault[e] # None /\ fault[e].at # "alloc") \/ Alone(pte', e, PFTEMP)
  PROVE  Scratch'
<1> SUFFICES ASSUME NEW e \in Env, fault'[e] # None, fault'[e].at # "alloc",
                    fault[e] # None, fault[e].at # "alloc", NEW f \in Env, NEW vb \in Va
    PROVE  ~Shares(pte', e, PFTEMP, f, vb)
  BY DEF Scratch, Alone
<1> QED BY Places DEF Kept, Scratch, Alone

\* u is t with a page at e's va that nobody else maps.
NewPage(t, u, e, va) ==
  /\ \A g, h \in Env, x, y \in Va : Shares(u, g, x, h, y) =>
       ~(g = e /\ x = va) /\ ~(h = e /\ y = va) /\ Shares(t, g, x, h, y)
  /\ Alone(u, e, va) /\ u[e][va] # None /\ u[e][va].w
  /\ \A g \in Env, x \in Va : ~(g = e /\ x = va) => u[g][x] = t[g][x]

\* A page that was free is shared by nobody.
LEMMA GetsShares ==
  ASSUME NEW t \in Tables, NEW m, NEW e \in Env, NEW va \in Va, NEW p \in Page, NEW u, NEW n,
         Gets(t, m, e, va, p, u, n)
  PROVE  NewPage(t, u, e, va)
<1>1. /\ \A g \in Env, x \in Va :
           u[g][x] = IF g = e /\ x = va THEN Mapping(p, TRUE, FALSE) ELSE t[g][x]
      /\ \A g \in Env, x \in Va : t[g][x] # None => t[g][x].page # p
  BY DEF Gets, Sets, FreePages
<1>2. Mapping(p, TRUE, FALSE).page = p /\ Mapping(p, TRUE, FALSE) # None /\ Mapping(p, TRUE, FALSE).w
  BY MappingFacts
<1>3. \A g, h \in Env, x, y \in Va : Shares(u, g, x, h, y) =>
        ~(g = e /\ x = va) /\ ~(h = e /\ y = va) /\ Shares(t, g, x, h, y)
  <2> SUFFICES ASSUME NEW g \in Env, NEW h \in Env, NEW x \in Va, NEW y \in Va, Shares(u, g, x, h, y)
      PROVE  ~(g = e /\ x = va) /\ ~(h = e /\ y = va) /\ Shares(t, g, x, h, y)
    OBVIOUS
  <2>1. ~(g = e /\ x = va)
    <3> SUFFICES ASSUME g = e, x = va PROVE FALSE
      OBVIOUS
    <3>1. u[h][y] = t[h][y] /\ u[h][y] # None /\ u[h][y].page = p
      BY <1>1, <1>2 DEF Shares
    <3> QED BY <1>1, <3>1
  <2>2. ~(h = e /\ y = va)
    <3> SUFFICES ASSUME h = e, y = va PROVE FALSE
      OBVIOUS
    <3>1. u[g][x] = t[g][x] /\ u[g][x] # None /\ u[g][x].page = p
      BY <1>1, <1>2 DEF Shares
    <3> QED BY <1>1, <3>1
  <2>3. u[g][x] = t[g][x] /\ u[h][y] = t[h][y]
    BY <1>1, <2>1, <2>2
  <2> QED BY <2>1, <2>2, <2>3 DEF Shares
<1>4. Alone(u, e, va)
  BY <1>3 DEF Alone
<1>5. u[e][va] # None /\ u[e][va].w
  BY <1>1, <1>2
<1>6. \A g \in Env, x \in Va : ~(g = e /\ x = va) => u[g][x] = t[g][x]
  BY <1>1
<1> QED BY <1>3, <1>4, <1>5, <1>6 DEF NewPage

\* The tables do not change.
LEMMA SameKept ==
  ASSUME pte' = pte
  PROVE  Kept
BY DEF Kept, Writable

\* A store keeps pages apart.
LEMMA StoreSeparate ==
  ASSUME TypeInv, Separate, NEW e \in Env, NEW a \in Addr, NEW v \in Value, Store(e, a, v)
  PROVE  Separate'
BY DEF Store, Separate, Embryos, Stacks, Scratch, Apart, Writable, Duping, Alone

\* env_free keeps pages apart.
LEMMA FreeSeparate ==
  ASSUME TypeInv, Separate, NEW e \in Env, EnvFree(e)
  PROVE  Separate'
<1>1. \A g \in Env, va \in Va : pte'[g][va] # None => g # e /\ pte'[g][va] = pte[g][va]
  BY FreedFacts
<1>2. \A g \in Env, va \in Va : Writable(g, va)' => g # e /\ Writable(g, va)
  BY <1>1 DEF Writable
<1>3. Kept
  BY <1>1, <1>2 DEF Kept, Shares
<1>4. Embryos'
  BY <1>2, FreedFacts DEF Separate, Embryos
<1>5. Stacks'
  <2>1. \A g \in Env : upcall'[g] => Writable(g, UXSTACK)'
    <3> SUFFICES ASSUME NEW g \in Env, upcall'[g] PROVE Writable(g, UXSTACK)'
      OBVIOUS
    <3>1. g # e /\ upcall[g] /\ pte'[g] = pte[g]
      BY FreedFacts
    <3> QED BY <3>1 DEF Separate, Stacks, Writable
  <2> QED BY <1>3, <2>1, KeptStacks DEF Separate
<1>6. Scratch'
  <2>1. \A g \in Env : fault'[g] # None => g # e /\ fault'[g] = fault[g] /\ pte'[g] = pte[g]
    BY FreedFacts
  <2>2. \A g \in Env : fault'[g] # None /\ fault'[g].at # "alloc" =>
          Writable(g, PFTEMP)' /\ fault[g] # None /\ fault[g].at # "alloc"
    BY <2>1 DEF Separate, Scratch, Writable
  <2> QED BY <1>3, <2>2, KeptScratch DEF Separate
<1>7. Apart'
  <2>1. \A g, h \in Env, va, vb \in Va :
          Writable(g, va)' /\ Shares(pte', g, va, h, vb) /\ Duping(g, h) => Duping(g, h)'
    BY <1>2, FreedFacts DEF Duping
  <2> QED BY <1>3, <2>1, KeptApart DEF Separate
<1> QED BY <1>4, <1>5, <1>6, <1>7 DEF Separate

\* A page fault keeps pages apart.
LEMMA PageFaultSeparate ==
  ASSUME TypeInv, Separate, NEW e \in Env, NEW a \in Addr, PageFault(e, a)
  PROVE  Separate'
<1>1. CASE EnvFree(e)
  BY <1>1, FreeSeparate
<1>2. CASE /\ fault' = [fault EXCEPT ![e] = [va |-> a, at |-> "alloc"]]
           /\ UNCHANGED <<pte, mem, upcall, pc, child, pn>>
  <2>1. \A g \in Env : fault'[g] # None /\ fault'[g].at # "alloc" => fault'[g] = fault[g]
    BY <1>2 DEF TypeInv, TypeOK
  <2>2. Scratch'
    BY <1>2, <2>1 DEF Separate, Scratch, Writable, Alone
  <2>3. Embryos' /\ Stacks' /\ Apart'
    BY <1>2 DEF Separate, Embryos, Stacks, Apart, Writable, Alone, Duping
  <2> QED BY <2>2, <2>3 DEF Separate
<1> QED BY <1>1, <1>2 DEF PageFault

\* The end of fork keeps pages apart: the child has its own.
LEMMA SetStatusSeparate ==
  ASSUME TypeInv, Separate, NEW e \in Env, SetStatus(e)
  PROVE  Separate'
<1>1. Embryos'
  BY SetStatusFacts DEF Separate, Embryos, Writable
<1>2. Stacks' /\ Scratch'
  BY SetStatusFacts DEF Separate, Stacks, Scratch, Writable, Alone
<1>3. \A g, h \in Env : Duping(g, h) => Duping(g, h)'
  BY SetStatusFacts DEF Duping
<1>4. Apart'
  BY <1>3, SetStatusFacts, SameKept, KeptApart DEF Separate
<1> QED BY <1>1, <1>2, <1>4 DEF Separate

\* With memory left pgfault gets a page.
LEMMA AllocGets ==
  ASSUME TypeInv, MemoryLeft, NEW e \in Env, PgfaultAlloc(e)
  PROVE  \E p \in Page : Gets(pte, mem, e, PFTEMP, p, pte', mem')
<1>1. FreePages(pte) # {}
  BY DEF MemoryLeft
<1> QED BY <1>1, PgfaultAllocFacts DEF Allocates

\* What NextIn makes of the faults, one environment at a time.
LEMMA NextInFacts ==
  ASSUME TypeInv, NEW e \in Env, NEW at \in {"alloc", "copy", "map"}, Handling(e, at),
         NEW to \in {"alloc", "copy", "map"}, NextIn(e, to)
  PROVE  /\ \A g \in Env : g # e => fault'[g] = fault[g]
         /\ fault'[e] # None /\ fault'[e].va = fault[e].va /\ fault'[e].at = to
<1>1. PICK next \in Fault : /\ fault' = [fault EXCEPT ![e] = next]
                            /\ next.va = fault[e].va /\ next.at = to
  BY HandlingFacts
<1>2. next # None
  BY NoneAssumption DEF Fault
<1>3. \A g \in Env : fault'[g] = IF g = e THEN next ELSE fault[g]
  BY <1>1 DEF TypeInv, TypeOK
<1> QED BY <1>1, <1>2, <1>3

\* The page that pgfault allocates is nobody else's.
LEMMA PgfaultAllocSeparate ==
  ASSUME TypeInv, MemoryLeft, Separate, NEW e \in Env, PgfaultAlloc(e)
  PROVE  Separate'
<1>1. PICK p \in Page : Gets(pte, mem, e, PFTEMP, p, pte', mem')
  BY AllocGets
<1>2. pte \in Tables /\ PFTEMP \in Va
  BY Places DEF TypeInv, TypeOK, Tables
<1>3. NewPage(pte, pte', e, PFTEMP)
  BY <1>1, <1>2, GetsShares
<1>4. Alone(pte', e, PFTEMP) /\ Writable(e, PFTEMP)'
  BY <1>3 DEF NewPage, Writable
<1>5. \A g \in Env, x \in Va : ~(g = e /\ x = PFTEMP) => (Writable(g, x)' <=> Writable(g, x))
  BY <1>3 DEF NewPage, Writable
<1>6. Kept
  BY <1>3, <1>5 DEF Kept, NewPage
<1>7. Handling(e, "alloc") /\ NextIn(e, "copy") /\ upcall' = upcall /\ pc' = pc /\ child' = child
  BY DEF PgfaultAlloc
<1>8. pc[e] \in {"user", "status"}
  BY <1>7, HandlingFacts
<1>9. Embryos'
  BY <1>5, <1>7, <1>8 DEF Separate, Embryos
<1>10. Stacks'
  <2>1. \A g \in Env : upcall'[g] => Writable(g, UXSTACK)'
    BY <1>5, <1>7, Places DEF Separate, Stacks
  <2> QED BY <1>6, <2>1, KeptStacks DEF Separate
<1>11. Scratch'
  <2>1. \A g \in Env : g # e => fault'[g] = fault[g]
    BY <1>7, NextInFacts
  <2>2. \A g \in Env : fault'[g] # None /\ fault'[g].at # "alloc" =>
          /\ Writable(g, PFTEMP)'
          /\ (fault[g] # None /\ fault[g].at # "alloc") \/ Alone(pte', g, PFTEMP)
    <3> SUFFICES ASSUME NEW g \in Env, fault'[g] # None, fault'[g].at # "alloc"
        PROVE  /\ Writable(g, PFTEMP)'
               /\ (fault[g] # None /\ fault[g].at # "alloc") \/ Alone(pte', g, PFTEMP)
      OBVIOUS
    <3>1. CASE g = e
      BY <1>4, <3>1
    <3>2. CASE g # e
      <4>1. fault[g] # None /\ fault[g].at # "alloc"
        BY <2>1, <3>2
      <4>2. Writable(g, PFTEMP)
        BY <4>1 DEF Separate, Scratch
      <4> QED BY <1>2, <1>5, <3>2, <4>1, <4>2
    <3> QED BY <3>1, <3>2
  <2> QED BY <1>6, <2>2, KeptScratch DEF Separate
<1>12. Apart'
  <2>1. \A g, h \in Env : Duping(g, h) => Duping(g, h)'
    BY <1>7 DEF Duping
  <2> QED BY <1>6, <2>1, KeptApart DEF Separate
<1> QED BY <1>9, <1>10, <1>11, <1>12 DEF Separate

\* pgfault's memmove keeps pages apart.
LEMMA PgfaultCopySeparate ==
  ASSUME TypeInv, Separate, NEW e \in Env, PgfaultCopy(e)
  PROVE  Separate'
<1>1. CASE EnvFree(e)
  BY <1>1, FreeSeparate
<1>2. CASE /\ NextIn(e, "map") /\ UNCHANGED <<pte, upcall, pc, child, pn>>
  <2>1. Handling(e, "copy")
    BY DEF PgfaultCopy
  <2>2. \A g \in Env : g # e => fault'[g] = fault[g]
    BY <1>2, <2>1, NextInFacts
  <2>3. fault[e] # None /\ fault[e].at # "alloc"
    BY <2>1 DEF Handling
  <2>4. \A g \in Env : fault'[g] # None /\ fault'[g].at # "alloc" => fault[g] # None /\ fault[g].at # "alloc"
    BY <2>2, <2>3
  <2>5. Scratch'
    BY <1>2, <2>4 DEF Separate, Scratch, Writable, Alone
  <2>6. Embryos' /\ Stacks' /\ Apart'
    BY <1>2 DEF Separate, Embryos, Stacks, Apart, Writable, Alone, Duping
  <2> QED BY <2>5, <2>6 DEF Separate
<1> QED BY <1>1, <1>2 DEF PgfaultCopy

\* The last call of pgfault, entry by entry: the page of PFTEMP comes where the
\* fault was.
LEMMA PgfaultMapFacts ==
  ASSUME TypeInv, NEW e \in Env, PgfaultMap(e)
  PROVE  /\ fault[e] # None /\ fault[e].at = "map" /\ fault[e].va \in Addr /\ fault[e].va \in Va
         /\ pc[e] \in {"user", "status"} /\ pte[e][PFTEMP] # None
         /\ pte'[e][fault[e].va] # None /\ pte'[e][fault[e].va].page = pte[e][PFTEMP].page
         /\ pte'[e][fault[e].va].w
         /\ \A g \in Env, x \in Va : ~(g = e /\ x = fault[e].va) => pte'[g][x] = pte[g][x]
         /\ \A g \in Env : fault'[g] = IF g = e THEN None ELSE fault[g]
         /\ upcall' = upcall /\ pc' = pc /\ child' = child /\ mem' = mem
<1>1. /\ Handling(e, "map") /\ UNCHANGED <<mem, upcall, pc, child, pn>>
      /\ pte' = [pte EXCEPT ![e][fault[e].va] = Mapping(pte[e][PFTEMP].page, TRUE, FALSE)]
      /\ fault' = [fault EXCEPT ![e] = None]
  BY DEF PgfaultMap, SysPageMap
<1>2. /\ pc[e] \in {"user", "status"} /\ fault[e].va \in Addr /\ fault[e].va \in Va
      /\ pte[e][PFTEMP] # None /\ pte[e][PFTEMP].page \in Page
  BY <1>1, HandlingFacts
<1> DEFINE entry == Mapping(pte[e][PFTEMP].page, TRUE, FALSE)
<1>3. entry \in Entry \cup {None} /\ entry # None /\ entry.page = pte[e][PFTEMP].page /\ entry.w
  BY <1>2, MappingFacts
<1>4. Sets(pte, e, fault[e].va, entry, pte')
  <2>1. pte \in Tables
    BY DEF TypeInv, TypeOK, Tables
  <2> QED BY <1>1, <1>2, <1>3, <2>1, SetFacts
<1> HIDE DEF entry
<1>5. \A g \in Env : fault'[g] = IF g = e THEN None ELSE fault[g]
  BY <1>1 DEF TypeInv, TypeOK
<1>6. fault[e] # None /\ fault[e].at = "map"
  BY <1>1 DEF Handling
<1>7. pte'[e][fault[e].va] = entry
  BY <1>2, <1>4 DEF Sets
<1>8. \A g \in Env, x \in Va : ~(g = e /\ x = fault[e].va) => pte'[g][x] = pte[g][x]
  BY <1>4 DEF Sets
<1> QED BY <1>1, <1>2, <1>3, <1>5, <1>6, <1>7, <1>8

\* pgfault leaves its copy at two addresses, one of them the scratch address.
LEMMA PgfaultMapSeparate ==
  ASSUME TypeInv, Separate, NEW e \in Env, PgfaultMap(e)
  PROVE  Separate'
<1> DEFINE a == fault[e].va
<1>1. /\ fault[e] # None /\ fault[e].at = "map" /\ a \in Addr /\ a \in Va
      /\ pc[e] \in {"user", "status"} /\ pte[e][PFTEMP] # None
      /\ pte'[e][a] # None /\ pte'[e][a].page = pte[e][PFTEMP].page
      /\ \A g \in Env, x \in Va : ~(g = e /\ x = a) => pte'[g][x] = pte[g][x]
  BY PgfaultMapFacts
<1>2. /\ \A g \in Env : fault'[g] = IF g = e THEN None ELSE fault[g]
      /\ upcall' = upcall /\ pc' = pc /\ child' = child
  BY PgfaultMapFacts
<1> HIDE DEF a
<1>3. PFTEMP \in Va /\ UXSTACK \in Va /\ a # PFTEMP /\ a # UXSTACK /\ PFTEMP # UXSTACK
  BY <1>1, Places
<1>4. \A g \in Env, x \in Va : ~(g = e /\ x = a) => (Writable(g, x)' <=> Writable(g, x))
  BY <1>1 DEF Writable
<1>5. Alone(pte, e, PFTEMP)
  BY <1>1 DEF Separate, Scratch
<1>6. \A g \in Env, x \in Va : Shares(pte', e, a, g, x) \/ Shares(pte', g, x, e, a) => g = e /\ x = PFTEMP
  <2> SUFFICES ASSUME NEW g \in Env, NEW x \in Va, ~(g = e /\ x = PFTEMP),
                      Shares(pte', e, a, g, x) \/ Shares(pte', g, x, e, a)
      PROVE FALSE
    OBVIOUS
  <2>1. ~(g = e /\ x = a) /\ pte'[g][x] # None /\ pte'[g][x].page = pte'[e][a].page
    BY DEF Shares
  <2>2. pte[g][x] # None /\ pte[g][x].page = pte[e][PFTEMP].page
    BY <1>1, <2>1
  <2>3. Shares(pte, e, PFTEMP, g, x)
    BY <1>1, <2>2 DEF Shares
  <2> QED BY <1>5, <2>3 DEF Alone
<1>7. \A g, h \in Env, x, y \in Va : Shares(pte', g, x, h, y) =>
        \/ g = e /\ x = a /\ h = e /\ y = PFTEMP
        \/ g = e /\ x = PFTEMP /\ h = e /\ y = a
        \/ ~(g = e /\ x = a) /\ ~(h = e /\ y = a) /\ Shares(pte, g, x, h, y)
  <2> SUFFICES ASSUME NEW g \in Env, NEW h \in Env, NEW x \in Va, NEW y \in Va, Shares(pte', g, x, h, y),
                      ~(g = e /\ x = a), ~(h = e /\ y = a)
      PROVE  Shares(pte, g, x, h, y)
    BY <1>6
  <2>1. pte'[g][x] = pte[g][x] /\ pte'[h][y] = pte[h][y]
    BY <1>1
  <2> QED BY <2>1 DEF Shares
<1>8. Embryos'
  BY <1>1, <1>2, <1>4 DEF Separate, Embryos
<1>9. Stacks'
  <2> SUFFICES ASSUME NEW g \in Env
      PROVE  /\ upcall'[g] => Writable(g, UXSTACK)'
             /\ Writable(g, UXSTACK)' => Alone(pte', g, UXSTACK)
    BY DEF Stacks
  <2>1. Writable(g, UXSTACK)' <=> Writable(g, UXSTACK)
    BY <1>3, <1>4
  <2>2. Writable(g, UXSTACK) => Alone(pte, g, UXSTACK)
    BY DEF Separate, Stacks
  <2>3. Alone(pte, g, UXSTACK) => Alone(pte', g, UXSTACK)
    BY <1>3, <1>7 DEF Alone
  <2>4. upcall'[g] => Writable(g, UXSTACK)
    BY <1>2 DEF Separate, Stacks
  <2> QED BY <2>1, <2>2, <2>3, <2>4
<1>10. Scratch'
  <2> SUFFICES ASSUME NEW g \in Env, fault'[g] # None, fault'[g].at # "alloc"
      PROVE  Writable(g, PFTEMP)' /\ Alone(pte', g, PFTEMP)
    BY DEF Scratch
  <2>1. g # e /\ fault[g] # None /\ fault[g].at # "alloc"
    BY <1>2
  <2>2. Writable(g, PFTEMP) /\ Alone(pte, g, PFTEMP)
    BY <2>1 DEF Separate, Scratch
  <2>3. Alone(pte', g, PFTEMP)
    BY <1>3, <1>7, <2>1, <2>2 DEF Alone
  <2> QED BY <1>3, <1>4, <2>1, <2>2, <2>3
<1>11. Apart'
  <2> SUFFICES ASSUME NEW g \in Env, NEW h \in Env, NEW x \in Va, NEW y \in Va,
                      Writable(g, x)', Shares(pte', g, x, h, y), ~(g = h /\ PFTEMP \in {x, y})
      PROVE  Duping(g, h)'
    BY DEF Apart
  <2>1. ~(g = e /\ x = a) /\ Shares(pte, g, x, h, y)
    BY <1>7
  <2>2. Writable(g, x)
    BY <1>4, <2>1
  <2>3. Duping(g, h)
    BY <2>1, <2>2 DEF Separate, Apart
  <2> QED BY <1>2, <2>3 DEF Duping
<1> QED BY <1>8, <1>9, <1>10, <1>11 DEF Separate

\* With memory left both of fork's allocations get a page.
LEMMA ForkGets ==
  ASSUME TypeInv, MemoryLeft, NEW e \in Env, NEW f \in Env, Fork(e, f)
  PROVE  \E t \in Tables, m \in Memories :
           /\ IF upcall[e] THEN t = pte /\ m = mem
              ELSE \E p \in Page : Gets(pte, mem, e, UXSTACK, p, t, m)
           /\ \E q \in Page : Gets(t, m, f, UXSTACK, q, pte', mem')
<1>1. PICK t \in Tables, m \in Memories :
        Between(e, t, m) /\ Allocates(t, m, f, UXSTACK, pte', mem')
  BY ForkFacts
<1>2. PICK p1, p2 : p1 \in FreePages(pte) /\ p2 \in FreePages(pte) /\ p1 # p2
  BY DEF MemoryLeft
<1>3. CASE upcall[e]
  <2>1. t = pte /\ m = mem
    BY <1>1, <1>3 DEF Between
  <2>2. FreePages(t) # {}
    BY <1>2, <2>1
  <2>3. \E q \in Page : Gets(t, m, f, UXSTACK, q, pte', mem')
    BY <1>1, <2>2 DEF Allocates
  <2> QED BY <1>3, <2>1, <2>3
<1>4. CASE ~upcall[e]
  <2>1. Allocates(pte, mem, e, UXSTACK, t, m)
    BY <1>1, <1>4 DEF Between
  <2>2. FreePages(pte) # {}
    BY <1>2
  <2>3. PICK p \in Page : Gets(pte, mem, e, UXSTACK, p, t, m)
    BY <2>1, <2>2 DEF Allocates
  <2>4. \A g \in Env, x \in Va :
          t[g][x] = IF g = e /\ x = UXSTACK THEN Mapping(p, TRUE, FALSE) ELSE pte[g][x]
    BY <2>3 DEF Gets, Sets
  <2>5. Mapping(p, TRUE, FALSE).page = p
    BY MappingFacts
  <2>6. ASSUME NEW r \in FreePages(pte), r # p PROVE r \in FreePages(t)
    <3>1. r \in Page /\ \A g \in Env, x \in Va : pte[g][x] # None => pte[g][x].page # r
      BY DEF FreePages
    <3>2. \A g \in Env, x \in Va : t[g][x] # None => t[g][x].page # r
      BY <2>4, <2>5, <2>6, <3>1
    <3> QED BY <3>1, <3>2 DEF FreePages
  <2>7. FreePages(t) # {}
    BY <1>2, <2>6
  <2>8. \E q \in Page : Gets(t, m, f, UXSTACK, q, pte', mem')
    BY <1>1, <2>7 DEF Allocates
  <2> QED BY <1>4, <2>3, <2>8
<1> QED BY <1>3, <1>4

\* What fork allocates is shared by nobody, and can be written.
LEMMA ForkShares ==
  ASSUME TypeInv, MemoryLeft, NEW e \in Env, NEW f \in Env, Fork(e, f)
  PROVE  /\ \A g, h \in Env, x, y \in Va : Shares(pte', g, x, h, y) =>
              /\ Shares(pte, g, x, h, y)
              /\ ~(g = f /\ x = UXSTACK) /\ (~upcall[e] => ~(g = e /\ x = UXSTACK))
         /\ Writable(f, UXSTACK)' /\ (~upcall[e] => Writable(e, UXSTACK)')
         /\ \A g \in Env, x \in Va : ~(g = f /\ x = UXSTACK) /\ (upcall[e] \/ ~(g = e /\ x = UXSTACK)) =>
              pte'[g][x] = pte[g][x]
<1>1. PICK t \in Tables, m \in Memories :
        /\ IF upcall[e] THEN t = pte /\ m = mem
           ELSE \E p \in Page : Gets(pte, mem, e, UXSTACK, p, t, m)
        /\ \E q \in Page : Gets(t, m, f, UXSTACK, q, pte', mem')
  BY ForkGets
<1>2. pte \in Tables /\ UXSTACK \in Va /\ e # f
  BY Places, ForkFacts DEF TypeInv, TypeOK, Tables
<1>3. PICK q \in Page : Gets(t, m, f, UXSTACK, q, pte', mem')
  BY <1>1
<1>4. NewPage(t, pte', f, UXSTACK)
  BY <1>2, <1>3, GetsShares
<1>5. Writable(f, UXSTACK)'
  BY <1>4 DEF NewPage, Writable
<1>6. CASE upcall[e]
  <2>1. t = pte
    BY <1>1, <1>6
  <2> QED BY <1>4, <1>5, <1>6, <2>1 DEF NewPage
<1>7. CASE ~upcall[e]
  <2>1. PICK p \in Page : Gets(pte, mem, e, UXSTACK, p, t, m)
    BY <1>1, <1>7
  <2>2. NewPage(pte, t, e, UXSTACK)
    BY <1>2, <2>1, GetsShares
  <2>3. pte'[e][UXSTACK] = t[e][UXSTACK]
    BY <1>2, <1>4 DEF NewPage
  <2>4. Writable(e, UXSTACK)'
    BY <2>2, <2>3 DEF NewPage, Writable
  <2>5. \A g, h \in Env, x, y \in Va : Shares(pte', g, x, h, y) =>
          Shares(pte, g, x, h, y) /\ ~(g = f /\ x = UXSTACK) /\ ~(g = e /\ x = UXSTACK)
    BY <1>4, <2>2 DEF NewPage
  <2>6. \A g \in Env, x \in Va : ~(g = f /\ x = UXSTACK) /\ ~(g = e /\ x = UXSTACK) => pte'[g][x] = pte[g][x]
    BY <1>4, <2>2 DEF NewPage
  <2> QED BY <1>5, <1>7, <2>4, <2>5, <2>6
<1> QED BY <1>6, <1>7

\* The exception stacks that fork allocates are nobody else's.
LEMMA ForkSeparate ==
  ASSUME TypeInv, MemoryLeft, Separate, NEW e \in Env, NEW f \in Env, Fork(e, f)
  PROVE  Separate'
<1>1. e # f /\ pc[e] = "user" /\ pc[f] = "free" /\ PFTEMP # UXSTACK /\ UXSTACK \in Va /\ PFTEMP \in Va
  BY ForkFacts, Places
<1>2. \A g \in Env, x \in Va : ~(g = f /\ x = UXSTACK) /\ (upcall[e] \/ ~(g = e /\ x = UXSTACK)) =>
        (Writable(g, x)' <=> Writable(g, x))
  BY ForkShares DEF Writable
<1>3. Kept
  <2> SUFFICES ASSUME NEW g \in Env, NEW h \in Env, NEW x \in Va, NEW y \in Va, Shares(pte', g, x, h, y)
      PROVE  Shares(pte, g, x, h, y) /\ (Writable(g, x)' => Writable(g, x))
    BY DEF Kept
  <2>1. Shares(pte, g, x, h, y) /\ ~(g = f /\ x = UXSTACK) /\ (~upcall[e] => ~(g = e /\ x = UXSTACK))
    BY ForkShares
  <2> QED BY <1>2, <2>1
<1>4. Embryos'
  <2> SUFFICES ASSUME NEW g \in Env, NEW x \in Va, pc'[g] = "embryo", Writable(g, x)', x # UXSTACK
      PROVE  FALSE
    BY DEF Embryos
  <2>1. Writable(g, x)
    BY <1>2
  <2>2. CASE g = f
    <3>1. pte[f][x] = None
      BY <1>1 DEF TypeInv, Families
    <3> QED BY <2>1, <2>2, <3>1 DEF Writable
  <2>3. CASE g # f
    <3>1. pc[g] = "embryo"
      BY <2>3, ForkPoints
    <3> QED BY <2>1, <3>1 DEF Separate, Embryos
  <2> QED BY <2>2, <2>3
<1>5. Stacks'
  <2>1. \A g \in Env : upcall'[g] => Writable(g, UXSTACK)'
    <3> SUFFICES ASSUME NEW g \in Env, upcall'[g] PROVE Writable(g, UXSTACK)'
      OBVIOUS
    <3>1. CASE g = f
      BY <3>1, ForkShares
    <3>2. CASE g = e /\ ~upcall[e]
      BY <3>2, ForkShares
    <3>3. CASE g # f /\ (g = e => upcall[e])
      <4>1. upcall[g]
        BY <3>3, ForkPoints
      <4>2. Writable(g, UXSTACK)
        BY <4>1 DEF Separate, Stacks
      <4> QED BY <1>1, <1>2, <3>3, <4>2
    <3> QED BY <3>1, <3>2, <3>3
  <2> QED BY <1>3, <2>1, KeptStacks DEF Separate
<1>6. Scratch'
  <2>1. \A g \in Env : fault'[g] # None /\ fault'[g].at # "alloc" =>
          /\ Writable(g, PFTEMP)'
          /\ fault[g] # None /\ fault[g].at # "alloc"
    <3>1. fault' = fault
      BY ForkPoints
    <3>2. \A g \in Env : Writable(g, PFTEMP)' <=> Writable(g, PFTEMP)
      BY <1>1, <1>2
    <3> QED BY <3>1, <3>2 DEF Separate, Scratch
  <2> QED BY <1>3, <2>1, KeptScratch DEF Separate
<1>7. Apart'
  <2>1. \A g, h \in Env : Duping(g, h) => Duping(g, h)'
    <3> SUFFICES ASSUME NEW g \in Env, NEW h \in Env, Duping(g, h) PROVE Duping(g, h)'
      OBVIOUS
    <3>1. g # e /\ g # f /\ child[g] = h /\ pc[g] \in {"child", "own"}
      BY <1>1 DEF Duping
    <3>2. child'[g] = child[g] /\ pc'[g] = pc[g]
      BY <3>1, ForkPoints
    <3> QED BY <3>1, <3>2 DEF Duping
  <2> QED BY <1>3, <2>1, KeptApart DEF Separate
<1> QED BY <1>4, <1>5, <1>6, <1>7 DEF Separate

\* The page that the child gets is shared with its parent, who marks it next.
LEMMA MapInChildSeparate ==
  ASSUME TypeInv, Separate, NEW e \in Env, NEW va \in Va, MapInChild(e, va)
  PROVE  Separate'
<1>0. PICK c \in Env : c = child[e]
  BY MapInChildFacts
<1>1. /\ pc[e] = "child" /\ fault[e] = None /\ c # e /\ pc[c] = "embryo"
      /\ va <= STACK /\ pte[e][va] # None /\ pte[e][va].page \in Page
  BY <1>0, MapInChildFacts DEF Copied
<1>2. /\ pte'[c][va] # None /\ pte'[c][va].page = pte[e][va].page /\ ~pte'[c][va].w
      /\ \A g \in Env, x \in Va : ~(g = c /\ x = va) => pte'[g][x] = pte[g][x]
  <2>1. Sets(pte, c, va, Mapping(pte[e][va].page, FALSE, TRUE), pte')
    BY <1>0, MapInChildFacts
  <2> DEFINE entry == Mapping(pte[e][va].page, FALSE, TRUE)
  <2>2. entry # None /\ entry.page = pte[e][va].page /\ ~entry.w
    BY <1>1, MappingFacts
  <2>3. pte'[c][va] = entry
    BY <1>1, <2>1 DEF Sets
  <2>4. \A g \in Env, x \in Va : ~(g = c /\ x = va) => pte'[g][x] = pte[g][x]
    BY <2>1 DEF Sets
  <2> HIDE DEF entry
  <2> QED BY <2>2, <2>3, <2>4
<1>3. /\ \A g \in Env : pc'[g] = IF g = e THEN "own" ELSE pc[g]
      /\ upcall' = upcall /\ child' = child /\ fault' = fault
  BY MapInChildSteps
<1>5. UXSTACK \in Va /\ PFTEMP \in Va /\ va # UXSTACK /\ fault[c] = None
  BY <1>1, Places DEF TypeInv, Families
<1>6. \A g \in Env, x \in Va : ~(g = c /\ x = va) => (Writable(g, x)' <=> Writable(g, x))
  BY <1>2 DEF Writable
<1>7. ~Writable(c, va)'
  BY <1>2 DEF Writable
\* What shares with the new entry is what it is a copy of, or shares with that.
<1>8. \A g \in Env, x \in Va : ~(g = c /\ x = va) =>
        \A h \in Env, y \in Va : Shares(pte', g, x, h, y) =>
          \/ Shares(pte, g, x, h, y)
          \/ h = c /\ y = va /\ ((g = e /\ x = va) \/ Shares(pte, g, x, e, va))
  <2> SUFFICES ASSUME NEW g \in Env, NEW x \in Va, ~(g = c /\ x = va), NEW h \in Env, NEW y \in Va,
                      Shares(pte', g, x, h, y)
      PROVE  \/ Shares(pte, g, x, h, y)
             \/ h = c /\ y = va /\ ((g = e /\ x = va) \/ Shares(pte, g, x, e, va))
    OBVIOUS
  <2>1. pte'[g][x] = pte[g][x]
    BY <1>2
  <2>2. CASE h = c /\ y = va
    BY <1>1, <1>2, <2>1, <2>2 DEF Shares
  <2>3. CASE ~(h = c /\ y = va)
    <3>1. pte'[h][y] = pte[h][y]
      BY <1>2, <2>3
    <3> QED BY <2>1, <3>1 DEF Shares
  <2> QED BY <2>2, <2>3
<1>9. Embryos'
  <2> SUFFICES ASSUME NEW g \in Env, NEW x \in Va, pc'[g] = "embryo", Writable(g, x)'
      PROVE  x = UXSTACK
    BY DEF Embryos
  <2>1. pc[g] = "embryo" /\ Writable(g, x)
    BY <1>3, <1>6, <1>7
  <2> QED BY <2>1 DEF Separate, Embryos
<1>10. Stacks'
  <2> SUFFICES ASSUME NEW g \in Env
      PROVE  /\ upcall'[g] => Writable(g, UXSTACK)'
             /\ Writable(g, UXSTACK)' => Alone(pte', g, UXSTACK)
    BY DEF Stacks
  <2>1. Writable(g, UXSTACK)' <=> Writable(g, UXSTACK)
    BY <1>5, <1>6
  <2>2. upcall[g] => Writable(g, UXSTACK)
    BY DEF Separate, Stacks
  <2>3. ASSUME Writable(g, UXSTACK) PROVE Alone(pte', g, UXSTACK)
    <3>1. Alone(pte, g, UXSTACK)
      BY <2>3 DEF Separate, Stacks
    <3> QED BY <1>1, <1>5, <1>8, <3>1 DEF Alone
  <2> QED BY <1>3, <2>1, <2>2, <2>3
<1>11. Scratch'
  <2> SUFFICES ASSUME NEW g \in Env, fault[g] # None, fault[g].at # "alloc"
      PROVE  Writable(g, PFTEMP)' /\ Alone(pte', g, PFTEMP)
    BY <1>3 DEF Scratch
  <2>1. g # c /\ g # e
    BY <1>1, <1>5
  <2>2. Writable(g, PFTEMP) /\ Alone(pte, g, PFTEMP)
    BY DEF Separate, Scratch
  <2>3. Alone(pte', g, PFTEMP)
    BY <1>1, <1>5, <1>8, <2>1, <2>2 DEF Alone
  <2> QED BY <1>5, <1>6, <2>1, <2>2, <2>3
<1>12. Apart'
  <2> SUFFICES ASSUME NEW g \in Env, NEW h \in Env, NEW x \in Va, NEW y \in Va,
                      Writable(g, x)', Shares(pte', g, x, h, y), ~(g = h /\ PFTEMP \in {x, y})
      PROVE  Duping(g, h)'
    BY DEF Apart
  <2>1. ~(g = c /\ x = va) /\ Writable(g, x)
    BY <1>6, <1>7
  <2>2. \A k \in Env : Duping(g, k) => Duping(g, k)'
    BY <1>3 DEF Duping
  <2>3. Duping(e, c)'
    BY <1>0, <1>1, <1>3 DEF Duping
  <2>4. CASE Shares(pte, g, x, h, y)
    <3>1. Duping(g, h)
      BY <2>1, <2>4 DEF Separate, Apart
    <3> QED BY <2>2, <3>1
  <2>5. CASE h = c /\ y = va /\ g = e
    BY <2>3, <2>5
  <2>6. CASE h = c /\ y = va /\ g # e /\ Shares(pte, g, x, e, va)
    <3>1. Duping(g, e)
      BY <1>1, <2>1, <2>6 DEF Separate, Apart
    <3>2. pc[e] = "embryo"
      BY <1>1, <3>1, NoneAssumption DEF Duping, TypeInv, Families
    <3> QED BY <1>1, <3>2
  <2> QED BY <1>8, <2>1, <2>4, <2>5, <2>6
<1> QED BY <1>9, <1>10, <1>11, <1>12 DEF Separate

\* The page that is marked can be written by nobody.
LEMMA MapOwnSeparate ==
  ASSUME TypeInv, Separate, NEW e \in Env, MapOwn(e)
  PROVE  Separate'
<1>0. PICK va \in Va : va = pn[e]
  BY MapOwnFacts
<1>1. /\ pc[e] = "own" /\ fault[e] = None /\ va <= STACK
      /\ pte[e][va] # None /\ pte[e][va].page \in Page
  BY <1>0, MapOwnFacts
<1>2. /\ pte'[e][va] # None /\ pte'[e][va].page = pte[e][va].page /\ ~pte'[e][va].w
      /\ \A g \in Env, x \in Va : ~(g = e /\ x = va) => pte'[g][x] = pte[g][x]
  <2> DEFINE entry == Mapping(pte[e][va].page, FALSE, TRUE)
  <2>1. Sets(pte, e, va, entry, pte')
    BY <1>0, MapOwnFacts
  <2>2. entry # None /\ entry.page = pte[e][va].page /\ ~entry.w
    BY <1>1, MappingFacts
  <2> HIDE DEF entry
  <2>3. pte'[e][va] = entry
    BY <1>1, <2>1 DEF Sets
  <2>4. \A g \in Env, x \in Va : ~(g = e /\ x = va) => pte'[g][x] = pte[g][x]
    BY <2>1 DEF Sets
  <2> QED BY <2>2, <2>3, <2>4
<1>3. /\ \A g \in Env : pc'[g] = IF g = e THEN (IF va = STACK THEN "status" ELSE "child") ELSE pc[g]
      /\ upcall' = upcall /\ child' = child /\ fault' = fault
  BY <1>0, MapOwnSteps
<1>4. \A vb \in Va : vb < va => ~Writable(e, vb)
  BY <1>0, <1>1 DEF TypeInv, Progress
<1>5. UXSTACK \in Va /\ PFTEMP \in Va /\ va # UXSTACK
  BY <1>1, Places
<1>6. \A g \in Env, x \in Va : ~(g = e /\ x = va) => (Writable(g, x)' <=> Writable(g, x))
  BY <1>2 DEF Writable
<1>7. ~Writable(e, va)'
  BY <1>2 DEF Writable
<1>8. Kept
  <2>1. \A g \in Env, x \in Va : (pte'[g][x] # None => pte[g][x] # None) /\ pte'[g][x].page = pte[g][x].page
    BY <1>1, <1>2
  <2>2. \A g \in Env, x \in Va : Writable(g, x)' => Writable(g, x)
    BY <1>6, <1>7
  <2> QED BY <2>1, <2>2 DEF Kept, Shares
<1>9. Embryos'
  <2>1. \A g \in Env : pc'[g] = "embryo" => pc[g] = "embryo"
    BY <1>3
  <2> QED BY <1>6, <1>7, <2>1 DEF Separate, Embryos
<1>10. Stacks'
  <2>1. \A g \in Env : upcall'[g] => Writable(g, UXSTACK)'
    BY <1>3, <1>5, <1>6 DEF Separate, Stacks
  <2> QED BY <1>8, <2>1, KeptStacks DEF Separate
<1>11. Scratch'
  <2>1. \A g \in Env : fault'[g] # None /\ fault'[g].at # "alloc" =>
          /\ Writable(g, PFTEMP)'
          /\ fault[g] # None /\ fault[g].at # "alloc"
    <3> SUFFICES ASSUME NEW g \in Env, fault[g] # None, fault[g].at # "alloc"
        PROVE  Writable(g, PFTEMP)'
      BY <1>3
    <3>1. g # e /\ Writable(g, PFTEMP)
      BY <1>1 DEF Separate, Scratch
    <3> QED BY <1>5, <1>6, <3>1
  <2> QED BY <1>8, <2>1, KeptScratch DEF Separate
<1>12. Apart'
  <2>1. ASSUME NEW g \in Env, NEW h \in Env, NEW x \in Va, NEW y \in Va,
               Writable(g, x)', Shares(pte', g, x, h, y), Duping(g, h)
        PROVE  Duping(g, h)'
    <3>1. CASE g # e \/ va # STACK
      BY <1>3, <2>1, <3>1 DEF Duping
    <3>2. CASE g = e /\ va = STACK
      <4>1. Writable(e, x) /\ x # STACK
        BY <1>6, <1>7, <2>1, <3>2
      <4>2. ~(x < STACK)
        BY <1>4, <3>2, <4>1
      <4>3. x = UXSTACK
        <5>1. x <= STACK => x < STACK \/ x = STACK
          BY VaOrder, Places
        <5> QED BY <4>1, <4>2, <5>1, Places
      <4>4. Alone(pte, e, UXSTACK) /\ Shares(pte, g, x, h, y)
        BY <1>8, <2>1, <4>1, <4>3 DEF Separate, Stacks, Kept
      <4> QED BY <3>2, <4>3, <4>4 DEF Alone
    <3> QED BY <3>1, <3>2
  <2> QED BY <1>8, <2>1, KeptApart DEF Separate
<1> QED BY <1>9, <1>10, <1>11, <1>12 DEF Separate

\* Root has every page to itself.
LEMMA InitSeparate == Init => Separate
<1> SUFFICES ASSUME Init PROVE Separate
  OBVIOUS
<1>1. \A e \in Env, va \in Va : pte[e][va] # None => pc[e] = "user" /\ va \in Addr /\ e = Root
  BY DEF Init
<1>2. \A va \in Addr : pte[Root][va].page = va
  BY EnvAssumption, Places DEF Init, Mapping
<1>3. \A e, f \in Env, va, vb \in Va : ~Shares(pte, e, va, f, vb)
  BY <1>1, <1>2 DEF Shares
<1>4. Embryos
  BY <1>1 DEF Embryos, Writable
<1>5. Stacks
  BY <1>3, Places DEF Stacks, Alone, Init
<1>6. Scratch
  BY DEF Scratch, Init
<1>7. Apart
  BY <1>3 DEF Apart
<1> QED BY <1>4, <1>5, <1>6, <1>7 DEF Separate

\* Every step keeps pages apart while there is memory,
LEMMA NextSeparate ==
  ASSUME TypeInv, MemoryLeft, Separate, [Next]_vars
  PROVE  Separate'
<1>1. CASE UNCHANGED vars
  BY <1>1 DEF vars, Separate, Embryos, Stacks, Scratch, Apart, Writable, Alone, Shares, Duping
<1>2. CASE Next
  <2>1. PICK e \in Env :
          \/ \E a \in Addr : PageFault(e, a) \/ \E v \in Value : Store(e, a, v)
          \/ Pgfault(e) \/ Exit(e)
          \/ \E f \in Env : Fork(e, f)
          \/ \E va \in Va : MapInChild(e, va)
          \/ MapOwn(e) \/ SetStatus(e)
    BY <1>2 DEF Next
  <2>2. Exit(e) => EnvFree(e)
    BY DEF Exit
  <2> QED BY <2>1, <2>2, PageFaultSeparate, StoreSeparate, PgfaultAllocSeparate, PgfaultCopySeparate,
             PgfaultMapSeparate, FreeSeparate, ForkSeparate, MapInChildSeparate, MapOwnSeparate,
             SetStatusSeparate DEF Pgfault
<1> QED BY <1>1, <1>2

\* so that they always are.
LEMMA AlwaysSeparate == Spec /\ []MemoryLeft => [](TypeInv /\ Separate)
BY AlwaysTypes, InitSeparate, NextSeparate, PTL DEF Spec

\* "map in our own private writable copy" (fork.c:15): as long as there is
\* memory, a page that somebody may write has no other user, whatever forks,
\* stores, faults and exits interleave, for any number of environments and pages.
THEOREM ForkIsolates == Spec /\ []MemoryLeft => []Isolated
<1>1. Separate => Isolated
  <2> SUFFICES ASSUME Separate, NEW e \in Env, NEW va \in Va, Writable(e, va), NEW f \in Env, NEW vb \in Va,
                      pte[f][vb] # None, <<e, va>> # <<f, vb>>, pte[f][vb].page = pte[e][va].page
      PROVE  (e = f /\ PFTEMP \in {va, vb}) \/ child[e] = f
    BY DEF Isolated
  <2>1. Shares(pte, e, va, f, vb)
    BY DEF Shares, Writable
  <2> QED BY <2>1 DEF Separate, Apart, Duping
<1> QED BY <1>1, AlwaysSeparate, PTL

\* Whoever has an upcall has an exception stack of its own that it can write: no
\* fault that fork relies on is fatal while there is memory.
THEOREM ExceptionStacksPrivate == Spec /\ []MemoryLeft => []ExceptionStackPrivate
<1>1. Separate => ExceptionStackPrivate
  <2> SUFFICES ASSUME Separate, NEW e \in Env, upcall[e]
      PROVE  /\ Writable(e, UXSTACK)
             /\ \A f \in Env, va \in Va : pte[f][va] # None /\ <<f, va>> # <<e, UXSTACK>> =>
                  pte[f][va].page # pte[e][UXSTACK].page
    BY DEF ExceptionStackPrivate
  <2>1. Writable(e, UXSTACK) /\ Alone(pte, e, UXSTACK)
    BY DEF Separate, Stacks
  <2>2. ASSUME NEW f \in Env, NEW va \in Va, pte[f][va] # None, <<f, va>> # <<e, UXSTACK>>
        PROVE  pte[f][va].page # pte[e][UXSTACK].page
    <3>1. ~Shares(pte, e, UXSTACK, f, va)
      BY <2>1 DEF Alone
    <3> QED BY <2>1, <2>2, <3>1 DEF Shares, Writable
  <2> QED BY <2>1, <2>2
<1> QED BY <1>1, AlwaysSeparate, PTL

\* As many pages as the environments can map, and two.
EnoughPages == IsFiniteSet(Env) /\ Cardinality(Env) * (NDATA + 3) + 2 <= NPAGES

\* Counting: every environment maps at most its addresses' number of pages.
LEMMA PagesLeft ==
  ASSUME EnoughPages, TypeInv
  PROVE  MemoryLeft
<1> DEFINE Slots == Env \X Va
           Used == {pte[x[1]][x[2]].page : x \in Slots}
           Free == FreePages(pte)
<1>1. IsFiniteSet(Va) /\ Cardinality(Va) = NDATA + 3
  <2>1. Va = 0 .. (NDATA + 2) /\ NDATA + 2 \in Int /\ 0 \in Int /\ NDATA + 2 >= 0
    BY SizeAssumption DEF Va, UXSTACK
  <2>2. IsFiniteSet(0 .. (NDATA + 2)) /\ Cardinality(0 .. (NDATA + 2)) = NDATA + 2 - 0 + 1
    BY <2>1, FS_Interval
  <2> QED BY <2>1, <2>2, SizeAssumption
<1>2. IsFiniteSet(Slots) /\ Cardinality(Slots) = Cardinality(Env) * (NDATA + 3)
  BY <1>1, FS_Product DEF EnoughPages
<1>3. IsFiniteSet(Used) /\ Cardinality(Used) <= Cardinality(Slots)
  <2> DEFINE g == [x \in Slots |-> pte[x[1]][x[2]].page]
  <2>1. g \in Surjection(Slots, Used)
    BY DEF Surjection
  <2> HIDE DEF g, Slots, Used
  <2> QED BY <1>2, <2>1, FS_Surjection
<1>4. IsFiniteSet(Page) /\ Cardinality(Page) = NPAGES
  <2>1. IsFiniteSet(1 .. NPAGES) /\ Cardinality(1 .. NPAGES) = NPAGES
    <3>1. 1 \in Int /\ NPAGES \in Int /\ 1 <= NPAGES
      BY SizeAssumption
    <3>2. /\ IsFiniteSet(1 .. NPAGES)
          /\ Cardinality(1 .. NPAGES) = IF 1 > NPAGES THEN 0 ELSE NPAGES - 1 + 1
      BY <3>1, FS_Interval
    <3> QED BY <3>1, <3>2
  <2> QED BY <2>1 DEF Page
<1>5. Page \ Used \subseteq Free
  <2> SUFFICES ASSUME NEW p \in Page, p \notin Used PROVE p \in Free
    OBVIOUS
  <2>1. \A e \in Env, va \in Va : pte[e][va].page # p
    <3> SUFFICES ASSUME NEW e \in Env, NEW va \in Va, pte[e][va].page = p PROVE FALSE
      OBVIOUS
    <3>1. <<e, va>> \in Slots /\ <<e, va>>[1] = e /\ <<e, va>>[2] = va
      OBVIOUS
    <3> QED BY <3>1
  <2> QED BY <2>1 DEF FreePages
<1> HIDE DEF Slots, Used, Free
<1>6. Cardinality(Page \ Used) = NPAGES - Cardinality(Page \cap Used) /\ IsFiniteSet(Page \ Used)
  BY <1>3, <1>4, FS_Difference
<1>7. Cardinality(Page \cap Used) <= Cardinality(Used) /\ Cardinality(Page \cap Used) \in Nat
  <2>1. Page \cap Used \subseteq Used
    OBVIOUS
  <2> QED BY <1>3, <2>1, FS_Subset, FS_CardinalityType
<1>8. Cardinality(Page \ Used) >= 2
  <2> DEFINE need == Cardinality(Env) * (NDATA + 3)
  <2>1. need + 2 <= NPAGES /\ Cardinality(Used) <= need /\ need \in Nat
    <3>1. Cardinality(Slots) \in Nat
      BY <1>2, FS_CardinalityType
    <3> QED BY <1>2, <1>3, <3>1 DEF EnoughPages
  <2>2. Cardinality(Used) \in Nat
    BY <1>3, FS_CardinalityType
  <2> HIDE DEF need
  <2> QED BY <1>6, <1>7, <2>1, <2>2, SizeAssumption
<1>9. PICK p : p \in Page \ Used
  BY <1>6, <1>8, FS_EmptySet
<1>10. \E q \in Page \ Used : q # p
  <2> SUFFICES ASSUME \A q \in Page \ Used : q = p PROVE FALSE
    OBVIOUS
  <2>1. Page \ Used = {p}
    BY <1>9
  <2>2. Cardinality({p}) = 1
    BY FS_Singleton
  <2> QED BY <1>8, <2>1, <2>2
<1> QED BY <1>5, <1>9, <1>10 DEF MemoryLeft, Free

\* The memory that the theorems ask for is there when no number of forks can map
\* it all.
LEMMA AlwaysPagesLeft == EnoughPages => (Spec => []MemoryLeft)
<1> SUFFICES ASSUME EnoughPages PROVE Spec => []MemoryLeft
  OBVIOUS
<1>1. TypeInv => MemoryLeft
  BY PagesLeft
<1> QED BY <1>1, AlwaysTypes, PTL

-----------------------------------------------------------------------------
(* fork copies the memory at one instant                                   *)

\* Programs that run map all their pages, writable or copy-on-write, and so does
\* a child from the moment its parent has marked the last page.
Whole == \A e \in Env : Live(e) => \A a \in Addr :
           Copied(pte[e][a]) /\ (pc[e] = "status" => Copied(pte[child[e]][a]))

\* While a parent copies, the child has the parent's pages up to where it is.
Behind(e, a) == a < pn[e] \/ (a = pn[e] /\ pc[e] = "own")
Copying == \A e \in Env, a \in Addr : pc[e] \in {"child", "own"} /\ Behind(e, a) =>
             Copied(pte[child[e]][a]) /\ pte[child[e]][a].page = pte[e][a].page

\* Nobody stores to the page that pgfault has copied before it has mapped the
\* copy.
Filled == \A e \in Env : Handling(e, "map") =>
            mem[pte[e][PFTEMP].page] = mem[pte[e][fault[e].va].page]

Faithful == Whole /\ Copying /\ Filled

\* Which pages are in use.
LEMMA MappedPages ==
  ASSUME TypeInv, NEW e \in Env, NEW va \in Va, pte[e][va] # None
  PROVE  pte[e][va].page \in Page
BY DEF TypeInv, TypeOK, Entry

\* A step that maps a page that was free and changes no other page leaves what
\* is in the pages in use.
LEMMA GetsQuiet ==
  ASSUME TypeInv, NEW t \in Tables, NEW m, NEW e \in Env, NEW va \in Va, NEW p \in Page, NEW u, NEW n,
         Gets(t, m, e, va, p, u, n)
  PROVE  \A g \in Env, x \in Va : t[g][x] # None /\ t[g][x].page \in Page => n[t[g][x].page] = m[t[g][x].page]
<1>1. \A g \in Env, x \in Va : t[g][x] # None => t[g][x].page # p
  BY DEF Gets, FreePages
<1>2. \A q \in Page : q # p => n[q] = m[q]
  BY DEF Gets
<1> QED BY <1>1, <1>2

\* What pgfault's call of sys_page_alloc clears is not in use.
LEMMA PgfaultAllocQuiet ==
  ASSUME TypeInv, MemoryLeft, NEW e \in Env, PgfaultAlloc(e)
  PROVE  /\ \A g \in Env, x \in Va : pte[g][x] # None => mem'[pte[g][x].page] = mem[pte[g][x].page]
         /\ \A g \in Env, x \in Va : ~(g = e /\ x = PFTEMP) => pte'[g][x] = pte[g][x]
<1>1. PICK p \in Page : Gets(pte, mem, e, PFTEMP, p, pte', mem')
  BY AllocGets
<1>2. pte \in Tables /\ PFTEMP \in Va
  BY Places DEF TypeInv, TypeOK, Tables
<1>3. \A g \in Env, x \in Va : pte[g][x] # None /\ pte[g][x].page \in Page =>
        mem'[pte[g][x].page] = mem[pte[g][x].page]
  BY <1>1, <1>2, GetsQuiet
<1>4. NewPage(pte, pte', e, PFTEMP)
  BY <1>1, <1>2, GetsShares
<1> QED BY <1>3, <1>4, MappedPages DEF NewPage

\* What fork clears is not in use.
LEMMA ForkQuiet ==
  ASSUME TypeInv, MemoryLeft, NEW e \in Env, NEW f \in Env, Fork(e, f)
  PROVE  \A g \in Env, x \in Va : x # UXSTACK /\ pte[g][x] # None =>
           /\ mem'[pte[g][x].page] = mem[pte[g][x].page]
           /\ pte'[g][x] = pte[g][x]
<1>1. PICK t \in Tables, m \in Memories :
        /\ IF upcall[e] THEN t = pte /\ m = mem
           ELSE \E p \in Page : Gets(pte, mem, e, UXSTACK, p, t, m)
        /\ \E q \in Page : Gets(t, m, f, UXSTACK, q, pte', mem')
  BY ForkGets
<1>2. pte \in Tables /\ UXSTACK \in Va
  BY Places DEF TypeInv, TypeOK, Tables
<1>3. PICK q \in Page : Gets(t, m, f, UXSTACK, q, pte', mem')
  BY <1>1
<1>4. /\ \A g \in Env, x \in Va : t[g][x] # None /\ t[g][x].page \in Page => mem'[t[g][x].page] = m[t[g][x].page]
      /\ NewPage(t, pte', f, UXSTACK)
  BY <1>2, <1>3, GetsQuiet, GetsShares
<1>5. \A g \in Env, x \in Va : x # UXSTACK /\ pte[g][x] # None =>
        m[pte[g][x].page] = mem[pte[g][x].page] /\ t[g][x] = pte[g][x]
  <2>1. CASE upcall[e]
    BY <1>1, <2>1
  <2>2. CASE ~upcall[e]
    <3>1. PICK p \in Page : Gets(pte, mem, e, UXSTACK, p, t, m)
      BY <1>1, <2>2
    <3>2. /\ \A g \in Env, x \in Va : pte[g][x] # None /\ pte[g][x].page \in Page =>
               m[pte[g][x].page] = mem[pte[g][x].page]
          /\ NewPage(pte, t, e, UXSTACK)
      BY <1>2, <3>1, GetsQuiet, GetsShares
    <3> QED BY <3>2, MappedPages DEF NewPage
  <2> QED BY <2>1, <2>2
<1> SUFFICES ASSUME NEW g \in Env, NEW x \in Va, x # UXSTACK, pte[g][x] # None
    PROVE  mem'[pte[g][x].page] = mem[pte[g][x].page] /\ pte'[g][x] = pte[g][x]
  OBVIOUS
<1>6. t[g][x] = pte[g][x] /\ m[pte[g][x].page] = mem[pte[g][x].page] /\ pte[g][x].page \in Page
  BY <1>5, MappedPages
<1>7. pte'[g][x] = t[g][x]
  BY <1>4 DEF NewPage
<1>8. mem'[t[g][x].page] = m[t[g][x].page]
  BY <1>4, <1>6
<1> QED BY <1>6, <1>7, <1>8

\* Who copies has a child that is nobody else's, that is not in a fault handler
\* and not running.
LEMMA ParentFacts ==
  ASSUME TypeInv, NEW g \in Env, pc[g] \in Forking
  PROVE  /\ child[g] \in Env /\ pc[child[g]] = "embryo" /\ child[g] # g /\ ~Live(child[g])
         /\ fault[child[g]] = None /\ (pc[g] # "status" => fault[g] = None)
         /\ \A h \in Env : child[h] = child[g] => h = g
<1>1. child[g] # None /\ child[g] \in Env /\ pc[child[g]] = "embryo"
  BY DEF TypeInv, TypeOK, Families
<1>2. fault[child[g]] = None /\ (pc[g] # "status" => fault[g] = None)
  BY <1>1 DEF TypeInv, Families, Forking
<1> QED BY <1>1, <1>2 DEF TypeInv, Families, Forking, Live

\* A step that neither changes tables nor the pages that handlers have copied.
LEMMA TablesFaithful ==
  ASSUME TypeInv, Faithful, pte' = pte, pc' = pc, child' = child, pn' = pn, Filled'
  PROVE  Faithful'
BY DEF Faithful, Whole, Copying, Behind, Live

\* Of a handler that is about to map its copy, what it reads and what it has
\* copied: no other step stores to either.
LEMMA CopiesApart ==
  ASSUME TypeInv, Separate, NEW g \in Env, Handling(g, "map"), NEW e \in Env, NEW x \in Va, g # e,
         Writable(e, x)
  PROVE  /\ pte[g][PFTEMP] # None /\ pte[g][fault[g].va] # None
         /\ fault[g].va \in Va /\ fault[g].va \in Addr
         /\ pte[g][PFTEMP].page # pte[e][x].page
         /\ pte[g][fault[g].va].page # pte[e][x].page
<1>1. /\ fault[g] # None /\ fault[g].at = "map" /\ fault[g].va \in Addr /\ fault[g].va \in Va
      /\ pte[g][fault[g].va] # None /\ pc[g] \in {"user", "status"}
  BY HandlingFacts DEF Handling
<1>2. Writable(g, PFTEMP) /\ Alone(pte, g, PFTEMP)
  BY <1>1 DEF Separate, Scratch
<1>3. pte[g][PFTEMP] # None /\ pte[e][x] # None
  BY <1>2 DEF Writable
<1>4. pte[g][PFTEMP].page # pte[e][x].page
  <2>1. ~Shares(pte, g, PFTEMP, e, x)
    BY <1>2 DEF Alone
  <2> QED BY <1>3, <2>1 DEF Shares
<1>5. pte[g][fault[g].va].page # pte[e][x].page
  <2>1. ~Shares(pte, e, x, g, fault[g].va)
    <3> SUFFICES ASSUME Shares(pte, e, x, g, fault[g].va) PROVE FALSE
      OBVIOUS
    <3>1. Duping(e, g)
      BY <1>1 DEF Separate, Apart
    <3>2. pc[g] = "embryo"
      BY <3>1, ParentFacts DEF Duping, Forking
    <3> QED BY <1>1, <3>2
  <2> QED BY <1>1, <1>3, <2>1 DEF Shares
<1> QED BY <1>1, <1>3, <1>4, <1>5

\* A store makes no copy false.
LEMMA StoreFaithful ==
  ASSUME TypeInv, Separate, Faithful, NEW e \in Env, NEW a \in Addr, NEW v \in Value, Store(e, a, v)
  PROVE  Faithful'
<1>1. /\ mem' = [mem EXCEPT ![pte[e][a].page] = v] /\ Writable(e, a) /\ fault[e] = None /\ a \in Va
      /\ pte' = pte /\ pc' = pc /\ child' = child /\ pn' = pn /\ fault' = fault
  BY Places DEF Store, Running
<1>2. \A q \in Page : q # pte[e][a].page => mem'[q] = mem[q]
  BY <1>1 DEF TypeInv, TypeOK
<1>3. Filled'
  <2> SUFFICES ASSUME NEW g \in Env, Handling(g, "map")
      PROVE  mem'[pte[g][PFTEMP].page] = mem'[pte[g][fault[g].va].page]
    BY <1>1 DEF Filled, Handling
  <2>1. g # e
    BY <1>1 DEF Handling
  <2>2. /\ pte[g][PFTEMP] # None /\ pte[g][fault[g].va] # None /\ fault[g].va \in Va
        /\ pte[g][PFTEMP].page # pte[e][a].page
        /\ pte[g][fault[g].va].page # pte[e][a].page
    BY <1>1, <2>1, CopiesApart
  <2>3. pte[g][PFTEMP].page \in Page /\ pte[g][fault[g].va].page \in Page
    BY <2>2, MappedPages, Places
  <2>4. mem[pte[g][PFTEMP].page] = mem[pte[g][fault[g].va].page]
    BY DEF Faithful, Filled
  <2> QED BY <1>2, <2>2, <2>3, <2>4
<1> QED BY <1>1, <1>3, TablesFaithful

\* env_free makes no copy false.
LEMMA FreeFaithful ==
  ASSUME TypeInv, Faithful, NEW e \in Env, pc[e] # "embryo", EnvFree(e)
  PROVE  Faithful'
<1>1. \A g \in Env : child[g] # e
  BY NoneAssumption DEF TypeInv, Families
<1>2. \A g \in Env : pc'[g] # "free" =>
        /\ g # e /\ pte'[g] = pte[g] /\ pc'[g] = pc[g] /\ child'[g] = child[g] /\ pn'[g] = pn[g] /\ fault'[g] = fault[g]
        /\ child[g] \in Env => pte'[child[g]] = pte[child[g]]
  BY <1>1, FreedFacts
<1>3. \A g \in Env : pc[g] \in Forking => child[g] \in Env
  BY ParentFacts
<1>4. Whole'
  BY <1>2, <1>3 DEF Faithful, Whole, Live, Forking
<1>5. Copying'
  BY <1>2, <1>3 DEF Faithful, Copying, Behind, Forking
<1>6. Filled'
  <2>1. \A g \in Env : fault'[g] # None => g # e /\ fault'[g] = fault[g] /\ pte'[g] = pte[g] /\ mem' = mem
    BY FreedFacts
  <2> QED BY <2>1 DEF Faithful, Filled, Handling
<1> QED BY <1>4, <1>5, <1>6 DEF Faithful

\* A page fault makes no copy false.
LEMMA PageFaultFaithful ==
  ASSUME TypeInv, Faithful, NEW e \in Env, NEW a \in Addr, PageFault(e, a)
  PROVE  Faithful'
<1>1. CASE EnvFree(e)
  <2>1. pc[e] # "embryo"
    BY DEF PageFault, Running, Live
  <2> QED BY <1>1, <2>1, FreeFaithful
<1>2. CASE /\ fault' = [fault EXCEPT ![e] = [va |-> a, at |-> "alloc"]]
           /\ UNCHANGED <<pte, mem, upcall, pc, child, pn>>
  <2>1. \A g \in Env : fault'[g] # None /\ fault'[g].at = "map" => fault'[g] = fault[g]
    BY <1>2 DEF TypeInv, TypeOK
  <2>2. Filled'
    BY <1>2, <2>1 DEF Faithful, Filled, Handling
  <2> QED BY <1>2, <2>2, TablesFaithful
<1> QED BY <1>1, <1>2 DEF PageFault

\* A step in e's page fault handler, which changes its table only where every
\* entry may become another, or may become one that can be written.
LEMMA HandlerFaithful ==
  ASSUME TypeInv, Faithful, NEW e \in Env, pc[e] \in {"user", "status"},
         \A g \in Env, x \in Addr : pte'[g][x] = pte[g][x] \/ (g = e /\ Copied(pte'[e][x])),
         pc' = pc, child' = child, pn' = pn, Filled'
  PROVE  Faithful'
<1>1. \A g \in Env : pc[g] \in Forking => child[g] \in Env /\ child[g] # e
  BY ParentFacts
<1>2. Whole'
  BY <1>1 DEF Faithful, Whole, Live, Forking
<1>3. Copying'
  <2> SUFFICES ASSUME NEW g \in Env, NEW a \in Addr, pc[g] \in {"child", "own"}, Behind(g, a)
      PROVE  Copied(pte'[child[g]][a]) /\ pte'[child[g]][a].page = pte'[g][a].page
    BY DEF Copying, Behind
  <2>1. child[g] \in Env /\ child[g] # e /\ g # e
    BY <1>1 DEF Forking
  <2>2. pte'[g][a] = pte[g][a] /\ pte'[child[g]][a] = pte[child[g]][a]
    BY <2>1
  <2> QED BY <2>2 DEF Faithful, Copying
<1> QED BY <1>2, <1>3 DEF Faithful

\* pgfault's call of sys_page_alloc makes no copy false.
LEMMA PgfaultAllocFaithful ==
  ASSUME TypeInv, MemoryLeft, Faithful, NEW e \in Env, PgfaultAlloc(e)
  PROVE  Faithful'
<1>1. /\ \A g \in Env, x \in Va : pte[g][x] # None => mem'[pte[g][x].page] = mem[pte[g][x].page]
      /\ \A g \in Env, x \in Va : ~(g = e /\ x = PFTEMP) => pte'[g][x] = pte[g][x]
  BY PgfaultAllocQuiet
<1>2. Handling(e, "alloc") /\ NextIn(e, "copy") /\ pc' = pc /\ child' = child /\ pn' = pn
  BY DEF PgfaultAlloc
<1>3. pc[e] \in {"user", "status"}
  BY <1>2, HandlingFacts
<1>4. \A g \in Env : g # e => fault'[g] = fault[g]
  BY <1>2, NextInFacts
<1>5. fault'[e].at = "copy"
  BY <1>2, NextInFacts
<1>6. Filled'
  <2> SUFFICES ASSUME NEW g \in Env, Handling(g, "map")'
      PROVE  mem'[pte'[g][PFTEMP].page] = mem'[pte'[g][fault'[g].va].page]
    BY DEF Filled
  <2>1. g # e /\ fault'[g] = fault[g] /\ Handling(g, "map")
    BY <1>4, <1>5 DEF Handling
  <2>2. fault[g].va \in Va /\ pte[g][fault[g].va] # None /\ pte[g][PFTEMP] # None /\ PFTEMP \in Va
    BY <2>1, HandlingFacts, Places
  <2>3. mem[pte[g][PFTEMP].page] = mem[pte[g][fault[g].va].page]
    BY <2>1 DEF Faithful, Filled
  <2>4. pte'[g][PFTEMP] = pte[g][PFTEMP] /\ pte'[g][fault[g].va] = pte[g][fault[g].va]
    BY <1>1, <2>1, <2>2
  <2>5. /\ mem'[pte[g][PFTEMP].page] = mem[pte[g][PFTEMP].page]
        /\ mem'[pte[g][fault[g].va].page] = mem[pte[g][fault[g].va].page]
    BY <1>1, <2>2
  <2> QED BY <2>1, <2>3, <2>4, <2>5
<1>7. \A g \in Env, x \in Addr : pte'[g][x] = pte[g][x]
  BY <1>1, Places
<1> QED BY <1>2, <1>3, <1>6, <1>7, HandlerFaithful

\* With memory left pgfault can write the page it has allocated.
LEMMA CopyGoes ==
  ASSUME TypeInv, Separate, NEW e \in Env, PgfaultCopy(e)
  PROVE  /\ Handling(e, "copy") /\ NextIn(e, "map") /\ UNCHANGED <<pte, upcall, pc, child, pn>>
         /\ mem' = [mem EXCEPT ![pte[e][PFTEMP].page] = mem[pte[e][fault[e].va].page]]
         /\ Writable(e, PFTEMP) /\ Alone(pte, e, PFTEMP)
<1>1. Handling(e, "copy")
  BY DEF PgfaultCopy
<1>2. Writable(e, PFTEMP) /\ Alone(pte, e, PFTEMP)
  BY <1>1 DEF Separate, Scratch, Handling
<1> QED BY <1>1, <1>2 DEF PgfaultCopy

\* What pgfault copies to is seen nowhere else.
LEMMA CopyQuiet ==
  ASSUME TypeInv, Separate, NEW e \in Env, PgfaultCopy(e)
  PROVE  /\ \A g \in Env, x \in Va : pte[g][x] # None /\ ~(g = e /\ x = PFTEMP) =>
              mem'[pte[g][x].page] = mem[pte[g][x].page]
         /\ mem'[pte[e][PFTEMP].page] = mem[pte[e][fault[e].va].page]
<1>1. /\ mem' = [mem EXCEPT ![pte[e][PFTEMP].page] = mem[pte[e][fault[e].va].page]]
      /\ pte[e][PFTEMP] # None /\ Alone(pte, e, PFTEMP) /\ PFTEMP \in Va
  BY CopyGoes, Places DEF Writable
<1>2. pte[e][PFTEMP].page \in Page
  BY <1>1, MappedPages
<1>3. mem \in [Page -> Value \cup {Zero}]
  BY DEF TypeInv, TypeOK
<1>4. mem'[pte[e][PFTEMP].page] = mem[pte[e][fault[e].va].page]
  BY <1>1, <1>2, <1>3
<1>5. \A q \in Page : q # pte[e][PFTEMP].page => mem'[q] = mem[q]
  BY <1>1, <1>3
<1>6. ASSUME NEW g \in Env, NEW x \in Va, pte[g][x] # None, ~(g = e /\ x = PFTEMP)
      PROVE  mem'[pte[g][x].page] = mem[pte[g][x].page]
  <2>1. ~Shares(pte, e, PFTEMP, g, x)
    BY <1>1 DEF Alone
  <2>2. pte[g][x].page # pte[e][PFTEMP].page
    BY <1>1, <1>6, <2>1 DEF Shares
  <2> QED BY <1>5, <1>6, <2>2, MappedPages
<1> QED BY <1>4, <1>6

\* After the memmove the new page holds what the old one does.
LEMMA PgfaultCopyFaithful ==
  ASSUME TypeInv, Separate, Faithful, NEW e \in Env, PgfaultCopy(e)
  PROVE  Faithful'
<1>1. Handling(e, "copy") /\ NextIn(e, "map") /\ pte' = pte /\ pc' = pc /\ child' = child /\ pn' = pn
  BY CopyGoes
<1>2. /\ \A g \in Env : g # e => fault'[g] = fault[g]
      /\ fault'[e].va = fault[e].va
  BY <1>1, NextInFacts
<1>3. fault[e].va \in Va /\ pte[e][fault[e].va] # None /\ PFTEMP \in Va /\ fault[e].va # PFTEMP
  BY <1>1, HandlingFacts, Places
<1>4. Filled'
  <2> SUFFICES ASSUME NEW g \in Env, Handling(g, "map")'
      PROVE  mem'[pte[g][PFTEMP].page] = mem'[pte[g][fault'[g].va].page]
    BY <1>1 DEF Filled
  <2>1. CASE g = e
    <3>1. mem'[pte[e][PFTEMP].page] = mem[pte[e][fault[e].va].page]
      BY CopyQuiet
    <3>2. mem'[pte[e][fault[e].va].page] = mem[pte[e][fault[e].va].page]
      BY <1>3, CopyQuiet
    <3> QED BY <1>2, <2>1, <3>1, <3>2
  <2>2. CASE g # e
    <3>1. fault'[g] = fault[g] /\ Handling(g, "map")
      BY <1>2, <2>2 DEF Handling
    <3>2. fault[g].va \in Va /\ pte[g][fault[g].va] # None /\ pte[g][PFTEMP] # None
      BY <3>1, HandlingFacts
    <3>3. mem[pte[g][PFTEMP].page] = mem[pte[g][fault[g].va].page]
      BY <3>1 DEF Faithful, Filled
    <3>4. /\ mem'[pte[g][PFTEMP].page] = mem[pte[g][PFTEMP].page]
          /\ mem'[pte[g][fault[g].va].page] = mem[pte[g][fault[g].va].page]
      BY <1>3, <2>2, <3>2, CopyQuiet
    <3> QED BY <3>1, <3>3, <3>4
  <2> QED BY <2>1, <2>2
<1> QED BY <1>1, <1>4, TablesFaithful

\* pgfault maps the same contents as before.
LEMMA PgfaultMapFaithful ==
  ASSUME TypeInv, Faithful, NEW e \in Env, PgfaultMap(e)
  PROVE  Faithful'
<1>1. PICK a \in Addr : a = fault[e].va
  BY PgfaultMapFacts
<1>2. /\ pc[e] \in {"user", "status"} /\ pte'[e][a] # None /\ pte'[e][a].w
      /\ \A g \in Env, x \in Va : ~(g = e /\ x = a) => pte'[g][x] = pte[g][x]
      /\ \A g \in Env : fault'[g] = IF g = e THEN None ELSE fault[g]
      /\ pc' = pc /\ child' = child /\ mem' = mem
  BY <1>1, PgfaultMapFacts
<1>3. pn' = pn
  BY DEF PgfaultMap
<1>4. \A g \in Env, x \in Addr : pte'[g][x] = pte[g][x] \/ (g = e /\ Copied(pte'[e][x]))
  BY <1>2, Places DEF Copied
<1>5. Filled'
  <2> SUFFICES ASSUME NEW g \in Env, Handling(g, "map")'
      PROVE  mem'[pte'[g][PFTEMP].page] = mem'[pte'[g][fault'[g].va].page]
    BY DEF Filled
  <2>1. g # e /\ fault'[g] = fault[g] /\ Handling(g, "map")
    BY <1>2 DEF Handling
  <2>2. fault[g].va \in Va /\ PFTEMP \in Va
    BY <2>1, HandlingFacts, Places
  <2>3. pte'[g][PFTEMP] = pte[g][PFTEMP] /\ pte'[g][fault[g].va] = pte[g][fault[g].va]
    BY <1>2, <2>1, <2>2
  <2> QED BY <1>2, <2>1, <2>3 DEF Faithful, Filled
<1> QED BY <1>2, <1>3, <1>4, <1>5, HandlerFaithful

\* Entries outside handlers' reach and pages in use unchanged: what handlers have
\* copied stays.
LEMMA QuietFilled ==
  ASSUME TypeInv, Faithful, fault' = fault,
         \A g \in Env : fault[g] # None => \A x \in Va : x # UXSTACK /\ pte[g][x] # None =>
           pte'[g][x] = pte[g][x] /\ mem'[pte[g][x].page] = mem[pte[g][x].page]
  PROVE  Filled'
<1> SUFFICES ASSUME NEW g \in Env, Handling(g, "map")
    PROVE  mem'[pte'[g][PFTEMP].page] = mem'[pte'[g][fault[g].va].page]
  BY DEF Filled, Handling
<1>1. /\ fault[g].va \in Va /\ PFTEMP \in Va /\ fault[g].va # UXSTACK /\ PFTEMP # UXSTACK
      /\ pte[g][fault[g].va] # None /\ pte[g][PFTEMP] # None /\ fault[g] # None
  BY HandlingFacts, Places DEF Handling
<1>2. mem[pte[g][PFTEMP].page] = mem[pte[g][fault[g].va].page]
  BY DEF Faithful, Filled
<1> QED BY <1>1, <1>2

\* fork starts with no page copied.
LEMMA ForkFaithful ==
  ASSUME TypeInv, MemoryLeft, Faithful, NEW e \in Env, NEW f \in Env, Fork(e, f)
  PROVE  Faithful'
<1>1. e # f /\ pc[e] = "user" /\ pc[f] = "free" /\ Live(e)
  BY ForkFacts DEF Running
<1>2. \A g \in Env, x \in Addr : pte[g][x] # None => pte'[g][x] = pte[g][x]
  BY ForkQuiet, Places
<1>3. \A g \in Env, x \in Addr : Copied(pte[g][x]) => pte'[g][x] = pte[g][x]
  BY <1>2 DEF Copied
<1>4. \A g \in Env : g # e /\ g # f => pc'[g] = pc[g] /\ child'[g] = child[g] /\ pn'[g] = pn[g]
  BY ForkPoints
<1>5. pc'[e] = "child" /\ pc'[f] = "embryo" /\ pn'[e] = PFTEMP
  BY <1>1, ForkPoints
<1>6. \A g \in Env : pc[g] \in Forking => child[g] \in Env
  BY ParentFacts
<1>7. Whole'
  <2> SUFFICES ASSUME NEW g \in Env, Live(g)', NEW a \in Addr
      PROVE  Copied(pte'[g][a]) /\ (pc'[g] = "status" => Copied(pte'[child'[g]][a]))
    BY DEF Whole
  <2>1. CASE g = e
    BY <1>1, <1>3, <1>5, <2>1 DEF Faithful, Whole
  <2>2. CASE g # e
    <3>1. g # f /\ Live(g)
      BY <1>4, <1>5, <2>2 DEF Live
    <3>2. Copied(pte[g][a]) /\ (pc[g] = "status" => Copied(pte[child[g]][a]) /\ child[g] \in Env)
      BY <1>6, <3>1 DEF Faithful, Whole, Forking
    <3> QED BY <1>3, <1>4, <2>2, <3>1, <3>2
  <2> QED BY <2>1, <2>2
<1>8. Copying'
  <2> SUFFICES ASSUME NEW g \in Env, NEW a \in Addr, pc'[g] \in {"child", "own"}, Behind(g, a)'
      PROVE  Copied(pte'[child'[g]][a]) /\ pte'[child'[g]][a].page = pte'[g][a].page
    BY DEF Copying
  <2>1. g # e
    <3> SUFFICES ASSUME g = e PROVE FALSE
      OBVIOUS
    <3>1. a < PFTEMP
      BY <1>5 DEF Behind
    <3> QED BY <3>1, Places, SizeAssumption DEF PFTEMP, Addr, DataPages, STACK
  <2>2. g # f /\ pc'[g] = pc[g] /\ child'[g] = child[g] /\ pn'[g] = pn[g]
    BY <1>4, <1>5, <2>1
  <2>3. Copied(pte[child[g]][a]) /\ pte[child[g]][a].page = pte[g][a].page /\ child[g] \in Env
    BY <1>6, <2>2 DEF Faithful, Copying, Behind, Forking
  <2>4. Copied(pte[g][a])
    <3>1. Live(g)
      BY <2>2 DEF Live
    <3> QED BY <3>1 DEF Faithful, Whole
  <2> QED BY <1>3, <2>2, <2>3, <2>4
<1>9. Filled'
  <2>1. fault' = fault
    BY ForkPoints
  <2> QED BY <2>1, ForkQuiet, QuietFilled
<1> QED BY <1>7, <1>8, <1>9 DEF Faithful

\* The page that the child gets is the one its parent has.
LEMMA MapInChildFaithful ==
  ASSUME TypeInv, Faithful, NEW e \in Env, NEW va \in Va, MapInChild(e, va)
  PROVE  Faithful'
<1>0. PICK c \in Env : c = child[e]
  BY MapInChildFacts
<1>1. /\ pc[e] = "child" /\ fault[e] = None /\ c # e /\ pc[c] = "embryo" /\ fault[c] = None
      /\ pn[e] \in Va /\ pn[e] <= va /\ pte[e][va].page \in Page
      /\ \A vb \in Va : pn[e] <= vb /\ vb < va => ~Copied(pte[e][vb])
  BY <1>0, MapInChildFacts, ParentFacts DEF Forking, TypeInv, TypeOK
<1>2. /\ Copied(pte'[c][va]) /\ pte'[c][va].page = pte[e][va].page
      /\ \A g \in Env, x \in Va : ~(g = c /\ x = va) => pte'[g][x] = pte[g][x]
  <2>1. Sets(pte, c, va, Mapping(pte[e][va].page, FALSE, TRUE), pte')
    BY <1>0, MapInChildFacts
  <2> DEFINE entry == Mapping(pte[e][va].page, FALSE, TRUE)
  <2>2. entry # None /\ entry.page = pte[e][va].page /\ entry.cow
    BY <1>1, MappingFacts
  <2>3. pte'[c][va] = entry
    BY <1>1, <2>1 DEF Sets
  <2>4. \A g \in Env, x \in Va : ~(g = c /\ x = va) => pte'[g][x] = pte[g][x]
    BY <2>1 DEF Sets
  <2> HIDE DEF entry
  <2> QED BY <2>2, <2>3, <2>4 DEF Copied
<1>3. /\ \A g \in Env : pc'[g] = IF g = e THEN "own" ELSE pc[g]
      /\ \A g \in Env : pn'[g] = IF g = e THEN va ELSE pn[g]
      /\ mem' = mem /\ child' = child /\ fault' = fault
  BY MapInChildSteps
<1>4. \A g \in Env : pc[g] \in Forking => child[g] \in Env /\ (g # e => child[g] # c)
  BY <1>0, <1>1, ParentFacts DEF Forking
<1>5. \A g \in Env : Live(g)' <=> Live(g)
  BY <1>1, <1>3 DEF Live
<1>6. ~Live(c)
  BY <1>1 DEF Live
<1>7. Whole'
  <2> SUFFICES ASSUME NEW g \in Env, Live(g), NEW a \in Addr
      PROVE  Copied(pte'[g][a]) /\ (pc'[g] = "status" => Copied(pte'[child[g]][a]))
    BY <1>3, <1>5 DEF Whole
  <2>1. Copied(pte[g][a]) /\ (pc[g] = "status" => Copied(pte[child[g]][a])) /\ a \in Va
    BY Places DEF Faithful, Whole
  <2>2. pte'[g][a] = pte[g][a]
    BY <1>2, <1>6, <2>1
  <2>3. pc'[g] = "status" => g # e /\ pc[g] = "status"
    BY <1>3
  <2>4. pc'[g] = "status" => child[g] \in Env /\ child[g] # c
    BY <1>4, <2>3 DEF Forking
  <2> QED BY <1>2, <2>1, <2>2, <2>3, <2>4
<1>8. Copying'
  <2> SUFFICES ASSUME NEW g \in Env, NEW a \in Addr, pc'[g] \in {"child", "own"}, Behind(g, a)'
      PROVE  Copied(pte'[child[g]][a]) /\ pte'[child[g]][a].page = pte'[g][a].page
    BY <1>3 DEF Copying
  <2>1. a \in Va /\ pc[g] \in {"child", "own"} /\ child[g] \in Env /\ g # c
    BY <1>1, <1>3, <1>4, Places DEF Forking
  <2>2. pte'[g][a] = pte[g][a]
    BY <1>2, <2>1
  <2>3. CASE g # e
    <3>1. pc'[g] = pc[g] /\ pn'[g] = pn[g] /\ child[g] # c
      BY <1>3, <1>4, <2>1, <2>3 DEF Forking
    <3>2. Copied(pte[child[g]][a]) /\ pte[child[g]][a].page = pte[g][a].page
      BY <2>1, <3>1 DEF Faithful, Copying, Behind
    <3>3. pte'[child[g]][a] = pte[child[g]][a]
      BY <1>2, <2>1, <3>1
    <3> QED BY <2>2, <3>2, <3>3
  <2>4. CASE g = e /\ a = va
    BY <1>0, <1>2, <2>2, <2>4
  <2>5. CASE g = e /\ a # va
    <3>1. a < va
      BY <1>3, <2>5 DEF Behind
    <3>2. Copied(pte[e][a])
      <4>1. Live(e)
        BY <1>1 DEF Live
      <4> QED BY <4>1 DEF Faithful, Whole
    <3>3. a < pn[e]
      <4>1. a < pn[e] \/ pn[e] <= a
        BY <1>1, <2>1, VaOrder
      <4> QED BY <1>1, <2>1, <3>1, <3>2, <4>1
    <3>4. Copied(pte[c][a]) /\ pte[c][a].page = pte[e][a].page
      <4>1. Behind(e, a)
        BY <3>3 DEF Behind
      <4>2. pc[e] \in {"child", "own"}
        BY <1>1
      <4> QED BY <1>0, <4>1, <4>2 DEF Faithful, Copying
    <3>5. pte'[c][a] = pte[c][a]
      BY <1>2, <2>1, <2>5
    <3> QED BY <1>0, <2>2, <2>5, <3>4, <3>5
  <2> QED BY <2>3, <2>4, <2>5
<1>9. Filled'
  <2>1. \A g \in Env : fault[g] # None => g # c
    BY <1>1
  <2> QED BY <1>2, <1>3, <2>1, QuietFilled
<1> QED BY <1>7, <1>8, <1>9 DEF Faithful

\* The page that is marked is the one that the child has.
LEMMA MapOwnFaithful ==
  ASSUME TypeInv, Faithful, NEW e \in Env, MapOwn(e)
  PROVE  Faithful'
<1>0. PICK va \in Va : va = pn[e]
  BY MapOwnFacts
<1>1. PICK c \in Env : c = child[e]
  BY MapOwnFacts
<1>2. /\ pc[e] = "own" /\ fault[e] = None /\ c # e /\ pc[c] = "embryo" /\ va <= STACK
      /\ pte[e][va].page \in Page
  BY <1>0, <1>1, MapOwnFacts
<1>3. /\ Copied(pte'[e][va]) /\ pte'[e][va].page = pte[e][va].page
      /\ \A g \in Env, x \in Va : ~(g = e /\ x = va) => pte'[g][x] = pte[g][x]
  <2> DEFINE entry == Mapping(pte[e][va].page, FALSE, TRUE)
  <2>1. Sets(pte, e, va, entry, pte')
    BY <1>0, MapOwnFacts
  <2>2. entry # None /\ entry.page = pte[e][va].page /\ entry.cow
    BY <1>2, MappingFacts
  <2> HIDE DEF entry
  <2>3. pte'[e][va] = entry
    BY <1>1, <2>1 DEF Sets
  <2>4. \A g \in Env, x \in Va : ~(g = e /\ x = va) => pte'[g][x] = pte[g][x]
    BY <2>1 DEF Sets
  <2> QED BY <2>2, <2>3, <2>4 DEF Copied
<1>4. /\ \A g \in Env : pc'[g] = IF g = e THEN (IF va = STACK THEN "status" ELSE "child") ELSE pc[g]
      /\ \A g \in Env : g # e => pn'[g] = pn[g]
      /\ pn'[e] = va + 1
      /\ mem' = mem /\ child' = child /\ fault' = fault
  BY <1>0, MapOwnSteps
<1>5. \A g \in Env : pc[g] \in Forking => child[g] \in Env /\ child[g] # e
  BY <1>2, ParentFacts
<1>6. \A g \in Env : Live(g)' <=> Live(g)
  BY <1>2, <1>4 DEF Live
\* Up to the page it is at, the child has e's pages.
<1>7. \A a \in Addr : a < va \/ a = va => Copied(pte[c][a]) /\ pte[c][a].page = pte[e][a].page
  BY <1>0, <1>1, <1>2 DEF Faithful, Copying, Behind
<1>8. \A g \in Env, a \in Addr : Live(g) => Copied(pte'[g][a]) /\ pte'[g][a].page = pte[g][a].page
  <2> SUFFICES ASSUME NEW g \in Env, NEW a \in Addr, Live(g)
      PROVE  Copied(pte'[g][a]) /\ pte'[g][a].page = pte[g][a].page
    OBVIOUS
  <2>1. Copied(pte[g][a]) /\ a \in Va
    BY Places DEF Faithful, Whole
  <2> QED BY <1>3, <2>1
<1>9. Whole'
  <2> SUFFICES ASSUME NEW g \in Env, Live(g), NEW a \in Addr
      PROVE  Copied(pte'[g][a]) /\ (pc'[g] = "status" => Copied(pte'[child[g]][a]))
    BY <1>4, <1>6 DEF Whole
  <2>1. Copied(pte'[g][a]) /\ a \in Va
    BY <1>8, Places
  <2>2. CASE g # e
    <3>1. pc[g] = "status" => Copied(pte[child[g]][a]) /\ child[g] \in Env /\ child[g] # e
      BY <1>5 DEF Faithful, Whole, Forking
    <3> QED BY <1>3, <1>4, <2>1, <2>2, <3>1
  <2>3. CASE g = e
    <3>1. pc'[e] = "status" => va = STACK
      BY <1>4
    <3>2. a < STACK \/ a = STACK
      BY <2>1, Places, VaOrder
    <3>3. pc'[e] = "status" => Copied(pte[c][a])
      BY <1>7, <3>1, <3>2
    <3>4. pte'[c][a] = pte[c][a]
      BY <1>2, <1>3, <2>1
    <3> QED BY <1>1, <2>1, <2>3, <3>3, <3>4
  <2> QED BY <2>2, <2>3
<1>10. Copying'
  <2> SUFFICES ASSUME NEW g \in Env, NEW a \in Addr, pc'[g] \in {"child", "own"}, Behind(g, a)'
      PROVE  Copied(pte'[child[g]][a]) /\ pte'[child[g]][a].page = pte'[g][a].page
    BY <1>4 DEF Copying
  <2>1. a \in Va /\ pc[g] \in {"child", "own"} /\ child[g] \in Env /\ child[g] # e
    BY <1>2, <1>4, <1>5, Places DEF Forking
  <2>2. pte'[child[g]][a] = pte[child[g]][a]
    BY <1>3, <2>1
  <2>3. pte'[g][a].page = pte[g][a].page
    <3>1. Live(g)
      BY <2>1 DEF Live
    <3> QED BY <1>8, <3>1
  <2>4. CASE g # e
    <3>1. pc'[g] = pc[g] /\ pn'[g] = pn[g]
      BY <1>4, <2>4
    <3>2. Copied(pte[child[g]][a]) /\ pte[child[g]][a].page = pte[g][a].page
      BY <2>1, <3>1 DEF Faithful, Copying, Behind
    <3> QED BY <2>2, <2>3, <3>2
  <2>5. CASE g = e
    <3>1. pc'[e] = "child"
      BY <1>4, <2>5
    <3>2. a < va + 1
      BY <1>4, <2>5, <3>1 DEF Behind
    <3>3. a < va \/ a = va
      BY <2>1, <3>2, VaOrder
    <3> QED BY <1>1, <1>7, <2>2, <2>3, <2>5, <3>3
  <2> QED BY <2>4, <2>5
<1>11. Filled'
  <2>1. \A g \in Env : fault[g] # None => g # e
    BY <1>2
  <2> QED BY <1>3, <1>4, <2>1, QuietFilled
<1> QED BY <1>9, <1>10, <1>11 DEF Faithful

\* The end of fork makes no copy false.
LEMMA SetStatusFaithful ==
  ASSUME TypeInv, Faithful, NEW e \in Env, SetStatus(e)
  PROVE  Faithful'
<1>0. PICK c \in Env : c = child[e]
  BY SetStatusFacts
<1>1. /\ pc[e] = "status" /\ c # e /\ pc[c] = "embryo"
      /\ \A g \in Env : pc'[g] = IF g \in {e, c} THEN "user" ELSE pc[g]
      /\ \A g \in Env : child'[g] = IF g = e THEN None ELSE child[g]
      /\ \A g \in Env : pn'[g] = IF g = e THEN 0 ELSE pn[g]
      /\ pte' = pte /\ mem' = mem /\ fault' = fault
  BY <1>0, SetStatusFacts
<1>2. Whole'
  <2> SUFFICES ASSUME NEW g \in Env, Live(g)', NEW a \in Addr
      PROVE  Copied(pte[g][a]) /\ (pc'[g] = "status" => Copied(pte[child'[g]][a]))
    BY <1>1 DEF Whole
  <2>1. CASE g = c
    <3>1. Copied(pte[c][a])
      BY <1>0, <1>1 DEF Faithful, Whole, Live
    <3> QED BY <1>1, <2>1, <3>1
  <2>2. CASE g # c
    <3>1. Live(g)
      BY <1>1, <2>2 DEF Live
    <3>2. pc'[g] = "status" => g # e /\ pc[g] = "status"
      BY <1>1, <2>2
    <3> QED BY <1>1, <3>1, <3>2 DEF Faithful, Whole
  <2> QED BY <2>1, <2>2
<1>3. Copying'
  <2> SUFFICES ASSUME NEW g \in Env, NEW a \in Addr, pc'[g] \in {"child", "own"}, Behind(g, a)'
      PROVE  Copied(pte[child'[g]][a]) /\ pte[child'[g]][a].page = pte[g][a].page
    BY <1>1 DEF Copying
  <2>1. g # e /\ g # c
    BY <1>1
  <2> QED BY <1>1, <2>1 DEF Faithful, Copying, Behind
<1>4. Filled'
  BY <1>1 DEF Faithful, Filled, Handling
<1> QED BY <1>2, <1>3, <1>4 DEF Faithful

\* A step that programs do not see.
LEMMA Unseen ==
  ASSUME \A g \in Env : Complete(g)' <=> Complete(g),
         \A g \in Env, a \in Addr : Complete(g) => mem'[pte'[g][a].page] = mem[pte[g][a].page]
  PROVE  memory' = memory
<1>1. \A g \in Env : Complete(g) =>
        [a \in Addr |-> mem'[pte'[g][a].page]] = [a \in Addr |-> mem[pte[g][a].page]]
  OBVIOUS
<1> QED BY <1>1 DEF memory

\* What is seen of an environment is mapped.
LEMMA CompleteWhole ==
  ASSUME Faithful, NEW g \in Env, Complete(g), NEW a \in Addr
  PROVE  Copied(pte[g][a]) /\ pte[g][a] # None
BY DEF Complete, Faithful, Whole, Live, Copied

\* Who is seen depends on the places and the children.
LEMMA SameComplete ==
  ASSUME pc' = pc, child' = child
  PROVE  \A g \in Env : Complete(g)' <=> Complete(g)
BY DEF Complete, Live

\* No program sees pgfault's call of sys_page_alloc,
LEMMA PgfaultAllocUnseen ==
  ASSUME TypeInv, MemoryLeft, Faithful, NEW e \in Env, PgfaultAlloc(e)
  PROVE  memory' = memory
<1>1. pc' = pc /\ child' = child
  BY DEF PgfaultAlloc
<1>2. ASSUME NEW g \in Env, NEW a \in Addr, Complete(g)
      PROVE  mem'[pte'[g][a].page] = mem[pte[g][a].page]
  <2>1. pte[g][a] # None /\ a \in Va /\ a # PFTEMP
    BY <1>2, CompleteWhole, Places
  <2>2. pte'[g][a] = pte[g][a] /\ mem'[pte[g][a].page] = mem[pte[g][a].page]
    BY <2>1, PgfaultAllocQuiet
  <2> QED BY <2>2
<1> QED BY <1>1, <1>2, SameComplete, Unseen

\* its memmove,
LEMMA PgfaultCopyUnseen ==
  ASSUME TypeInv, Separate, Faithful, NEW e \in Env, PgfaultCopy(e)
  PROVE  memory' = memory
<1>1. pc' = pc /\ child' = child /\ pte' = pte
  BY CopyGoes
<1>2. ASSUME NEW g \in Env, NEW a \in Addr, Complete(g)
      PROVE  mem'[pte'[g][a].page] = mem[pte[g][a].page]
  <2>1. pte[g][a] # None /\ a \in Va /\ a # PFTEMP
    BY <1>2, CompleteWhole, Places
  <2> QED BY <1>1, <2>1, CopyQuiet
<1> QED BY <1>1, <1>2, SameComplete, Unseen

\* or its call of sys_page_map.
LEMMA PgfaultMapUnseen ==
  ASSUME TypeInv, Faithful, NEW e \in Env, PgfaultMap(e)
  PROVE  memory' = memory
<1>1. pc' = pc /\ child' = child /\ mem' = mem
  BY PgfaultMapFacts
<1>2. ASSUME NEW g \in Env, NEW a \in Addr, Complete(g)
      PROVE  mem'[pte'[g][a].page] = mem[pte[g][a].page]
  <2>1. CASE g = e /\ a = fault[e].va
    <3>1. pte'[e][fault[e].va].page = pte[e][PFTEMP].page
      BY PgfaultMapFacts
    <3>2. mem[pte[e][PFTEMP].page] = mem[pte[e][fault[e].va].page]
      BY DEF Faithful, Filled, PgfaultMap
    <3> QED BY <1>1, <2>1, <3>1, <3>2
  <2>2. CASE ~(g = e /\ a = fault[e].va)
    <3>1. a \in Va
      BY Places
    <3> QED BY <1>1, <2>2, <3>1, PgfaultMapFacts
  <2> QED BY <2>1, <2>2
<1> QED BY <1>1, <1>2, SameComplete, Unseen

\* No program sees fork begin,
LEMMA ForkUnseen ==
  ASSUME TypeInv, MemoryLeft, Faithful, NEW e \in Env, NEW f \in Env, Fork(e, f)
  PROVE  memory' = memory
<1>1. e # f /\ pc[e] = "user" /\ pc[f] = "free"
  BY ForkFacts
<1>2. \A g \in Env : Complete(g)' <=> Complete(g)
  <2> SUFFICES ASSUME NEW g \in Env PROVE Complete(g)' <=> Complete(g)
    OBVIOUS
  <2>1. Live(g)' <=> Live(g)
    BY <1>1, ForkPoints DEF Live
  <2>2. ASSUME NEW h \in Env
        PROVE  (child'[h] = g /\ pc'[h] = "status") <=> (child[h] = g /\ pc[h] = "status")
    BY <1>1, ForkPoints
  <2> QED BY <2>1, <2>2 DEF Complete
<1>3. ASSUME NEW g \in Env, NEW a \in Addr, Complete(g)
      PROVE  mem'[pte'[g][a].page] = mem[pte[g][a].page]
  <2>1. pte[g][a] # None /\ a \in Va /\ a # UXSTACK
    BY <1>3, CompleteWhole, Places
  <2> QED BY <2>1, ForkQuiet
<1> QED BY <1>2, <1>3, Unseen

\* or a page that the child gets,
LEMMA MapInChildUnseen ==
  ASSUME TypeInv, Faithful, NEW e \in Env, NEW va \in Va, MapInChild(e, va)
  PROVE  memory' = memory
<1>0. PICK c \in Env : c = child[e]
  BY MapInChildFacts
<1>1. /\ pc[e] = "child" /\ c # e /\ ~Live(c) /\ \A h \in Env : child[h] = c => h = e
  BY <1>0, MapInChildFacts, ParentFacts DEF Forking
<1>2. ~Complete(c)
  BY <1>1 DEF Complete
<1>3. \A g \in Env : Complete(g)' <=> Complete(g)
  <2> SUFFICES ASSUME NEW g \in Env PROVE Complete(g)' <=> Complete(g)
    OBVIOUS
  <2>1. Live(g)' <=> Live(g)
    BY <1>1, MapInChildSteps DEF Live
  <2>2. ASSUME NEW h \in Env
        PROVE  (child'[h] = g /\ pc'[h] = "status") <=> (child[h] = g /\ pc[h] = "status")
    BY <1>1, MapInChildSteps
  <2> QED BY <2>1, <2>2 DEF Complete
<1>4. \A g \in Env, x \in Va : g # c => pte'[g][x] = pte[g][x]
  <2>1. Sets(pte, c, va, Mapping(pte[e][va].page, FALSE, TRUE), pte')
    BY <1>0, MapInChildFacts
  <2> QED BY <2>1 DEF Sets
<1>5. mem' = mem
  BY MapInChildSteps
<1>6. ASSUME NEW g \in Env, NEW a \in Addr, Complete(g)
      PROVE  mem'[pte'[g][a].page] = mem[pte[g][a].page]
  BY <1>2, <1>4, <1>5, <1>6, Places
<1> QED BY <1>3, <1>6, Unseen

\* or the child become runnable.
LEMMA SetStatusUnseen ==
  ASSUME TypeInv, NEW e \in Env, SetStatus(e)
  PROVE  memory' = memory
<1>0. PICK c \in Env : c = child[e]
  BY SetStatusFacts
<1>1. /\ pc[e] = "status" /\ c # e /\ pc[c] = "embryo"
      /\ \A g \in Env : pc'[g] = IF g \in {e, c} THEN "user" ELSE pc[g]
      /\ \A g \in Env : child'[g] = IF g = e THEN None ELSE child[g]
      /\ pte' = pte /\ mem' = mem
  BY <1>0, SetStatusFacts
<1>2. \A g \in Env : Complete(g)' <=> Complete(g)
  <2> SUFFICES ASSUME NEW g \in Env PROVE Complete(g)' <=> Complete(g)
    OBVIOUS
  <2>1. CASE g = c
    <3>1. Live(c)'
      BY <1>1 DEF Live
    <3>2. Complete(c)
      BY <1>0, <1>1 DEF Complete
    <3> QED BY <2>1, <3>1, <3>2 DEF Complete
  <2>2. CASE g # c
    <3>1. Live(g)' <=> Live(g)
      BY <1>1, <2>2 DEF Live
    <3>2. ASSUME NEW h \in Env
          PROVE  (child'[h] = g /\ pc'[h] = "status") <=> (child[h] = g /\ pc[h] = "status")
      BY <1>0, <1>1, <2>2, NoneAssumption
    <3> QED BY <3>1, <3>2 DEF Complete
  <2> QED BY <2>1, <2>2
<1> QED BY <1>1, <1>2, Unseen

\* Destroyed are only programs that are not forking: their memory ends.
LEMMA FreeEnds ==
  ASSUME TypeInv, NEW e \in Env, EnvFree(e), pc[e] = "user"
  PROVE  Abstract!End(e)
<1>1. child[e] = None /\ \A h \in Env : child[h] # e
  BY NoneAssumption DEF TypeInv, Families, Forking
<1>2. ~Complete(e)'
  BY <1>1, FreedFacts, NoneAssumption DEF Complete, Live
<1>3. \A g \in Env : g # e => (Complete(g)' <=> Complete(g))
  <2> SUFFICES ASSUME NEW g \in Env, g # e PROVE Complete(g)' <=> Complete(g)
    OBVIOUS
  <2>1. Live(g)' <=> Live(g)
    BY FreedFacts DEF Live
  <2>2. ASSUME NEW h \in Env
        PROVE  (child'[h] = g /\ pc'[h] = "status") <=> (child[h] = g /\ pc[h] = "status")
    BY <1>1, FreedFacts, NoneAssumption
  <2> QED BY <2>1, <2>2 DEF Complete
<1>4. \A g \in Env : g # e => pte'[g] = pte[g] /\ mem' = mem
  BY FreedFacts
<1>5. \A g \in Env : memory'[g] = IF g = e THEN None ELSE memory[g]
  BY <1>2, <1>3, <1>4 DEF memory
<1>6. memory' = [memory EXCEPT ![e] = None]
  BY <1>5 DEF memory
<1> QED BY <1>6 DEF Abstract!End

\* What is seen of an environment is a memory.
LEMMA MemoryValue ==
  ASSUME TypeInv, Faithful, NEW e \in Env, Complete(e)
  PROVE  memory[e] # None
<1>1. \A b \in Addr : mem[pte[e][b].page] \in Value \cup {Zero}
  <2> SUFFICES ASSUME NEW b \in Addr PROVE mem[pte[e][b].page] \in Value \cup {Zero}
    OBVIOUS
  <2>1. pte[e][b].page \in Page
    BY CompleteWhole, MappedPages, Places
  <2> QED BY <2>1 DEF TypeInv, TypeOK
<1>2. memory[e] = [b \in Addr |-> mem[pte[e][b].page]]
  BY DEF memory
<1>3. memory[e] \in [Addr -> Value \cup {Zero}]
  BY <1>1, <1>2
<1> QED BY <1>3, NoneAssumption

\* A store is seen by the environment that makes it.
LEMMA StoreStores ==
  ASSUME TypeInv, Separate, Faithful, NEW e \in Env, NEW a \in Addr, NEW v \in Value, Store(e, a, v)
  PROVE  Abstract!Store(e, a, v)
<1>1. /\ Live(e) /\ Writable(e, a) /\ pte[e][a] # None /\ a \in Va
      /\ pte' = pte /\ pc' = pc /\ child' = child
  BY Places DEF Store, Running, Writable
<1>2. pte[e][a].page \in Page
  BY <1>1, MappedPages
<1>3. \A q \in Page : mem'[q] = IF q = pte[e][a].page THEN v ELSE mem[q]
  BY <1>2 DEF Store, TypeInv, TypeOK
<1>4. \A g \in Env : Complete(g)' <=> Complete(g)
  BY <1>1, SameComplete
<1>5. Complete(e)
  BY <1>1 DEF Complete
<1>6. ASSUME NEW g \in Env, Complete(g), NEW b \in Addr, ~(g = e /\ b = a)
      PROVE  mem'[pte[g][b].page] = mem[pte[g][b].page]
  <2>1. pte[g][b] # None /\ b \in Va /\ a # PFTEMP /\ b # PFTEMP
    BY <1>6, CompleteWhole, Places
  <2>2. ~Shares(pte, e, a, g, b)
    <3> SUFFICES ASSUME Shares(pte, e, a, g, b) PROVE FALSE
      OBVIOUS
    <3>1. Duping(e, g)
      BY <1>1, <2>1 DEF Separate, Apart
    <3>2. ~Live(g) /\ \A h \in Env : child[h] = g => h = e
      BY <3>1, ParentFacts DEF Duping, Forking
    <3> QED BY <1>6, <3>1, <3>2 DEF Complete, Duping
  <2>3. pte[g][b].page # pte[e][a].page
    BY <1>1, <1>6, <2>1, <2>2 DEF Shares
  <2> QED BY <1>3, <2>1, <2>3, MappedPages
<1>7. mem'[pte[e][a].page] = v
  BY <1>2, <1>3
<1>8. memory[e] # None
  BY <1>5, MemoryValue
<1>9. memory' = [memory EXCEPT ![e][a] = v]
  <2>1. \A g \in Env : g # e => memory'[g] = memory[g]
    <3> SUFFICES ASSUME NEW g \in Env, g # e PROVE memory'[g] = memory[g]
      OBVIOUS
    <3>1. Complete(g) => [b \in Addr |-> mem'[pte[g][b].page]] = [b \in Addr |-> mem[pte[g][b].page]]
      BY <1>6
    <3> QED BY <1>1, <1>4, <3>1 DEF memory
  <2>2. memory'[e] = [memory[e] EXCEPT ![a] = v]
    <3>1. memory[e] = [b \in Addr |-> mem[pte[e][b].page]]
      BY <1>5 DEF memory
    <3>2. memory'[e] = [b \in Addr |-> mem'[pte[e][b].page]]
      BY <1>1, <1>4, <1>5 DEF memory
    <3>3. \A b \in Addr : mem'[pte[e][b].page] = IF b = a THEN v ELSE mem[pte[e][b].page]
      BY <1>5, <1>6, <1>7
    <3> QED BY <3>1, <3>2, <3>3
  <2>3. memory = [g \in Env |-> memory[g]] /\ memory' = [g \in Env |-> memory'[g]]
    BY DEF memory
  <2> QED BY <2>1, <2>2, <2>3
<1> QED BY <1>8, <1>9 DEF Abstract!Store

\* duppage's second call is not seen, but for the stack: there the child gets
\* the memory of its parent, all at once.
LEMMA MapOwnForks ==
  ASSUME TypeInv, Faithful, NEW e \in Env, MapOwn(e)
  PROVE  memory' = memory \/ \E f \in Env : Abstract!Fork(e, f)
<1>0. PICK va \in Va : va = pn[e]
  BY MapOwnFacts
<1>1. PICK c \in Env : c = child[e]
  BY MapOwnFacts
<1>2. /\ pc[e] = "own" /\ c # e /\ pc[c] = "embryo" /\ va <= STACK /\ pte[e][va].page \in Page
      /\ ~Live(c) /\ Live(e) /\ \A h \in Env : child[h] = c => h = e
  BY <1>0, <1>1, MapOwnFacts, ParentFacts DEF Forking, Live
<1>3. \A g \in Env, x \in Va : pte'[g][x] = pte[g][x] \/ (g = e /\ pte'[g][x].page = pte[g][x].page)
  <2> DEFINE entry == Mapping(pte[e][va].page, FALSE, TRUE)
  <2>1. Sets(pte, e, va, entry, pte')
    BY <1>0, MapOwnFacts
  <2>2. entry.page = pte[e][va].page
    BY <1>2, MappingFacts
  <2> HIDE DEF entry
  <2> QED BY <2>1, <2>2 DEF Sets
<1>4. \A g \in Env, x \in Va : mem'[pte'[g][x].page] = mem[pte[g][x].page]
  <2>1. mem' = mem
    BY MapOwnSteps
  <2> QED BY <1>3, <2>1
<1>5. /\ \A g \in Env : pc'[g] = IF g = e THEN (IF va = STACK THEN "status" ELSE "child") ELSE pc[g]
      /\ child' = child
  BY <1>0, MapOwnSteps
<1>6. \A g \in Env : Live(g)' <=> Live(g)
  BY <1>2, <1>5 DEF Live
<1>7. \A g \in Env : g # c => (Complete(g)' <=> Complete(g))
  <2> SUFFICES ASSUME NEW g \in Env, g # c PROVE Complete(g)' <=> Complete(g)
    OBVIOUS
  <2>1. ASSUME NEW h \in Env
        PROVE  (child'[h] = g /\ pc'[h] = "status") <=> (child[h] = g /\ pc[h] = "status")
    BY <1>1, <1>2, <1>5
  <2> QED BY <1>6, <2>1 DEF Complete
<1>8. ~Complete(c)
  BY <1>2 DEF Complete
<1>9. \A g \in Env, a \in Addr : mem'[pte'[g][a].page] = mem[pte[g][a].page]
  BY <1>4, Places
<1>10. CASE va # STACK
  <2>1. ~Complete(c)'
    BY <1>2, <1>5, <1>6, <1>10 DEF Complete
  <2>2. \A g \in Env : Complete(g)' <=> Complete(g)
    BY <1>7, <1>8, <2>1
  <2>3. memory' = memory
    BY <1>9, <2>2, Unseen
  <2> QED BY <2>3
<1>11. CASE va = STACK
  <2>1. Complete(c)' /\ Complete(e)
    BY <1>1, <1>2, <1>5, <1>11 DEF Complete
  <2>2. \A a \in Addr : pte[c][a].page = pte[e][a].page
    <3> SUFFICES ASSUME NEW a \in Addr PROVE pte[c][a].page = pte[e][a].page
      OBVIOUS
    <3>1. a < va \/ a = va
      BY <1>11, Places, VaOrder
    <3>2. Behind(e, a) /\ pc[e] \in {"child", "own"}
      BY <1>0, <1>2, <3>1 DEF Behind
    <3> QED BY <1>1, <3>2 DEF Faithful, Copying
  <2>3. memory[e] = [a \in Addr |-> mem[pte[e][a].page]] /\ memory[c] = None
    BY <1>8, <2>1 DEF memory
  <2>4. memory'[c] = memory[e]
    <3>1. memory'[c] = [a \in Addr |-> mem'[pte'[c][a].page]]
      BY <2>1 DEF memory
    <3>2. \A a \in Addr : mem'[pte'[c][a].page] = mem[pte[e][a].page]
      BY <1>9, <2>2
    <3> QED BY <2>3, <3>1, <3>2
  <2>5. \A g \in Env : g # c => memory'[g] = memory[g]
    <3> SUFFICES ASSUME NEW g \in Env, g # c PROVE memory'[g] = memory[g]
      OBVIOUS
    <3>1. [a \in Addr |-> mem'[pte'[g][a].page]] = [a \in Addr |-> mem[pte[g][a].page]]
      BY <1>9
    <3> QED BY <1>7, <3>1 DEF memory
  <2>6. memory' = [memory EXCEPT ![c] = memory[e]]
    <3>1. memory = [g \in Env |-> memory[g]] /\ memory' = [g \in Env |-> memory'[g]]
      BY DEF memory
    <3> QED BY <2>4, <2>5, <3>1
  <2>7. memory[e] # None
    BY <2>1, MemoryValue
  <2> QED BY <2>3, <2>6, <2>7 DEF Abstract!Fork
<1> QED BY <1>10, <1>11

\* A fault destroys only programs that are not forking: those that fork have an
\* exception stack, and a page for pgfault.
LEMMA PageFaultEnds ==
  ASSUME TypeInv, Separate, Faithful, NEW e \in Env, NEW a \in Addr, PageFault(e, a)
  PROVE  memory' = memory \/ Abstract!End(e)
<1>1. CASE EnvFree(e)
  <2>1. CASE pc[e] = "user"
    BY <1>1, <2>1, FreeEnds
  <2>2. CASE pc[e] = "status" /\ ~(upcall[e] /\ Writable(e, UXSTACK))
    BY <2>2 DEF TypeInv, Families, Forking, Separate, Stacks
  <2>3. CASE upcall[e] /\ Writable(e, UXSTACK)
    <3>1. UNCHANGED <<pte, mem, pc, child>>
      BY <2>3 DEF PageFault
    <3> QED BY <3>1, SameComplete, Unseen
  <2> QED BY <2>1, <2>2, <2>3, FaultPlaces
<1>2. CASE UNCHANGED <<pte, mem, upcall, pc, child, pn>>
  BY <1>2, SameComplete, Unseen
<1> QED BY <1>1, <1>2 DEF PageFault

\* Root has memory that is cleared, and nobody else has any.
LEMMA MemoryInit ==
  ASSUME Init
  PROVE  Abstract!Init
<1>1. \A e \in Env : Complete(e) <=> e = Root
  BY EnvAssumption DEF Init, Complete, Live
<1>2. \A a \in Addr : pte[Root][a] = Mapping(a, a \notin ReadOnly, FALSE)
  BY EnvAssumption, Places DEF Init
<1>3. \A a \in Addr : mem[pte[Root][a].page] = Zero
  <2>1. \A a \in Addr : a \in Page
    BY SizeAssumption DEF Addr, DataPages, STACK, Page
  <2>2. \A a, w : Mapping(a, w, FALSE).page = a
    BY DEF Mapping
  <2>3. \A a \in Addr : pte[Root][a].page = a
    BY <1>2, <2>2
  <2> QED BY <2>1, <2>3 DEF Init
<1>4. memory = [e \in Env |-> IF e = Root THEN [a \in Addr |-> Zero] ELSE None]
  BY <1>1, <1>3 DEF memory
<1> QED BY <1>4 DEF Abstract!Init

\* Nothing is copied yet, and all of Root can be written.
LEMMA InitFaithful ==
  ASSUME ReadOnly = {}, Init
  PROVE  Faithful
<1>1. \A a \in Addr : pte[Root][a] = Mapping(a, TRUE, FALSE)
  <2>1. \A a \in Addr : pte[Root][a] = Mapping(a, a \notin ReadOnly, FALSE)
    BY EnvAssumption, Places DEF Init
  <2>2. \A a \in Addr : (a \notin ReadOnly) = TRUE
    OBVIOUS
  <2> QED BY <2>1, <2>2
<1>2. \A a \in Addr : Copied(pte[Root][a])
  <2>1. \A a \in Addr : a \in Page
    BY SizeAssumption DEF Addr, DataPages, STACK, Page
  <2> QED BY <1>1, <2>1, MappingFacts DEF Copied
<1>3. \A e \in Env : Live(e) => e = Root /\ pc[e] = "user"
  BY DEF Init, Live
<1>4. Whole
  BY <1>2, <1>3 DEF Whole
<1>5. Copying
  BY <1>3 DEF Copying, Live
<1>6. Filled
  BY DEF Init, Filled, Handling
<1> QED BY <1>4, <1>5, <1>6 DEF Faithful

\* Every step keeps what is copied true, while there is memory.
LEMMA NextFaithful ==
  ASSUME TypeInv, MemoryLeft, Separate, Faithful, [Next]_vars
  PROVE  Faithful'
<1>1. CASE UNCHANGED vars
  BY <1>1 DEF vars, Faithful, Whole, Copying, Filled, Behind, Live, Handling
<1>2. CASE Next
  <2>1. PICK e \in Env :
          \/ \E a \in Addr : PageFault(e, a) \/ \E v \in Value : Store(e, a, v)
          \/ Pgfault(e) \/ Exit(e)
          \/ \E f \in Env : Fork(e, f)
          \/ \E va \in Va : MapInChild(e, va)
          \/ MapOwn(e) \/ SetStatus(e)
    BY <1>2 DEF Next
  <2>2. Exit(e) => EnvFree(e) /\ pc[e] # "embryo"
    BY DEF Exit
  <2> QED BY <2>1, <2>2, PageFaultFaithful, StoreFaithful, PgfaultAllocFaithful, PgfaultCopyFaithful,
             PgfaultMapFaithful, FreeFaithful, ForkFaithful, MapInChildFaithful, MapOwnFaithful,
             SetStatusFaithful DEF Pgfault
<1> QED BY <1>1, <1>2

\* Every step is one of ForkMemory, or is not seen.
LEMMA MemoryStep ==
  ASSUME TypeInv, MemoryLeft, Separate, Faithful, [Next]_vars
  PROVE  Abstract!Next \/ memory' = memory
<1>1. CASE UNCHANGED vars
  <2>1. UNCHANGED <<pte, mem, pc, child>>
    BY <1>1 DEF vars
  <2> QED BY <2>1, SameComplete, Unseen
<1>2. CASE Next
  <2>1. PICK e \in Env :
          \/ \E a \in Addr : PageFault(e, a) \/ \E v \in Value : Store(e, a, v)
          \/ Pgfault(e) \/ Exit(e)
          \/ \E f \in Env : Fork(e, f)
          \/ \E va \in Va : MapInChild(e, va)
          \/ MapOwn(e) \/ SetStatus(e)
    BY <1>2 DEF Next
  <2>2. CASE \E a \in Addr : PageFault(e, a)
    BY <2>2, PageFaultEnds DEF Abstract!Next
  <2>3. CASE \E a \in Addr, v \in Value : Store(e, a, v)
    BY <2>3, StoreStores DEF Abstract!Next
  <2>4. CASE Pgfault(e)
    BY <2>4, PgfaultAllocUnseen, PgfaultCopyUnseen, PgfaultMapUnseen DEF Pgfault
  <2>5. CASE Exit(e)
    <3>1. pc[e] = "user" /\ EnvFree(e)
      BY <2>5 DEF Exit
    <3> QED BY <3>1, FreeEnds DEF Abstract!Next
  <2>6. CASE \E f \in Env : Fork(e, f)
    BY <2>6, ForkUnseen
  <2>7. CASE \E va \in Va : MapInChild(e, va)
    BY <2>7, MapInChildUnseen
  <2>8. CASE MapOwn(e)
    BY <2>8, MapOwnForks DEF Abstract!Next
  <2>9. CASE SetStatus(e)
    BY <2>9, SetStatusUnseen
  <2> QED BY <2>1, <2>2, <2>3, <2>4, <2>5, <2>6, <2>7, <2>8, <2>9
<1> QED BY <1>1, <1>2

\* Programs see fork copy the memory at one instant, the marking of the stack, and
\* no store of anybody else (fork.c:114-211), whatever system calls, stack
\* pushes, faults, exits and stores of any number of environments interleave:
\* of programs with no page that is mapped without PTE_W, while there is memory.
THEOREM ForkIsAtomic == ReadOnly = {} => (Spec /\ []MemoryLeft => ImplementsFork)
<1> SUFFICES ASSUME ReadOnly = {} PROVE Spec /\ []MemoryLeft => ImplementsFork
  OBVIOUS
<1>1. Init => Faithful /\ Abstract!Init
  BY InitFaithful, MemoryInit
<1>2. TypeInv /\ MemoryLeft /\ Separate /\ Faithful /\ [Next]_vars => Faithful'
  BY NextFaithful
<1>3. TypeInv /\ MemoryLeft /\ Separate /\ Faithful /\ [Next]_vars => [Abstract!Next]_memory
  BY MemoryStep
<1> QED BY <1>1, <1>2, <1>3, AlwaysSeparate, PTL DEF Spec, ImplementsFork, Abstract!Spec

\* When memory cannot run out, pages stay apart in every behaviour: no copy-on-write
\* page and no exception stack (fork.c:99-112, 194) is ever seen by two.
THEOREM ApartWithEnoughPages == EnoughPages => (Spec => [](Isolated /\ ExceptionStackPrivate))
<1> SUFFICES ASSUME EnoughPages PROVE Spec => [](Isolated /\ ExceptionStackPrivate)
  OBVIOUS
<1>1. Spec => []MemoryLeft
  BY AlwaysPagesLeft
<1> QED BY <1>1, ForkIsolates, ExceptionStacksPrivate, PTL

\* When memory cannot run out and every page of a program is mapped with PTE_W,
\* every behaviour of fork and pgfault is one of the atomic fork.
THEOREM AtomicWithEnoughPages == EnoughPages /\ ReadOnly = {} => (Spec => ImplementsFork)
<1> SUFFICES ASSUME EnoughPages, ReadOnly = {} PROVE Spec => ImplementsFork
  OBVIOUS
<1>1. Spec => []MemoryLeft
  BY AlwaysPagesLeft
<1>2. Spec /\ []MemoryLeft => ImplementsFork
  BY ForkIsAtomic
<1> QED BY <1>1, <1>2, PTL
=============================================================================
