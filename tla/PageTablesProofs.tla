-------------------------- MODULE PageTablesProofs --------------------------
(***************************************************************************)
(* For any number of pages, environments, CPUs and addresses: the types of *)
(* PageTables; exact reference counts and free list; page tables that no   *)
(* program reaches and TLBs that say what the tables say; and the address  *)
(* spaces of AddressSpaces as what programs see of all this.               *)
(*                                                                         *)
(* The invariant has two parts.  Good says what every function of pmap.c   *)
(* keeps: the directories and tables of all environments form a forest of  *)
(* pages that no user mapping leads to, entries that are not present are   *)
(* empty, a page's count is the number of its pointers, and the free list  *)
(* has the pages with none, less those a call has taken and not used yet.  *)
(* Private says what CPUs may know of the tables: the TLB of one in user   *)
(* mode repeats its tables, and nobody runs what env_free takes apart.     *)
EXTENDS PageTables, FiniteSetTheorems, TLAPS

\* Running environments, and one that is being freed, have a directory.
HasDirectory ==
  /\ \A c \in Cpu : curenv[c] # None => env_pgdir[curenv[c]] # None
  /\ freeing # None => env_pgdir[freeing[2]] # None

TypeInv == TypeOK /\ HasDirectory

-----------------------------------------------------------------------------
(* The functions of pmap.c return states of the pages                      *)

\* Entries are never out of range.
LEMMA IdxFacts == 0 \in Idx /\ Empty \in Entry
BY SizeAssumption, PagesAssumption DEF Idx, Empty, Entry

\* page_alloc
LEMMA AllocType ==
  ASSUME NEW m \in Pages, m.free # << >>
  PROVE  PageAlloc(m) \in Pages /\ Head(m.free) \in Page
<1>1. Head(m.free) \in Page /\ Tail(m.free) \in Seq(Page)
  BY DEF Pages
<1>2. Zeros \in [Idx -> Entry]
  BY IdxFacts DEF Zeros
<1> QED BY <1>1, <1>2 DEF Pages, PageAlloc

\* page_free
LEMMA FreeType ==
  ASSUME NEW m \in Pages, NEW p \in Page
  PROVE  PageFree(m, p) \in Pages
<1>1. <<p>> \o m.free \in Seq(Page)
  BY DEF Pages
<1> QED BY <1>1 DEF Pages, PageFree

\* page_decref and page_incref
LEMMA CountTypes ==
  ASSUME NEW m \in Pages, NEW p \in Page
  PROVE  PageDecref(m, p) \in Pages /\ PageIncref(m, p) \in Pages
<1>1. \A n \in Int : n % RefMod \in 0 .. RefMod - 1
  BY SizeAssumption
<1>2. m.ref[p] \in Int
  BY SizeAssumption DEF Pages
<1> DEFINE r == (m.ref[p] - 1) % RefMod
           d == [m EXCEPT !.ref[p] = r]
<1>3. r \in 0 .. RefMod - 1 /\ (m.ref[p] + 1) % RefMod \in 0 .. RefMod - 1
  BY <1>1, <1>2
<1>4. d \in Pages
  <2> HIDE DEF r
  <2> QED BY <1>3 DEF Pages
<1>5. PageFree(d, p) \in Pages
  <2> HIDE DEF d
  <2> QED BY <1>4, FreeType
<1>6. PageDecref(m, p) = IF r = 0 THEN PageFree(d, p) ELSE d
  BY DEF PageDecref
<1>7. PageIncref(m, p) \in Pages
  BY <1>3 DEF PageIncref, Pages
<1> QED
  <2> HIDE DEF r, d
  <2> QED BY <1>4, <1>5, <1>6, <1>7

\* One entry of a table
LEMMA TableTypes ==
  ASSUME NEW m \in Pages, NEW dir \in Page, NEW va \in Idx \X Idx, NEW entry \in Entry
  PROVE  /\ Table(m, dir, va) \in Page
         /\ HasTable(m, dir, va) \in BOOLEAN
         /\ Pte(m, dir, va) \in Entry
         /\ SetPte(m, dir, va, entry) \in Pages
<1>1. va[1] \in Idx /\ va[2] \in Idx
  OBVIOUS
<1>2. m.mem[dir][va[1]] \in Entry
  BY <1>1 DEF Pages
<1>3. Table(m, dir, va) \in Page /\ HasTable(m, dir, va) \in BOOLEAN
  BY <1>2 DEF Table, HasTable, Entry
<1>4. Pte(m, dir, va) \in Entry
  BY <1>1, <1>3 DEF Pte, Pages
<1>5. SetPte(m, dir, va, entry) \in Pages
  BY <1>1, <1>3 DEF SetPte, Pages
<1> QED BY <1>3, <1>4, <1>5

\* pgdir_walk with create
LEMMA WalkType ==
  ASSUME NEW m \in Pages, NEW dir \in Page, NEW va \in Idx \X Idx, CanWalk(m, dir, va)
  PROVE  Walk(m, dir, va) \in Pages
<1>1. CASE HasTable(m, dir, va)
  BY <1>1 DEF Walk
<1>2. CASE ~HasTable(m, dir, va)
  <2> DEFINE t == Head(m.free)
             a == PageAlloc(m)
             entry == [ppn |-> t, p |-> TRUE, w |-> TRUE]
  <2>1. a \in Pages /\ t \in Page
    BY <1>2, AllocType DEF CanWalk
  <2>2. va[1] \in Idx /\ entry \in Entry /\ 1 \in 0 .. RefMod - 1
    BY <2>1, SizeAssumption DEF Entry
  <2>3. Walk(m, dir, va) = [a EXCEPT !.mem[dir][va[1]] = entry, !.ref[t] = 1]
    BY <1>2 DEF Walk
  <2> HIDE DEF a, t, entry
  <2>4. [a.mem EXCEPT ![dir][va[1]] = entry] \in [Page -> [Idx -> Entry]]
    BY <2>1, <2>2 DEF Pages
  <2>5. [a.ref EXCEPT ![t] = 1] \in [Page -> 0 .. RefMod - 1]
    BY <2>1, <2>2 DEF Pages
  <2>6. [a EXCEPT !.mem = [a.mem EXCEPT ![dir][va[1]] = entry]] \in Pages
    BY <2>1, <2>4 DEF Pages
  <2>7. Walk(m, dir, va) = [[a EXCEPT !.mem = [a.mem EXCEPT ![dir][va[1]] = entry]]
                             EXCEPT !.ref = [a.ref EXCEPT ![t] = 1]]
    BY <2>1, <2>3 DEF Pages
  <2> QED BY <2>5, <2>6, <2>7 DEF Pages
<1> QED BY <1>1, <1>2

\* page_lookup
LEMMA LookupType ==
  ASSUME NEW m \in Pages, NEW dir \in Page, NEW va \in Idx \X Idx
  PROVE  /\ PageLookup(m, dir, va) \in Page \cup {None}
         /\ HasTable(m, dir, va) => PageLookup(m, dir, va) \in Page
BY TableTypes, IdxFacts DEF PageLookup, Entry

\* page_remove
LEMMA RemoveType ==
  ASSUME NEW m \in Pages, NEW dir \in Page, NEW va \in Idx \X Idx
  PROVE  PageRemove(m, dir, va) \in Pages
<1>1. CASE PageLookup(m, dir, va) = None
  BY <1>1 DEF PageRemove
<1>2. CASE PageLookup(m, dir, va) # None
  <2>1. PageLookup(m, dir, va) \in Page
    BY <1>2, LookupType
  <2>2. PageDecref(m, PageLookup(m, dir, va)) \in Pages
    BY <2>1, CountTypes
  <2> QED BY <1>2, <2>2, TableTypes, IdxFacts DEF PageRemove
<1> QED BY <1>1, <1>2

\* page_insert
LEMMA InsertType ==
  ASSUME NEW m \in Pages, NEW dir \in Page, NEW p \in Page, NEW va \in Idx \X Idx,
         NEW w \in BOOLEAN, CanWalk(m, dir, va)
  PROVE  PageInsert(m, dir, p, va, w) \in Pages
<1> DEFINE walked == Walk(m, dir, va)
           old == Pte(walked, dir, va)
           cleared == IF old.p THEN PageRemove(walked, dir, va) ELSE walked
           counted == IF old.ppn = p THEN walked ELSE PageIncref(cleared, p)
           entry == [ppn |-> p, p |-> TRUE, w |-> w]
<1>1. walked \in Pages
  BY WalkType
<1>2. cleared \in Pages
  <2> HIDE DEF walked, old
  <2> QED BY <1>1, RemoveType
<1>3. counted \in Pages
  <2> HIDE DEF walked, old, cleared
  <2> QED BY <1>1, <1>2, CountTypes
<1>4. entry \in Entry
  BY DEF Entry
<1>5. PageInsert(m, dir, p, va, w) = SetPte(counted, dir, va, entry)
  BY DEF PageInsert
<1> HIDE DEF counted, entry
<1> QED BY <1>3, <1>4, <1>5, TableTypes

-----------------------------------------------------------------------------
(* The steps                                                               *)

\* page_init
LEMMA InitTypes == Init => TypeInv
<1> SUFFICES ASSUME Init PROVE TypeInv
  OBVIOUS
<1>1. PICK free \in [1 .. Cardinality(Page) - 1 -> Page \ {Page0}] :
        pages = [ref |-> [p \in Page |-> 0], free |-> free,
                 mem |-> [p \in Page |-> Zeros], stored |-> {}]
  BY DEF Init
<1>2. Cardinality(Page) \in Nat \ {0}
  BY PagesAssumption, FS_CardinalityType, FS_EmptySet
<1>3. free \in Seq(Page)
  <2>1. Cardinality(Page) - 1 \in Nat
    BY <1>2
  <2> QED BY <2>1
<1>4. Zeros \in [Idx -> Entry] /\ 0 \in 0 .. RefMod - 1
  BY IdxFacts, SizeAssumption DEF Zeros
<1>5. pages \in Pages
  BY <1>1, <1>3, <1>4 DEF Pages
<1> QED BY <1>5 DEF Init, TypeInv, TypeOK, HasDirectory, Pages

\* What a call leaves of the type invariant to be shown.
LEMMA CallTypes ==
  ASSUME TypeInv, NEW c \in Cpu, pages' \in Pages, Flush(c),
         UNCHANGED <<env_pgdir, curenv, freeing>>
  PROVE  TypeInv'
BY DEF TypeInv, TypeOK, HasDirectory, Flush, Pages

\* Every step keeps the types.
LEMMA StepTypes == TypeInv /\ [Next]_vars => TypeInv'
<1> SUFFICES ASSUME TypeInv, [Next]_vars PROVE TypeInv'
  OBVIOUS
<1> USE VaAssumption, NoneAssumption
<1>1. /\ pages \in Pages
      /\ \A e \in Env : env_pgdir[e] # None => env_pgdir[e] \in Page
      /\ curenv \in [Cpu -> Env \cup {None}]
      /\ \A va \in Va : va \in Idx \X Idx
  BY DEF TypeInv, TypeOK
<1>2. ASSUME NEW c \in Cpu, NEW e \in Env, NEW va \in Va, NEW w \in BOOLEAN,
             SysPageAlloc(c, e, va, w)
      PROVE  TypeInv'
  <2> DEFINE m == PageAlloc(pages)
             p == Head(pages.free)
  <2>1. m \in Pages /\ p \in Page /\ env_pgdir[e] \in Page
    BY <1>1, <1>2, AllocType DEF SysPageAlloc, Editing
  <2>2. pages' = IF CanWalk(m, env_pgdir[e], va)
                 THEN PageInsert(m, env_pgdir[e], p, va, w) ELSE PageFree(m, p)
    BY <1>2 DEF SysPageAlloc
  <2>3. pages' \in Pages
    <3> HIDE DEF m, p
    <3> QED BY <1>1, <2>1, <2>2, InsertType, FreeType
  <2> QED BY <1>2, <2>3, CallTypes DEF SysPageAlloc
<1>3. ASSUME NEW c \in Cpu, NEW e \in Env, NEW va \in Va, NEW f \in Env, NEW vb \in Va,
             NEW w \in BOOLEAN, SysPageMap(c, e, va, f, vb, w)
      PROVE  TypeInv'
  <2>1. env_pgdir[e] \in Page /\ env_pgdir[f] \in Page
    BY <1>1, <1>3 DEF SysPageMap, Editing
  <2>2. PageLookup(pages, env_pgdir[e], va) \in Page
    BY <1>1, <1>3, <2>1, LookupType DEF SysPageMap
  <2>3. pages' \in Pages
    BY <1>1, <1>3, <2>1, <2>2, InsertType DEF SysPageMap
  <2> QED BY <1>3, <2>3, CallTypes DEF SysPageMap
<1>4. ASSUME NEW c \in Cpu, NEW e \in Env, NEW va \in Va, SysPageUnmap(c, e, va)
      PROVE  TypeInv'
  <2>1. pages' \in Pages
    BY <1>1, <1>4, RemoveType DEF SysPageUnmap, Editing
  <2> QED BY <1>4, <2>1, CallTypes DEF SysPageUnmap
<1>5. ASSUME NEW c \in Cpu, NEW e \in Env, EnvSetupVm(c, e)
      PROVE  TypeInv'
  <2>1. PageAlloc(pages) \in Pages /\ Head(pages.free) \in Page
    BY <1>1, <1>5, AllocType DEF EnvSetupVm
  <2>2. pages' \in Pages
    BY <1>5, <2>1, CountTypes DEF EnvSetupVm
  <2> QED BY <1>1, <1>5, <2>1, <2>2 DEF EnvSetupVm, TypeInv, TypeOK, HasDirectory, Flush, Pages
<1>6. ASSUME NEW c \in Cpu, NEW e \in Env, EnvFree(c, e) \/ EnvRun(c, e)
      PROVE  TypeInv'
  <2>1. CASE EnvFree(c, e)
    BY <2>1 DEF EnvFree, TypeInv, TypeOK, HasDirectory
  <2>2. CASE EnvRun(c, e)
    BY <2>2 DEF EnvRun, TypeInv, TypeOK, HasDirectory, Flush
  <2> QED BY <1>6, <2>1, <2>2
<1>7. ASSUME NEW c \in Cpu, NEW va \in Va, Fill(c, va)
      PROVE  TypeInv'
  <2> DEFINE entry == Pte(pages, env_pgdir[curenv[c]], va)
             cached == [va |-> va, ppn |-> entry.ppn, w |-> entry.w]
  <2>1. env_pgdir[curenv[c]] \in Page
    BY <1>1, <1>7 DEF Fill, InUser, TypeInv, HasDirectory
  <2>2. entry \in Entry
    BY <1>1, <2>1, TableTypes, IdxFacts
  <2>3. cached \in Translation
    BY <2>2 DEF Entry, Translation
  <2>4. tlb' = [tlb EXCEPT ![c] = {t \in @ : t.va # va} \cup {cached}]
    BY <1>7 DEF Fill
  <2> HIDE DEF cached
  <2>5. tlb' \in [Cpu -> SUBSET Translation]
    BY <2>3, <2>4 DEF TypeInv, TypeOK
  <2> QED BY <1>7, <2>5 DEF Fill, TypeInv, TypeOK, HasDirectory
<1>8. ASSUME NEW c \in Cpu, NEW t \in tlb[c], Store(c, t)
      PROVE  TypeInv'
  <2>1. t.ppn \in Page
    BY DEF TypeInv, TypeOK, Translation
  <2>2. pages' \in Pages
    BY <1>1, <1>8, <2>1 DEF Store, Pages
  <2> QED BY <1>8, <2>2 DEF Store, TypeInv, TypeOK, HasDirectory
<1>9. ASSUME freeing # None PROVE freeing[1] \in Cpu /\ freeing[2] \in Env /\ Dir \in Page
  BY <1>1, <1>9 DEF TypeInv, TypeOK, HasDirectory, Dir
<1>10. CASE FreePage \/ FreeTable
  <2>1. Dir \in Page
    BY <1>9, <1>10 DEF FreePage, FreeTable
  <2>2. pages' \in Pages
    <3>1. ASSUME NEW i \in Idx, NEW j \in Idx PROVE PageRemove(pages, Dir, <<i, j>>) \in Pages
      BY <1>1, <2>1, RemoveType
    <3>2. ASSUME NEW i \in Idx
          PROVE  PageDecref([pages EXCEPT !.mem[Dir][i] = Empty], pages.mem[Dir][i].ppn) \in Pages
      <4>1. [pages EXCEPT !.mem[Dir][i] = Empty] \in Pages
        BY <1>1, <2>1, IdxFacts DEF Pages
      <4>2. pages.mem[Dir][i].ppn \in Page
        BY <1>1, <2>1 DEF Pages, Entry
      <4> QED BY <4>1, <4>2, CountTypes
    <3> QED BY <1>10, <3>1, <3>2 DEF FreePage, FreeTable
  <2> QED BY <1>10, <2>2 DEF FreePage, FreeTable, TypeInv, TypeOK, HasDirectory, Pages
<1>11. CASE FreeDirectory
  <2>1. Dir \in Page /\ freeing[1] \in Cpu /\ freeing[2] \in Env
    BY <1>9, <1>11 DEF FreeDirectory
  <2>2. pages' \in Pages
    BY <1>1, <1>11, <2>1, CountTypes DEF FreeDirectory
  <2> QED BY <1>1, <1>11, <2>1, <2>2 DEF FreeDirectory, Flush, TypeInv, TypeOK, HasDirectory, Pages
<1>12. CASE UNCHANGED vars
  BY <1>12 DEF vars, TypeInv, TypeOK, HasDirectory
<1> QED BY <1>2, <1>3, <1>4, <1>5, <1>6, <1>7, <1>8, <1>10, <1>11, <1>12 DEF Next, Call

\* Pages, tables, translations and counts keep their types: in particular a
\* running environment has a directory, a page table entry names a page, and
\* pp_ref stays within its width (pmap.c:403-658, env.c:500-547).
THEOREM PageTypes == Spec => []TypeOK
<1>1. TypeInv => TypeOK
  BY DEF TypeInv
<1> QED BY <1>1, InitTypes, StepTypes, PTL DEF Spec

-----------------------------------------------------------------------------
(* Pointers to pages                                                          *)
(*                                                                            *)
(* The invariant is stated for a state m of the pages and directories D, so   *)
(* that it can be followed through the functions of pmap.c.                   *)

\* The directory of each environment, and the environments that have one.
Dirs == [Env -> Page \cup {None}]
LiveIn(D) == {e \in Env : D[e] # None}

\* The entry of the directory of e for index i, and the entry for i and j of its
\* table, empty if there is no table.
Node(m, D, e, i) == m.mem[D[e]][i]
Leaf(m, D, e, i, j) ==
  IF Node(m, D, e, i).p THEN m.mem[Node(m, D, e, i).ppn][j] ELSE Empty

\* An entry that is not present is empty, and no present entry names page 0.
Entries(m) == \A q \in Page, i \in Idx :
  IF m.mem[q][i].p THEN m.mem[q][i].ppn # Page0 ELSE m.mem[q][i] = Empty

\* The directories and the tables of all environments are different pages, and
\* no user mapping leads to one of them.
Tree(m, D) ==
  /\ \A e, f \in LiveIn(D) : D[e] = D[f] => e = f
  /\ \A e, f \in LiveIn(D), i \in Idx : Node(m, D, f, i).p => Node(m, D, f, i).ppn # D[e]
  /\ \A e, f \in LiveIn(D), i, k \in Idx :
       /\ Node(m, D, e, i).p /\ Node(m, D, f, k).p
       /\ Node(m, D, e, i).ppn = Node(m, D, f, k).ppn
       => e = f /\ i = k
  /\ \A e, f \in LiveIn(D), i, j \in Idx :
       Leaf(m, D, e, i, j).p =>
         /\ Leaf(m, D, e, i, j).ppn # D[f]
         /\ \A k \in Idx : Node(m, D, f, k).p => Leaf(m, D, e, i, j).ppn # Node(m, D, f, k).ppn

\* The pointers to p: from an environment, a directory, a table.
DRefs(D, p) == {e \in LiveIn(D) : D[e] = p}
TRefs(m, D, p) == {x \in LiveIn(D) \X Idx :
                     Node(m, D, x[1], x[2]).p /\ Node(m, D, x[1], x[2]).ppn = p}
PRefs(m, D, p) == {x \in LiveIn(D) \X Idx \X Idx :
                     LET entry == Leaf(m, D, x[1], x[2], x[3]) IN entry.p /\ entry.ppn = p}
Count(m, D, p) ==
  Cardinality(DRefs(D, p)) + Cardinality(TRefs(m, D, p)) + Cardinality(PRefs(m, D, p))

\* The pages the counts say are free.
Unused(m) == {p \in Page \ {Page0} : m.ref[p] = 0}

\* The state of the pages between two steps of a call that has taken the pages
\* X from the free list and not used them yet.
Good(m, D, X) ==
  /\ m \in Pages /\ D \in Dirs
  /\ \A e \in Env : D[e] # Page0
  /\ Entries(m) /\ Tree(m, D)
  /\ \A p \in Page : m.ref[p] = Count(m, D, p)
  /\ X \subseteq Unused(m)
  /\ Lists(m.free, Unused(m) \ X)

\* No program stored to a directory or a table since it was zeroed.
Clean(m, D) == \A e \in LiveIn(D) : /\ D[e] \notin m.stored
                                    /\ \A i \in Idx : Node(m, D, e, i).p =>
                                         Node(m, D, e, i).ppn \notin m.stored

\* Only addresses in Va are mapped.
InVa(m, D) == \A e \in LiveIn(D), i, j \in Idx : Leaf(m, D, e, i, j).p => <<i, j>> \in Va

\* No entry of a directory changes; no entry of a table does.
SameNodes(m, n, D) ==
  \A e \in LiveIn(D), i \in Idx : Node(n, D, e, i) = Node(m, D, e, i)
SameLeaves(m, n, D) ==
  \A e \in LiveIn(D), i, j \in Idx : Leaf(n, D, e, i, j) = Leaf(m, D, e, i, j)
\* Only the entry of e for the indices i, j changes, to entry.
SetsLeaf(m, n, D, e, i, j, entry) ==
  \A f \in LiveIn(D), k, l \in Idx :
    Leaf(n, D, f, k, l) = IF f = e /\ k = i /\ l = j THEN entry ELSE Leaf(m, D, f, k, l)
\* Only the entry of the directory of e for index i changes, to entry.
SetsNode(m, n, D, e, i, entry) ==
  \A f \in LiveIn(D), k \in Idx :
    Node(n, D, f, k) = IF f = e /\ k = i THEN entry ELSE Node(m, D, f, k)

\* A pointer to p, and how much a condition adds to a count.
To(entry, p) == entry.p /\ entry.ppn = p
One(b) == IF b THEN 1 ELSE 0

\* An element is taken out of a finite set, and perhaps put in again.
LEMMA Replaced ==
  ASSUME NEW S, NEW T, NEW x, NEW b \in BOOLEAN, IsFiniteSet(S),
         T = (S \ {x}) \cup (IF b THEN {x} ELSE {})
  PROVE  /\ IsFiniteSet(T)
         /\ Cardinality(T) = Cardinality(S) - One(x \in S) + One(b)
<1>1. /\ IsFiniteSet(S \ {x})
      /\ Cardinality(S \ {x}) = Cardinality(S) - One(x \in S)
      /\ Cardinality(S) \in Nat /\ Cardinality(S \ {x}) \in Nat
  BY FS_RemoveElement, FS_CardinalityType DEF One
<1>2. CASE b
  <2>1. T = (S \ {x}) \cup {x}
    BY <1>2
  <2> QED BY <1>1, <1>2, <2>1, FS_AddElement DEF One
<1>3. CASE ~b
  <2>1. T = S \ {x}
    BY <1>3
  <2> QED BY <1>1, <1>3, <2>1 DEF One
<1> QED BY <1>2, <1>3

\* A directory is a page, and directories and tables hold entries.
LEMMA ViewTypes ==
  ASSUME NEW m \in Pages, NEW D \in Dirs, NEW e \in LiveIn(D), NEW i \in Idx, NEW j \in Idx
  PROVE  /\ D[e] \in Page
         /\ Node(m, D, e, i) \in Entry
         /\ Leaf(m, D, e, i, j) \in Entry
<1>1. D[e] \in Page
  BY NoneAssumption DEF Dirs, LiveIn
<1>2. Node(m, D, e, i) \in Entry
  BY <1>1 DEF Node, Pages
<1>3. m.mem[Node(m, D, e, i).ppn][j] \in Entry
  BY <1>2 DEF Pages, Entry
<1> QED BY <1>1, <1>2, <1>3, IdxFacts DEF Leaf

\* The places a pointer can be.
LEMMA Triples ==
  ASSUME NEW S, IsFiniteSet(S)
  PROVE  /\ IsFiniteSet(S \X Idx) /\ Cardinality(S \X Idx) = Cardinality(S) * NIDX
         /\ IsFiniteSet(S \X Idx \X Idx)
         /\ Cardinality(S \X Idx \X Idx) <= (Cardinality(S) * NIDX) * NIDX
<1> DEFINE P == (S \X Idx) \X Idx
           T == S \X Idx \X Idx
<1>1. IsFiniteSet(Idx) /\ Cardinality(Idx) = NIDX
  <2>1. 0 \in Int /\ NIDX - 1 \in Int /\ 0 <= NIDX - 1
    BY SizeAssumption
  <2>2. IsFiniteSet(0 .. NIDX - 1) /\ Cardinality(0 .. NIDX - 1) = (NIDX - 1) - 0 + 1
    BY <2>1, FS_Interval
  <2> QED BY <2>2, SizeAssumption DEF Idx
<1>2. IsFiniteSet(S \X Idx) /\ Cardinality(S \X Idx) = Cardinality(S) * NIDX
  BY <1>1, FS_Product
<1>3. IsFiniteSet(P) /\ Cardinality(P) = (Cardinality(S) * NIDX) * NIDX
  BY <1>1, <1>2, FS_Product
<1>4. IsFiniteSet(T) /\ Cardinality(T) <= Cardinality(P)
  <2> DEFINE g == [y \in P |-> <<y[1][1], y[1][2], y[2]>>]
  <2>1. g \in Surjection(P, T)
    <3>1. g \in [P -> T]
      OBVIOUS
    <3>2. ASSUME NEW x \in T PROVE \E y \in P : g[y] = x
      <4> WITNESS <<<<x[1], x[2]>>, x[3]>> \in P
      <4> QED OBVIOUS
    <3> QED BY <3>1, <3>2 DEF Surjection
  <2> HIDE DEF g, P, T
  <2> QED BY <1>3, <2>1, FS_Surjection
<1> QED BY <1>2, <1>3, <1>4

\* Finitely many pointers lead to a page.
LEMMA RefsFinite ==
  ASSUME NEW m, NEW D, NEW p
  PROVE  /\ IsFiniteSet(DRefs(D, p)) /\ Cardinality(DRefs(D, p)) \in Nat
         /\ IsFiniteSet(TRefs(m, D, p)) /\ Cardinality(TRefs(m, D, p)) \in Nat
         /\ IsFiniteSet(PRefs(m, D, p)) /\ Cardinality(PRefs(m, D, p)) \in Nat
         /\ Count(m, D, p) \in Nat
<1>1. IsFiniteSet(LiveIn(D))
  <2>1. LiveIn(D) \in SUBSET Env
    BY DEF LiveIn
  <2> QED BY <2>1, EnvAssumption, FS_Subset
<1>2. IsFiniteSet(LiveIn(D) \X Idx) /\ IsFiniteSet(LiveIn(D) \X Idx \X Idx)
  BY <1>1, Triples
<1>3. /\ DRefs(D, p) \in SUBSET LiveIn(D)
      /\ TRefs(m, D, p) \in SUBSET (LiveIn(D) \X Idx)
      /\ PRefs(m, D, p) \in SUBSET (LiveIn(D) \X Idx \X Idx)
  BY DEF DRefs, TRefs, PRefs
<1>4. /\ IsFiniteSet(DRefs(D, p)) /\ IsFiniteSet(TRefs(m, D, p)) /\ IsFiniteSet(PRefs(m, D, p))
  BY <1>1, <1>2, <1>3, FS_Subset
<1> QED BY <1>4, FS_CardinalityType DEF Count

\* Pages have the same number of pointers while no entry changes,
LEMMA CountSame ==
  ASSUME NEW m, NEW n, NEW D, SameNodes(m, n, D), SameLeaves(m, n, D)
  PROVE  \A p : Count(n, D, p) = Count(m, D, p)
<1> TAKE p
<1>1. TRefs(n, D, p) = TRefs(m, D, p)
  BY DEF TRefs, SameNodes
<1>2. PRefs(n, D, p) = PRefs(m, D, p)
  BY DEF PRefs, SameLeaves
<1> QED BY <1>1, <1>2 DEF Count

\* one more or one less when an entry of a table changes,
LEMMA CountLeaf ==
  ASSUME NEW m \in Pages, NEW n \in Pages, NEW D \in Dirs, NEW e \in LiveIn(D), NEW i \in Idx,
         NEW j \in Idx, NEW entry \in Entry,
         SameNodes(m, n, D), SetsLeaf(m, n, D, e, i, j, entry)
  PROVE  \A p : Count(n, D, p) = Count(m, D, p) - One(To(Leaf(m, D, e, i, j), p)) + One(To(entry, p))
<1> TAKE p
<1>1. TRefs(n, D, p) = TRefs(m, D, p)
  BY DEF TRefs, SameNodes
<1> DEFINE S == PRefs(m, D, p)
           T == PRefs(n, D, p)
           x == <<e, i, j>>
<1>2. T = (S \ {x}) \cup (IF To(entry, p) THEN {x} ELSE {})
  BY DEF PRefs, SetsLeaf, To
<1>3. x \in S <=> To(Leaf(m, D, e, i, j), p)
  BY DEF PRefs, To
<1>4. To(entry, p) \in BOOLEAN
  BY DEF To, Entry
<1>5. Cardinality(T) = Cardinality(S) - One(x \in S) + One(To(entry, p))
  <2> HIDE DEF S, T, x
  <2>1. IsFiniteSet(S)
    BY RefsFinite DEF S
  <2> QED BY <1>2, <1>4, <2>1, Replaced
<1>6. One(x \in S) = One(To(Leaf(m, D, e, i, j), p))
  BY <1>3 DEF One
<1> HIDE DEF x
<1> QED BY <1>1, <1>5, <1>6, RefsFinite DEF Count, One

\* and when an entry of a directory does.
LEMMA CountNode ==
  ASSUME NEW m \in Pages, NEW n \in Pages, NEW D \in Dirs, NEW e \in LiveIn(D), NEW i \in Idx,
         NEW entry \in Entry,
         SameLeaves(m, n, D), SetsNode(m, n, D, e, i, entry)
  PROVE  \A p : Count(n, D, p) = Count(m, D, p) - One(To(Node(m, D, e, i), p)) + One(To(entry, p))
<1> TAKE p
<1>1. PRefs(n, D, p) = PRefs(m, D, p)
  BY DEF PRefs, SameLeaves
<1> DEFINE S == TRefs(m, D, p)
           T == TRefs(n, D, p)
           x == <<e, i>>
<1>2. T = (S \ {x}) \cup (IF To(entry, p) THEN {x} ELSE {})
  BY DEF TRefs, SetsNode, To
<1>3. x \in S <=> To(Node(m, D, e, i), p)
  BY DEF TRefs, To
<1>4. To(entry, p) \in BOOLEAN
  BY DEF To, Entry
<1>5. Cardinality(T) = Cardinality(S) - One(x \in S) + One(To(entry, p))
  <2> HIDE DEF S, T, x
  <2>1. IsFiniteSet(S)
    BY RefsFinite DEF S
  <2> QED BY <1>2, <1>4, <2>1, Replaced
<1>6. One(x \in S) = One(To(Node(m, D, e, i), p))
  BY <1>3 DEF One
<1> HIDE DEF x
<1> QED BY <1>1, <1>5, <1>6, RefsFinite DEF Count, One

\* A count is zero for the pages that nothing points to.
LEMMA CountZero ==
  ASSUME NEW m, NEW D, NEW p
  PROVE  Count(m, D, p) = 0 <=> /\ \A e \in LiveIn(D) : D[e] # p
                                /\ \A e \in LiveIn(D), i \in Idx : ~To(Node(m, D, e, i), p)
                                /\ \A e \in LiveIn(D), i, j \in Idx : ~To(Leaf(m, D, e, i, j), p)
<1>1. Count(m, D, p) = 0 <=> DRefs(D, p) = {} /\ TRefs(m, D, p) = {} /\ PRefs(m, D, p) = {}
  BY RefsFinite, FS_EmptySet DEF Count
<1>2. DRefs(D, p) = {} <=> \A e \in LiveIn(D) : D[e] # p
  BY DEF DRefs
<1>3. TRefs(m, D, p) = {} <=> \A e \in LiveIn(D), i \in Idx : ~To(Node(m, D, e, i), p)
  <2>1. ASSUME NEW e \in LiveIn(D), NEW i \in Idx, To(Node(m, D, e, i), p) PROVE <<e, i>> \in TRefs(m, D, p)
    BY <2>1 DEF TRefs, To
  <2>2. ASSUME NEW x \in TRefs(m, D, p) PROVE \E e \in LiveIn(D), i \in Idx : To(Node(m, D, e, i), p)
    BY DEF TRefs, To
  <2> QED BY <2>1, <2>2
<1>4. PRefs(m, D, p) = {} <=> \A e \in LiveIn(D), i, j \in Idx : ~To(Leaf(m, D, e, i, j), p)
  <2>1. ASSUME NEW e \in LiveIn(D), NEW i \in Idx, NEW j \in Idx, To(Leaf(m, D, e, i, j), p)
        PROVE  <<e, i, j>> \in PRefs(m, D, p)
    BY <2>1 DEF PRefs, To
  <2>2. ASSUME NEW x \in PRefs(m, D, p)
        PROVE  \E e \in LiveIn(D), i, j \in Idx : To(Leaf(m, D, e, i, j), p)
    BY DEF PRefs, To
  <2> QED BY <2>1, <2>2
<1> QED BY <1>1, <1>2, <1>3, <1>4

-----------------------------------------------------------------------------
(* What a write to a page of the tables changes                            *)

\* The rest of a list of a set lists the rest of the set.
LEMMA ListsTail ==
  ASSUME NEW S, NEW s \in Seq(S), NEW T, Lists(s, T), s # << >>
  PROVE  /\ Head(s) \in T
         /\ Lists(Tail(s), T \ {Head(s)})
<1>1. /\ Len(s) \in Nat \ {0} /\ DOMAIN s = 1 .. Len(s)
      /\ Head(s) = s[1]
      /\ DOMAIN Tail(s) = 1 .. Len(s) - 1
      /\ \A i \in 1 .. Len(s) - 1 : Tail(s)[i] = s[i + 1]
  OBVIOUS
<1> DEFINE t == Tail(s)
<1> HIDE DEF t
<1>2. Head(s) \in T
  BY <1>1 DEF Lists
<1>3. {t[i] : i \in DOMAIN t} = T \ {Head(s)}
  <2>1. ASSUME NEW i \in DOMAIN t PROVE t[i] \in T \ {Head(s)}
    BY <1>1, <2>1 DEF t, Lists
  <2>2. ASSUME NEW x \in T \ {Head(s)} PROVE \E i \in DOMAIN t : t[i] = x
    <3>1. PICK k \in 1 .. Len(s) : s[k] = x
      BY <1>1 DEF Lists
    <3>2. k # 1 /\ k - 1 \in 1 .. Len(s) - 1 /\ t[k - 1] = x
      BY <1>1, <3>1 DEF t
    <3> QED BY <1>1, <3>2 DEF t
  <2> QED BY <2>1, <2>2
<1>4. \A i, j \in DOMAIN t : t[i] = t[j] => i = j
  BY <1>1 DEF t, Lists
<1> QED BY <1>2, <1>3, <1>4 DEF Lists, t

\* A new element goes in front of a list.
LEMMA ListsCons ==
  ASSUME NEW S, NEW s \in Seq(S), NEW T, Lists(s, T), NEW x \in S, x \notin T
  PROVE  Lists(<<x>> \o s, T \cup {x})
<1> DEFINE t == <<x>> \o s
<1>1. /\ Len(s) \in Nat /\ DOMAIN s = 1 .. Len(s)
      /\ DOMAIN t = 1 .. Len(s) + 1
      /\ t[1] = x
      /\ \A i \in 2 .. Len(s) + 1 : t[i] = s[i - 1]
  OBVIOUS
<1> HIDE DEF t
<1>2. {t[i] : i \in DOMAIN t} = T \cup {x}
  <2>1. ASSUME NEW i \in DOMAIN t PROVE t[i] \in T \cup {x}
    <3>1. CASE i = 1
      BY <1>1, <3>1
    <3>2. CASE i # 1
      <4>1. i - 1 \in 1 .. Len(s) /\ t[i] = s[i - 1]
        BY <1>1, <3>2
      <4> QED BY <1>1, <4>1 DEF Lists
    <3> QED BY <3>1, <3>2
  <2>2. ASSUME NEW y \in T PROVE \E i \in DOMAIN t : t[i] = y
    <3>1. PICK k \in 1 .. Len(s) : s[k] = y
      BY <1>1 DEF Lists
    <3>2. k + 1 \in DOMAIN t /\ t[k + 1] = y
      BY <1>1, <3>1
    <3> QED BY <3>2
  <2>3. 1 \in DOMAIN t
    BY <1>1
  <2> QED BY <1>1, <2>1, <2>2, <2>3
<1>3. \A i, j \in DOMAIN t : t[i] = t[j] => i = j
  <2> TAKE i, j \in DOMAIN t
  <2>1. ASSUME NEW k \in 2 .. Len(s) + 1 PROVE t[k] \in T
    <3>1. k - 1 \in 1 .. Len(s) /\ t[k] = s[k - 1]
      BY <1>1
    <3> QED BY <1>1, <3>1 DEF Lists
  <2>2. CASE i = 1 \/ j = 1
    BY <1>1, <2>1, <2>2
  <2>3. CASE i # 1 /\ j # 1
    <3>1. /\ i - 1 \in 1 .. Len(s) /\ t[i] = s[i - 1]
          /\ j - 1 \in 1 .. Len(s) /\ t[j] = s[j - 1]
      BY <1>1, <2>3
    <3> QED BY <1>1, <3>1 DEF Lists
  <2> QED BY <2>2, <2>3
<1> QED BY <1>2, <1>3 DEF Lists, t

\* Directories and tables stay apart while no entry changes,
LEMMA TreeSame ==
  ASSUME NEW m, NEW n, NEW D, Tree(m, D), SameNodes(m, n, D), SameLeaves(m, n, D)
  PROVE  Tree(n, D)
BY DEF Tree, SameNodes, SameLeaves

\* when an entry of a table is set to a page of user data,
LEMMA TreeLeaf ==
  ASSUME NEW m, NEW n, NEW D, NEW e \in LiveIn(D), NEW i \in Idx, NEW j \in Idx, NEW entry,
         Tree(m, D), SameNodes(m, n, D), SetsLeaf(m, n, D, e, i, j, entry),
         entry.p => /\ \A f \in LiveIn(D) : D[f] # entry.ppn
                    /\ \A f \in LiveIn(D), k \in Idx : ~To(Node(m, D, f, k), entry.ppn)
  PROVE  Tree(n, D)
BY DEF Tree, SameNodes, SetsLeaf, To

\* and when one of a directory is set to a page of its own.
LEMMA TreeNode ==
  ASSUME NEW m, NEW n, NEW D, NEW e \in LiveIn(D), NEW i \in Idx, NEW entry,
         Tree(m, D), SameLeaves(m, n, D), SetsNode(m, n, D, e, i, entry),
         entry.p => /\ \A f \in LiveIn(D) : D[f] # entry.ppn
                    /\ \A f \in LiveIn(D), k \in Idx : ~To(Node(m, D, f, k), entry.ppn)
                    /\ \A f \in LiveIn(D), k, l \in Idx : ~To(Leaf(m, D, f, k, l), entry.ppn)
  PROVE  Tree(n, D)
<1>1. \A f, g \in LiveIn(D), k \in Idx : Node(n, D, g, k).p => Node(n, D, g, k).ppn # D[f]
  BY DEF Tree, SetsNode, To
<1>2. \A f, g \in LiveIn(D), k, l \in Idx :
       /\ Node(n, D, f, k).p /\ Node(n, D, g, l).p
       /\ Node(n, D, f, k).ppn = Node(n, D, g, l).ppn
       => f = g /\ k = l
  BY DEF Tree, SetsNode, To
<1>3. \A f, g \in LiveIn(D), k, l \in Idx :
       Leaf(n, D, f, k, l).p =>
         /\ Leaf(n, D, f, k, l).ppn # D[g]
         /\ \A h \in Idx : Node(n, D, g, h).p => Leaf(n, D, f, k, l).ppn # Node(n, D, g, h).ppn
  BY DEF Tree, SameLeaves, SetsNode, To
<1> QED BY <1>1, <1>2, <1>3 DEF Tree

\* The contents of a page that is neither a directory nor a table do not matter.
LEMMA WriteUnused ==
  ASSUME NEW m \in Pages, NEW n \in Pages, NEW D \in Dirs, NEW q \in Page, NEW contents,
         n.mem = [m.mem EXCEPT ![q] = contents],
         \A e \in LiveIn(D) : D[e] # q,
         \A e \in LiveIn(D), i \in Idx : ~To(Node(m, D, e, i), q)
  PROVE  SameNodes(m, n, D) /\ SameLeaves(m, n, D)
<1>1. SameNodes(m, n, D)
  BY ViewTypes DEF SameNodes, Node, Pages
<1>2. SameLeaves(m, n, D)
  <2> SUFFICES ASSUME NEW e \in LiveIn(D), NEW i \in Idx, NEW j \in Idx
               PROVE  Leaf(n, D, e, i, j) = Leaf(m, D, e, i, j)
    BY DEF SameLeaves
  <2>1. Node(n, D, e, i) = Node(m, D, e, i) /\ Node(m, D, e, i) \in Entry
    BY <1>1, ViewTypes DEF SameNodes
  <2>2. Node(m, D, e, i).p => Node(m, D, e, i).ppn # q /\ Node(m, D, e, i).ppn \in Page
    BY <2>1 DEF To, Entry
  <2> QED BY <2>1, <2>2 DEF Leaf, Pages
<1> QED BY <1>1, <1>2

\* A write to a table changes one entry of one environment,
LEMMA WriteTable ==
  ASSUME NEW m \in Pages, NEW n \in Pages, NEW D \in Dirs, Tree(m, D),
         NEW e \in LiveIn(D), NEW i \in Idx, NEW j \in Idx, NEW entry,
         Node(m, D, e, i).p,
         n.mem = [m.mem EXCEPT ![Node(m, D, e, i).ppn][j] = entry]
  PROVE  SameNodes(m, n, D) /\ SetsLeaf(m, n, D, e, i, j, entry)
<1> DEFINE t == Node(m, D, e, i).ppn
<1>1. t \in Page
  BY ViewTypes DEF Entry
<1>2. \A f \in LiveIn(D) : D[f] \in Page /\ D[f] # t
  BY ViewTypes DEF Tree
<1>3. SameNodes(m, n, D)
  BY <1>2 DEF SameNodes, Node, Pages
<1>4. ASSUME NEW f \in LiveIn(D), NEW k \in Idx, NEW l \in Idx
      PROVE  Leaf(n, D, f, k, l) = IF f = e /\ k = i /\ l = j THEN entry ELSE Leaf(m, D, f, k, l)
  <2>1. Node(n, D, f, k) = Node(m, D, f, k) /\ Node(m, D, f, k) \in Entry
    BY <1>3, ViewTypes DEF SameNodes
  <2>2. Node(m, D, f, k).p /\ Node(m, D, f, k).ppn = t => f = e /\ k = i
    BY DEF Tree
  <2>3. Node(m, D, f, k).p => Node(m, D, f, k).ppn \in Page
    BY <2>1 DEF Entry
  <2>4. CASE f = e /\ k = i
    <3>1. Leaf(n, D, f, k, l) = n.mem[t][l] /\ Leaf(m, D, f, k, l) = m.mem[t][l]
      BY <2>1, <2>4 DEF Leaf
    <3>2. n.mem[t][l] = IF l = j THEN entry ELSE m.mem[t][l]
      BY <1>1 DEF Pages
    <3> QED BY <2>4, <3>1, <3>2
  <2>5. CASE ~(f = e /\ k = i)
    BY <2>1, <2>2, <2>3, <2>5 DEF Leaf, Pages
  <2> QED BY <2>4, <2>5
<1> QED BY <1>3, <1>4 DEF SetsLeaf

\* and so does a write to a directory whose new table is empty.
LEMMA WriteDirectory ==
  ASSUME NEW m \in Pages, NEW n \in Pages, NEW D \in Dirs, Tree(m, D),
         NEW e \in LiveIn(D), NEW i \in Idx, NEW entry \in Entry,
         n.mem = [m.mem EXCEPT ![D[e]][i] = entry],
         \A j \in Idx : (IF Node(m, D, e, i).p THEN m.mem[Node(m, D, e, i).ppn][j] ELSE Empty)
                        = (IF entry.p THEN m.mem[entry.ppn][j] ELSE Empty),
         entry.p => entry.ppn # D[e]
  PROVE  SetsNode(m, n, D, e, i, entry) /\ SameLeaves(m, n, D)
<1>1. \A f \in LiveIn(D) : D[f] \in Page /\ (D[f] = D[e] => f = e)
  BY ViewTypes DEF Tree
<1>2. SetsNode(m, n, D, e, i, entry)
  BY <1>1 DEF SetsNode, Node, Pages
<1>3. ASSUME NEW f \in LiveIn(D), NEW k \in Idx, NEW l \in Idx
      PROVE  Leaf(n, D, f, k, l) = Leaf(m, D, f, k, l)
  <2>1. \A q \in Page : q # D[e] => n.mem[q] = m.mem[q]
    BY DEF Pages
  <2>2. CASE f = e /\ k = i
    <3>1. Node(n, D, f, k) = entry
      BY <1>2, <2>2 DEF SetsNode
    <3>2. Leaf(n, D, f, k, l) = IF entry.p THEN n.mem[entry.ppn][l] ELSE Empty
      BY <3>1 DEF Leaf
    <3>3. entry.p => n.mem[entry.ppn] = m.mem[entry.ppn]
      BY <2>1 DEF Entry
    <3> QED BY <2>2, <3>2, <3>3 DEF Leaf
  <2>3. CASE ~(f = e /\ k = i)
    <3>1. Node(n, D, f, k) = Node(m, D, f, k) /\ Node(m, D, f, k) \in Entry
      BY <1>2, <2>3, ViewTypes DEF SetsNode
    <3>2. Node(m, D, f, k).p => /\ Node(m, D, f, k).ppn # D[e]
                                /\ Node(m, D, f, k).ppn \in Page
      BY <3>1 DEF Tree, Entry
    <3> QED BY <2>1, <3>1, <3>2 DEF Leaf
  <2> QED BY <2>2, <2>3
<1> QED BY <1>2, <1>3 DEF SameLeaves

-----------------------------------------------------------------------------
(* The functions of pmap.c                                                 *)

\* Pages lose their mark when they are zeroed, and only ones that nobody maps are.
Forgets(m, n, D) ==
  /\ n.stored \subseteq m.stored
  /\ \A p \in m.stored \ n.stored, e \in LiveIn(D), i, j \in Idx : ~To(Leaf(m, D, e, i, j), p)

\* Counts below RefMod do not wrap.
LEMMA ModSmall == \A k \in 0 .. RefMod - 1 : k % RefMod = k
BY SizeAssumption

\* page_decref: the count, and the free list if that was the last pointer.
LEMMA DecrefFacts ==
  ASSUME NEW m \in Pages, NEW q \in Page, m.ref[q] > 0
  PROVE  /\ PageDecref(m, q) \in Pages
         /\ PageDecref(m, q).mem = m.mem /\ PageDecref(m, q).stored = m.stored
         /\ PageDecref(m, q).ref = [m.ref EXCEPT ![q] = m.ref[q] - 1]
         /\ PageDecref(m, q).free = IF m.ref[q] = 1 THEN <<q>> \o m.free ELSE m.free
<1>1. m.ref[q] \in 0 .. RefMod - 1
  BY DEF Pages
<1>2. (m.ref[q] - 1) % RefMod = m.ref[q] - 1
  BY <1>1, ModSmall, SizeAssumption
<1> DEFINE r == m.ref[q] - 1
           d == [m EXCEPT !.ref[q] = r]
<1>3. PageDecref(m, q) = IF r = 0 THEN PageFree(d, q) ELSE d
  BY <1>2 DEF PageDecref
<1>4. d.mem = m.mem /\ d.stored = m.stored /\ d.free = m.free /\ d.ref = [m.ref EXCEPT ![q] = r]
  BY DEF Pages
<1>5. d \in Pages
  <2>1. r \in 0 .. RefMod - 1
    BY <1>1, SizeAssumption
  <2> HIDE DEF r
  <2> QED BY <2>1 DEF Pages
<1>6. r = 0 <=> m.ref[q] = 1
  BY <1>1, SizeAssumption
<1> HIDE DEF d, r
<1>7. PageFree(d, q).mem = d.mem /\ PageFree(d, q).stored = d.stored
      /\ PageFree(d, q).ref = d.ref /\ PageFree(d, q).free = <<q>> \o d.free
  BY <1>5 DEF PageFree, Pages
<1> QED BY <1>3, <1>4, <1>6, <1>7, CountTypes DEF r

\* The free list gets a page exactly when the count reaches zero.
LEMMA DecrefLists ==
  ASSUME NEW m \in Pages, NEW q \in Page \ {Page0}, m.ref[q] > 0, NEW X, X \subseteq Unused(m),
         Lists(m.free, Unused(m) \ X)
  PROVE  /\ Lists(PageDecref(m, q).free, Unused(PageDecref(m, q)) \ X)
         /\ X \subseteq Unused(PageDecref(m, q))
<1> DEFINE d == PageDecref(m, q)
<1>1. /\ d.ref = [m.ref EXCEPT ![q] = m.ref[q] - 1]
      /\ d.free = IF m.ref[q] = 1 THEN <<q>> \o m.free ELSE m.free
      /\ m.ref \in [Page -> 0 .. RefMod - 1] /\ m.free \in Seq(Page)
  BY DecrefFacts DEF Pages
<1> HIDE DEF d
<1>2. q \notin X /\ q \notin Unused(m)
  BY DEF Unused
<1>3. m.ref[q] \in Int
  BY <1>1, SizeAssumption
<1>4. Unused(d) = IF m.ref[q] = 1 THEN Unused(m) \cup {q} ELSE Unused(m)
  <2>1. \A p \in Page : d.ref[p] = IF p = q THEN m.ref[q] - 1 ELSE m.ref[p]
    BY <1>1
  <2> QED BY <1>3, <2>1 DEF Unused
<1>5. CASE m.ref[q] = 1
  <2>1. Unused(d) \ X = (Unused(m) \ X) \cup {q}
    BY <1>2, <1>4, <1>5
  <2>2. Lists(<<q>> \o m.free, (Unused(m) \ X) \cup {q})
    BY <1>1, <1>2, ListsCons
  <2> QED BY <1>1, <1>4, <1>5, <2>1, <2>2 DEF d
<1>6. CASE m.ref[q] # 1
  BY <1>1, <1>4, <1>6 DEF d
<1> QED BY <1>5, <1>6

\* What the invariant says of a page that is in use, or is not.
LEMMA GoodFacts ==
  ASSUME NEW m, NEW D, NEW X, Good(m, D, X)
  PROVE  /\ m \in Pages /\ D \in Dirs /\ Tree(m, D) /\ Entries(m)
         /\ m.ref \in [Page -> 0 .. RefMod - 1] /\ m.free \in Seq(Page)
         /\ m.mem \in [Page -> [Idx -> Entry]]
         /\ \A p \in Page :
              m.ref[p] = 0 <=> /\ \A e \in LiveIn(D) : D[e] # p
                               /\ \A e \in LiveIn(D), i \in Idx : ~To(Node(m, D, e, i), p)
                               /\ \A e \in LiveIn(D), i, j \in Idx : ~To(Leaf(m, D, e, i, j), p)
         /\ \A p \in Page : m.ref[p] \in Nat
<1>1. m \in Pages
  BY DEF Good
<1>2. \A p \in Page : m.ref[p] = Count(m, D, p)
  BY DEF Good
<1>3. \A p : Count(m, D, p) = 0 <=> /\ \A e \in LiveIn(D) : D[e] # p
                                    /\ \A e \in LiveIn(D), i \in Idx : ~To(Node(m, D, e, i), p)
                                    /\ \A e \in LiveIn(D), i, j \in Idx : ~To(Leaf(m, D, e, i, j), p)
  BY CountZero
<1>4. \A p : Count(m, D, p) \in Nat
  BY RefsFinite
<1>5. m.ref \in [Page -> 0 .. RefMod - 1] /\ m.free \in Seq(Page) /\ m.mem \in [Page -> [Idx -> Entry]]
  BY <1>1 DEF Pages
<1>6. D \in Dirs /\ Tree(m, D) /\ Entries(m)
  BY DEF Good
<1> QED
  <2> HIDE DEF Count
  <2> QED BY <1>1, <1>2, <1>3, <1>4, <1>5, <1>6

\* page_alloc takes a page that nothing points to.
LEMMA GoodAlloc ==
  ASSUME NEW m, NEW D, NEW X, Good(m, D, X), m.free # << >>
  PROVE  LET h == Head(m.free)
             n == PageAlloc(m)
         IN /\ Good(n, D, X \cup {h})
            /\ SameNodes(m, n, D) /\ SameLeaves(m, n, D)
            /\ Forgets(m, n, D) /\ h \notin n.stored /\ n.mem[h] = Zeros
            /\ h \in Unused(m) \ X
            /\ n.ref = m.ref /\ n.free = Tail(m.free)
<1> DEFINE h == Head(m.free)
           n == PageAlloc(m)
<1>1. h \in Unused(m) \ X /\ Lists(Tail(m.free), (Unused(m) \ X) \ {h})
  BY GoodFacts, ListsTail DEF Good
<1>2. n \in Pages /\ h \in Page
  BY GoodFacts, AllocType
<1>3. /\ n.ref = m.ref /\ n.free = Tail(m.free)
      /\ n.mem = [m.mem EXCEPT ![h] = Zeros]
      /\ n.stored = m.stored \ {h}
  BY GoodFacts DEF PageAlloc, Pages
<1> HIDE DEF n, h
<1>4. /\ \A e \in LiveIn(D) : D[e] # h
      /\ \A e \in LiveIn(D), i \in Idx : ~To(Node(m, D, e, i), h)
      /\ \A e \in LiveIn(D), i, j \in Idx : ~To(Leaf(m, D, e, i, j), h)
  <2>1. m.ref[h] = 0
    BY <1>1 DEF Unused
  <2> QED BY <1>2, <2>1, GoodFacts
<1>5. SameNodes(m, n, D) /\ SameLeaves(m, n, D)
  BY <1>2, <1>3, <1>4, GoodFacts, WriteUnused
<1>6. \A p : Count(n, D, p) = Count(m, D, p)
  BY <1>5, CountSame
<1>7. Tree(n, D)
  BY <1>5, GoodFacts, TreeSame
<1>8. Entries(n)
  <2>1. \A q \in Page, i \in Idx : n.mem[q][i] = IF q = h THEN Empty ELSE m.mem[q][i]
    BY <1>2, <1>3, GoodFacts DEF Zeros
  <2>2. ~Empty.p
    BY DEF Empty
  <2> QED BY <2>1, <2>2, GoodFacts DEF Entries
<1>9. Unused(n) = Unused(m)
  BY <1>3 DEF Unused
<1>10. (Unused(m) \ X) \ {h} = Unused(m) \ (X \cup {h})
  OBVIOUS
<1>11. Good(n, D, X \cup {h})
  BY <1>1, <1>2, <1>3, <1>6, <1>7, <1>8, <1>9, <1>10 DEF Good
<1>12. Forgets(m, n, D)
  BY <1>3, <1>4 DEF Forgets
<1>13. n.mem[h] = Zeros
  BY <1>2, <1>3, GoodFacts
<1> QED BY <1>1, <1>3, <1>5, <1>11, <1>12, <1>13 DEF n, h

\* page_free gives it back unused.
LEMMA GoodFree ==
  ASSUME NEW m, NEW D, NEW X, NEW p \in X, Good(m, D, X)
  PROVE  LET n == PageFree(m, p)
         IN /\ Good(n, D, X \ {p})
            /\ SameNodes(m, n, D) /\ SameLeaves(m, n, D) /\ n.stored = m.stored
<1> DEFINE n == PageFree(m, p)
<1>1. p \in Page /\ p \in Unused(m) /\ Lists(m.free, Unused(m) \ X)
  BY DEF Good, Unused
<1>2. n \in Pages
  BY <1>1, GoodFacts, FreeType
<1>3. n.ref = m.ref /\ n.mem = m.mem /\ n.stored = m.stored /\ n.free = <<p>> \o m.free
  BY GoodFacts DEF PageFree, Pages
<1> HIDE DEF n
<1>4. Lists(n.free, (Unused(m) \ X) \cup {p})
  BY <1>1, <1>3, GoodFacts, ListsCons
<1>5. (Unused(m) \ X) \cup {p} = Unused(n) \ (X \ {p}) /\ Unused(n) = Unused(m)
  BY <1>1, <1>3 DEF Unused
<1>6. SameNodes(m, n, D) /\ SameLeaves(m, n, D)
  BY <1>3 DEF SameNodes, SameLeaves, Node, Leaf
<1>7. \A q : Count(n, D, q) = Count(m, D, q)
  BY <1>6, CountSame
<1>8. Tree(n, D) /\ Entries(n)
  BY <1>3, <1>6, GoodFacts, TreeSame DEF Entries
<1> QED BY <1>2, <1>3, <1>4, <1>5, <1>6, <1>7, <1>8 DEF Good, n

\* Directories and tables stay zeroed pages while no directory changes.
LEMMA CleanKept ==
  ASSUME NEW m, NEW n, NEW D, Clean(m, D), SameNodes(m, n, D), n.stored \subseteq m.stored
  PROVE  Clean(n, D)
BY DEF Clean, SameNodes

\* pgdir_walk links a new, empty table if there is none: programs see no change.
LEMMA GoodWalk ==
  ASSUME NEW m, NEW D, NEW X, Good(m, D, X), NEW e \in LiveIn(D), NEW va \in Idx \X Idx,
         CanWalk(m, D[e], va)
  PROVE  LET n == Walk(m, D[e], va)
         IN /\ Good(n, D, X)
            /\ HasTable(n, D[e], va)
            /\ SameLeaves(m, n, D) /\ Forgets(m, n, D)
            /\ Clean(m, D) => Clean(n, D)
<1> DEFINE n == Walk(m, D[e], va)
           i == va[1]
<1>1. CASE HasTable(m, D[e], va)
  <2>1. n = m
    BY <1>1 DEF Walk
  <2> QED BY <1>1, <2>1 DEF SameLeaves, Forgets
<1>2. CASE ~HasTable(m, D[e], va)
  <2> DEFINE t == Head(m.free)
             a == PageAlloc(m)
             entry == [ppn |-> t, p |-> TRUE, w |-> TRUE]
  <2>1. /\ m.free # << >> /\ i \in Idx /\ D[e] \in Page
        /\ ~Node(m, D, e, i).p
    BY <1>2, GoodFacts, ViewTypes DEF CanWalk, HasTable, Node
  <2>2. n = [a EXCEPT !.mem[D[e]][i] = entry, !.ref[t] = 1]
    BY <1>2 DEF Walk
  <2>3. /\ Good(a, D, X \cup {t})
        /\ SameNodes(m, a, D) /\ SameLeaves(m, a, D)
        /\ Forgets(m, a, D) /\ t \notin a.stored /\ a.mem[t] = Zeros
        /\ t \in Unused(m) \ X /\ a.ref = m.ref
    BY <2>1, GoodAlloc
  <2>4. n \in Pages
    BY <2>1, GoodFacts, WalkType
  <2> HIDE DEF n, a, t
  <2>5. a \in Pages
    BY <2>3, GoodFacts
  <2>7. t \in Page /\ t # Page0 /\ a.ref[t] = 0 /\ entry \in Entry /\ entry.p /\ entry.ppn = t
    BY <2>3 DEF Unused, Entry
  <2> HIDE DEF entry, i
  <2>6. /\ n.mem = [a.mem EXCEPT ![D[e]][i] = entry] /\ n.ref = [a.ref EXCEPT ![t] = 1]
        /\ n.free = a.free /\ n.stored = a.stored
    <3>1. n = [[a EXCEPT !.mem = [a.mem EXCEPT ![D[e]][i] = entry]]
                EXCEPT !.ref = [a.ref EXCEPT ![t] = 1]]
      BY <2>2, <2>5 DEF Pages
    <3> QED BY <2>5, <3>1 DEF Pages
  <2>8. /\ \A f \in LiveIn(D) : D[f] # t
        /\ \A f \in LiveIn(D), k \in Idx : ~To(Node(a, D, f, k), t)
        /\ \A f \in LiveIn(D), k, l \in Idx : ~To(Leaf(a, D, f, k, l), t)
    BY <2>3, <2>7, GoodFacts
  <2>9. ~Node(a, D, e, i).p
    BY <2>1, <2>3 DEF SameNodes
  <2>10. SetsNode(a, n, D, e, i, entry) /\ SameLeaves(a, n, D)
    <3>1. \A j \in Idx : a.mem[t][j] = Empty
      BY <2>3 DEF Zeros
    <3>2. \A j \in Idx : (IF Node(a, D, e, i).p THEN a.mem[Node(a, D, e, i).ppn][j] ELSE Empty)
                         = (IF entry.p THEN a.mem[entry.ppn][j] ELSE Empty)
      BY <2>7, <2>9, <3>1
    <3>3. entry.ppn # D[e] /\ D \in Dirs /\ Tree(a, D)
      BY <2>3, <2>7, <2>8, GoodFacts
    <3> QED BY <2>1, <2>4, <2>5, <2>6, <2>7, <3>2, <3>3, WriteDirectory
  <2>11. Tree(n, D)
    BY <2>1, <2>3, <2>7, <2>8, <2>10, GoodFacts, TreeNode
  <2>12. \A p \in Page : n.ref[p] = Count(n, D, p)
    <3> TAKE p \in Page
    <3>1. Count(n, D, p) = Count(a, D, p) - One(To(Node(a, D, e, i), p)) + One(To(entry, p))
      BY <2>1, <2>3, <2>4, <2>5, <2>7, <2>10, GoodFacts, CountNode
    <3>2. One(To(Node(a, D, e, i), p)) = 0
      BY <2>9 DEF To, One
    <3>3. One(To(entry, p)) = IF p = t THEN 1 ELSE 0
      BY <2>7 DEF To, One
    <3>4. a.ref[p] = Count(a, D, p) /\ Count(a, D, p) \in Nat
      BY <2>3, RefsFinite DEF Good
    <3>5. n.ref[p] = IF p = t THEN 1 ELSE a.ref[p]
      BY <2>5, <2>6 DEF Pages
    <3> QED BY <2>7, <3>1, <3>2, <3>3, <3>4, <3>5
  <2>13. Entries(n)
    <3>1. \A q \in Page, k \in Idx : n.mem[q][k] = IF q = D[e] /\ k = i THEN entry ELSE a.mem[q][k]
      BY <2>1, <2>5, <2>6 DEF Pages
    <3> QED BY <2>3, <2>7, <3>1, GoodFacts DEF Entries
  <2>14. Unused(n) = Unused(a) \ {t}
    <3>1. \A p \in Page : n.ref[p] = IF p = t THEN 1 ELSE a.ref[p]
      BY <2>5, <2>6 DEF Pages
    <3> QED BY <3>1 DEF Unused
  <2>15. Good(n, D, X)
    <3>1. X \subseteq Unused(n) /\ Unused(n) \ X = Unused(a) \ (X \cup {t})
      BY <2>3, <2>14 DEF Good
    <3> QED BY <2>3, <2>4, <2>6, <2>11, <2>12, <2>13, <3>1 DEF Good
  <2>16. HasTable(n, D[e], va)
    BY <2>1, <2>7, <2>10 DEF HasTable, SetsNode, Node, i
  <2>17. SameLeaves(m, n, D) /\ Forgets(m, n, D)
    BY <2>3, <2>6, <2>10 DEF SameLeaves, Forgets
  <2>18. ASSUME Clean(m, D) PROVE Clean(n, D)
    <3>1. Clean(a, D)
      BY <2>3, <2>18, CleanKept DEF Forgets
    <3> QED BY <2>3, <2>6, <2>7, <2>10, <3>1 DEF Clean, SetsNode
  <2> QED BY <2>15, <2>16, <2>17, <2>18 DEF n
<1> QED BY <1>1, <1>2

\* The entry that the operations read and write, and the one a program sees.
LEMMA PteIsLeaf ==
  ASSUME NEW m, NEW D, NEW e \in LiveIn(D), NEW va \in Idx \X Idx
  PROVE  /\ Table(m, D[e], va) = Node(m, D, e, va[1]).ppn
         /\ HasTable(m, D[e], va) <=> Node(m, D, e, va[1]).p
         /\ HasTable(m, D[e], va) => Pte(m, D[e], va) = Leaf(m, D, e, va[1], va[2])
BY DEF Table, HasTable, Pte, Leaf, Node

\* A write of one entry of a table.
LEMMA SetPteFacts ==
  ASSUME NEW m \in Pages, NEW dir \in Page, NEW va \in Idx \X Idx, NEW entry \in Entry
  PROVE  LET n == SetPte(m, dir, va, entry)
         IN /\ n \in Pages
            /\ n.mem = [m.mem EXCEPT ![Table(m, dir, va)][va[2]] = entry]
            /\ n.ref = m.ref /\ n.free = m.free /\ n.stored = m.stored
<1>1. SetPte(m, dir, va, entry) \in Pages
  BY TableTypes
<1> QED BY <1>1 DEF SetPte, Pages

\* From m to n one entry of a table changes, to entry, and the counts and the
\* free list with it.
Relinks(m, n, D, X, Y, e, i, j, entry) ==
  /\ Good(m, D, X) /\ n \in Pages
  /\ e \in LiveIn(D) /\ i \in Idx /\ j \in Idx /\ entry \in Entry
  /\ Node(m, D, e, i).p
  /\ n.mem = [m.mem EXCEPT ![Node(m, D, e, i).ppn][j] = entry]
  /\ n.stored = m.stored
  /\ entry.p => entry.ppn # Page0
  /\ ~entry.p => entry = Empty
  /\ entry.p => /\ \A f \in LiveIn(D) : D[f] # entry.ppn
                /\ \A f \in LiveIn(D), k \in Idx : ~To(Node(m, D, f, k), entry.ppn)
  /\ \A p \in Page : n.ref[p] = m.ref[p] - One(To(Leaf(m, D, e, i, j), p)) + One(To(entry, p))
  /\ Lists(n.free, Unused(n) \ Y) /\ Y \subseteq Unused(n)

\* The counts are right again after an entry and its counts have changed.
LEMMA GoodLeaf ==
  ASSUME NEW m, NEW n, NEW D, NEW X, NEW Y, NEW e, NEW i, NEW j, NEW entry,
         Relinks(m, n, D, X, Y, e, i, j, entry)
  PROVE  /\ Good(n, D, Y)
         /\ SameNodes(m, n, D) /\ SetsLeaf(m, n, D, e, i, j, entry)
         /\ Clean(m, D) => Clean(n, D)
<1> USE DEF Relinks
<1>1. SameNodes(m, n, D) /\ SetsLeaf(m, n, D, e, i, j, entry)
  BY GoodFacts, WriteTable
<1>2. Tree(n, D)
  BY <1>1, GoodFacts, TreeLeaf
<1>3. \A p \in Page : n.ref[p] = Count(n, D, p)
  <2> TAKE p \in Page
  <2>1. Count(n, D, p) = Count(m, D, p) - One(To(Leaf(m, D, e, i, j), p)) + One(To(entry, p))
    BY <1>1, GoodFacts, CountLeaf
  <2>2. m.ref[p] = Count(m, D, p)
    BY DEF Good
  <2> QED BY <2>1, <2>2
<1>4. Entries(n)
  <2>1. Node(m, D, e, i).ppn \in Page
    BY GoodFacts, ViewTypes DEF Entry
  <2>2. \A q \in Page, k \in Idx :
          n.mem[q][k] = IF q = Node(m, D, e, i).ppn /\ k = j THEN entry ELSE m.mem[q][k]
    BY <2>1, GoodFacts
  <2> QED BY <2>2, GoodFacts DEF Entries
<1>5. Good(n, D, Y)
  BY <1>2, <1>3, <1>4 DEF Good
<1> QED BY <1>1, <1>5, CleanKept

\* A present entry of a table names a page that is used.
LEMMA LeafUsed ==
  ASSUME NEW m, NEW D, NEW X, Good(m, D, X), NEW e \in LiveIn(D), NEW i \in Idx, NEW j \in Idx
  PROVE  /\ Leaf(m, D, e, i, j) \in Entry
         /\ ~Leaf(m, D, e, i, j).p => Leaf(m, D, e, i, j) = Empty
         /\ Leaf(m, D, e, i, j).p => LET q == Leaf(m, D, e, i, j).ppn
                                     IN /\ q \in Page \ {Page0} /\ m.ref[q] > 0
                                        /\ \A f \in LiveIn(D) : D[f] # q
                                        /\ \A f \in LiveIn(D), k \in Idx : ~To(Node(m, D, f, k), q)
<1> DEFINE leaf == Leaf(m, D, e, i, j)
<1>1. leaf \in Entry /\ Node(m, D, e, i) \in Entry
  BY GoodFacts, ViewTypes
<1>2. IF leaf.p THEN leaf.ppn # Page0 ELSE leaf = Empty
  <2>1. CASE Node(m, D, e, i).p
    BY <1>1, <2>1, GoodFacts DEF Leaf, Entry, Entries
  <2>2. CASE ~Node(m, D, e, i).p
    BY <2>2 DEF Leaf, Empty
  <2> QED BY <2>1, <2>2
<1>3. ASSUME leaf.p
      PROVE  /\ leaf.ppn \in Page \ {Page0} /\ m.ref[leaf.ppn] > 0
             /\ \A f \in LiveIn(D) : D[f] # leaf.ppn
             /\ \A f \in LiveIn(D), k \in Idx : ~To(Node(m, D, f, k), leaf.ppn)
  <2>1. leaf.ppn \in Page \ {Page0}
    BY <1>1, <1>2, <1>3 DEF Entry
  <2>2. m.ref[leaf.ppn] # 0 /\ m.ref[leaf.ppn] \in Nat
    BY <1>3, <2>1, GoodFacts DEF To
  <2>3. Tree(m, D)
    BY GoodFacts
  <2> QED BY <1>3, <2>1, <2>2, <2>3 DEF Tree, To
<1> QED BY <1>1, <1>2, <1>3

\* page_remove where something is mapped.
LEMMA GoodRemove ==
  ASSUME NEW m, NEW D, NEW X, Good(m, D, X), NEW e \in LiveIn(D), NEW va \in Idx \X Idx,
         Mapped(m, D[e], va)
  PROVE  LET n == PageRemove(m, D[e], va)
         IN /\ Good(n, D, X)
            /\ SameNodes(m, n, D) /\ SetsLeaf(m, n, D, e, va[1], va[2], Empty)
            /\ n.stored = m.stored
            /\ Clean(m, D) => Clean(n, D)
<1> DEFINE n == PageRemove(m, D[e], va)
           i == va[1]
           j == va[2]
           leaf == Leaf(m, D, e, i, j)
           q == leaf.ppn
           d == PageDecref(m, q)
<1>1. i \in Idx /\ j \in Idx /\ m \in Pages /\ D \in Dirs /\ D[e] \in Page
  BY GoodFacts, ViewTypes
<1>2. /\ Node(m, D, e, i).p /\ leaf.p /\ Pte(m, D[e], va) = leaf
      /\ Table(m, D[e], va) = Node(m, D, e, i).ppn
  BY PteIsLeaf DEF Mapped
<1>3. leaf \in Entry /\ q \in Page \ {Page0} /\ m.ref[q] > 0
  BY <1>1, <1>2, LeafUsed
<1>4. n = SetPte(d, D[e], va, Empty)
  <2>1. PageLookup(m, D[e], va) = q /\ q # None
    BY <1>2, <1>3, NoneAssumption DEF PageLookup, Mapped
  <2> QED BY <2>1 DEF PageRemove
<1>5. /\ d \in Pages /\ d.mem = m.mem /\ d.stored = m.stored
      /\ d.ref = [m.ref EXCEPT ![q] = m.ref[q] - 1]
  BY <1>1, <1>3, DecrefFacts
<1>6. Lists(d.free, Unused(d) \ X) /\ X \subseteq Unused(d)
  BY <1>1, <1>3, DecrefLists DEF Good
<1> HIDE DEF n, d, q, leaf, i, j
<1>7. Table(d, D[e], va) = Node(m, D, e, i).ppn
  BY <1>2, <1>5 DEF Table
<1>8. /\ n \in Pages /\ n.mem = [m.mem EXCEPT ![Node(m, D, e, i).ppn][j] = Empty]
      /\ n.ref = d.ref /\ n.free = d.free /\ n.stored = m.stored
  BY <1>1, <1>4, <1>5, <1>7, SetPteFacts, IdxFacts DEF j
<1>9. \A p \in Page : n.ref[p] = m.ref[p] - One(To(leaf, p)) + One(To(Empty, p))
  <2> TAKE p \in Page
  <2>1. One(To(Empty, p)) = 0
    BY DEF One, To, Empty
  <2>2. One(To(leaf, p)) = IF p = q THEN 1 ELSE 0
    BY <1>2 DEF One, To, q
  <2>3. n.ref[p] = IF p = q THEN m.ref[q] - 1 ELSE m.ref[p]
    BY <1>5, <1>8, GoodFacts
  <2> QED BY <2>1, <2>2, <2>3, GoodFacts
<1>10. Lists(n.free, Unused(n) \ X) /\ X \subseteq Unused(n)
  BY <1>6, <1>8 DEF Unused
<1>11. ~Empty.p /\ Empty \in Entry
  BY IdxFacts DEF Empty
<1>12. /\ Good(n, D, X)
       /\ SameNodes(m, n, D) /\ SetsLeaf(m, n, D, e, i, j, Empty)
       /\ Clean(m, D) => Clean(n, D)
  <2>1. Relinks(m, n, D, X, X, e, i, j, Empty)
    BY <1>1, <1>2, <1>8, <1>9, <1>10, <1>11 DEF leaf, Relinks
  <2> QED BY <2>1, GoodLeaf
<1> QED BY <1>8, <1>12 DEF n, i, j

\* A page is entered where nothing was mapped.
LEMMA GoodLink ==
  ASSUME NEW m, NEW D, NEW X, Good(m, D, X), NEW e \in LiveIn(D), NEW va \in Idx \X Idx,
         HasTable(m, D[e], va), ~Pte(m, D[e], va).p,
         NEW p \in Page \ {Page0}, NEW w \in BOOLEAN,
         p \in X \/ \E f \in LiveIn(D), k, l \in Idx : To(Leaf(m, D, f, k, l), p),
         LET n == SetPte(PageIncref(m, p), D[e], va, [ppn |-> p, p |-> TRUE, w |-> w])
         IN Count(n, D, p) < RefMod
  PROVE  LET entry == [ppn |-> p, p |-> TRUE, w |-> w]
             n == SetPte(PageIncref(m, p), D[e], va, entry)
         IN /\ Good(n, D, X \ {p})
            /\ SameNodes(m, n, D) /\ SetsLeaf(m, n, D, e, va[1], va[2], entry)
            /\ n.stored = m.stored
            /\ Clean(m, D) => Clean(n, D)
<1> DEFINE entry == [ppn |-> p, p |-> TRUE, w |-> w]
           d == PageIncref(m, p)
           n == SetPte(d, D[e], va, entry)
           i == va[1]
           j == va[2]
           leaf == Leaf(m, D, e, i, j)
<1>1. i \in Idx /\ j \in Idx /\ m \in Pages /\ D \in Dirs /\ D[e] \in Page
  BY GoodFacts, ViewTypes
<1>2. /\ Node(m, D, e, i).p /\ Pte(m, D[e], va) = leaf /\ leaf = Empty
      /\ Table(m, D[e], va) = Node(m, D, e, i).ppn
  <2>1. /\ Node(m, D, e, i).p /\ Pte(m, D[e], va) = leaf
        /\ Table(m, D[e], va) = Node(m, D, e, i).ppn
    BY PteIsLeaf
  <2>2. ~leaf.p => leaf = Empty
    BY <1>1, LeafUsed
  <2> QED BY <2>1, <2>2
<1>3. entry \in Entry /\ entry.p /\ entry.ppn = p
  BY DEF Entry
<1>4. /\ d \in Pages /\ d.mem = m.mem /\ d.stored = m.stored /\ d.free = m.free
      /\ d.ref = [m.ref EXCEPT ![p] = (m.ref[p] + 1) % RefMod]
  BY <1>1, CountTypes DEF PageIncref, Pages
<1>5. Count(n, D, p) < RefMod /\ n = SetPte(d, D[e], va, entry)
  OBVIOUS
<1> HIDE DEF n, d, leaf, i, j, entry
<1>6. Table(d, D[e], va) = Node(m, D, e, i).ppn
  BY <1>2, <1>4 DEF Table
<1>7. /\ n \in Pages /\ n.mem = [m.mem EXCEPT ![Node(m, D, e, i).ppn][j] = entry]
      /\ n.ref = d.ref /\ n.free = m.free /\ n.stored = m.stored
  <2>1. d \in Pages
    BY <1>4
  <2>2. /\ n \in Pages /\ n.mem = [d.mem EXCEPT ![Table(d, D[e], va)][va[2]] = entry]
        /\ n.ref = d.ref /\ n.free = d.free /\ n.stored = d.stored
    BY <1>1, <1>3, <1>5, <2>1, SetPteFacts
  <2> QED BY <1>4, <1>6, <2>2 DEF j
<1>8. SameNodes(m, n, D) /\ SetsLeaf(m, n, D, e, i, j, entry)
  BY <1>1, <1>2, <1>7, GoodFacts, WriteTable
<1>9. \A r : One(To(leaf, r)) = 0 /\ One(To(entry, r)) = IF r = p THEN 1 ELSE 0
  BY <1>2, <1>3 DEF One, To, Empty
<1>10. m.ref[p] + 1 < RefMod
  <2>1. Count(n, D, p) = Count(m, D, p) - One(To(leaf, p)) + One(To(entry, p))
    BY <1>1, <1>3, <1>7, <1>8, CountLeaf DEF leaf
  <2>2. Count(m, D, p) = m.ref[p] /\ m.ref[p] \in Nat
    BY GoodFacts DEF Good
  <2> QED BY <1>5, <1>9, <2>1, <2>2
<1>11. d.ref = [m.ref EXCEPT ![p] = m.ref[p] + 1]
  <2>1. m.ref[p] + 1 \in 0 .. RefMod - 1
    BY <1>10, GoodFacts, SizeAssumption
  <2> QED BY <1>4, <2>1, ModSmall
<1>12. \A r \in Page : n.ref[r] = m.ref[r] - One(To(leaf, r)) + One(To(entry, r))
  <2> TAKE r \in Page
  <2>1. n.ref[r] = IF r = p THEN m.ref[p] + 1 ELSE m.ref[r]
    BY <1>7, <1>11, GoodFacts
  <2> QED BY <1>9, <2>1, GoodFacts
<1>13. /\ \A f \in LiveIn(D) : D[f] # p
       /\ \A f \in LiveIn(D), k \in Idx : ~To(Node(m, D, f, k), p)
       /\ p \in Unused(m) => p \in X
  <2>1. CASE p \in X
    <3>1. m.ref[p] = 0
      BY <2>1 DEF Good, Unused
    <3> QED BY <2>1, <3>1, GoodFacts
  <2>2. CASE \E f \in LiveIn(D), k, l \in Idx : To(Leaf(m, D, f, k, l), p)
    <3>1. m.ref[p] > 0
      BY <2>2, LeafUsed DEF To
    <3> QED BY <2>2, <3>1, LeafUsed DEF To, Unused
  <2> QED BY <2>1, <2>2
<1>14. Unused(n) = Unused(m) \ {p}
  <2>1. \A r \in Page : n.ref[r] = IF r = p THEN m.ref[p] + 1 ELSE m.ref[r]
    BY <1>7, <1>11, GoodFacts
  <2>2. m.ref[p] + 1 # 0
    BY GoodFacts
  <2> QED BY <2>1, <2>2 DEF Unused
<1>15. Lists(n.free, Unused(n) \ (X \ {p})) /\ X \ {p} \subseteq Unused(n)
  <2>1. Unused(n) \ (X \ {p}) = Unused(m) \ X
    BY <1>13, <1>14
  <2> QED BY <1>7, <1>14, <2>1 DEF Good
<1>16. /\ Good(n, D, X \ {p})
       /\ SameNodes(m, n, D) /\ SetsLeaf(m, n, D, e, i, j, entry)
       /\ Clean(m, D) => Clean(n, D)
  <2>1. Relinks(m, n, D, X, X \ {p}, e, i, j, entry)
    BY <1>1, <1>2, <1>3, <1>7, <1>12, <1>13, <1>15 DEF leaf, Relinks
  <2> QED BY <2>1, GoodLeaf
<1> QED BY <1>7, <1>16 DEF n, d, i, j, entry

\* A page is entered where it is already, perhaps with other rights.
LEMMA GoodRights ==
  ASSUME NEW m, NEW D, NEW X, Good(m, D, X), NEW e \in LiveIn(D), NEW va \in Idx \X Idx,
         Mapped(m, D[e], va), NEW w \in BOOLEAN
  PROVE  LET entry == [ppn |-> Pte(m, D[e], va).ppn, p |-> TRUE, w |-> w]
             n == SetPte(m, D[e], va, entry)
         IN /\ Good(n, D, X)
            /\ SameNodes(m, n, D) /\ SetsLeaf(m, n, D, e, va[1], va[2], entry)
            /\ n.stored = m.stored
            /\ Clean(m, D) => Clean(n, D)
<1> DEFINE i == va[1]
           j == va[2]
           leaf == Leaf(m, D, e, i, j)
           entry == [ppn |-> leaf.ppn, p |-> TRUE, w |-> w]
           n == SetPte(m, D[e], va, entry)
<1>1. i \in Idx /\ j \in Idx /\ m \in Pages /\ D \in Dirs /\ D[e] \in Page
  BY GoodFacts, ViewTypes
<1>2. /\ Node(m, D, e, i).p /\ leaf.p /\ Pte(m, D[e], va) = leaf
      /\ Table(m, D[e], va) = Node(m, D, e, i).ppn
  BY PteIsLeaf DEF Mapped
<1>3. /\ leaf.ppn \in Page \ {Page0}
      /\ \A f \in LiveIn(D) : D[f] # leaf.ppn
      /\ \A f \in LiveIn(D), k \in Idx : ~To(Node(m, D, f, k), leaf.ppn)
  BY <1>1, <1>2, LeafUsed
<1>4. entry \in Entry /\ entry.p /\ entry.ppn = leaf.ppn
  BY <1>3 DEF Entry
<1> HIDE DEF n, leaf, i, j, entry
<1>5. /\ n \in Pages /\ n.mem = [m.mem EXCEPT ![Node(m, D, e, i).ppn][j] = entry]
      /\ n.ref = m.ref /\ n.free = m.free /\ n.stored = m.stored
  BY <1>1, <1>2, <1>4, SetPteFacts DEF n, j
<1>6. \A r \in Page : n.ref[r] = m.ref[r] - One(To(leaf, r)) + One(To(entry, r))
  <2> TAKE r \in Page
  <2>1. One(To(leaf, r)) = One(To(entry, r)) /\ One(To(leaf, r)) \in Int
    BY <1>2, <1>4 DEF One, To
  <2> QED BY <1>5, <2>1, GoodFacts
<1>7. Lists(n.free, Unused(n) \ X) /\ X \subseteq Unused(n)
  BY <1>5 DEF Good, Unused
<1>8. /\ Good(n, D, X)
      /\ SameNodes(m, n, D) /\ SetsLeaf(m, n, D, e, i, j, entry)
      /\ Clean(m, D) => Clean(n, D)
  <2>1. Relinks(m, n, D, X, X, e, i, j, entry)
    BY <1>1, <1>2, <1>3, <1>4, <1>5, <1>6, <1>7 DEF leaf, Relinks
  <2> QED BY <2>1, GoodLeaf
<1> QED BY <1>2, <1>5, <1>8 DEF n, i, j, entry

\* page_insert, of a new page or of one that is mapped somewhere.
LEMMA GoodInsert ==
  ASSUME NEW m, NEW D, NEW X, Good(m, D, X), NEW e \in LiveIn(D), NEW va \in Idx \X Idx,
         CanWalk(m, D[e], va), NEW p \in Page \ {Page0}, NEW w \in BOOLEAN,
         p \in X \/ \E f \in LiveIn(D), k, l \in Idx : To(Leaf(m, D, f, k, l), p),
         Count(PageInsert(m, D[e], p, va, w), D, p) < RefMod
  PROVE  LET entry == [ppn |-> p, p |-> TRUE, w |-> w]
             n == PageInsert(m, D[e], p, va, w)
         IN /\ Good(n, D, X \ {p})
            /\ SetsLeaf(m, n, D, e, va[1], va[2], entry)
            /\ Forgets(m, n, D)
            /\ Clean(m, D) => Clean(n, D)
<1> DEFINE entry == [ppn |-> p, p |-> TRUE, w |-> w]
           n == PageInsert(m, D[e], p, va, w)
           a == Walk(m, D[e], va)
           b == PageRemove(a, D[e], va)
           i == va[1]
           j == va[2]
           old == Pte(a, D[e], va)
<1>1. /\ Good(a, D, X) /\ HasTable(a, D[e], va)
      /\ SameLeaves(m, a, D) /\ Forgets(m, a, D)
      /\ Clean(m, D) => Clean(a, D)
  BY GoodWalk
<1>2. i \in Idx /\ j \in Idx
  OBVIOUS
<1>3. n = IF old.ppn = p THEN SetPte(a, D[e], va, entry)
          ELSE IF old.p THEN SetPte(PageIncref(b, p), D[e], va, entry)
          ELSE SetPte(PageIncref(a, p), D[e], va, entry)
  BY DEF PageInsert
<1>4. Count(n, D, p) < RefMod
  OBVIOUS
<1>5. p \in X \/ \E f \in LiveIn(D), k, l \in Idx : To(Leaf(a, D, f, k, l), p)
  BY <1>1 DEF SameLeaves
<1> HIDE DEF n, a
<1>6. old = Leaf(a, D, e, i, j) /\ (~old.p => old = Empty)
  <2>1. old = Leaf(a, D, e, i, j)
    BY <1>1, PteIsLeaf
  <2> QED BY <1>1, <1>2, <2>1, LeafUsed
<1> HIDE DEF old, b, i, j
<1>7. ASSUME old.ppn = p
      PROVE  /\ Good(n, D, X \ {p}) /\ SetsLeaf(m, n, D, e, i, j, entry)
             /\ Forgets(m, n, D) /\ (Clean(m, D) => Clean(n, D))
  <2>1. old.p
    BY <1>6, <1>7 DEF Empty
  <2>2. Mapped(a, D[e], va)
    BY <1>1, <2>1 DEF Mapped, old
  <2>3. n = SetPte(a, D[e], va, [ppn |-> Pte(a, D[e], va).ppn, p |-> TRUE, w |-> w])
    BY <1>3, <1>7 DEF old
  <2>4. p \notin X
    <3>1. a.ref[p] > 0
      BY <1>1, <1>2, <1>6, <1>7, <2>1, LeafUsed
    <3>2. X \subseteq Unused(a)
      BY <1>1 DEF Good
    <3> QED BY <3>1, <3>2 DEF Unused
  <2>5. Good(n, D, X) /\ SetsLeaf(a, n, D, e, i, j, entry) /\ n.stored = a.stored
        /\ (Clean(a, D) => Clean(n, D))
    BY <1>1, <1>7, <2>2, <2>3, GoodRights DEF i, j, old
  <2>6. X \ {p} = X
    BY <2>4
  <2> HIDE DEF entry
  <2> QED BY <1>1, <2>5, <2>6 DEF SameLeaves, SetsLeaf, Forgets
<1>8. ASSUME old.ppn # p /\ old.p
      PROVE  /\ Good(n, D, X \ {p}) /\ SetsLeaf(m, n, D, e, i, j, entry)
             /\ Forgets(m, n, D) /\ (Clean(m, D) => Clean(n, D))
  <2>1. Mapped(a, D[e], va)
    BY <1>1, <1>8 DEF Mapped, old
  <2>2. /\ Good(b, D, X) /\ SameNodes(a, b, D) /\ SetsLeaf(a, b, D, e, i, j, Empty)
        /\ b.stored = a.stored /\ (Clean(a, D) => Clean(b, D))
    BY <1>1, <2>1, GoodRemove DEF b, i, j
  <2>3. HasTable(b, D[e], va)
    <3>1. Node(a, D, e, i).p
      BY <1>1, PteIsLeaf DEF i
    <3>2. Node(b, D, e, i) = Node(a, D, e, i)
      BY <1>2, <2>2 DEF SameNodes
    <3> QED BY <3>1, <3>2, PteIsLeaf DEF i
  <2>4. ~Pte(b, D[e], va).p
    <3>1. Pte(b, D[e], va) = Leaf(b, D, e, i, j)
      BY <2>3, PteIsLeaf DEF i, j
    <3>2. Leaf(b, D, e, i, j) = Empty
      BY <1>2, <2>2 DEF SetsLeaf
    <3> QED BY <3>1, <3>2 DEF Empty
  <2>5. p \in X \/ \E f \in LiveIn(D), k, l \in Idx : To(Leaf(b, D, f, k, l), p)
    BY <1>5, <1>6, <1>8, <2>2 DEF SetsLeaf, To
  <2>6. n = SetPte(PageIncref(b, p), D[e], va, entry)
    BY <1>3, <1>8
  <2>7. Good(n, D, X \ {p}) /\ SetsLeaf(b, n, D, e, i, j, entry) /\ n.stored = b.stored
        /\ (Clean(b, D) => Clean(n, D))
    <3>1. Good(b, D, X)
      BY <2>2
    <3> QED BY <1>4, <2>3, <2>4, <2>5, <2>6, <3>1, GoodLink DEF i, j
  <2> HIDE DEF entry
  <2>8. SetsLeaf(m, n, D, e, i, j, entry)
    BY <1>1, <2>2, <2>7 DEF SameLeaves, SetsLeaf
  <2> QED BY <1>1, <2>2, <2>7, <2>8 DEF Forgets
<1>9. ASSUME old.ppn # p /\ ~old.p
      PROVE  /\ Good(n, D, X \ {p}) /\ SetsLeaf(m, n, D, e, i, j, entry)
             /\ Forgets(m, n, D) /\ (Clean(m, D) => Clean(n, D))
  <2>1. n = SetPte(PageIncref(a, p), D[e], va, entry)
    BY <1>3, <1>9
  <2>2. Good(n, D, X \ {p}) /\ SetsLeaf(a, n, D, e, i, j, entry) /\ n.stored = a.stored
        /\ (Clean(a, D) => Clean(n, D))
    BY <1>1, <1>4, <1>5, <1>9, <2>1, GoodLink DEF old, i, j
  <2> HIDE DEF entry
  <2> QED BY <1>1, <2>2 DEF SameLeaves, SetsLeaf, Forgets
<1>10. /\ Good(n, D, X \ {p}) /\ SetsLeaf(m, n, D, e, i, j, entry)
       /\ Forgets(m, n, D) /\ (Clean(m, D) => Clean(n, D))
  BY <1>7, <1>8, <1>9
<1> QED BY <1>10 DEF n, i, j

\* An environment gets or loses a directory that has no table.
GivesDirectory(m, D, D2, e, h) ==
  /\ m \in Pages /\ D \in Dirs /\ e \in Env /\ h \in Page
  /\ D[e] = None /\ D2 = [D EXCEPT ![e] = h]
  /\ \A i \in Idx : ~m.mem[h][i].p

\* The directory page gains one pointer, and nothing else does.
LEMMA CountDirectory ==
  ASSUME NEW m, NEW D, NEW D2, NEW e, NEW h, GivesDirectory(m, D, D2, e, h)
  PROVE  /\ D2 \in Dirs /\ LiveIn(D2) = LiveIn(D) \cup {e} /\ e \notin LiveIn(D)
         /\ \A f \in LiveIn(D) : D2[f] = D[f]
         /\ D2[e] = h
         /\ \A p \in Page : Count(m, D2, p) = Count(m, D, p) + One(p = h)
<1>1. /\ m \in Pages /\ D \in Dirs /\ e \in Env /\ h \in Page /\ h # None
      /\ D[e] = None /\ D2 = [D EXCEPT ![e] = h]
      /\ \A i \in Idx : ~m.mem[h][i].p
  BY NoneAssumption DEF GivesDirectory
<1>2. /\ D2 \in Dirs /\ LiveIn(D2) = LiveIn(D) \cup {e} /\ e \notin LiveIn(D)
      /\ \A f \in LiveIn(D) : D2[f] = D[f]
      /\ D2[e] = h
  BY <1>1 DEF Dirs, LiveIn
<1>3. /\ \A i \in Idx : ~Node(m, D2, e, i).p
      /\ \A i, j \in Idx : ~Leaf(m, D2, e, i, j).p
      /\ \A f \in LiveIn(D), i \in Idx : Node(m, D2, f, i) = Node(m, D, f, i)
      /\ \A f \in LiveIn(D), i, j \in Idx : Leaf(m, D2, f, i, j) = Leaf(m, D, f, i, j)
  BY <1>1, <1>2 DEF Node, Leaf, Empty
<1>4. ASSUME NEW p \in Page PROVE Count(m, D2, p) = Count(m, D, p) + One(p = h)
  <2>1. TRefs(m, D2, p) = TRefs(m, D, p)
    <3>1. \A f \in LiveIn(D2), i \in Idx :
            To(Node(m, D2, f, i), p) <=> f \in LiveIn(D) /\ To(Node(m, D, f, i), p)
      BY <1>2, <1>3 DEF To
    <3>2. /\ TRefs(m, D2, p) = {x \in LiveIn(D2) \X Idx : To(Node(m, D2, x[1], x[2]), p)}
          /\ TRefs(m, D, p) = {x \in LiveIn(D) \X Idx : To(Node(m, D, x[1], x[2]), p)}
      BY DEF TRefs, To
    <3>3. LiveIn(D) \subseteq LiveIn(D2)
      BY <1>2
    <3> QED BY ONLY <3>1, <3>2, <3>3
  <2>2. PRefs(m, D2, p) = PRefs(m, D, p)
    <3>1. \A f \in LiveIn(D2), i, j \in Idx :
            To(Leaf(m, D2, f, i, j), p) <=> f \in LiveIn(D) /\ To(Leaf(m, D, f, i, j), p)
      BY <1>2, <1>3 DEF To
    <3>2. /\ PRefs(m, D2, p) = {x \in LiveIn(D2) \X Idx \X Idx : To(Leaf(m, D2, x[1], x[2], x[3]), p)}
          /\ PRefs(m, D, p) = {x \in LiveIn(D) \X Idx \X Idx : To(Leaf(m, D, x[1], x[2], x[3]), p)}
      BY DEF PRefs, To
    <3>3. LiveIn(D) \subseteq LiveIn(D2)
      BY <1>2
    <3> QED BY ONLY <3>1, <3>2, <3>3
  <2>3. DRefs(D2, p) = (DRefs(D, p) \ {e}) \cup (IF p = h THEN {e} ELSE {})
    BY <1>2 DEF DRefs
  <2>4. e \notin DRefs(D, p)
    BY <1>2 DEF DRefs
  <2>5. Cardinality(DRefs(D2, p)) = Cardinality(DRefs(D, p)) - One(e \in DRefs(D, p)) + One(p = h)
    <3> DEFINE S == DRefs(D, p)
               T == DRefs(D2, p)
               b == p = h
    <3>1. b \in BOOLEAN /\ IsFiniteSet(S) /\ T = (S \ {e}) \cup (IF b THEN {e} ELSE {})
      BY <2>3, RefsFinite
    <3> HIDE DEF S, T, b
    <3>2. Cardinality(T) = Cardinality(S) - One(e \in S) + One(b)
      BY <3>1, Replaced
    <3> QED BY <3>2 DEF S, T, b
  <2> QED BY <2>1, <2>2, <2>4, <2>5, RefsFinite DEF Count, One
<1> QED BY <1>2, <1>4

\* e gets an empty directory, and nothing else changes.
SetUp(m, D, e, n, D2) ==
  /\ LiveIn(D2) = LiveIn(D) \cup {e}
  /\ \A f \in LiveIn(D), i, j \in Idx : Leaf(n, D2, f, i, j) = Leaf(m, D, f, i, j)
  /\ \A i, j \in Idx : Leaf(n, D2, e, i, j) = Empty
  /\ Forgets(m, n, D)
  /\ Clean(m, D) => Clean(n, D2)

\* env_setup_vm: the directory is a new page, and counts one pointer.
LEMMA GoodSetup ==
  ASSUME NEW m, NEW D, Good(m, D, {}), NEW e \in Env, D[e] = None, m.free # << >>
  PROVE  LET h == Head(m.free)
             n == PageIncref(PageAlloc(m), h)
             D2 == [D EXCEPT ![e] = h]
         IN Good(n, D2, {}) /\ SetUp(m, D, e, n, D2)
<1> DEFINE h == Head(m.free)
           a == PageAlloc(m)
           n == PageIncref(a, h)
           D2 == [D EXCEPT ![e] = h]
<1>1. /\ Good(a, D, {h})
      /\ SameNodes(m, a, D) /\ SameLeaves(m, a, D)
      /\ Forgets(m, a, D) /\ h \notin a.stored /\ a.mem[h] = Zeros
      /\ h \in Unused(m) /\ a.ref = m.ref
  <2>1. {} \cup {h} = {h} /\ Unused(m) \ {} = Unused(m)
    OBVIOUS
  <2> HIDE DEF h, a
  <2> QED BY <2>1, GoodAlloc DEF h, a
<1>2. n = [a EXCEPT !.ref[h] = (@ + 1) % RefMod]
  BY DEF PageIncref
<1> HIDE DEF h, a, n, D2
<1>3. a \in Pages /\ D \in Dirs /\ a.ref \in [Page -> 0 .. RefMod - 1]
  BY <1>1, GoodFacts
<1>4. h \in Page /\ h # Page0 /\ a.ref[h] = 0
  BY <1>1 DEF Unused
<1>5. n = [a EXCEPT !.ref = [a.ref EXCEPT ![h] = 1]]
  <2>1. (0 + 1) % RefMod = 1
    BY ModSmall, SizeAssumption
  <2> QED BY <1>2, <1>3, <1>4, <2>1 DEF Pages
<1>6. /\ n \in Pages /\ n.mem = a.mem /\ n.free = a.free /\ n.stored = a.stored
      /\ n.ref = [a.ref EXCEPT ![h] = 1]
  <2>1. 1 \in 0 .. RefMod - 1
    BY SizeAssumption
  <2>2. [a.ref EXCEPT ![h] = 1] \in [Page -> 0 .. RefMod - 1]
    BY <1>3, <2>1
  <2> QED BY <1>3, <1>5, <2>2 DEF Pages
<1>7. \A i \in Idx : n.mem[h][i] = Empty /\ ~n.mem[h][i].p
  <2>1. n.mem[h] = Zeros
    BY <1>1, <1>6
  <2>2. \A i \in Idx : Zeros[i] = Empty
    BY DEF Zeros
  <2>3. ~Empty.p
    BY DEF Empty
  <2> QED BY <2>1, <2>2, <2>3
<1>8. /\ D2 \in Dirs /\ LiveIn(D2) = LiveIn(D) \cup {e} /\ e \notin LiveIn(D)
      /\ \A f \in LiveIn(D) : D2[f] = D[f]
      /\ D2[e] = h
      /\ \A p \in Page : Count(n, D2, p) = Count(n, D, p) + One(p = h)
  <2>1. GivesDirectory(n, D, D2, e, h)
    BY <1>3, <1>4, <1>6, <1>7 DEF D2, GivesDirectory
  <2> QED BY <2>1, CountDirectory
<1>9. SameNodes(a, n, D) /\ SameLeaves(a, n, D)
  BY <1>6 DEF SameNodes, SameLeaves, Node, Leaf
<1>10. \A p \in Page : n.ref[p] = Count(n, D2, p)
  <2> TAKE p \in Page
  <2>1. Count(n, D, p) = Count(a, D, p) /\ Count(a, D, p) = a.ref[p] /\ a.ref[p] \in Nat
    <3>1. Count(a, D, p) = a.ref[p]
      BY <1>1 DEF Good
    <3> QED BY <1>9, <3>1, CountSame, RefsFinite
  <2>2. One(p = h) = IF p = h THEN 1 ELSE 0
    BY DEF One
  <2>3. n.ref[p] = IF p = h THEN 1 ELSE a.ref[p]
    BY <1>3, <1>6
  <2> QED BY <1>4, <1>8, <2>1, <2>2, <2>3
<1>11. /\ \A i \in Idx : Node(n, D2, e, i) = Empty
       /\ \A i, j \in Idx : Leaf(n, D2, e, i, j) = Empty
       /\ \A f \in LiveIn(D), i \in Idx : Node(n, D2, f, i) = Node(a, D, f, i)
       /\ \A f \in LiveIn(D), i, j \in Idx : Leaf(n, D2, f, i, j) = Leaf(a, D, f, i, j)
  BY <1>6, <1>7, <1>8 DEF Node, Leaf, Empty
<1>12. /\ \A f \in LiveIn(D) : D[f] # h
       /\ \A f \in LiveIn(D), i \in Idx : ~To(Node(a, D, f, i), h)
       /\ \A f \in LiveIn(D), i, j \in Idx : ~To(Leaf(a, D, f, i, j), h)
  BY <1>1, <1>4, GoodFacts
<1>13. Tree(n, D2)
  <2>1. Tree(a, D) /\ ~Empty.p
    BY <1>1, GoodFacts DEF Empty
  <2>2. \A f, g \in LiveIn(D2) : D2[f] = D2[g] => f = g
    BY <1>8, <1>12, <2>1 DEF Tree
  <2>3. \A f, g \in LiveIn(D2), i \in Idx : Node(n, D2, g, i).p => Node(n, D2, g, i).ppn # D2[f]
    BY <1>8, <1>11, <1>12, <2>1 DEF Tree, To
  <2>4. \A f, g \in LiveIn(D2), i, k \in Idx :
          /\ Node(n, D2, f, i).p /\ Node(n, D2, g, k).p
          /\ Node(n, D2, f, i).ppn = Node(n, D2, g, k).ppn
          => f = g /\ i = k
    BY <1>8, <1>11, <2>1 DEF Tree
  <2>5. \A f, g \in LiveIn(D2), i, j \in Idx :
          Leaf(n, D2, f, i, j).p =>
            /\ Leaf(n, D2, f, i, j).ppn # D2[g]
            /\ \A k \in Idx : Node(n, D2, g, k).p => Leaf(n, D2, f, i, j).ppn # Node(n, D2, g, k).ppn
    BY <1>8, <1>11, <1>12, <2>1 DEF Tree, To
  <2> QED BY <2>2, <2>3, <2>4, <2>5 DEF Tree
<1>14. Entries(n)
  BY <1>1, <1>6, GoodFacts DEF Entries
<1>15. \A f \in Env : D2[f] # Page0
  BY <1>1, <1>3, <1>4 DEF Good, D2, Dirs
<1>16. Lists(n.free, Unused(n) \ {})
  <2>1. \A p \in Page : n.ref[p] = IF p = h THEN 1 ELSE a.ref[p]
    BY <1>3, <1>6
  <2>2. Unused(n) \ {} = Unused(a) \ {h}
    BY <1>4, <2>1 DEF Unused
  <2> QED BY <1>1, <1>6, <2>2 DEF Good
<1>17. Good(n, D2, {})
  BY <1>6, <1>8, <1>10, <1>13, <1>14, <1>15, <1>16 DEF Good
<1>18. ASSUME Clean(m, D) PROVE Clean(n, D2)
  <2>1. Clean(a, D)
    BY <1>1, <1>18, CleanKept DEF Forgets
  <2>2. ~Empty.p
    BY DEF Empty
  <2> QED BY <1>1, <1>6, <1>8, <1>11, <2>1, <2>2 DEF Clean
<1>19. /\ \A f \in LiveIn(D), i, j \in Idx : Leaf(n, D2, f, i, j) = Leaf(m, D, f, i, j)
       /\ Forgets(m, n, D)
  BY <1>1, <1>6, <1>11 DEF SameLeaves, Forgets
<1>20. SetUp(m, D, e, n, D2)
  BY <1>8, <1>11, <1>18, <1>19 DEF SetUp
<1> QED BY <1>17, <1>20 DEF h, a, n, D2

\* env_free gives back a table in which nothing is mapped any more.
LEMMA GoodFreeTable ==
  ASSUME NEW m, NEW D, Good(m, D, {}), NEW e \in LiveIn(D), NEW i \in Idx,
         Node(m, D, e, i).p, \A j \in Idx : ~Leaf(m, D, e, i, j).p
  PROVE  LET n == PageDecref([m EXCEPT !.mem[D[e]][i] = Empty], Node(m, D, e, i).ppn)
         IN /\ Good(n, D, {})
            /\ SameLeaves(m, n, D) /\ n.stored = m.stored
            /\ Clean(m, D) => Clean(n, D)
<1> DEFINE t == Node(m, D, e, i).ppn
           a == [m EXCEPT !.mem[D[e]][i] = Empty]
           n == PageDecref(a, t)
<1>1. /\ m \in Pages /\ D \in Dirs /\ D[e] \in Page /\ Tree(m, D)
      /\ Node(m, D, e, i) \in Entry /\ t \in Page
  BY GoodFacts, ViewTypes DEF Entry
<1>2. /\ a \in Pages /\ a.ref = m.ref /\ a.free = m.free /\ a.stored = m.stored
      /\ a.mem = [m.mem EXCEPT ![D[e]][i] = Empty]
  BY <1>1, IdxFacts DEF Pages
<1>3. Node(m, D, e, i) = m.mem[D[e]][i] /\ To(Node(m, D, e, i), t)
  BY DEF Node, To
<1> HIDE DEF a, n, t
<1>4. t # Page0 /\ m.ref[t] > 0
  <2>1. t # Page0
    BY <1>1, <1>3, GoodFacts DEF Entries, t
  <2>2. m.ref[t] # 0 /\ m.ref[t] \in Nat
    BY <1>1, <1>3, GoodFacts
  <2> QED BY <2>1, <2>2
<1>5. /\ n \in Pages /\ n.mem = a.mem /\ n.stored = a.stored
      /\ n.ref = [m.ref EXCEPT ![t] = m.ref[t] - 1]
  <2>1. a \in Pages /\ a.ref[t] > 0
    BY <1>2, <1>4
  <2>2. /\ n \in Pages /\ n.mem = a.mem /\ n.stored = a.stored
        /\ n.ref = [a.ref EXCEPT ![t] = a.ref[t] - 1]
    BY <1>1, <2>1, DecrefFacts DEF n
  <2> QED BY <1>2, <2>2
<1>6. Lists(n.free, Unused(n) \ {}) /\ {} \subseteq Unused(n)
  <2>1. Lists(a.free, Unused(a) \ {}) /\ {} \subseteq Unused(a)
    BY <1>2 DEF Good, Unused
  <2>2. a.ref[t] > 0 /\ t \in Page \ {Page0}
    BY <1>1, <1>2, <1>4
  <2> QED BY <1>2, <2>1, <2>2, DecrefLists DEF n
<1>7. SetsNode(m, n, D, e, i, Empty) /\ SameLeaves(m, n, D)
  <2>1. n.mem = [m.mem EXCEPT ![D[e]][i] = Empty]
    BY <1>2, <1>5
  <2>2. Empty \in Entry /\ ~Empty.p
    BY IdxFacts DEF Empty
  <2>3. \A j \in Idx : (IF Node(m, D, e, i).p THEN m.mem[Node(m, D, e, i).ppn][j] ELSE Empty)
                       = (IF Empty.p THEN m.mem[Empty.ppn][j] ELSE Empty)
    <3> TAKE j \in Idx
    <3>1. Leaf(m, D, e, i, j) = Empty
      BY LeafUsed
    <3> QED BY <2>2, <3>1 DEF Leaf
  <2> QED BY <1>1, <1>5, <2>1, <2>2, <2>3, WriteDirectory
<1>8. Tree(n, D)
  <2>1. ~Empty.p
    BY DEF Empty
  <2> QED BY <1>1, <1>7, <2>1, TreeNode
<1>9. \A p \in Page : n.ref[p] = Count(n, D, p)
  <2> TAKE p \in Page
  <2>1. Count(n, D, p) = Count(m, D, p) - One(To(Node(m, D, e, i), p)) + One(To(Empty, p))
    BY <1>1, <1>5, <1>7, IdxFacts, CountNode
  <2>2. One(To(Empty, p)) = 0
    BY DEF To, One, Empty
  <2>3. One(To(Node(m, D, e, i), p)) = IF p = t THEN 1 ELSE 0
    BY <1>3 DEF To, One
  <2>4. m.ref[p] = Count(m, D, p)
    BY DEF Good
  <2>5. n.ref[p] = IF p = t THEN m.ref[p] - 1 ELSE m.ref[p]
    BY <1>1, <1>5, GoodFacts
  <2> QED BY <2>1, <2>2, <2>3, <2>4, <2>5, RefsFinite
<1>10. Entries(n)
  <2>1. ~Empty.p
    BY DEF Empty
  <2>2. \A q \in Page, k \in Idx : n.mem[q][k] = IF q = D[e] /\ k = i THEN Empty ELSE m.mem[q][k]
    BY <1>1, <1>2, <1>5, GoodFacts
  <2> QED BY <2>1, <2>2, GoodFacts DEF Entries
<1>11. Good(n, D, {})
  BY <1>5, <1>6, <1>8, <1>9, <1>10 DEF Good
<1>12. ASSUME Clean(m, D) PROVE Clean(n, D)
  BY <1>2, <1>5, <1>7, <1>12 DEF Clean, SetsNode, Empty
<1> QED BY <1>2, <1>5, <1>7, <1>11, <1>12 DEF n, a, t

\* env_free gives back a directory without tables.
\* The directory of e is gone, and nothing else changes.
TornDown(m, D, e, n, D2) ==
  /\ LiveIn(D2) = LiveIn(D) \ {e}
  /\ \A f \in LiveIn(D2), i, j \in Idx : Leaf(n, D2, f, i, j) = Leaf(m, D, f, i, j)
  /\ n.stored = m.stored
  /\ Clean(m, D) => Clean(n, D2)

\* The last step of env_free.
LEMMA GoodFreeDirectory ==
  ASSUME NEW m, NEW D, Good(m, D, {}), NEW e \in LiveIn(D), \A i \in Idx : ~Node(m, D, e, i).p
  PROVE  LET n == PageDecref(m, D[e])
             D2 == [D EXCEPT ![e] = None]
         IN Good(n, D2, {}) /\ TornDown(m, D, e, n, D2)
<1> DEFINE h == D[e]
           n == PageDecref(m, h)
           D2 == [D EXCEPT ![e] = None]
<1>1. /\ m \in Pages /\ D \in Dirs /\ h \in Page /\ h # None /\ Tree(m, D) /\ e \in Env
      /\ h # Page0
  <2>1. h # Page0
    BY DEF Good, LiveIn
  <2> QED BY <2>1, GoodFacts, ViewTypes, IdxFacts, NoneAssumption DEF LiveIn
<1>2. m.ref[h] > 0
  BY <1>1, GoodFacts
<1> HIDE DEF n
<1>3. /\ n \in Pages /\ n.mem = m.mem /\ n.stored = m.stored
      /\ n.ref = [m.ref EXCEPT ![h] = m.ref[h] - 1]
  BY <1>1, <1>2, DecrefFacts DEF n
<1>4. Lists(n.free, Unused(n) \ {}) /\ {} \subseteq Unused(n)
  <2>1. Lists(m.free, Unused(m) \ {}) /\ {} \subseteq Unused(m)
    BY DEF Good
  <2> QED BY <1>1, <1>2, <2>1, DecrefLists DEF n
<1>5. D2 \in Dirs /\ D2[e] = None /\ LiveIn(D2) = LiveIn(D) \ {e} /\ D = [D2 EXCEPT ![e] = h]
      /\ \A f \in LiveIn(D2) : D2[f] = D[f]
  BY <1>1 DEF Dirs, LiveIn
<1>6. \A f \in Env : D2[f] # Page0
  BY <1>1, NoneAssumption, PagesAssumption DEF Good, Dirs
<1> HIDE DEF D2
<1>7. GivesDirectory(n, D2, D, e, h)
  BY <1>1, <1>3, <1>5 DEF GivesDirectory, Node
<1> HIDE DEF h
<1>8. \A p \in Page : n.ref[p] = Count(n, D2, p)
  <2> TAKE p \in Page
  <2>1. Count(n, D, p) = Count(n, D2, p) + One(p = h)
    BY <1>7, CountDirectory
  <2>2. Count(n, D, p) = Count(m, D, p)
    <3>1. SameNodes(m, n, D) /\ SameLeaves(m, n, D)
      BY <1>3 DEF SameNodes, SameLeaves, Node, Leaf
    <3> QED BY <3>1, CountSame
  <2>3. Count(m, D, p) = m.ref[p]
    BY DEF Good
  <2>4. n.ref[p] = IF p = h THEN m.ref[p] - 1 ELSE m.ref[p]
    BY <1>1, <1>3, GoodFacts
  <2>5. One(p = h) = IF p = h THEN 1 ELSE 0
    BY DEF One
  <2> QED BY <2>1, <2>2, <2>3, <2>4, <2>5, RefsFinite
<1>9. /\ \A f \in LiveIn(D2), i \in Idx : Node(n, D2, f, i) = Node(m, D, f, i)
      /\ \A f \in LiveIn(D2), i, j \in Idx : Leaf(n, D2, f, i, j) = Leaf(m, D, f, i, j)
  BY <1>3, <1>5 DEF Node, Leaf
<1>10. Tree(n, D2)
  <2>1. \A f \in LiveIn(D2) : f \in LiveIn(D) /\ D2[f] = D[f]
    BY <1>5
  <2>2. \A f, g \in LiveIn(D2) : D2[f] = D2[g] => f = g
    BY <1>1, <2>1 DEF Tree
  <2>3. \A f, g \in LiveIn(D2), i \in Idx : Node(n, D2, g, i).p => Node(n, D2, g, i).ppn # D2[f]
    BY <1>1, <1>9, <2>1 DEF Tree
  <2>4. \A f, g \in LiveIn(D2), i, k \in Idx :
          /\ Node(n, D2, f, i).p /\ Node(n, D2, g, k).p
          /\ Node(n, D2, f, i).ppn = Node(n, D2, g, k).ppn
          => f = g /\ i = k
    BY <1>1, <1>9, <2>1 DEF Tree
  <2>5. \A f, g \in LiveIn(D2), i, j \in Idx :
          Leaf(n, D2, f, i, j).p =>
            /\ Leaf(n, D2, f, i, j).ppn # D2[g]
            /\ \A k \in Idx : Node(n, D2, g, k).p => Leaf(n, D2, f, i, j).ppn # Node(n, D2, g, k).ppn
    BY <1>1, <1>9, <2>1 DEF Tree
  <2> QED BY <2>2, <2>3, <2>4, <2>5 DEF Tree
<1>11. Entries(n)
  BY <1>3, GoodFacts DEF Entries
<1>12. Good(n, D2, {})
  BY <1>3, <1>4, <1>5, <1>6, <1>8, <1>10, <1>11 DEF Good
<1>13. ASSUME Clean(m, D) PROVE Clean(n, D2)
  BY <1>3, <1>5, <1>9, <1>13 DEF Clean, LiveIn
<1>14. TornDown(m, D, e, n, D2)
  BY <1>3, <1>5, <1>9, <1>13 DEF TornDown
<1> QED BY <1>12, <1>14 DEF n, h, D2

-----------------------------------------------------------------------------
(* What the calls and env_free do to the tables                            *)

\* No page has more pointers than its count can hold.
Fits(m, D) == \A p \in Page : Count(m, D, p) < RefMod

\* What every call leaves as it was.
Keeps == /\ Good(pages', env_pgdir, {}) /\ Forgets(pages, pages', env_pgdir)
         /\ Clean(pages, env_pgdir) => Clean(pages', env_pgdir)

\* sys_page_alloc changes one address or none.
LEMMA AllocEffect ==
  ASSUME Good(pages, env_pgdir, {}), Fits(pages', env_pgdir),
         NEW c \in Cpu, NEW e \in Env, NEW va \in Idx \X Idx, NEW w \in BOOLEAN,
         SysPageAlloc(c, e, va, w)
  PROVE  /\ Keeps /\ e \in LiveIn(env_pgdir)
         /\ \/ SameLeaves(pages, pages', env_pgdir)
            \/ \E p \in Page :
                 /\ SetsLeaf(pages, pages', env_pgdir, e, va[1], va[2],
                             [ppn |-> p, p |-> TRUE, w |-> w])
                 /\ \A f \in LiveIn(env_pgdir), i, j \in Idx : ~To(Leaf(pages, env_pgdir, f, i, j), p)
                 /\ p \notin pages'.stored
<1> DEFINE D == env_pgdir
           p == Head(pages.free)
           m == PageAlloc(pages)
<1>1. /\ e \in LiveIn(D) /\ pages.free # << >>
      /\ pages' = IF CanWalk(m, D[e], va) THEN PageInsert(m, D[e], p, va, w) ELSE PageFree(m, p)
  BY DEF SysPageAlloc, Editing, LiveIn
<1>2. /\ Good(m, D, {p})
      /\ SameNodes(pages, m, D) /\ SameLeaves(pages, m, D)
      /\ Forgets(pages, m, D) /\ p \notin m.stored
      /\ p \in Unused(pages)
  <2>1. {} \cup {p} = {p} /\ Unused(pages) \ {} = Unused(pages)
    OBVIOUS
  <2> HIDE DEF p, m
  <2> QED BY <1>1, <2>1, GoodAlloc DEF p, m
<1> HIDE DEF p, m
<1>3. Clean(pages, D) => Clean(m, D)
  BY <1>2, CleanKept DEF Forgets
<1>4. p \in Page \ {Page0} /\ pages.ref[p] = 0 /\ {p} \ {p} = {}
  BY <1>2 DEF Unused
<1>5. \A f \in LiveIn(D), i, j \in Idx : ~To(Leaf(pages, D, f, i, j), p)
  BY <1>4, GoodFacts
<1>6. CASE CanWalk(m, D[e], va)
  <2>1. pages' = PageInsert(m, D[e], p, va, w)
    BY <1>1, <1>6
  <2>2. Count(PageInsert(m, D[e], p, va, w), D, p) < RefMod
    BY <1>4, <2>1 DEF Fits
  <2>3. /\ Good(pages', D, {p} \ {p})
        /\ SetsLeaf(m, pages', D, e, va[1], va[2], [ppn |-> p, p |-> TRUE, w |-> w])
        /\ Forgets(m, pages', D)
        /\ Clean(m, D) => Clean(pages', D)
    <3> DEFINE X == {p}
    <3>1. Good(m, D, X) /\ e \in LiveIn(D) /\ p \in X /\ p \in Page \ {Page0}
      BY <1>1, <1>2, <1>4
    <3> HIDE DEF X
    <3>2. /\ Good(pages', D, X \ {p})
          /\ SetsLeaf(m, pages', D, e, va[1], va[2], [ppn |-> p, p |-> TRUE, w |-> w])
          /\ Forgets(m, pages', D)
          /\ Clean(m, D) => Clean(pages', D)
      BY <1>6, <2>1, <2>2, <3>1, GoodInsert
    <3> QED BY <3>2 DEF X
  <2>4. Forgets(pages, pages', D) /\ p \notin pages'.stored
    BY <1>2, <2>3 DEF Forgets, SameLeaves
  <2>5. SetsLeaf(pages, pages', D, e, va[1], va[2], [ppn |-> p, p |-> TRUE, w |-> w])
    BY <1>2, <2>3 DEF SetsLeaf, SameLeaves
  <2> QED BY <1>1, <1>3, <1>4, <1>5, <2>3, <2>4, <2>5 DEF Keeps
<1>7. CASE ~CanWalk(m, D[e], va)
  <2>1. pages' = PageFree(m, p)
    BY <1>1, <1>7
  <2>2. Good(pages', D, {p} \ {p}) /\ SameNodes(m, pages', D) /\ SameLeaves(m, pages', D)
        /\ pages'.stored = m.stored
    BY <1>2, <2>1, GoodFree
  <2>3. Forgets(pages, pages', D) /\ SameLeaves(pages, pages', D)
    BY <1>2, <2>2 DEF Forgets, SameLeaves
  <2>4. Clean(m, D) => Clean(pages', D)
    BY <2>2, CleanKept
  <2> QED BY <1>1, <1>3, <1>4, <2>2, <2>3, <2>4 DEF Keeps
<1> QED BY <1>6, <1>7

\* sys_page_map, and sys_ipc_try_send, when the source is mapped.
LEMMA MapEffect ==
  ASSUME ~NameUnmapped, Good(pages, env_pgdir, {}), Fits(pages', env_pgdir),
         NEW c \in Cpu, NEW e \in Env, NEW va \in Idx \X Idx,
         NEW f \in Env, NEW vb \in Idx \X Idx, NEW w \in BOOLEAN,
         SysPageMap(c, e, va, f, vb, w)
  PROVE  LET source == Leaf(pages, env_pgdir, e, va[1], va[2])
         IN /\ Keeps /\ e \in LiveIn(env_pgdir) /\ f \in LiveIn(env_pgdir)
            /\ source.p /\ (w => source.w)
            /\ SetsLeaf(pages, pages', env_pgdir, f, vb[1], vb[2],
                        [ppn |-> source.ppn, p |-> TRUE, w |-> w])
<1> DEFINE D == env_pgdir
           source == Leaf(pages, D, e, va[1], va[2])
           p == source.ppn
<1>1. /\ e \in LiveIn(D) /\ f \in LiveIn(D)
      /\ HasTable(pages, D[e], va) /\ Pte(pages, D[e], va).p
      /\ (w => Pte(pages, D[e], va).w)
      /\ CanWalk(pages, D[f], vb)
      /\ pages' = PageInsert(pages, D[f], Pte(pages, D[e], va).ppn, vb, w)
  BY DEF SysPageMap, Editing, LiveIn, Mapped, PageLookup
<1>2. Pte(pages, D[e], va) = source
  BY <1>1, PteIsLeaf
<1>3. va[1] \in Idx /\ va[2] \in Idx
  OBVIOUS
<1> HIDE DEF source
<1>4. p \in Page \ {Page0}
  BY <1>1, <1>2, <1>3, LeafUsed DEF source
<1>5. \E g \in LiveIn(D), k, l \in Idx : To(Leaf(pages, D, g, k, l), p)
  BY <1>1, <1>2, <1>3 DEF To, source
<1>6. pages' = PageInsert(pages, D[f], p, vb, w)
  BY <1>1, <1>2
<1>7. Count(PageInsert(pages, D[f], p, vb, w), D, p) < RefMod
  BY <1>4, <1>6 DEF Fits
<1>8. /\ Good(pages', D, {} \ {p})
      /\ SetsLeaf(pages, pages', D, f, vb[1], vb[2], [ppn |-> p, p |-> TRUE, w |-> w])
      /\ Forgets(pages, pages', D)
      /\ Clean(pages, D) => Clean(pages', D)
  <2> HIDE DEF p
  <2> QED BY <1>1, <1>4, <1>5, <1>6, <1>7, GoodInsert
<1>9. {} \ {p} = {}
  OBVIOUS
<1> QED BY <1>1, <1>2, <1>8, <1>9 DEF Keeps, source

\* sys_page_unmap of an address that is mapped.
LEMMA UnmapEffect ==
  ASSUME Good(pages, env_pgdir, {}), NEW e \in LiveIn(env_pgdir), NEW va \in Idx \X Idx,
         Mapped(pages, env_pgdir[e], va), pages' = PageRemove(pages, env_pgdir[e], va)
  PROVE  /\ Keeps
         /\ SetsLeaf(pages, pages', env_pgdir, e, va[1], va[2], Empty)
<1>1. /\ Good(pages', env_pgdir, {})
      /\ SetsLeaf(pages, pages', env_pgdir, e, va[1], va[2], Empty)
      /\ pages'.stored = pages.stored
      /\ Clean(pages, env_pgdir) => Clean(pages', env_pgdir)
  BY GoodRemove
<1> QED BY <1>1 DEF Keeps, Forgets

\* The environment whose directory env_free takes apart.
LEMMA FreeEffect ==
  ASSUME TypeInv, Good(pages, env_pgdir, {}), FreePage \/ FreeTable
  PROVE  /\ Keeps /\ freeing # None /\ freeing[2] \in LiveIn(env_pgdir)
         /\ \/ SameLeaves(pages, pages', env_pgdir)
            \/ \E i, j \in Idx : /\ Leaf(pages, env_pgdir, freeing[2], i, j).p
                                 /\ SetsLeaf(pages, pages', env_pgdir, freeing[2], i, j, Empty)
<1> DEFINE D == env_pgdir
           e == freeing[2]
<1>1. freeing # None /\ e \in LiveIn(D) /\ Dir = D[e]
  BY DEF FreePage, FreeTable, TypeInv, TypeOK, HasDirectory, LiveIn, Dir
<1>2. CASE FreePage
  <2>1. PICK i \in Idx, j \in Idx :
          FirstPage(i, j) /\ pages' = PageRemove(pages, Dir, <<i, j>>)
    BY <1>2 DEF FreePage
  <2>2. <<i, j>> \in Idx \X Idx /\ <<i, j>>[1] = i /\ <<i, j>>[2] = j
    OBVIOUS
  <2>3. Mapped(pages, D[e], <<i, j>>)
    BY <1>1, <2>1 DEF FirstPage, FirstTable, Mapped, HasTable
  <2>4. Keeps /\ SetsLeaf(pages, pages', D, e, <<i, j>>[1], <<i, j>>[2], Empty)
    <3> DEFINE va == <<i, j>>
    <3>1. pages' = PageRemove(pages, D[e], va) /\ va \in Idx \X Idx /\ Mapped(pages, D[e], va)
      BY <1>1, <2>1, <2>2, <2>3
    <3>2. e \in LiveIn(D)
      BY <1>1
    <3> HIDE DEF va, e
    <3>3. Keeps /\ SetsLeaf(pages, pages', D, e, va[1], va[2], Empty)
      BY <3>1, <3>2, UnmapEffect
    <3> QED BY <3>3 DEF va, e
  <2>5. Leaf(pages, D, e, i, j).p
    BY <1>1, <2>2, <2>3, PteIsLeaf DEF Mapped
  <2> QED BY <1>1, <2>2, <2>4, <2>5
<1>3. CASE FreeTable
  <2>1. PICK i \in Idx :
          /\ FirstTable(i) /\ \A j \in Idx : ~Pte(pages, Dir, <<i, j>>).p
          /\ pages' = PageDecref([pages EXCEPT !.mem[Dir][i] = Empty], pages.mem[Dir][i].ppn)
    BY <1>3 DEF FreeTable
  <2>2. Node(pages, D, e, i) = pages.mem[Dir][i] /\ Node(pages, D, e, i).p
    BY <1>1, <2>1 DEF FirstTable, Node
  <2>3. \A j \in Idx : ~Leaf(pages, D, e, i, j).p
    BY <1>1, <2>1, <2>2 DEF Leaf, Pte, Table
  <2>4. /\ Good(pages', D, {})
        /\ SameLeaves(pages, pages', D) /\ pages'.stored = pages.stored
        /\ Clean(pages, D) => Clean(pages', D)
    <3>1. pages' = PageDecref([pages EXCEPT !.mem[D[e]][i] = Empty], Node(pages, D, e, i).ppn)
      BY <1>1, <2>1, <2>2
    <3>2. e \in LiveIn(D)
      BY <1>1
    <3> HIDE DEF e
    <3> QED BY <2>2, <2>3, <3>1, <3>2, GoodFreeTable
  <2> QED BY <1>1, <2>4 DEF Keeps, Forgets
<1> QED BY <1>2, <1>3

-----------------------------------------------------------------------------
(* Counts and the free list                                                *)

\* What the reference counts can hold: no page has RefMod pointers or more.
CountsFit == \A p \in Page : Refs(p) < RefMod

\* The same pointers, counted over the environments that have a directory.
LEMMA SameCount ==
  /\ Live = LiveIn(env_pgdir)
  /\ \A p : DirRefs(p) = DRefs(env_pgdir, p)
  /\ \A p : TableRefs(p) = TRefs(pages, env_pgdir, p)
  /\ \A p : PageRefs(p) = PRefs(pages, env_pgdir, p)
<1>1. Live = LiveIn(env_pgdir)
  BY DEF Live, LiveIn
<1>2. \A p : DirRefs(p) = DRefs(env_pgdir, p)
  BY <1>1 DEF DirRefs, DRefs
<1>3. \A p : TableRefs(p) = TRefs(pages, env_pgdir, p)
  BY <1>1 DEF TableRefs, TRefs, Pde, Node
<1>4. ASSUME NEW p PROVE PageRefs(p) = PRefs(pages, env_pgdir, p)
  <2>1. \A e, i, j : (Pde(e, i).p /\ Pte(pages, env_pgdir[e], <<i, j>>).p
                                  /\ Pte(pages, env_pgdir[e], <<i, j>>).ppn = p)
                     <=> To(Leaf(pages, env_pgdir, e, i, j), p)
    BY DEF Pde, Pte, Table, Leaf, Node, To, Empty
  <2>2. PageRefs(p) = {x \in Live \X Idx \X Idx :
                         /\ Pde(x[1], x[2]).p
                         /\ Pte(pages, env_pgdir[x[1]], <<x[2], x[3]>>).p
                         /\ Pte(pages, env_pgdir[x[1]], <<x[2], x[3]>>).ppn = p}
    BY DEF PageRefs
  <2>3. PRefs(pages, env_pgdir, p) = {x \in Live \X Idx \X Idx :
                                        To(Leaf(pages, env_pgdir, x[1], x[2], x[3]), p)}
    BY <1>1 DEF PRefs, To
  <2> QED BY <2>1, <2>2, <2>3
<1> QED BY <1>1, <1>2, <1>3, <1>4

\* The count of PageTables is the one of the proof.
LEMMA RefsCounted == \A p : Refs(p) = Count(pages, env_pgdir, p)
BY SameCount DEF Refs, Count

\* The same in the next state.
LEMMA FitsNext == CountsFit' => Fits(pages', env_pgdir')
<1> SUFFICES ASSUME CountsFit' PROVE Fits(pages', env_pgdir')
  OBVIOUS
<1>1. (\A p : Refs(p) = Count(pages, env_pgdir, p))'
  BY RefsCounted, PTL
<1> QED BY <1>1 DEF CountsFit, Fits

\* The tables and the counts between two calls.
Shape == Good(pages, env_pgdir, {})

\* A store changes what is in a page, never a table that somebody uses.
LEMMA SameButStored ==
  ASSUME NEW m, NEW n, NEW D, NEW X, Good(m, D, X), n \in Pages,
         n.ref = m.ref, n.free = m.free, n.mem = m.mem
  PROVE  Good(n, D, X) /\ SameNodes(m, n, D) /\ SameLeaves(m, n, D)
<1>1. SameNodes(m, n, D) /\ SameLeaves(m, n, D)
  BY DEF SameNodes, SameLeaves, Node, Leaf
<1>2. Tree(n, D) /\ Entries(n)
  BY <1>1, GoodFacts, TreeSame DEF Entries
<1>3. \A p : Count(n, D, p) = Count(m, D, p)
  BY <1>1, CountSame
<1>4. Unused(n) = Unused(m)
  BY DEF Unused
<1> QED BY <1>1, <1>2, <1>3, <1>4 DEF Good

\* No tables yet, and all pages but page 0 are free.
LEMMA ShapeInit == Init => Shape
<1> SUFFICES ASSUME Init PROVE Shape
  OBVIOUS
<1>1. PICK free \in [1 .. Cardinality(Page) - 1 -> Page \ {Page0}] :
        /\ Lists(free, Page \ {Page0})
        /\ pages = [ref |-> [p \in Page |-> 0], free |-> free,
                    mem |-> [p \in Page |-> Zeros], stored |-> {}]
  BY DEF Init
<1>2. pages \in Pages /\ env_pgdir \in Dirs
  BY InitTypes DEF TypeInv, TypeOK, Dirs
<1>3. LiveIn(env_pgdir) = {}
  BY DEF Init, LiveIn
<1>4. \A e \in Env : env_pgdir[e] # Page0
  BY NoneAssumption, PagesAssumption DEF Init
<1>5. Entries(pages)
  <2>1. \A q \in Page, i \in Idx : pages.mem[q][i] = Empty
    BY <1>1 DEF Zeros
  <2>2. ~Empty.p
    BY DEF Empty
  <2> QED BY <2>1, <2>2 DEF Entries
<1>6. Tree(pages, env_pgdir)
  BY <1>3 DEF Tree
<1>7. \A p \in Page : pages.ref[p] = Count(pages, env_pgdir, p)
  <2> TAKE p \in Page
  <2>1. Count(pages, env_pgdir, p) = 0
    BY <1>3, CountZero
  <2> QED BY <1>1, <2>1
<1>8. Lists(pages.free, Unused(pages) \ {})
  <2>1. Unused(pages) \ {} = Page \ {Page0}
    BY <1>1 DEF Unused
  <2> QED BY <1>1, <2>1
<1> QED BY <1>2, <1>4, <1>5, <1>6, <1>7, <1>8 DEF Shape, Good

\* Every step keeps tables and counts right, while the counts fit.
LEMMA ShapeStep == ~NameUnmapped /\ TypeInv /\ Shape /\ CountsFit' /\ [Next]_vars => Shape'
<1> SUFFICES ASSUME ~NameUnmapped, TypeInv, Shape, CountsFit', [Next]_vars PROVE Shape'
  OBVIOUS
<1> USE VaAssumption
<1>1. Good(pages, env_pgdir, {}) /\ Fits(pages', env_pgdir')
  BY FitsNext DEF Shape
<1>2. ASSUME Keeps, env_pgdir' = env_pgdir PROVE Shape'
  BY <1>2 DEF Keeps, Shape
<1>3. ASSUME NEW c \in Cpu, Call(c) PROVE Shape'
  <2>1. PICK e \in Env, va \in Va :
          \/ \E w \in BOOLEAN : SysPageAlloc(c, e, va, w)
          \/ \E f \in Env, vb \in Va, w \in BOOLEAN : SysPageMap(c, e, va, f, vb, w)
          \/ SysPageUnmap(c, e, va)
    BY <1>3 DEF Call
  <2>2. env_pgdir' = env_pgdir
    BY <2>1 DEF SysPageAlloc, SysPageMap, SysPageUnmap
  <2>3. va \in Idx \X Idx
    OBVIOUS
  <2>4. Fits(pages', env_pgdir)
    BY <1>1, <2>2
  <2>5. CASE \E w \in BOOLEAN : SysPageAlloc(c, e, va, w)
    BY <1>1, <1>2, <2>2, <2>3, <2>4, <2>5, AllocEffect
  <2>6. CASE \E f \in Env, vb \in Va, w \in BOOLEAN : SysPageMap(c, e, va, f, vb, w)
    <3>1. PICK f \in Env, vb \in Va, w \in BOOLEAN : SysPageMap(c, e, va, f, vb, w)
      BY <2>6
    <3>2. vb \in Idx \X Idx
      OBVIOUS
    <3> QED BY <1>1, <1>2, <2>2, <2>3, <2>4, <3>1, <3>2, MapEffect
  <2>7. CASE SysPageUnmap(c, e, va)
    <3>1. /\ e \in LiveIn(env_pgdir) /\ Mapped(pages, env_pgdir[e], va)
          /\ pages' = PageRemove(pages, env_pgdir[e], va)
      BY <2>7 DEF SysPageUnmap, Editing, LiveIn
    <3> QED BY <1>1, <1>2, <2>2, <2>3, <3>1, UnmapEffect
  <2> QED BY <2>1, <2>5, <2>6, <2>7
<1>4. ASSUME NEW c \in Cpu, NEW e \in Env, EnvSetupVm(c, e) PROVE Shape'
  <2>1. /\ env_pgdir[e] = None /\ pages.free # << >>
        /\ pages' = PageIncref(PageAlloc(pages), Head(pages.free))
        /\ env_pgdir' = [env_pgdir EXCEPT ![e] = Head(pages.free)]
    BY <1>4 DEF EnvSetupVm
  <2> QED BY <1>1, <2>1, GoodSetup DEF Shape
<1>5. ASSUME NEW c \in Cpu, NEW t \in tlb[c], Store(c, t) PROVE Shape'
  <2>1. pages' \in Pages
    BY <1>5, StepTypes DEF TypeInv, TypeOK
  <2>2. /\ pages'.ref = pages.ref /\ pages'.free = pages.free /\ pages'.mem = pages.mem
        /\ env_pgdir' = env_pgdir
    BY <1>5 DEF Store, TypeInv, TypeOK, Pages
  <2> QED BY <1>1, <2>1, <2>2, SameButStored DEF Shape
<1>6. CASE FreePage \/ FreeTable
  <2>1. env_pgdir' = env_pgdir
    BY <1>6 DEF FreePage, FreeTable
  <2> QED BY <1>1, <1>2, <1>6, <2>1, FreeEffect
<1>7. CASE FreeDirectory
  <2> DEFINE e == freeing[2]
  <2>1. e \in LiveIn(env_pgdir) /\ Dir = env_pgdir[e]
    BY <1>7 DEF FreeDirectory, TypeInv, TypeOK, HasDirectory, LiveIn, Dir
  <2>2. \A i \in Idx : ~Node(pages, env_pgdir, e, i).p
    BY <1>7, <2>1 DEF FreeDirectory, Node
  <2>3. pages' = PageDecref(pages, env_pgdir[e]) /\ env_pgdir' = [env_pgdir EXCEPT ![e] = None]
    BY <1>7, <2>1 DEF FreeDirectory
  <2> HIDE DEF e
  <2> QED BY <1>1, <2>1, <2>2, <2>3, GoodFreeDirectory DEF Shape
<1>8. ASSUME UNCHANGED <<pages, env_pgdir>> PROVE Shape'
  BY <1>8 DEF Shape
<1>9. ASSUME NEW c \in Cpu, NEW e \in Env, EnvFree(c, e) \/ EnvRun(c, e) PROVE Shape'
  BY <1>8, <1>9 DEF EnvFree, EnvRun
<1>10. ASSUME NEW c \in Cpu, NEW va \in Va, Fill(c, va) PROVE Shape'
  BY <1>8, <1>10 DEF Fill
<1>11. CASE UNCHANGED vars
  BY <1>8, <1>11 DEF vars
<1> QED BY <1>3, <1>4, <1>5, <1>6, <1>7, <1>9, <1>10, <1>11 DEF Next

\* What RefExact, FreeExact say, from the shape.
LEMMA ShapeMeans == Shape => RefExact /\ FreeExact
<1> SUFFICES ASSUME Shape PROVE RefExact /\ FreeExact
  OBVIOUS
<1>1. \A p \in Page : pages.ref[p] = Refs(p)
  BY RefsCounted DEF Shape, Good
<1>2. Unused(pages) \ {} = {p \in Page \ {Page0} : Refs(p) = 0}
  BY <1>1 DEF Unused
<1> QED BY <1>1, <1>2 DEF RefExact, FreeExact, Shape, Good

-----------------------------------------------------------------------------
(* Translations                                                            *)

\* Translation t is what the tables of e say.
Says(m, D, e, t) == LET leaf == Leaf(m, D, e, t.va[1], t.va[2])
                    IN leaf.p /\ leaf.ppn = t.ppn /\ (t.w => leaf.w)
Fresh == \A c \in Cpu : InUser(c) => \A t \in tlb[c] : Says(pages, env_pgdir, curenv[c], t)

\* No other CPU runs the environment that is taken apart.
Alone == freeing # None => \A d \in Cpu \ {freeing[1]} : curenv[d] # freeing[2]

\* What CPUs know of the tables is right, and nobody writes to them.
Private == Fresh /\ Alone /\ Clean(pages, env_pgdir) /\ InVa(pages, env_pgdir)

\* The address space of e does not change.
Kept(e) == \A i, j \in Idx : Leaf(pages', env_pgdir', e, i, j) = Leaf(pages, env_pgdir, e, i, j)

\* A CPU in user mode runs an environment that has a directory.
LEMMA UserFacts ==
  ASSUME TypeInv, NEW c \in Cpu, InUser(c)
  PROVE  /\ curenv[c] \in LiveIn(env_pgdir)
         /\ \A t \in tlb[c] : t.va \in Idx \X Idx /\ t.va[1] \in Idx /\ t.va[2] \in Idx
BY VaAssumption DEF TypeInv, TypeOK, HasDirectory, InUser, LiveIn, Translation

\* A TLB stays right that is emptied, or whose environment is not changed.
LEMMA FreshKept ==
  ASSUME TypeInv, Fresh,
         \A d \in Cpu : InUser(d)' =>
           \/ tlb'[d] = {}
           \/ /\ InUser(d) /\ curenv'[d] = curenv[d] /\ tlb'[d] = tlb[d]
              /\ Kept(curenv[d])
  PROVE  Fresh'
<1> SUFFICES ASSUME NEW d \in Cpu, InUser(d)', NEW t \in tlb'[d]
             PROVE  Says(pages', env_pgdir', curenv'[d], t)
  BY DEF Fresh
<1>1. InUser(d) /\ curenv'[d] = curenv[d] /\ tlb'[d] = tlb[d] /\ Kept(curenv[d])
  OBVIOUS
<1>2. t.va[1] \in Idx /\ t.va[2] \in Idx
  BY <1>1, UserFacts
<1>3. Says(pages, env_pgdir, curenv[d], t)
  BY <1>1 DEF Fresh
<1> QED BY <1>1, <1>2, <1>3 DEF Says, Kept

\* The address spaces that a call on e leaves as they are.
LEMMA OthersKept ==
  ASSUME NEW e, NEW f \in LiveIn(env_pgdir), f # e, env_pgdir' = env_pgdir,
         \/ SameLeaves(pages, pages', env_pgdir)
         \/ \E i, j, entry : SetsLeaf(pages, pages', env_pgdir, e, i, j, entry)
  PROVE  Kept(f)
BY DEF Kept, SameLeaves, SetsLeaf

\* lcr3 empties the TLB of one CPU.
LEMMA FlushFacts ==
  ASSUME TypeInv, NEW c \in Cpu, Flush(c)
  PROVE  \A d \in Cpu : tlb'[d] = IF d = c THEN {} ELSE tlb[d]
BY DEF Flush, TypeInv, TypeOK

\* A call changes the tables of an environment that no other CPU runs.
LEMMA CallPrivate ==
  ASSUME ~NameUnmapped, ~EditRunning, TypeInv, Shape, Private, CountsFit',
         NEW c \in Cpu, Call(c)
  PROVE  Private'
<1> USE VaAssumption
<1>1. PICK e \in Env, va \in Va :
        \/ \E w \in BOOLEAN : SysPageAlloc(c, e, va, w)
        \/ \E f \in Env, vb \in Va, w \in BOOLEAN : SysPageMap(c, e, va, f, vb, w)
        \/ SysPageUnmap(c, e, va)
  BY DEF Call
<1>2. UNCHANGED <<env_pgdir, curenv, freeing>> /\ Flush(c)
  BY <1>1 DEF SysPageAlloc, SysPageMap, SysPageUnmap
<1>3. Good(pages, env_pgdir, {}) /\ Fits(pages', env_pgdir)
  BY <1>2, FitsNext DEF Shape
<1>4. \A x \in Va : x \in Idx \X Idx
  OBVIOUS
<1>5. ASSUME NEW f \in Env, Editing(c, f), Keeps,
             \/ SameLeaves(pages, pages', env_pgdir)
             \/ \E x \in Va : \E entry : SetsLeaf(pages, pages', env_pgdir, f, x[1], x[2], entry)
      PROVE  Private'
  <2>1. Fresh'
    <3>1. ASSUME NEW d \in Cpu, InUser(d)', tlb'[d] # {}
          PROVE  /\ InUser(d) /\ curenv'[d] = curenv[d] /\ tlb'[d] = tlb[d]
                 /\ Kept(curenv[d])
      <4>1. d # c /\ tlb'[d] = tlb[d]
        BY <1>2, <3>1, FlushFacts
      <4>2. InUser(d)
        BY <1>2, <3>1 DEF InUser
      <4>3. curenv[d] # f
        BY <1>5, <4>1 DEF Editing
      <4>4. curenv[d] \in LiveIn(env_pgdir)
        BY <4>2, UserFacts
      <4>5. Kept(curenv[d])
        BY <1>2, <1>5, <4>3, <4>4, OthersKept
      <4> QED BY <1>2, <4>1, <4>2, <4>5
    <3> QED BY <3>1, FreshKept DEF Private
  <2>2. Alone'
    BY <1>2 DEF Private, Alone
  <2>3. Clean(pages', env_pgdir')
    BY <1>2, <1>5 DEF Keeps, Private
  <2>4. InVa(pages', env_pgdir')
    <3>1. CASE SameLeaves(pages, pages', env_pgdir)
      BY <1>2, <3>1 DEF Private, InVa, SameLeaves
    <3>2. CASE \E x \in Va : \E entry : SetsLeaf(pages, pages', env_pgdir, f, x[1], x[2], entry)
      <4>0. PICK x \in Va : \E entry : SetsLeaf(pages, pages', env_pgdir, f, x[1], x[2], entry)
        BY <3>2
      <4>1. PICK entry : SetsLeaf(pages, pages', env_pgdir, f, x[1], x[2], entry)
        BY <4>0
      <4>2. x = <<x[1], x[2]>>
        BY <1>4
      <4> QED BY <1>2, <4>1, <4>2 DEF Private, InVa, SetsLeaf
    <3> QED BY <1>5, <3>1, <3>2
  <2> QED BY <2>1, <2>2, <2>3, <2>4 DEF Private
<1>6. CASE \E w \in BOOLEAN : SysPageAlloc(c, e, va, w)
  <2>1. PICK w \in BOOLEAN : SysPageAlloc(c, e, va, w)
    BY <1>6
  <2>2. Editing(c, e)
    BY <2>1 DEF SysPageAlloc
  <2> QED BY <1>3, <1>4, <1>5, <2>1, <2>2, AllocEffect
<1>7. CASE \E f \in Env, vb \in Va, w \in BOOLEAN : SysPageMap(c, e, va, f, vb, w)
  <2>1. PICK f \in Env, vb \in Va, w \in BOOLEAN : SysPageMap(c, e, va, f, vb, w)
    BY <1>7
  <2>2. Editing(c, f)
    BY <2>1 DEF SysPageMap
  <2>3. \E entry : Keeps /\ SetsLeaf(pages, pages', env_pgdir, f, vb[1], vb[2], entry)
    <3>1. /\ Keeps
          /\ SetsLeaf(pages, pages', env_pgdir, f, vb[1], vb[2],
                      [ppn |-> Leaf(pages, env_pgdir, e, va[1], va[2]).ppn, p |-> TRUE, w |-> w])
      <4>1. va \in Idx \X Idx /\ vb \in Idx \X Idx
        BY <1>4
      <4> QED BY <1>3, <2>1, <4>1, MapEffect
    <3> QED BY <3>1
  <2> QED BY <1>5, <2>2, <2>3
<1>8. CASE SysPageUnmap(c, e, va)
  <2>1. /\ Editing(c, e) /\ e \in LiveIn(env_pgdir) /\ Mapped(pages, env_pgdir[e], va)
        /\ pages' = PageRemove(pages, env_pgdir[e], va)
    BY <1>8 DEF SysPageUnmap, Editing, LiveIn
  <2>2. Keeps /\ SetsLeaf(pages, pages', env_pgdir, e, va[1], va[2], Empty)
    BY <1>3, <1>4, <2>1, UnmapEffect
  <2> QED BY <1>5, <2>1, <2>2
<1> QED BY <1>1, <1>6, <1>7, <1>8

\* Nothing runs and nothing is cached.
LEMMA PrivateInit == Init => Private
BY DEF Init, Private, Fresh, InUser, Alone, Clean, InVa, LiveIn

\* A new directory: nobody runs in it yet.
LEMMA SetupPrivate ==
  ASSUME TypeInv, Shape, Private, NEW c \in Cpu, NEW e \in Env, EnvSetupVm(c, e)
  PROVE  Private'
<1> DEFINE D == env_pgdir
<1>1. /\ D[e] = None /\ pages.free # << >>
      /\ pages' = PageIncref(PageAlloc(pages), Head(pages.free))
      /\ env_pgdir' = [D EXCEPT ![e] = Head(pages.free)]
      /\ freeing = None /\ UNCHANGED <<curenv, freeing>> /\ Flush(c)
  BY DEF EnvSetupVm
<1>2. Good(pages, D, {}) /\ Fresh /\ Clean(pages, D) /\ InVa(pages, D)
  BY DEF Shape, Private
<1>3. /\ LiveIn(env_pgdir') = LiveIn(D) \cup {e}
      /\ \A f \in LiveIn(D), i, j \in Idx : Leaf(pages', env_pgdir', f, i, j) = Leaf(pages, D, f, i, j)
      /\ \A i, j \in Idx : Leaf(pages', env_pgdir', e, i, j) = Empty
      /\ Clean(pages', env_pgdir')
  <2>1. Good(pages, D, {}) /\ D[e] = None /\ pages.free # << >>
    BY <1>1, <1>2
  <2>2. pages' = PageIncref(PageAlloc(pages), Head(pages.free))
        /\ env_pgdir' = [D EXCEPT ![e] = Head(pages.free)]
    BY <1>1
  <2>3. /\ LiveIn(env_pgdir') = LiveIn(D) \cup {e}
        /\ \A f \in LiveIn(D), i, j \in Idx : Leaf(pages', env_pgdir', f, i, j) = Leaf(pages, D, f, i, j)
        /\ \A i, j \in Idx : Leaf(pages', env_pgdir', e, i, j) = Empty
        /\ Clean(pages, D) => Clean(pages', env_pgdir')
    <3>1. SetUp(pages, D, e, pages', env_pgdir')
      BY <2>1, <2>2, GoodSetup
    <3> QED BY <3>1 DEF SetUp
  <2> QED BY <1>2, <2>3
<1>4. Fresh'
  <2>1. ASSUME NEW d \in Cpu, InUser(d)', tlb'[d] # {}
        PROVE  /\ InUser(d) /\ curenv'[d] = curenv[d] /\ tlb'[d] = tlb[d]
               /\ Kept(curenv[d])
    <3>1. tlb'[d] = tlb[d] /\ curenv'[d] = curenv[d]
      BY <1>1, <2>1, FlushFacts
    <3>2. InUser(d)
      BY <1>1, <2>1 DEF InUser
    <3>3. Kept(curenv[d])
      BY <1>3, <3>2, UserFacts DEF Kept
    <3> QED BY <3>1, <3>2, <3>3
  <2> QED BY <1>2, <2>1, FreshKept
<1>5. InVa(pages', env_pgdir')
  <2>1. ~Empty.p
    BY DEF Empty
  <2> QED BY <1>2, <1>3, <2>1 DEF InVa
<1>6. Alone'
  BY <1>1 DEF Alone
<1> QED BY <1>3, <1>4, <1>5, <1>6 DEF Private

\* What the hardware caches is what the tables say.
LEMMA FillPrivate ==
  ASSUME TypeInv, Shape, Private, NEW c \in Cpu, NEW va \in Va, Fill(c, va)
  PROVE  Private'
<1> USE VaAssumption
<1> DEFINE D == env_pgdir
           e == curenv[c]
           leaf == Leaf(pages, D, e, va[1], va[2])
           cached == [va |-> va, ppn |-> leaf.ppn, w |-> leaf.w]
<1>1. /\ InUser(c) /\ Mapped(pages, D[e], va)
      /\ tlb' = [tlb EXCEPT ![c] = {t \in @ : t.va # va}
           \cup {[va |-> va, ppn |-> Pte(pages, D[e], va).ppn, w |-> Pte(pages, D[e], va).w]}]
      /\ UNCHANGED <<pages, env_pgdir, curenv, freeing>>
  BY DEF Fill
<1>2. e \in LiveIn(D) /\ va \in Idx \X Idx
  BY <1>1, UserFacts
<1>3. Pte(pages, D[e], va) = leaf /\ leaf.p
  BY <1>1, <1>2, PteIsLeaf DEF Mapped
<1>4. tlb' = [tlb EXCEPT ![c] = {t \in @ : t.va # va} \cup {cached}]
  BY <1>1, <1>3
<1>5. Says(pages, D, e, cached)
  BY <1>3 DEF Says
<1> HIDE DEF cached
<1>6. \A d \in Cpu : tlb'[d] \subseteq IF d = c THEN tlb[d] \cup {cached} ELSE tlb[d]
  BY <1>4 DEF TypeInv, TypeOK
<1>7. \A d \in Cpu : InUser(d)' => InUser(d)
  BY <1>1 DEF InUser
<1>8. Fresh'
  BY <1>1, <1>5, <1>6, <1>7 DEF Fresh, Private
<1> QED BY <1>1, <1>8 DEF Private, Alone

\* A store goes to a page of user data, since its translation is right.
LEMMA StorePrivate ==
  ASSUME TypeInv, Shape, Private, NEW c \in Cpu, NEW t \in tlb[c], Store(c, t)
  PROVE  Private'
<1> DEFINE D == env_pgdir
<1>1. Good(pages, D, {}) /\ Fresh /\ Clean(pages, D) /\ InVa(pages, D) /\ Alone
  BY DEF Shape, Private
<1>2. /\ InUser(c) /\ pages' = [pages EXCEPT !.stored = @ \cup {t.ppn}]
      /\ UNCHANGED <<env_pgdir, curenv, tlb, freeing>>
  BY DEF Store
<1>3. /\ pages'.ref = pages.ref /\ pages'.free = pages.free /\ pages'.mem = pages.mem
      /\ pages'.stored = pages.stored \cup {t.ppn}
  BY <1>2 DEF TypeInv, TypeOK, Pages
<1>4. pages' \in Pages
  <2>1. [Next]_vars
    BY DEF Next
  <2> QED BY <2>1, StepTypes DEF TypeInv, TypeOK
<1>5. SameNodes(pages, pages', D) /\ SameLeaves(pages, pages', D)
  BY <1>1, <1>3, <1>4, SameButStored
<1>6. /\ \A f \in LiveIn(D) : D[f] # t.ppn
      /\ \A f \in LiveIn(D), k \in Idx : ~To(Node(pages, D, f, k), t.ppn)
  <2>1. curenv[c] \in LiveIn(D) /\ t.va[1] \in Idx /\ t.va[2] \in Idx
    BY <1>2, UserFacts
  <2>2. /\ Leaf(pages, D, curenv[c], t.va[1], t.va[2]).p
        /\ Leaf(pages, D, curenv[c], t.va[1], t.va[2]).ppn = t.ppn
    BY <1>1, <1>2 DEF Fresh, Says
  <2> QED BY <1>1, <2>1, <2>2, LeafUsed
<1>7. Clean(pages', D)
  BY <1>1, <1>3, <1>5, <1>6 DEF Clean, SameNodes, To
<1>8. InVa(pages', D)
  BY <1>1, <1>5 DEF InVa, SameLeaves
<1>9. Fresh'
  <2>1. ASSUME NEW d \in Cpu, InUser(d)'
        PROVE  /\ InUser(d) /\ curenv'[d] = curenv[d] /\ tlb'[d] = tlb[d]
               /\ Kept(curenv[d])
    <3>1. InUser(d)
      BY <1>2, <2>1 DEF InUser
    <3>2. Kept(curenv[d])
      BY <1>2, <1>5, <3>1, UserFacts DEF Kept, SameLeaves
    <3> QED BY <1>2, <3>1, <3>2
  <2> QED BY <1>1, <2>1, FreshKept
<1>10. Alone'
  BY <1>1, <1>2 DEF Alone
<1> QED BY <1>2, <1>7, <1>8, <1>9, <1>10 DEF Private

\* env_free and env_run change what a CPU runs or may cache.
LEMMA EnterPrivate ==
  ASSUME TypeInv, Private, NEW c \in Cpu, NEW e \in Env, EnvFree(c, e) \/ EnvRun(c, e)
  PROVE  Private'
<1>1. Fresh /\ UNCHANGED <<pages, env_pgdir>> /\ freeing = None
  BY DEF EnvFree, EnvRun, Private
<1>2. \A f : Kept(f)
  BY <1>1 DEF Kept
<1>3. CASE EnvFree(c, e)
  <2>1. /\ \A d \in Cpu \ {c} : curenv[d] # e
        /\ freeing' = <<c, e>> /\ UNCHANGED curenv
        /\ \A d \in Cpu : d # c => tlb'[d] = tlb[d]
    BY <1>3 DEF EnvFree, TypeInv, TypeOK
  <2>2. freeing'[1] = c /\ freeing'[2] = e
    BY <2>1
  <2>3. \A d \in Cpu : InUser(d)' => InUser(d)
    BY <1>1, <2>1 DEF InUser
  <2>4. tlb'[c] = {} \/ tlb'[c] = tlb[c]
    BY <1>3 DEF EnvFree, TypeInv, TypeOK
  <2>5. Fresh'
    BY <1>1, <1>2, <2>1, <2>3, <2>4, FreshKept
  <2>6. Alone'
    BY <2>1, <2>2 DEF Alone
  <2> QED BY <1>1, <2>5, <2>6 DEF Private
<1>4. CASE EnvRun(c, e)
  <2>1. curenv' = [curenv EXCEPT ![c] = e] /\ UNCHANGED freeing /\ Flush(c)
    BY <1>4 DEF EnvRun
  <2>2. \A d \in Cpu : d # c => curenv'[d] = curenv[d]
    BY <2>1 DEF TypeInv, TypeOK
  <2>3. ASSUME NEW d \in Cpu, d # c, InUser(d)' PROVE InUser(d)
    BY <2>1, <2>2, <2>3 DEF InUser
  <2>4. Fresh'
    BY <1>1, <1>2, <2>1, <2>2, <2>3, FlushFacts, FreshKept
  <2>5. Alone'
    BY <1>1, <2>1 DEF Alone
  <2> QED BY <1>1, <2>4, <2>5 DEF Private
<1> QED BY <1>3, <1>4

\* env_free takes apart an address space that no other CPU runs.
LEMMA FreePrivate ==
  ASSUME TypeInv, Shape, Private, FreePage \/ FreeTable
  PROVE  Private'
<1> DEFINE D == env_pgdir
           e == freeing[2]
<1>1. Good(pages, D, {}) /\ Fresh /\ Alone /\ Clean(pages, D) /\ InVa(pages, D)
  BY DEF Shape, Private
<1>2. /\ Keeps /\ freeing # None /\ e \in LiveIn(D)
      /\ \/ SameLeaves(pages, pages', D)
         \/ \E i, j \in Idx : SetsLeaf(pages, pages', D, e, i, j, Empty)
  BY <1>1, FreeEffect
<1>3. UNCHANGED <<env_pgdir, curenv, tlb, freeing>>
  BY DEF FreePage, FreeTable
<1> HIDE DEF e
<1>4. Fresh'
  <2>1. ASSUME NEW d \in Cpu, InUser(d)'
        PROVE  /\ InUser(d) /\ curenv'[d] = curenv[d] /\ tlb'[d] = tlb[d]
               /\ Kept(curenv[d])
    <3>1. InUser(d)
      BY <1>3, <2>1 DEF InUser
    <3>2. d # freeing[1]
      BY <1>2, <3>1 DEF InUser
    <3>3. curenv[d] # e
      BY <1>1, <1>2, <3>2 DEF Alone, e
    <3>4. Kept(curenv[d])
      BY <1>2, <1>3, <3>1, <3>3, OthersKept, UserFacts
    <3> QED BY <1>3, <3>1, <3>4
  <2> QED BY <1>1, <2>1, FreshKept
<1>5. InVa(pages', D)
  <2>1. ~Empty.p
    BY DEF Empty
  <2> QED BY <1>1, <1>2, <2>1 DEF InVa, SameLeaves, SetsLeaf
<1>6. Clean(pages', D)
  BY <1>1, <1>2 DEF Keeps
<1>7. Alone'
  BY <1>1, <1>3 DEF Alone
<1> QED BY <1>3, <1>4, <1>5, <1>6, <1>7 DEF Private

\* The CPUs that ran the environment forget it with its directory.
LEMMA FreedPrivate ==
  ASSUME TypeInv, Shape, Private, FreeDirectory
  PROVE  Private'
<1> DEFINE D == env_pgdir
           e == freeing[2]
<1>1. Good(pages, D, {}) /\ Fresh /\ Clean(pages, D) /\ InVa(pages, D)
  BY DEF Shape, Private
<1>2. e \in LiveIn(D) /\ Dir = D[e] /\ freeing # None /\ freeing[1] \in Cpu
  BY DEF FreeDirectory, TypeInv, TypeOK, HasDirectory, LiveIn, Dir
<1>3. \A i \in Idx : ~Node(pages, D, e, i).p
  BY <1>2 DEF FreeDirectory, Node
<1>4. /\ pages' = PageDecref(pages, D[e]) /\ env_pgdir' = [D EXCEPT ![e] = None]
      /\ curenv' = [c \in Cpu |-> IF curenv[c] = e THEN None ELSE curenv[c]]
      /\ freeing' = None /\ Flush(freeing[1])
  BY <1>2 DEF FreeDirectory
<1> HIDE DEF e
<1>5. /\ LiveIn(env_pgdir') = LiveIn(D) \ {e}
      /\ \A f \in LiveIn(env_pgdir'), i, j \in Idx :
           Leaf(pages', env_pgdir', f, i, j) = Leaf(pages, D, f, i, j)
      /\ Clean(pages', env_pgdir')
  <2>1. Good(pages, D, {}) /\ e \in LiveIn(D) /\ \A i \in Idx : ~Node(pages, D, e, i).p
    BY <1>1, <1>2, <1>3
  <2>2. pages' = PageDecref(pages, D[e]) /\ env_pgdir' = [D EXCEPT ![e] = None]
    BY <1>4
  <2>3. /\ LiveIn(env_pgdir') = LiveIn(D) \ {e}
        /\ \A f \in LiveIn(env_pgdir'), i, j \in Idx :
             Leaf(pages', env_pgdir', f, i, j) = Leaf(pages, D, f, i, j)
        /\ Clean(pages, D) => Clean(pages', env_pgdir')
    <3>1. TornDown(pages, D, e, pages', env_pgdir')
      BY <2>1, <2>2, GoodFreeDirectory
    <3> QED BY <3>1 DEF TornDown
  <2> QED BY <1>1, <2>3
<1>6. Fresh'
  <2>1. ASSUME NEW d \in Cpu, InUser(d)', tlb'[d] # {}
        PROVE  /\ InUser(d) /\ curenv'[d] = curenv[d] /\ tlb'[d] = tlb[d]
               /\ Kept(curenv[d])
    <3>1. d # freeing[1] /\ tlb'[d] = tlb[d]
      BY <1>2, <1>4, <2>1, FlushFacts
    <3>2. curenv'[d] = curenv[d] /\ curenv[d] # None /\ curenv[d] # e
      BY <1>4, <2>1 DEF InUser
    <3>3. InUser(d)
      BY <3>1, <3>2 DEF InUser
    <3>4. Kept(curenv[d])
      BY <1>5, <3>2, <3>3, UserFacts DEF Kept
    <3> QED BY <3>1, <3>2, <3>3, <3>4
  <2> QED BY <1>1, <2>1, FreshKept
<1>7. InVa(pages', env_pgdir')
  BY <1>1, <1>5 DEF InVa
<1>8. Alone'
  BY <1>4 DEF Alone
<1> QED BY <1>5, <1>6, <1>7, <1>8 DEF Private

\* Every step keeps what CPUs may know of the tables.
LEMMA PrivateStep ==
  ~NameUnmapped /\ ~EditRunning /\ TypeInv /\ Shape /\ Private /\ CountsFit' /\ [Next]_vars
    => Private'
<1> SUFFICES ASSUME ~NameUnmapped, ~EditRunning, TypeInv, Shape, Private, CountsFit', [Next]_vars
             PROVE  Private'
  OBVIOUS
<1>1. CASE UNCHANGED vars
  BY <1>1 DEF vars, Private, Fresh, InUser, Alone
<1>2. CASE Next
  BY <1>2, CallPrivate, SetupPrivate, EnterPrivate, FillPrivate, StorePrivate, FreePrivate,
     FreedPrivate DEF Next
<1> QED BY <1>1, <1>2

\* Behind TablesPrivate and TlbFresh.
LEMMA PrivateMeans == TypeInv /\ Shape /\ Private => TablesPrivate /\ TlbFresh
<1> SUFFICES ASSUME TypeInv, Shape, Private PROVE TablesPrivate /\ TlbFresh
  OBVIOUS
<1> DEFINE D == env_pgdir
<1>1. Good(pages, D, {}) /\ Fresh /\ Clean(pages, D) /\ Tree(pages, D)
  BY GoodFacts DEF Shape, Private
<1>2. TlbFresh
  <2> SUFFICES ASSUME NEW c \in Cpu, InUser(c), NEW t \in tlb[c]
               PROVE  /\ Mapped(pages, env_pgdir[curenv[c]], t.va)
                      /\ LET entry == Pte(pages, env_pgdir[curenv[c]], t.va)
                         IN entry.ppn = t.ppn /\ (t.w => entry.w)
    BY DEF TlbFresh
  <2>1. curenv[c] \in LiveIn(D) /\ t.va \in Idx \X Idx
    BY UserFacts
  <2>2. LET leaf == Leaf(pages, D, curenv[c], t.va[1], t.va[2])
        IN leaf.p /\ leaf.ppn = t.ppn /\ (t.w => leaf.w)
    BY <1>1 DEF Fresh, Says
  <2>3. HasTable(pages, D[curenv[c]], t.va)
    BY <2>2 DEF HasTable, Leaf, Node, Empty
  <2>4. Pte(pages, D[curenv[c]], t.va) = Leaf(pages, D, curenv[c], t.va[1], t.va[2])
    BY <2>1, <2>3, PteIsLeaf
  <2> QED BY <2>2, <2>3, <2>4 DEF Mapped
<1>3. ASSUME NEW p \in Page, DirRefs(p) # {} \/ TableRefs(p) # {}
      PROVE  Refs(p) = 1 /\ PageRefs(p) = {} /\ p \notin pages.stored
  <2>1. DRefs(D, p) # {} \/ TRefs(pages, D, p) # {}
    BY <1>3, SameCount
  <2>2. PRefs(pages, D, p) = {}
    BY <1>1, <2>1 DEF PRefs, DRefs, TRefs, Tree
  <2>3. p \notin pages.stored
    BY <1>1, <2>1 DEF DRefs, TRefs, Clean
  <2>4. \/ (\E e : DRefs(D, p) = {e}) /\ TRefs(pages, D, p) = {}
        \/ DRefs(D, p) = {} /\ \E x : TRefs(pages, D, p) = {x}
    <3>1. CASE DRefs(D, p) # {}
      <4>1. PICK e \in LiveIn(D) : D[e] = p
        BY <3>1 DEF DRefs
      <4>2. DRefs(D, p) = {e}
        BY <1>1, <4>1 DEF DRefs, Tree
      <4>3. TRefs(pages, D, p) = {}
        BY <1>1, <4>1 DEF TRefs, Tree
      <4> QED BY <4>2, <4>3
    <3>2. CASE DRefs(D, p) = {}
      <4>1. PICK x \in TRefs(pages, D, p) : TRUE
        BY <2>1, <3>2
      <4>2. \A y \in TRefs(pages, D, p) : y = x
        BY <1>1, <4>1 DEF TRefs, Tree
      <4>3. TRefs(pages, D, p) = {x}
        BY <4>1, <4>2
      <4> QED BY <3>2, <4>3
    <3> QED BY <3>1, <3>2
  <2>5. Count(pages, D, p) = 1
    <3> DEFINE S == DRefs(D, p)
               T == TRefs(pages, D, p)
    <3>1. Cardinality(PRefs(pages, D, p)) = 0
      BY <2>2, FS_EmptySet
    <3>2. (Cardinality(S) = 1 /\ Cardinality(T) = 0) \/ (Cardinality(S) = 0 /\ Cardinality(T) = 1)
      <4>1. \/ (\E e : S = {e}) /\ T = {}
            \/ S = {} /\ \E x : T = {x}
        BY <2>4
      <4> HIDE DEF S, T
      <4> QED BY <4>1, FS_EmptySet, FS_Singleton
    <3> QED BY <3>1, <3>2 DEF Count
  <2> QED BY <2>2, <2>3, <2>5, SameCount, RefsCounted
<1> QED BY <1>2, <1>3 DEF TablesPrivate

-----------------------------------------------------------------------------
(* Address spaces                                                          *)

\* The entry of e for va, and what it gives to the program.
View(m, D, e, va) == IF e \in LiveIn(D) THEN Leaf(m, D, e, va[1], va[2]) ELSE Empty
Known(entry) == IF entry.p THEN [ppn |-> entry.ppn, w |-> entry.w] ELSE None

\* The pages somebody has mapped.
Used(m, D) == {p \in Page : \E e \in Env, va \in Va : To(View(m, D, e, va), p)}

\* The map of the abstract specification, in terms of the entries.
LEMMA SpaceView ==
  space = [e \in Env |-> [va \in Va |-> Known(View(pages, env_pgdir, e, va))]]
<1> DEFINE old(e, va) == IF e \in Live /\ Mapped(pages, env_pgdir[e], va)
                         THEN [ppn |-> Pte(pages, env_pgdir[e], va).ppn,
                               w |-> Pte(pages, env_pgdir[e], va).w]
                         ELSE None
           new(e, va) == Known(View(pages, env_pgdir, e, va))
<1>1. ASSUME NEW e \in Env, NEW va \in Va PROVE old(e, va) = new(e, va)
  <2>1. Live = LiveIn(env_pgdir) /\ va \in Idx \X Idx
    BY SameCount, VaAssumption
  <2>2. CASE e \notin LiveIn(env_pgdir)
    <3>1. ~Empty.p
      BY DEF Empty
    <3> QED BY <2>1, <2>2, <3>1 DEF View, Known
  <2>3. CASE e \in LiveIn(env_pgdir)
    <3> DEFINE leaf == Leaf(pages, env_pgdir, e, va[1], va[2])
    <3>1. Mapped(pages, env_pgdir[e], va) <=> leaf.p
      <4>1. ~Empty.p
        BY DEF Empty
      <4>2. ~Node(pages, env_pgdir, e, va[1]).p => leaf = Empty
        BY DEF Leaf
      <4> QED BY <2>1, <2>3, <4>1, <4>2, PteIsLeaf DEF Mapped
    <3>2. leaf.p => Pte(pages, env_pgdir[e], va) = leaf
      BY <2>1, <2>3, <3>1, PteIsLeaf DEF Mapped
    <3>3. View(pages, env_pgdir, e, va) = leaf
      BY <2>3 DEF View
    <3> HIDE DEF leaf
    <3> QED BY <2>1, <2>3, <3>1, <3>2, <3>3 DEF Known
  <2> QED BY <2>2, <2>3
<1>2. space = [e \in Env |-> [va \in Va |-> old(e, va)]]
  BY DEF space
<1> HIDE DEF old, new
<1>3. [e \in Env |-> [va \in Va |-> old(e, va)]] = [e \in Env |-> [va \in Va |-> new(e, va)]]
  BY <1>1
<1> QED BY <1>2, <1>3 DEF new

\* What the types and the invariant say of the entries.
LEMMA ViewFacts ==
  ASSUME Good(pages, env_pgdir, {})
  PROVE  \A e \in Env, va \in Va :
           LET entry == View(pages, env_pgdir, e, va)
           IN /\ entry \in Entry
              /\ entry.p => Known(entry) # None
              /\ Known(entry) # None => /\ entry.p /\ Known(entry).ppn = entry.ppn
                                        /\ Known(entry).w = entry.w
              /\ entry.p => e \in LiveIn(env_pgdir)
<1> TAKE e \in Env, va \in Va
<1> DEFINE entry == View(pages, env_pgdir, e, va)
<1>1. va[1] \in Idx /\ va[2] \in Idx
  BY VaAssumption
<1>2. entry \in Entry
  BY <1>1, LeafUsed, IdxFacts DEF View
<1>3. entry.p => e \in LiveIn(env_pgdir)
  BY DEF View, Empty
<1> HIDE DEF entry
<1>4. entry.p => Known(entry) # None
  <2>1. [ppn |-> entry.ppn, w |-> entry.w] \in [ppn : Page, w : BOOLEAN]
    BY <1>2 DEF Entry
  <2> QED BY <2>1, NoneAssumption DEF Known
<1>5. Known(entry) # None => /\ entry.p /\ Known(entry).ppn = entry.ppn
                             /\ Known(entry).w = entry.w
  BY DEF Known
<1> QED BY <1>2, <1>3, <1>4, <1>5 DEF entry

\* The pages of the abstract map are the ones that entries name.
LEMMA MappedView ==
  ASSUME Good(pages, env_pgdir, {})
  PROVE  Abstract!MappedIn(space) = Used(pages, env_pgdir)
<1>1. \A e \in Env, va \in Va : space[e][va] = Known(View(pages, env_pgdir, e, va))
  BY SpaceView
<1>2. \A p \in Page, e \in Env, va \in Va :
        (space[e][va] # None /\ space[e][va].ppn = p) <=> To(View(pages, env_pgdir, e, va), p)
  BY <1>1, ViewFacts DEF To
<1> QED BY <1>2 DEF Abstract!MappedIn, Used

\* All entries are for addresses in Va.
LEMMA UsedLeaf ==
  ASSUME InVa(pages, env_pgdir), NEW p \in Page
  PROVE  p \in Used(pages, env_pgdir)
         <=> \E e \in LiveIn(env_pgdir), i, j \in Idx : To(Leaf(pages, env_pgdir, e, i, j), p)
<1>1. ASSUME NEW e \in Env, NEW va \in Va, To(View(pages, env_pgdir, e, va), p)
      PROVE  \E f \in LiveIn(env_pgdir), i, j \in Idx : To(Leaf(pages, env_pgdir, f, i, j), p)
  <2>1. e \in LiveIn(env_pgdir)
    BY <1>1 DEF View, To, Empty
  <2>2. To(Leaf(pages, env_pgdir, e, va[1], va[2]), p)
    BY <1>1, <2>1 DEF View
  <2>3. va[1] \in Idx /\ va[2] \in Idx
    BY VaAssumption
  <2> QED BY <2>1, <2>2, <2>3
<1>2. ASSUME NEW e \in LiveIn(env_pgdir), NEW i \in Idx, NEW j \in Idx,
             To(Leaf(pages, env_pgdir, e, i, j), p)
      PROVE  \E f \in Env, va \in Va : To(View(pages, env_pgdir, f, va), p)
  <2>1. <<i, j>> \in Va /\ e \in Env
    BY <1>2 DEF InVa, To, LiveIn
  <2>2. View(pages, env_pgdir, e, <<i, j>>) = Leaf(pages, env_pgdir, e, i, j)
    BY DEF View
  <2> QED BY <1>2, <2>1, <2>2
<1> QED BY <1>1, <1>2 DEF Used

\* The pages somebody stored to, among those that are mapped.
LEMMA DirtyView ==
  ASSUME TypeInv, InVa(pages, env_pgdir)
  PROVE  dirty = pages.stored \cap Used(pages, env_pgdir)
<1>1. pages.stored \subseteq Page
  BY DEF TypeInv, TypeOK, Pages
<1>2. \A p \in Page : PageRefs(p) # {} <=> p \in Used(pages, env_pgdir)
  <2> TAKE p \in Page
  <2>1. PageRefs(p) = PRefs(pages, env_pgdir, p)
    BY SameCount
  <2>2. PRefs(pages, env_pgdir, p) # {}
        <=> \E e \in LiveIn(env_pgdir), i, j \in Idx : To(Leaf(pages, env_pgdir, e, i, j), p)
    <3>1. ASSUME NEW e \in LiveIn(env_pgdir), NEW i \in Idx, NEW j \in Idx,
                 To(Leaf(pages, env_pgdir, e, i, j), p)
          PROVE  <<e, i, j>> \in PRefs(pages, env_pgdir, p)
      BY <3>1 DEF PRefs, To
    <3>2. ASSUME NEW x \in PRefs(pages, env_pgdir, p)
          PROVE  \E e \in LiveIn(env_pgdir), i, j \in Idx : To(Leaf(pages, env_pgdir, e, i, j), p)
      BY DEF PRefs, To
    <3> QED BY <3>1, <3>2
  <2> QED BY <2>1, <2>2, UsedLeaf
<1> QED BY <1>1, <1>2 DEF dirty

\* The state as programs see it, in this state and in the next.
Seen == Shape /\ TypeInv /\ InVa(pages, env_pgdir)

\* What programs see, in this state
LEMMA SeenFacts ==
  Seen => /\ space = [e \in Env |-> [va \in Va |-> Known(View(pages, env_pgdir, e, va))]]
          /\ Abstract!MappedIn(space) = Used(pages, env_pgdir)
          /\ dirty = pages.stored \cap Used(pages, env_pgdir)
          /\ Good(pages, env_pgdir, {})
BY SpaceView, MappedView, DirtyView DEF Seen, Shape

\* and in the next.
LEMMA SeenNext ==
  Seen' => /\ space' = [e \in Env |-> [va \in Va |-> Known(View(pages', env_pgdir', e, va))]]
           /\ Abstract!MappedIn(space') = Used(pages', env_pgdir')
           /\ dirty' = pages'.stored \cap Used(pages', env_pgdir')
           /\ Good(pages', env_pgdir', {})
<1>1. (Seen => /\ space = [e \in Env |-> [va \in Va |-> Known(View(pages, env_pgdir, e, va))]]
               /\ Abstract!MappedIn(space) = Used(pages, env_pgdir)
               /\ dirty = pages.stored \cap Used(pages, env_pgdir)
               /\ Good(pages, env_pgdir, {}))'
  BY SeenFacts, PTL
<1> QED BY <1>1

\* No address of any environment changes.
SameViews == \A e \in Env, va \in Va :
  View(pages', env_pgdir', e, va) = View(pages, env_pgdir, e, va)
\* Only the entry of e for va changes, to entry.
SetsView(e, va, entry) == \A f \in Env, vb \in Va :
  View(pages', env_pgdir', f, vb)
    = IF f = e /\ vb = va THEN entry ELSE View(pages, env_pgdir, f, vb)
\* Only pages that nobody maps are zeroed.
Zeroes == /\ pages'.stored \subseteq pages.stored
          /\ \A p \in pages.stored \ pages'.stored : p \notin Used(pages, env_pgdir)

\* A step that programs do not see.
LEMMA Unseen ==
  ASSUME Seen, Seen', SameViews, Zeroes
  PROVE  UNCHANGED <<space, dirty>>
<1>1. space' = space
  BY SeenFacts, SeenNext DEF SameViews
<1>2. Used(pages', env_pgdir') = Used(pages, env_pgdir)
  BY DEF SameViews, Used
<1>3. pages'.stored \cap Used(pages, env_pgdir) = pages.stored \cap Used(pages, env_pgdir)
  BY DEF Zeroes
<1> QED BY <1>1, <1>2, <1>3, SeenFacts, SeenNext

\* A step that changes one address: to nothing, to a zeroed page that nobody
\* maps, or to a mapped page with no more rights.
LEMMA OneChange ==
  ASSUME Seen, Seen', Zeroes, NEW e \in Env, NEW va \in Va, NEW entry, SetsView(e, va, entry),
         \/ ~entry.p
         \/ /\ entry.p /\ entry.ppn \in Page \ Used(pages, env_pgdir)
            /\ entry.ppn \notin pages'.stored
         \/ \E f \in Env, vb \in Va :
              LET source == View(pages, env_pgdir, f, vb)
              IN source.p /\ entry.p /\ entry.ppn = source.ppn /\ (entry.w => source.w)
  PROVE  Abstract!Next
<1>1. entry = View(pages', env_pgdir', e, va)
  BY DEF SetsView
<1>2. \A f \in Env, vb \in Va : space[f][vb] = Known(View(pages, env_pgdir, f, vb))
  BY SeenFacts
<1>3. \A f \in Env, vb \in Va : space'[f][vb] = Known(View(pages', env_pgdir', f, vb))
  BY SeenNext
<1>4. \A f \in Env, vb \in Va : <<f, vb>> # <<e, va>> => space'[f][vb] = space[f][vb]
  BY <1>2, <1>3 DEF SetsView
<1>5. space'[e][va] = Known(entry)
  BY <1>1, <1>3
<1>6. Known(entry) # None => entry.p /\ Known(entry).ppn = entry.ppn /\ Known(entry).w = entry.w
  BY DEF Known
<1>7. \/ space'[e][va] = None
      \/ space'[e][va].ppn \in Page \ Abstract!MappedIn(space)
      \/ \E f \in Env, vb \in Va :
           /\ space[f][vb] # None /\ space'[e][va].ppn = space[f][vb].ppn
           /\ space'[e][va].w => space[f][vb].w
  <2>1. CASE Known(entry) = None
    BY <1>5, <2>1
  <2>2. CASE Known(entry) # None /\ entry.ppn \in Page \ Used(pages, env_pgdir)
    BY <1>5, <1>6, <2>2, SeenFacts
  <2>3. CASE /\ Known(entry) # None
             /\ \E f \in Env, vb \in Va :
                  LET source == View(pages, env_pgdir, f, vb)
                  IN source.p /\ entry.ppn = source.ppn /\ (entry.w => source.w)
    <3>1. PICK f \in Env, vb \in Va :
            /\ View(pages, env_pgdir, f, vb).p
            /\ entry.ppn = View(pages, env_pgdir, f, vb).ppn
            /\ entry.w => View(pages, env_pgdir, f, vb).w
      BY <2>3
    <3>2. /\ space[f][vb] # None
          /\ space[f][vb].ppn = View(pages, env_pgdir, f, vb).ppn
          /\ space[f][vb].w = View(pages, env_pgdir, f, vb).w
      BY <1>2, <3>1, SeenFacts, ViewFacts
    <3>3. space'[e][va].ppn = entry.ppn /\ space'[e][va].w = entry.w
      BY <1>5, <1>6, <2>3
    <3> QED BY <3>1, <3>2, <3>3
  <2> QED BY <1>6, <2>1, <2>2, <2>3
<1>8. \A p \in Used(pages', env_pgdir') \ Used(pages, env_pgdir) : p \notin pages'.stored
  <2> TAKE p \in Used(pages', env_pgdir') \ Used(pages, env_pgdir)
  <2>1. PICK f \in Env, vb \in Va : To(View(pages', env_pgdir', f, vb), p)
    BY DEF Used
  <2>2. ~To(View(pages, env_pgdir, f, vb), p) /\ p \in Page
    BY DEF Used
  <2>3. To(entry, p)
    BY <2>1, <2>2 DEF SetsView
  <2>4. ASSUME NEW g \in Env, NEW vc \in Va, View(pages, env_pgdir, g, vc).p
        PROVE  View(pages, env_pgdir, g, vc).ppn # p
    BY <2>2, <2>4 DEF Used, To
  <2> QED BY <2>3, <2>4 DEF To
<1>9. dirty' = dirty \cap Abstract!MappedIn(space')
  BY <1>8, SeenFacts, SeenNext DEF Zeroes
<1>10. Abstract!Change(e, va)
  BY <1>4, <1>7, <1>9 DEF Abstract!Change
<1> QED BY <1>10 DEF Abstract!Next

\* The same, of the pages as programs see them.
LEMMA ForgetsZeroes == Forgets(pages, pages', env_pgdir) => Zeroes
<1> SUFFICES ASSUME Forgets(pages, pages', env_pgdir) PROVE Zeroes
  OBVIOUS
<1>1. \A va \in Va : va[1] \in Idx /\ va[2] \in Idx
  BY VaAssumption
<1>2. ASSUME NEW e \in Env, NEW va \in Va, NEW p, To(View(pages, env_pgdir, e, va), p)
      PROVE  e \in LiveIn(env_pgdir) /\ To(Leaf(pages, env_pgdir, e, va[1], va[2]), p)
  BY <1>2 DEF View, To, Empty
<1> QED BY <1>1, <1>2 DEF Forgets, Zeroes, Used

\* What the entries say about the steps, programs see.
LEMMA LeafViews ==
  ASSUME env_pgdir' = env_pgdir
  PROVE  /\ SameLeaves(pages, pages', env_pgdir) => SameViews
         /\ \A e \in LiveIn(env_pgdir), va \in Va : \A entry :
              SetsLeaf(pages, pages', env_pgdir, e, va[1], va[2], entry) => SetsView(e, va, entry)
         /\ Forgets(pages, pages', env_pgdir) => Zeroes
<1>1. \A va \in Va : va[1] \in Idx /\ va[2] \in Idx /\ va = <<va[1], va[2]>>
  BY VaAssumption
<1>2. SameLeaves(pages, pages', env_pgdir) => SameViews
  BY <1>1 DEF SameLeaves, SameViews, View
<1>3. ASSUME NEW e \in LiveIn(env_pgdir), NEW va \in Va, NEW entry,
             SetsLeaf(pages, pages', env_pgdir, e, va[1], va[2], entry)
      PROVE  SetsView(e, va, entry)
  <2> SUFFICES ASSUME NEW f \in Env, NEW vb \in Va
               PROVE  View(pages', env_pgdir', f, vb)
                        = IF f = e /\ vb = va THEN entry ELSE View(pages, env_pgdir, f, vb)
    BY DEF SetsView
  <2>1. vb = va <=> vb[1] = va[1] /\ vb[2] = va[2]
    BY <1>1
  <2> QED BY <1>1, <1>3, <2>1 DEF SetsLeaf, View
<1> QED BY <1>2, <1>3, ForgetsZeroes

\* A call is one change of one address, or none.
LEMMA CallSeen ==
  ASSUME ~NameUnmapped, Seen, Seen', CountsFit', NEW c \in Cpu, Call(c)
  PROVE  Abstract!Next \/ UNCHANGED <<space, dirty>>
<1>1. PICK e \in Env, va \in Va :
        \/ \E w \in BOOLEAN : SysPageAlloc(c, e, va, w)
        \/ \E f \in Env, vb \in Va, w \in BOOLEAN : SysPageMap(c, e, va, f, vb, w)
        \/ SysPageUnmap(c, e, va)
  BY DEF Call
<1>2. env_pgdir' = env_pgdir
  BY <1>1 DEF SysPageAlloc, SysPageMap, SysPageUnmap
<1>3. Good(pages, env_pgdir, {}) /\ Fits(pages', env_pgdir)
  BY <1>2, FitsNext, SeenFacts
<1>4. \A x \in Va : x \in Idx \X Idx
  BY VaAssumption
<1>5. Keeps => Zeroes
  BY <1>2, LeafViews DEF Keeps
<1>6. ASSUME NEW w \in BOOLEAN, SysPageAlloc(c, e, va, w)
      PROVE  Abstract!Next \/ UNCHANGED <<space, dirty>>
  <2>1. /\ Keeps /\ e \in LiveIn(env_pgdir)
        /\ \/ SameLeaves(pages, pages', env_pgdir)
           \/ \E p \in Page :
                /\ SetsLeaf(pages, pages', env_pgdir, e, va[1], va[2],
                            [ppn |-> p, p |-> TRUE, w |-> w])
                /\ \A f \in LiveIn(env_pgdir), i, j \in Idx : ~To(Leaf(pages, env_pgdir, f, i, j), p)
                /\ p \notin pages'.stored
    BY <1>3, <1>4, <1>6, AllocEffect
  <2>2. CASE SameLeaves(pages, pages', env_pgdir)
    BY <1>2, <1>5, <2>1, <2>2, LeafViews, Unseen
  <2>3. CASE ~SameLeaves(pages, pages', env_pgdir)
    <3>1. PICK p \in Page :
            /\ SetsLeaf(pages, pages', env_pgdir, e, va[1], va[2], [ppn |-> p, p |-> TRUE, w |-> w])
            /\ \A f \in LiveIn(env_pgdir), i, j \in Idx : ~To(Leaf(pages, env_pgdir, f, i, j), p)
            /\ p \notin pages'.stored
      BY <2>1, <2>3
    <3> DEFINE entry == [ppn |-> p, p |-> TRUE, w |-> w]
    <3>2. entry.p /\ entry.ppn = p
      OBVIOUS
    <3>3. SetsLeaf(pages, pages', env_pgdir, e, va[1], va[2], entry)
      BY <3>1
    <3> HIDE DEF entry
    <3>4. p \notin Used(pages, env_pgdir)
      BY <3>1, UsedLeaf DEF Seen
    <3>5. SetsView(e, va, entry)
      BY <1>2, <2>1, <3>3, LeafViews
    <3> QED BY <1>5, <2>1, <3>1, <3>2, <3>4, <3>5, OneChange
  <2> QED BY <2>2, <2>3
<1>7. ASSUME NEW f \in Env, NEW vb \in Va, NEW w \in BOOLEAN, SysPageMap(c, e, va, f, vb, w)
      PROVE  Abstract!Next
  <2> DEFINE source == Leaf(pages, env_pgdir, e, va[1], va[2])
             entry == [ppn |-> source.ppn, p |-> TRUE, w |-> w]
  <2>1. /\ Keeps /\ e \in LiveIn(env_pgdir) /\ f \in LiveIn(env_pgdir)
        /\ source.p /\ (w => source.w)
        /\ SetsLeaf(pages, pages', env_pgdir, f, vb[1], vb[2], entry)
    <3>1. va \in Idx \X Idx /\ vb \in Idx \X Idx
      BY <1>4
    <3> QED BY <1>3, <1>7, <3>1, MapEffect
  <2>2. entry.p /\ entry.ppn = source.ppn /\ (entry.w => source.w)
    BY <2>1
  <2>3. View(pages, env_pgdir, e, va) = source
    BY <2>1 DEF View
  <2> HIDE DEF source, entry
  <2>4. SetsView(f, vb, entry)
    BY <1>2, <2>1, LeafViews
  <2> QED BY <1>5, <2>1, <2>2, <2>3, <2>4, OneChange
<1>8. ASSUME SysPageUnmap(c, e, va) PROVE Abstract!Next
  <2>1. /\ e \in LiveIn(env_pgdir) /\ Mapped(pages, env_pgdir[e], va)
        /\ pages' = PageRemove(pages, env_pgdir[e], va)
    BY <1>8 DEF SysPageUnmap, Editing, LiveIn
  <2>2. Keeps /\ SetsLeaf(pages, pages', env_pgdir, e, va[1], va[2], Empty)
    BY <1>3, <1>4, <2>1, UnmapEffect
  <2>3. SetsView(e, va, Empty) /\ ~Empty.p
    BY <1>2, <2>1, <2>2, LeafViews DEF Empty
  <2> QED BY <1>5, <2>2, <2>3, OneChange
<1> QED BY <1>1, <1>6, <1>7, <1>8

\* A store goes where the map of the environment says.
LEMMA StoreSeen ==
  ASSUME Seen, Seen', Fresh, NEW c \in Cpu, NEW t \in tlb[c], Store(c, t)
  PROVE  Abstract!Next
<1> DEFINE e == curenv[c]
<1>1. /\ InUser(c) /\ t.w
      /\ pages' = [pages EXCEPT !.stored = @ \cup {t.ppn}] /\ env_pgdir' = env_pgdir
  BY DEF Store
<1>2. pages'.mem = pages.mem /\ pages'.stored = pages.stored \cup {t.ppn} /\ TypeInv
  BY <1>1 DEF Seen, TypeInv, TypeOK, Pages
<1>3. SameViews
  BY <1>1, <1>2 DEF SameViews, View, Leaf, Node
<1>4. Used(pages', env_pgdir') = Used(pages, env_pgdir)
  BY <1>3 DEF SameViews, Used
<1>5. e \in LiveIn(env_pgdir) /\ e \in Env /\ t.va \in Va /\ t.ppn \in Page
  BY <1>1, <1>2, UserFacts DEF TypeInv, TypeOK, Translation, LiveIn
<1>6. /\ View(pages, env_pgdir, e, t.va).p /\ View(pages, env_pgdir, e, t.va).w
      /\ View(pages, env_pgdir, e, t.va).ppn = t.ppn
  BY <1>1, <1>5 DEF Fresh, Says, View
<1>7. space[e][t.va] # None /\ space[e][t.va].w /\ space[e][t.va].ppn = t.ppn
  <2>1. space[e][t.va] = Known(View(pages, env_pgdir, e, t.va))
    BY <1>5, SeenFacts
  <2> QED BY <1>5, <1>6, <2>1, SeenFacts, ViewFacts
<1>8. t.ppn \in Used(pages, env_pgdir)
  BY <1>5, <1>6 DEF Used, To
<1>9. space' = space
  BY <1>3, SeenFacts, SeenNext DEF SameViews
<1>10. dirty' = dirty \cup {t.ppn}
  BY <1>2, <1>4, <1>8, SeenFacts, SeenNext
<1> HIDE DEF e
<1>11. Abstract!Store(e, t.va)
  BY <1>7, <1>9, <1>10 DEF Abstract!Store
<1> QED BY <1>5, <1>11 DEF Abstract!Next

\* env_free unmaps one page per step, or gives back a table.
LEMMA FreeSeen ==
  ASSUME Seen, Seen', FreePage \/ FreeTable
  PROVE  Abstract!Next \/ UNCHANGED <<space, dirty>>
<1> DEFINE e == freeing[2]
<1>1. /\ Keeps /\ e \in LiveIn(env_pgdir)
      /\ \/ SameLeaves(pages, pages', env_pgdir)
         \/ \E i, j \in Idx : /\ Leaf(pages, env_pgdir, e, i, j).p
                              /\ SetsLeaf(pages, pages', env_pgdir, e, i, j, Empty)
  BY SeenFacts, FreeEffect DEF Seen
<1>2. env_pgdir' = env_pgdir
  BY DEF FreePage, FreeTable
<1> HIDE DEF e
<1>3. Zeroes
  BY <1>1, <1>2, LeafViews DEF Keeps
<1>4. CASE SameLeaves(pages, pages', env_pgdir)
  BY <1>2, <1>3, <1>4, LeafViews, Unseen
<1>5. CASE \E i, j \in Idx : /\ Leaf(pages, env_pgdir, e, i, j).p
                             /\ SetsLeaf(pages, pages', env_pgdir, e, i, j, Empty)
  <2>1. PICK i \in Idx, j \in Idx : /\ Leaf(pages, env_pgdir, e, i, j).p
                                    /\ SetsLeaf(pages, pages', env_pgdir, e, i, j, Empty)
    BY <1>5
  <2>2. \E va \in Va : va[1] = i /\ va[2] = j
    <3>1. <<i, j>> \in Va
      BY <1>1, <2>1 DEF Seen, InVa
    <3> QED BY <3>1
  <2>3. PICK va \in Va : SetsLeaf(pages, pages', env_pgdir, e, va[1], va[2], Empty)
    BY <2>1, <2>2
  <2>4. SetsView(e, va, Empty) /\ ~Empty.p /\ e \in Env
    BY <1>1, <1>2, <2>3, LeafViews DEF Empty, LiveIn
  <2> QED BY <1>3, <2>4, OneChange
<1> QED BY <1>1, <1>4, <1>5

\* A directory that is set up, or given back, maps nothing.
LEMMA DirectorySeen ==
  ASSUME Seen, Seen',
         (\E c \in Cpu, e \in Env : EnvSetupVm(c, e)) \/ FreeDirectory
  PROVE  UNCHANGED <<space, dirty>>
<1> DEFINE D == env_pgdir
<1>1. Good(pages, D, {}) /\ \A va \in Va : va[1] \in Idx /\ va[2] \in Idx
  BY SeenFacts, VaAssumption
<1>2. ASSUME NEW c \in Cpu, NEW e \in Env, EnvSetupVm(c, e) PROVE SameViews /\ Zeroes
  <2>1. /\ D[e] = None /\ pages.free # << >>
        /\ pages' = PageIncref(PageAlloc(pages), Head(pages.free))
        /\ env_pgdir' = [D EXCEPT ![e] = Head(pages.free)]
    BY <1>2 DEF EnvSetupVm
  <2>2. SetUp(pages, D, e, pages', env_pgdir')
    BY <1>1, <2>1, GoodSetup
  <2>3. e \notin LiveIn(D)
    BY <2>1 DEF LiveIn
  <2>4. SameViews
    BY <1>1, <2>2, <2>3 DEF SetUp, SameViews, View
  <2>5. Forgets(pages, pages', D)
    BY <2>2 DEF SetUp
  <2>6. Zeroes
    BY <2>5, ForgetsZeroes
  <2> QED BY <2>4, <2>6
<1>3. ASSUME FreeDirectory PROVE SameViews /\ Zeroes
  <2> DEFINE e == freeing[2]
  <2>1. e \in LiveIn(D) /\ Dir = D[e]
    BY <1>3 DEF FreeDirectory, Seen, TypeInv, TypeOK, HasDirectory, LiveIn, Dir
  <2>2. \A i \in Idx : ~Node(pages, D, e, i).p
    BY <1>3, <2>1 DEF FreeDirectory, Node
  <2>3. /\ pages' = PageDecref(pages, D[e]) /\ env_pgdir' = [D EXCEPT ![e] = None]
    BY <1>3, <2>1 DEF FreeDirectory
  <2> HIDE DEF e
  <2>4. TornDown(pages, D, e, pages', env_pgdir')
    BY <1>1, <2>1, <2>2, <2>3, GoodFreeDirectory
  <2>5. \A i, j \in Idx : Leaf(pages, D, e, i, j) = Empty
    BY <2>2 DEF Leaf
  <2>6. SameViews
    BY <1>1, <2>4, <2>5 DEF TornDown, SameViews, View
  <2>7. Zeroes
    BY <2>4 DEF TornDown, Zeroes
  <2> QED BY <2>6, <2>7
<1> QED BY <1>2, <1>3, Unseen

\* Where the counter is wide enough for all entries of all tables, the counts fit:
\* the hypothesis of the theorems below holds of every behaviour.
WideCounter == Cardinality(Env) * (1 + NIDX + NIDX * NIDX) < RefMod
LEMMA FewPointers ==
  ASSUME WideCounter
  PROVE  CountsFit
<1> DEFINE E == Live
           n == Cardinality(E)
           N == Cardinality(Env)
<1>1. /\ IsFiniteSet(E) /\ n \in Nat /\ N \in Nat /\ n <= N
  <2>1. E \subseteq Env
    BY DEF Live
  <2> QED BY <2>1, EnvAssumption, FS_Subset, FS_CardinalityType
<1> HIDE DEF E
<1>2. IsFiniteSet(E \X Idx) /\ Cardinality(E \X Idx) = n * NIDX
  BY <1>1, Triples
<1> DEFINE T == E \X Idx \X Idx
<1>3. IsFiniteSet(T) /\ Cardinality(T) <= (n * NIDX) * NIDX
  BY <1>1, Triples
<1> SUFFICES ASSUME NEW p \in Page PROVE Refs(p) < RefMod
  BY DEF CountsFit
<1>6. /\ DirRefs(p) \subseteq E /\ TableRefs(p) \subseteq E \X Idx
      /\ PageRefs(p) \subseteq T
  BY DEF DirRefs, TableRefs, PageRefs, E
<1> HIDE DEF T
<1>7. /\ Cardinality(DirRefs(p)) \in Nat /\ Cardinality(DirRefs(p)) <= n
      /\ Cardinality(TableRefs(p)) \in Nat /\ Cardinality(TableRefs(p)) <= n * NIDX
      /\ Cardinality(PageRefs(p)) \in Nat /\ Cardinality(PageRefs(p)) <= (n * NIDX) * NIDX
  <2>1. /\ Cardinality(PageRefs(p)) \in Nat /\ Cardinality(PageRefs(p)) <= Cardinality(T)
        /\ Cardinality(T) \in Nat
    BY <1>3, <1>6, FS_Subset, FS_CardinalityType
  <2>2. Cardinality(TableRefs(p)) \in Nat /\ Cardinality(TableRefs(p)) <= n * NIDX
    BY <1>2, <1>6, FS_Subset, FS_CardinalityType
  <2>3. Cardinality(DirRefs(p)) \in Nat /\ Cardinality(DirRefs(p)) <= n
    BY <1>1, <1>6, FS_Subset, FS_CardinalityType
  <2>4. (n * NIDX) * NIDX \in Nat
    BY <1>1, SizeAssumption
  <2> HIDE DEF n
  <2> QED BY <1>3, <2>1, <2>2, <2>3, <2>4
<1>8. n + n * NIDX + (n * NIDX) * NIDX <= N * (1 + NIDX + NIDX * NIDX)
  <2> HIDE DEF n, N
  <2> DEFINE k == 1 + NIDX + NIDX * NIDX
  <2>1. n + n * NIDX + (n * NIDX) * NIDX = n * k
    BY <1>1, SizeAssumption
  <2>2. k \in Nat
    BY SizeAssumption
  <2> HIDE DEF k
  <2>3. n * k <= N * k
    <3>1. PICK d \in Nat : N = n + d
      <4>1. N - n \in Nat /\ N = n + (N - n)
        BY <1>1
      <4> QED BY <4>1
    <3>2. N * k = n * k + d * k
      BY <1>1, <2>2, <3>1
    <3>3. d * k \in Nat /\ n * k \in Nat
      BY <1>1, <2>2
    <3> QED BY <3>2, <3>3
  <2> QED BY <2>1, <2>3 DEF k
<1> DEFINE a == Cardinality(DirRefs(p))
           b == Cardinality(TableRefs(p))
           c == Cardinality(PageRefs(p))
           x == n * NIDX
           y == (n * NIDX) * NIDX
           z == N * (1 + NIDX + NIDX * NIDX)
<1>9. x \in Nat /\ y \in Nat /\ z \in Nat
  BY <1>1, SizeAssumption
<1>10. z < RefMod /\ RefMod \in Nat /\ Refs(p) = a + b + c /\ n + x + y <= z
       /\ a \in Nat /\ b \in Nat /\ c \in Nat /\ a <= n /\ b <= x /\ c <= y /\ n \in Nat
  BY <1>1, <1>7, <1>8, SizeAssumption DEF Refs, WideCounter
<1> HIDE DEF a, b, c, n, N, x, y, z
<1> QED BY <1>9, <1>10

\* No address is mapped.
LEMMA SpacesInit == Init => Abstract!Init
<1> SUFFICES ASSUME Init PROVE Abstract!Init
  OBVIOUS
<1>1. \A e \in Env : env_pgdir[e] = None
  BY DEF Init
<1>2. Live = {} /\ pages.stored = {}
  BY <1>1 DEF Init, Live
<1>3. space = [e \in Env |-> [va \in Va |-> None]]
  BY <1>2 DEF space
<1>4. dirty = {}
  BY <1>2 DEF dirty
<1> QED BY <1>3, <1>4 DEF Abstract!Init

\* Every step is one of the abstract specification, or none.
LEMMA SpacesStep ==
  /\ ~NameUnmapped /\ TypeInv /\ TypeInv' /\ Shape /\ Shape' /\ Private /\ Private'
  /\ CountsFit' /\ [Next]_vars
  => [Abstract!Next]_<<space, dirty>>
<1> SUFFICES ASSUME ~NameUnmapped, TypeInv, TypeInv', Shape, Shape', Private, Private',
                    CountsFit', [Next]_vars
             PROVE  Abstract!Next \/ UNCHANGED <<space, dirty>>
  OBVIOUS
<1>1. Seen /\ Seen' /\ Fresh
  BY DEF Seen, Private
<1>2. ASSUME UNCHANGED <<pages, env_pgdir>> PROVE UNCHANGED <<space, dirty>>
  <2>1. SameViews /\ Zeroes
    BY <1>2 DEF SameViews, Zeroes
  <2> QED BY <1>1, <2>1, Unseen
<1>3. CASE UNCHANGED vars
  BY <1>2, <1>3 DEF vars
<1>4. ASSUME NEW c \in Cpu, NEW e \in Env, EnvFree(c, e) \/ EnvRun(c, e)
      PROVE  UNCHANGED <<space, dirty>>
  BY <1>2, <1>4 DEF EnvFree, EnvRun
<1>5. ASSUME NEW c \in Cpu, NEW va \in Va, Fill(c, va) PROVE UNCHANGED <<space, dirty>>
  BY <1>2, <1>5 DEF Fill
<1>6. CASE Next
  BY <1>1, <1>4, <1>5, <1>6, CallSeen, StoreSeen, FreeSeen, DirectorySeen DEF Next
<1> QED BY <1>3, <1>6

\* Counts and free list are exact, for any number of pages, environments and
\* CPUs, and through any replacement, sharing or freeing (pmap.c:403-658,
\* env.c:500-547): of programs that name no address they have not mapped, and as
\* long as no page has more pointers than pp_ref can count.
THEOREM CountsExact == ~NameUnmapped => (Spec /\ []CountsFit => [](RefExact /\ FreeExact))
<1> SUFFICES ASSUME ~NameUnmapped PROVE Spec /\ []CountsFit => [](RefExact /\ FreeExact)
  OBVIOUS
<1>1. TypeInv /\ Shape /\ CountsFit' /\ [Next]_vars => Shape'
  BY ShapeStep
<1>2. Shape => RefExact /\ FreeExact
  BY ShapeMeans
<1> QED BY <1>1, <1>2, ShapeInit, InitTypes, StepTypes, PTL DEF Spec

\* Page tables are reached by nobody but the kernel, and no CPU uses a
\* translation its tables do not hold (pmap.c:555, 631), if besides no program
\* changes the tables of one that runs elsewhere.
THEOREM TranslationsTrue ==
  ~NameUnmapped /\ ~EditRunning => (Spec /\ []CountsFit => [](TablesPrivate /\ TlbFresh))
<1> SUFFICES ASSUME ~NameUnmapped, ~EditRunning
             PROVE  Spec /\ []CountsFit => [](TablesPrivate /\ TlbFresh)
  OBVIOUS
<1>1. TypeInv /\ Shape /\ CountsFit' /\ [Next]_vars => Shape'
  BY ShapeStep
<1>2. TypeInv /\ Shape /\ Private /\ CountsFit' /\ [Next]_vars => Private'
  BY PrivateStep
<1>3. TypeInv /\ Shape /\ Private => TablesPrivate /\ TlbFresh
  BY PrivateMeans
<1> QED BY <1>1, <1>2, <1>3, ShapeInit, PrivateInit, InitTypes, StepTypes, PTL DEF Spec

\* Under the same conditions the tables, counts, free list and TLBs implement
\* the address spaces of AddressSpaces: the paging calls and env_free change one
\* address at a time, to nothing, to a zeroed page that nobody maps or to a page
\* that is mapped with these rights, and a store reaches what its address maps.
THEOREM SpacesImplemented ==
  ~NameUnmapped /\ ~EditRunning => (Spec /\ []CountsFit => ImplementsSpaces)
<1> SUFFICES ASSUME ~NameUnmapped, ~EditRunning PROVE Spec /\ []CountsFit => ImplementsSpaces
  OBVIOUS
<1>1. TypeInv /\ Shape /\ CountsFit' /\ [Next]_vars => Shape'
  BY ShapeStep
<1>2. TypeInv /\ Shape /\ Private /\ CountsFit' /\ [Next]_vars => Private'
  BY PrivateStep
<1>3. /\ TypeInv /\ TypeInv' /\ Shape /\ Shape' /\ Private /\ Private' /\ CountsFit' /\ [Next]_vars
      => [Abstract!Next]_<<space, dirty>>
  BY SpacesStep
<1> QED BY <1>1, <1>2, <1>3, ShapeInit, PrivateInit, SpacesInit, InitTypes, StepTypes, PTL
    DEF Spec, ImplementsSpaces, Abstract!Spec

\* When the counter is wide enough for every entry of every table all this holds
\* of every behaviour.
THEOREM ExactWithWideCounter ==
  ~NameUnmapped /\ WideCounter => (Spec => [](RefExact /\ FreeExact))
<1> SUFFICES ASSUME ~NameUnmapped, WideCounter PROVE Spec => [](RefExact /\ FreeExact)
  OBVIOUS
<1>1. Spec /\ []CountsFit => [](RefExact /\ FreeExact)
  BY CountsExact
<1>2. CountsFit
  BY FewPointers
<1> QED BY <1>1, <1>2, PTL
=============================================================================
