----------------------------- MODULE BootMemory -----------------------------
(***************************************************************************)
(* mem_init in kern/pmap.c: the boot allocator, the list of free pages and *)
(* the mappings of the kernel, up to the state in which PageTables begins; *)
(* and env_setup_vm, which gives each environment these mappings.          *)
(*                                                                         *)
(* Addresses are page numbers.  Until lcr3 the kernel runs on entry_pgdir, *)
(* which maps one table's worth of memory, while it fills kern_pgdir.      *)
(***************************************************************************)
EXTENDS Integers, Sequences, FiniteSets

CONSTANTS PAGEBYTES,     \* PGSIZE
          STRUCTBYTES,   \* sizeof(struct Page)
          NPT, NPD,      \* entries of a table, of the directory
          KTABLES,       \* tables from KERNBASE on
          IOPAGES,       \* pages from IOMEMBASE on
          NCPU, KSTKSIZE, KSTKGAP,
          IOPHYSMEM, EXTPHYSMEM, MPENTRY,
          ENVPAGES,      \* pages of the array of environments
          MAXEND         \* where the kernel's image ends at most

ASSUME LayoutAssumption ==
  {PAGEBYTES, STRUCTBYTES, NPT, NPD, KTABLES, IOPAGES, NCPU, KSTKSIZE, KSTKGAP,
   IOPHYSMEM, EXTPHYSMEM, MPENTRY, ENVPAGES, MAXEND} \subseteq Nat \ {0}
ASSUME PageBytesAssumption == PAGEBYTES > 34   \* 2 ^ 32 in C

\* The map of memlayout.h: there is room for the tables below KERNBASE, and for all
\* stacks in one of them; the tables come from the memory below the I/O hole, less
\* page 0 and MPENTRY; and the kernel with the array of pages is in what entry_pgdir
\* maps, for the largest machine.
ASSUME MapAssumption ==
  /\ KTABLES + 5 <= NPD
  /\ NCPU * (KSTKSIZE + KSTKGAP) <= NPT
  /\ IOPAGES <= KTABLES * NPT
  /\ IOPHYSMEM <= EXTPHYSMEM /\ KTABLES + 5 <= IOPHYSMEM
  /\ MAXEND + ((KTABLES * NPT - IOPAGES) * STRUCTBYTES + PAGEBYTES - 1) \div PAGEBYTES < NPT

KERNBASE == (NPD - KTABLES) * NPT
KSTACKTOP == KERNBASE - NPT
UVPT == KSTACKTOP - 2 * NPT
UPAGES == UVPT - NPT
UENVS == UPAGES - NPT
VTOP == NPD * NPT
IOMEMBASE == VTOP - IOPAGES
PDX(v) == v \div NPT
PagesOf(bytes) == (bytes + PAGEBYTES - 1) \div PAGEBYTES

VARIABLES stage,      \* of mem_init
          npages,     \* the memory of the machine
          kend,       \* the page after the kernel's image
          nextfree,   \* of boot_alloc
          freelist,   \* page_free_list
          kdir,       \* kern_pgdir: the page of each table that is there
          kmap,       \* what the entries of these tables say
          region      \* the next one to be mapped

bootvars == <<stage, npages, kend, nextfree, freelist, kdir, kmap, region>>

KernelEntry == [pa : 0 .. VTOP - 1, w : BOOLEAN, u : BOOLEAN]
BootTypeOK == /\ stage \in {"alloc", "init", "reorder", "check", "map", "installed", "done",
                            "panic", "fault"}
              /\ npages \in Nat /\ kend \in Nat /\ nextfree \in Nat
              /\ freelist \in Seq(1 .. npages - 1)
              /\ DOMAIN kdir \subseteq 0 .. NPD - 1 /\ kdir \in [DOMAIN kdir -> 1 .. npages - 1]
              /\ DOMAIN kmap \subseteq UENVS .. VTOP - 1 /\ kmap \in [DOMAIN kmap -> KernelEntry]
              /\ region \in Nat

\* percpu_kstacks are in the image, which begins at EXTPHYSMEM.
StackPage(c) == EXTPHYSMEM + c * KSTKSIZE

\* Any machine whose memory ends below the I/O memory, as all do whose size fits
\* the registers that i386_detect_memory reads.
BootInit == /\ stage = "alloc"
            /\ npages \in EXTPHYSMEM + 1 .. VTOP - KERNBASE - IOPAGES
            /\ kend \in StackPage(NCPU) .. MAXEND
            /\ nextfree = kend
            /\ freelist = <<>> /\ kdir = <<>> /\ kmap = <<>> /\ region = 1

\* The addresses that entry_pgdir maps to physical memory.
EntryMapped(page) == page < NPT

-----------------------------------------------------------------------------
PagesArray == kend + 1
EnvsArray == PagesArray + PagesOf(npages * STRUCTBYTES)

\* boot_alloc for kern_pgdir, pages and envs.
BootAlloc == /\ stage = "alloc"
             /\ nextfree' = EnvsArray + ENVPAGES
             /\ stage' = IF nextfree' >= npages THEN "panic" ELSE "init"
             /\ UNCHANGED <<npages, kend, freelist, kdir, kmap, region>>

\* page_init leaves these out.
InUse(page) == page = 0 \/ page = MPENTRY \/ page \in IOPHYSMEM .. nextfree - 1
Unused == {page \in 0 .. npages - 1 : ~InUse(page)}

\* The pages of list s that are in t, in their order.
Only(s, t) ==
  LET f[i \in 0 .. Len(s)] == IF i = 0 THEN <<>>
                             ELSE IF s[i] \in t THEN Append(f[i - 1], s[i]) ELSE f[i - 1]
  IN f[Len(s)]

\* The last page becomes the head of the list.
PageInit == /\ stage = "init"
            /\ IF EntryMapped(EnvsArray - 1)
               THEN /\ freelist' = Only([i \in 1 .. npages |-> npages - i], Unused)
                    /\ stage' = "reorder"
               ELSE stage' = "fault" /\ UNCHANGED freelist
            /\ UNCHANGED <<npages, kend, nextfree, kdir, kmap, region>>

\* Mutant: the list is only checked.
Reordered_Not(s) == s

\* "Move pages with lower addresses first in the free list, since entry_pgdir does
\* not map all pages" (pmap.c:756).
Reordered(s) == LET low == {p \in 0 .. npages - 1 : EntryMapped(p)}
                IN Only(s, low) \o Only(s, (0 .. npages - 1) \ low)

\* check_page_free_list wants a page free on either side of the I/O hole.  Its other
\* assertions are parts of MemoryReady.
ListChecked(s) == \E i, j \in DOMAIN s : s[i] < EXTPHYSMEM /\ s[j] >= EXTPHYSMEM

\* check_page_free_list(1)
CheckPageFreeList == /\ stage = "reorder"
                     /\ freelist' = Reordered(freelist)
                     /\ stage' = IF ListChecked(freelist') THEN "check" ELSE "panic"
                     /\ UNCHANGED <<npages, kend, nextfree, kdir, kmap, region>>

FirstThree(i, j, k) == <<freelist[i], freelist[j], freelist[k]>> \o SubSeq(freelist, 4, Len(freelist))

\* check_page_alloc and check_page write to the first page and the third, and
\* give three pages back.
CheckPage == /\ stage = "check"
             /\ IF Len(freelist) < 3 THEN stage' = "panic" /\ UNCHANGED freelist
                ELSE IF EntryMapped(freelist[1]) /\ EntryMapped(freelist[3])
                THEN stage' = "map" /\ freelist' = FirstThree(3, 2, 1)
                ELSE stage' = "fault" /\ UNCHANGED freelist
             /\ UNCHANGED <<npages, kend, nextfree, kdir, kmap, region>>

Region(va, size, pa, w, u) == [va |-> va, n |-> size \div PAGEBYTES, pa |-> pa, w |-> w, u |-> u]

\* Mutant: no gap between two stacks.
StackTop_NoGap(c) == KSTACKTOP - c * KSTKSIZE

StackTop(c) == KSTACKTOP - c * (KSTKSIZE + KSTKGAP)

\* The size is computed with the operator ^, which is exclusive or: (2 ^ 32) is 34.
\* The 34 bytes that remain are less than a page.
PhysSize == (34 - KERNBASE * PAGEBYTES) % (VTOP * PAGEBYTES)

\* The calls of boot_map_region in mem_init and mem_init_mp.
Regions ==
  <<Region(UPAGES, NPT * PAGEBYTES, PagesArray, FALSE, TRUE),
    Region(UENVS, NPT * PAGEBYTES, EnvsArray, FALSE, TRUE),
    Region(KERNBASE, PhysSize, 0, TRUE, FALSE),
    Region(IOMEMBASE, IOPAGES * PAGEBYTES, IOMEMBASE, TRUE, FALSE)>>
  \o [i \in 1 .. NCPU |-> Region(StackTop(i - 1) - KSTKSIZE, KSTKSIZE * PAGEBYTES,
                                 StackPage(i - 1), TRUE, FALSE)]

\* boot_map_region.  pgdir_walk takes a page for each table that is missing and
\* clears it; without one boot_map_region stores through a null pointer.
BootMapRegion ==
  /\ stage = "map" /\ region <= Len(Regions)
  /\ LET g == Regions[region]
         vas == g.va .. g.va + g.n - 1
         missing == {PDX(v) : v \in vas} \ DOMAIN kdir
         nth(i) == Cardinality({j \in missing : j <= i})
     IN IF /\ Len(freelist) >= Cardinality(missing)
           /\ \A i \in 1 .. Cardinality(missing) : EntryMapped(freelist[i])
        THEN /\ kdir' = [i \in DOMAIN kdir \cup missing |->
                           IF i \in missing THEN freelist[nth(i)] ELSE kdir[i]]
             /\ kmap' = [v \in DOMAIN kmap \cup vas |->
                           IF v \in vas THEN [pa |-> g.pa + v - g.va, w |-> g.w, u |-> g.u]
                           ELSE kmap[v]]
             /\ freelist' = SubSeq(freelist, Cardinality(missing) + 1, Len(freelist))
             /\ UNCHANGED stage
        ELSE stage' = "fault" /\ UNCHANGED <<freelist, kdir, kmap>>
  /\ region' = region + 1
  /\ UNCHANGED <<npages, kend, nextfree>>

\* check_kern_pgdir, then lcr3: all memory is mapped from here on.  The tables
\* may have taken the last page below the hole, or above it: the list is checked
\* again.
LoadCr3 == /\ stage = "map" /\ region > Len(Regions)
           /\ stage' = IF ListChecked(freelist) THEN "installed" ELSE "panic"
           /\ UNCHANGED <<npages, kend, nextfree, freelist, kdir, kmap, region>>

\* check_page_installed_pgdir uses three more pages and gives them back.
CheckInstalled == /\ stage = "installed"
                  /\ IF Len(freelist) < 3 THEN stage' = "panic" /\ UNCHANGED freelist
                     ELSE stage' = "done" /\ freelist' = FirstThree(1, 3, 2)
                  /\ UNCHANGED <<npages, kend, nextfree, kdir, kmap, region>>

BootNext == BootAlloc \/ PageInit \/ CheckPageFreeList \/ CheckPage \/ BootMapRegion \/ LoadCr3
            \/ CheckInstalled

BootSpec == BootInit /\ [][BootNext]_bootvars

\* env_setup_vm copies these entries of kern_pgdir, the first two with PTE_U.
EnvTables == {PDX(UPAGES), PDX(UENVS), PDX(KSTACKTOP - KSTKSIZE)} \cup PDX(KERNBASE) .. NPD - 1

-----------------------------------------------------------------------------
TablePages == {kdir[i] : i \in DOMAIN kdir}
Occupied == {0, MPENTRY} \cup IOPHYSMEM .. EXTPHYSMEM - 1 \cup EXTPHYSMEM .. kend - 1
            \cup kend .. EnvsArray + ENVPAGES - 1 \cup TablePages
MapsTo(v, pa) == v \in DOMAIN kmap /\ kmap[v].pa = pa

\* When mem_init is done "free pages are kept on a linked list" (pmap.c:304): each
\* page that nothing uses, and once; every page and the I/O memory have their
\* address in the kernel ("We might not have 2^32 - KERNBASE bytes", pmap.c:228);
\* every CPU has its stack with nothing mapped below, so that a kernel "will fault
\* rather than overwrite another CPU's stack" (pmap.c:287); and every environment
\* has all of this in its directory, where it can read the two arrays and nothing else.
MemoryReady ==
  stage = "done" =>
    /\ {freelist[i] : i \in DOMAIN freelist} = (0 .. npages - 1) \ Occupied
    /\ \A i, j \in DOMAIN freelist : freelist[i] = freelist[j] => i = j
    /\ \A p \in 0 .. npages - 1 : MapsTo(KERNBASE + p, p)
    /\ \A v \in IOMEMBASE .. VTOP - 1 : MapsTo(v, v)
    /\ \A c \in 0 .. NCPU - 1, k \in 1 .. KSTKSIZE + KSTKGAP :
         LET v == KSTACKTOP - c * (KSTKSIZE + KSTKGAP) - k
         IN IF k <= KSTKSIZE THEN MapsTo(v, StackPage(c) + KSTKSIZE - k) ELSE v \notin DOMAIN kmap
    /\ \A v \in DOMAIN kmap : /\ PDX(v) \in EnvTables
                              /\ kmap[v].u <=> PDX(v) \in {PDX(UPAGES), PDX(UENVS)}
                              /\ ~(kmap[v].u /\ kmap[v].w)
    /\ \A p \in 0 .. npages - 1 :
         MapsTo(UPAGES + (p * STRUCTBYTES) \div PAGEBYTES, PagesArray + (p * STRUCTBYTES) \div PAGEBYTES)

\* Nothing is touched that entry_pgdir does not map, although page_alloc would
\* begin at the other end of memory: "it's enough to get us through early boot"
\* (entrypgdir.c:10).
NoBootFault == stage # "fault"
=============================================================================
