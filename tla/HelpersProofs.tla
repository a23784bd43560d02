---------------------------- MODULE HelpersProofs ----------------------------
(***************************************************************************)
(* Proofs about the parts that run alone: user_mem_check, load_icode and   *)
(* stab_binsearch for all sizes and arguments, the keyboard input of the   *)
(* console for every size of the ring, and mem_init for every machine.     *)
(***************************************************************************)
EXTENDS UserMem, Loader, StabSearch, Console, BootMemory, FiniteSetTheorems, SequenceTheorems,
        WellFoundedInduction, TLAPS

-----------------------------------------------------------------------------
(* Pages and bytes                                                         *)

\* Where a page begins and ends.
LEMMA PageBounds ==
  ASSUME NEW a \in Nat, NEW s \in Nat \ {0}
  PROVE  /\ a \div s \in Nat
         /\ (a \div s) * s \in Nat
         /\ (a \div s) * s <= a
         /\ a <= (a \div s) * s + s - 1
         /\ ((a \div s) * s) \div s = a \div s
  OBVIOUS

LEMMA FirstByte ==
  ASSUME NEW a \in Nat, NEW s \in Nat \ {0}, a % s = 0
  PROVE  a = (a \div s) * s
  OBVIOUS

\* Pages are in the order of their bytes.
LEMMA PagesAscend ==
  ASSUME NEW a \in Nat, NEW b \in Nat, NEW s \in Nat \ {0}, a <= b
  PROVE  a \div s <= b \div s
  OBVIOUS

\* Distances of whole pages.
LEMMA WholePages ==
  ASSUME NEW i \in Nat, NEW j \in Nat, NEW s \in Nat \ {0}, i <= j
  PROVE  (j * s - i * s) % s = 0
  OBVIOUS

\* A byte of an earlier page is below the first byte of a later one.
LEMMA EarlierPage ==
  ASSUME NEW a \in Nat, NEW k \in Nat, NEW s \in Nat \ {0}
  PROVE  a \div s < k <=> a < k * s
  OBVIOUS

-----------------------------------------------------------------------------
(* user_mem_check                                                          *)

\* What a call looks like: numbers, and the kernel's part of the table.
LEMMA ArgsFacts ==
  ASSUME NEW a \in Args
  PROVE  /\ a.va \in Nat /\ a.len \in Nat /\ PGSIZE \in Nat \ {0}
         /\ ULIM \in Nat /\ TOP \in Nat /\ ULIM < TOP
         /\ a.va < TOP /\ USERPAGES \in Nat
         /\ \A p \in Nat : Allowed(a, p) /\ p < PAGES => p < USERPAGES
<1>1. /\ a.va \in 0 .. TOP - 1 /\ a.len \in 0 .. TOP - 1 /\ a.pt \in Tables
  BY DEF Args
<1>2. ULIM \in Nat /\ TOP \in Nat /\ ULIM < TOP
  <2>1. PAGES = USERPAGES + (PAGES - USERPAGES) /\ PAGES - USERPAGES \in Nat \ {0}
    BY SizesAssumption
  <2>2. PICK d \in Nat \ {0} : PAGES = USERPAGES + d
    BY <2>1
  <2>3. PAGES * PGSIZE = USERPAGES * PGSIZE + d * PGSIZE
    BY <2>2, SizesAssumption
  <2>4. d * PGSIZE > 0 /\ d * PGSIZE \in Nat
    BY <2>2, SizesAssumption
  <2>5. USERPAGES * PGSIZE \in Nat
    BY SizesAssumption
  <2> QED BY <2>3, <2>4, <2>5 DEF ULIM, TOP
<1>3. ASSUME NEW p \in Nat, Allowed(a, p), p < PAGES PROVE p < USERPAGES
  <2>1. a.pt[p] # "kernel"
    BY <1>3 DEF Allowed
  <2> QED BY <1>1, <1>3, <2>1, SizesAssumption DEF Tables
<1> QED BY <1>1, <1>2, <1>3, SizesAssumption

\* Nothing is refused that is right: below ULIM the end does not wrap, and the
\* loop looks only at addresses of the range.
LEMMA NoneRefused ==
  ASSUME NEW a \in Args, Accessible(a)
  PROVE  UserMemCheck(a)
<1>1. a.va + a.len <= ULIM
  BY DEF Accessible
<1>2. a.va + a.len \in 0 .. TOP - 1 /\ a.va <= ULIM
  BY <1>1, ArgsFacts
<1>3. (a.va + a.len) % TOP = a.va + a.len
  BY <1>2, ArgsFacts
<1>4. Probed(a) \subseteq a.va .. a.va + a.len - 1
  <2> SUFFICES ASSUME NEW i \in Probed(a) PROVE i \in a.va .. a.va + a.len - 1
    OBVIOUS
  <2>1. i \in a.va .. ((a.va + a.len) % TOP) - 1
    BY DEF Probed
  <2>2. PICK e \in Int : e = (a.va + a.len) % TOP /\ e = a.va + a.len
    BY <1>2, <1>3, ArgsFacts
  <2> QED BY <2>1, <2>2, ArgsFacts
<1> QED BY <1>2, <1>4 DEF UserMemCheck, Accessible

\* Every byte of a range that begins a page, or stays on one, is on the page of
\* an address that the loop looks at.
LEMMA EveryPageProbed ==
  ASSUME NEW a \in Args, a.len > 0, a.va + a.len < TOP,
         PGNUM(a.va) = PGNUM(a.va + a.len - 1) \/ a.va % PGSIZE = 0,
         NEW i \in a.va .. a.va + a.len - 1
  PROVE  \E j \in Probed(a) : PGNUM(j) = PGNUM(i)
<1>1. /\ a.va \in Nat /\ a.len \in Nat /\ PGSIZE \in Nat \ {0} /\ TOP \in Nat /\ i \in Nat
      /\ a.va <= i /\ i <= a.va + a.len - 1 /\ a.va + a.len - 1 \in Nat
  BY ArgsFacts
<1>2. (a.va + a.len) % TOP = a.va + a.len
  BY <1>1
<1>3. CASE PGNUM(a.va) = PGNUM(a.va + a.len - 1)
  <2>1. PGNUM(a.va) = PGNUM(i)
    <3>1. a.va \div PGSIZE <= i \div PGSIZE /\ i \div PGSIZE <= (a.va + a.len - 1) \div PGSIZE
      BY <1>1, PagesAscend
    <3>2. a.va \div PGSIZE \in Nat /\ i \div PGSIZE \in Nat
      BY <1>1, PageBounds
    <3> QED BY <1>3, <3>1, <3>2 DEF PGNUM
  <2>2. (a.va - a.va) % PGSIZE = 0
    BY <1>1
  <2>3. a.va \in Probed(a)
    BY <1>1, <1>2, <2>2 DEF Probed
  <2> QED BY <2>1, <2>3
<1>4. CASE a.va % PGSIZE = 0
  <2> DEFINE v == a.va \div PGSIZE
             k == i \div PGSIZE
             j == k * PGSIZE
  <2>1. v \in Nat /\ k \in Nat /\ v <= k /\ a.va = v * PGSIZE
    <3>1. v \in Nat /\ k \in Nat /\ v <= k
      BY <1>1, PageBounds, PagesAscend
    <3>2. a.va = v * PGSIZE
      BY <1>1, <1>4, FirstByte
    <3> QED BY <3>1, <3>2
  <2>2. j \in Nat /\ j <= i /\ j \div PGSIZE = k
    BY <1>1, PageBounds
  <2> HIDE DEF v, k
  <2>3. j - a.va = (k - v) * PGSIZE /\ k - v \in Nat
    BY <1>1, <2>1
  <2>4. (j - a.va) % PGSIZE = 0 /\ a.va <= j
    <3>1. v * PGSIZE <= k * PGSIZE /\ (k * PGSIZE - v * PGSIZE) % PGSIZE = 0
      <4>1. (k * PGSIZE - v * PGSIZE) % PGSIZE = 0
        BY <1>1, <2>1, WholePages
      <4>2. (k - v) * PGSIZE \in Nat
        BY <1>1, <2>3
      <4>3. k * PGSIZE \in Nat /\ v * PGSIZE \in Nat
        BY <1>1, <2>1
      <4> QED BY <2>1, <2>3, <4>1, <4>2, <4>3
    <3> QED BY <2>1, <3>1
  <2>5. j \in Probed(a)
    BY <1>1, <1>2, <2>2, <2>4 DEF Probed
  <2> QED BY <2>2, <2>5 DEF PGNUM, k
<1> QED BY <1>3, <1>4

\* Then nothing is let through that is wrong.
LEMMA NoneMissed ==
  ASSUME NEW a \in Args, UserMemCheck(a), a.va + a.len < TOP,
         a.len > 0 => PGNUM(a.va) = PGNUM(a.va + a.len - 1) \/ a.va % PGSIZE = 0
  PROVE  Accessible(a)
<1>1. /\ a.va \in Nat /\ a.len \in Nat /\ PGSIZE \in Nat \ {0} /\ TOP \in Nat /\ ULIM \in Nat
      /\ USERPAGES \in Nat /\ PAGES \in Nat
  BY ArgsFacts, SizesAssumption
<1>2. a.va <= ULIM /\ \A j \in Probed(a) : Allowed(a, PGNUM(j))
  BY DEF UserMemCheck
<1>3. CASE a.len = 0
  BY <1>1, <1>2, <1>3 DEF Accessible
<1>4. CASE a.len > 0
  <2>1. ASSUME NEW i \in a.va .. a.va + a.len - 1
        PROVE  Allowed(a, PGNUM(i))
    BY <1>2, <1>4, EveryPageProbed
  <2> DEFINE z == a.va + a.len - 1
  <2>2. z \in Nat /\ z \in a.va .. a.va + a.len - 1 /\ z < PAGES * PGSIZE
    BY <1>1, <1>4 DEF TOP
  <2>3. PGNUM(z) \in Nat /\ PGNUM(z) < PAGES
    BY <1>1, <2>2, PageBounds, EarlierPage DEF PGNUM
  <2>4. PGNUM(z) < USERPAGES
    BY <2>1, <2>2, <2>3, ArgsFacts
  <2>5. z < ULIM
    BY <1>1, <2>2, <2>4, EarlierPage DEF PGNUM, ULIM
  <2> QED BY <1>1, <2>1, <2>5 DEF Accessible
<1> QED BY <1>1, <1>3, <1>4

\* user_mem_check (pmap.c:695-725) refuses no access that is right, and lets none
\* through that is wrong and that starts a page or is within one, as those of
\* page_fault_handler, for any page size, address space and page table.
THEOREM ChecksMemory == args \in Args => CheckExact
<1> SUFFICES ASSUME args \in Args PROVE CheckExact
  OBVIOUS
<1> DEFINE onepage == args.len > 0 => PGNUM(args.va) = PGNUM(args.va + args.len - 1)
           whole == args.va % PGSIZE = 0
<1>1. Accessible(args) => UserMemCheck(args)
  BY NoneRefused
<1>2. UserMemCheck(args) /\ (onepage \/ whole) /\ args.va + args.len < TOP => Accessible(args)
  BY NoneMissed
<1> QED BY <1>1, <1>2 DEF CheckExact

-----------------------------------------------------------------------------
(* load_icode                                                              *)

\* The bytes of the segments before the k-th.
Loaded(k) == \A i \in DOMAIN ph : \A a \in ph[i].va .. Last(ph[i]) :
               i < k => image[a] = IF a < ph[i].va + ph[i].filesz THEN <<i, a - ph[i].va>> ELSE Byte0

\* Inductive: the stack comes after the last segment.
LoaderInv == /\ ph \in Programs
             /\ n \in 1 .. Len(ph) + 2
             /\ image \in [LVa -> Nat \X Int]
             /\ Loaded(n)

\* A program is a sequence of segments in the order of their pages.
LEMMA ProgramFacts ==
  ASSUME ph \in Programs
  PROVE  /\ Len(ph) \in Nat /\ DOMAIN ph = 1 .. Len(ph)
         /\ \A i \in DOMAIN ph : ph[i] \in Segment
         /\ \A i, j \in DOMAIN ph : i < j => LPage(Last(ph[i])) < LPage(ph[j].va)
<1>1. PICK k \in 1 .. NSEG : ph \in [1 .. k -> Segment]
  BY DEF Programs
<1>2. ph \in Seq(Segment) /\ Len(ph) = k
  BY <1>1
<1> QED BY <1>1, <1>2 DEF Programs

\* Where a segment is: on pages below the stack's, from the first of its page to
\* the end of what region_alloc maps.
LEMMA SegmentFacts ==
  ASSUME NEW s \in Segment
  PROVE  /\ s.va \in Nat /\ s.memsz \in Nat \ {0} /\ s.filesz \in Nat /\ s.filesz <= s.memsz
         /\ LPGSIZE \in Nat \ {0} /\ LPAGES \in Nat
         /\ Last(s) \in Nat /\ s.va <= Last(s) /\ Last(s) <= RegionEnd(s)
         /\ RegionEnd(s) \in Nat
         /\ LPage(s.va) * LPGSIZE <= s.va /\ LPage(s.va) * LPGSIZE \in Nat
         /\ LPage(Last(s)) < LPAGES - 1
<1>1. /\ s.va \in LVa /\ s.memsz \in 1 .. LPGSIZE * LPAGES /\ s.filesz \in 0 .. LPGSIZE * LPAGES
      /\ s.filesz <= s.memsz /\ LPage(Last(s)) < LPAGES - 1
  BY DEF Segment
<1>2. LPGSIZE \in Nat \ {0} /\ LPAGES \in Nat
  BY LoaderAssumption
<1>3. s.va \in Nat /\ s.memsz \in Nat \ {0} /\ s.filesz \in Nat
  BY <1>1, <1>2 DEF LVa
<1>4. Last(s) \in Nat /\ s.va <= Last(s) /\ Last(s) = s.va + s.memsz - 1
  BY <1>3 DEF Last
<1>5. PICK e \in Nat : e = s.va + s.memsz
  BY <1>3
<1>6. RegionEnd(s) \in Nat /\ e <= RegionEnd(s)
  <2>1. RegionEnd(s) = (e \div LPGSIZE) * LPGSIZE + LPGSIZE - 1
    BY <1>5 DEF RegionEnd, LPage
  <2>2. (e \div LPGSIZE) * LPGSIZE \in Nat /\ e <= (e \div LPGSIZE) * LPGSIZE + LPGSIZE - 1
    BY <1>2, PageBounds
  <2> QED BY <1>2, <2>1, <2>2
<1>7. LPage(s.va) * LPGSIZE <= s.va /\ LPage(s.va) * LPGSIZE \in Nat
  BY <1>2, <1>3, PageBounds DEF LPage
<1> QED BY <1>1, <1>2, <1>3, <1>4, <1>5, <1>6, <1>7

\* The bytes of a segment are in its range, and on pages below the stack's.
LEMMA SegmentPlace ==
  ASSUME NEW s \in Segment, NEW a \in s.va .. Last(s)
  PROVE  /\ a \in Nat /\ a \in LVa
         /\ a \in LPage(s.va) * LPGSIZE .. RegionEnd(s)
         /\ LPage(a) \in Nat /\ LPage(a) <= LPage(Last(s)) /\ LPage(a) # LPAGES - 1
<1>1. a \in Nat /\ a \in LPage(s.va) * LPGSIZE .. RegionEnd(s)
  BY SegmentFacts
<1>2. LPage(a) \in Nat /\ LPage(a) <= LPage(Last(s)) /\ LPage(Last(s)) \in Nat
  <2>1. PICK z \in Nat : z = Last(s) /\ a <= z
    BY <1>1, SegmentFacts
  <2>2. a \div LPGSIZE <= z \div LPGSIZE /\ a \div LPGSIZE \in Nat /\ z \div LPGSIZE \in Nat
    BY <1>1, <2>1, PagesAscend, PageBounds, LoaderAssumption
  <2> QED BY <2>1, <2>2 DEF LPage
<1>3. LPage(a) # LPAGES - 1 /\ LPage(a) < LPAGES
  BY <1>2, SegmentFacts
<1>4. a < LPAGES * LPGSIZE
  BY <1>1, <1>2, <1>3, SegmentFacts, EarlierPage DEF LPage
<1>5. a \in LVa
  BY <1>1, <1>4, LoaderAssumption DEF LVa
<1> QED BY <1>1, <1>2, <1>3, <1>5

\* The bytes of an earlier segment are below the range of a later one.
LEMMA SegmentsApart ==
  ASSUME ph \in Programs, NEW i \in DOMAIN ph, NEW j \in DOMAIN ph, i < j,
         NEW a \in ph[i].va .. Last(ph[i])
  PROVE  a < LPage(ph[j].va) * LPGSIZE
<1> DEFINE k == LPage(ph[j].va)
<1>1. ph[i] \in Segment /\ ph[j] \in Segment /\ LPage(Last(ph[i])) < k
  BY ProgramFacts
<1>2. a \in Nat /\ LPage(a) \in Nat /\ LPage(a) <= LPage(Last(ph[i]))
  BY <1>1, SegmentPlace
<1>3. k \in Nat /\ LPage(Last(ph[i])) \in Nat
  BY <1>1, SegmentFacts, PageBounds DEF LPage
<1>4. LPage(a) < k
  BY <1>1, <1>2, <1>3
<1> QED BY <1>2, <1>3, <1>4, LoaderAssumption, EarlierPage DEF LPage

\* One more segment, and what is below it stays.
LEMMA SegmentStep == LoaderInv /\ LoadSegment => LoaderInv'
<1> SUFFICES ASSUME LoaderInv, LoadSegment PROVE LoaderInv'
  OBVIOUS
<1> DEFINE s == ph[n]
           range == LPage(s.va) * LPGSIZE .. RegionEnd(s)
<1>1. /\ ph \in Programs /\ n \in 1 .. Len(ph) + 2 /\ image \in [LVa -> Nat \X Int] /\ Loaded(n)
  BY DEF LoaderInv
<1>2. n \in DOMAIN ph /\ n \in Nat /\ s \in Segment /\ Len(ph) \in Nat
  BY <1>1, ProgramFacts DEF LoadSegment
<1>3. /\ ph' = ph /\ n' = n + 1
      /\ image' = [a \in LVa |->
                     IF a \notin range /\ image[a] = NoByte THEN NoByte
                     ELSE IF a >= s.va /\ a < s.va + s.filesz THEN <<n, a - s.va>>
                     ELSE IF a >= s.va /\ a <= Last(s) THEN Byte0
                     ELSE IF a \in range THEN Junk
                     ELSE image[a]]
  BY DEF LoadSegment
<1>4. image' \in [LVa -> Nat \X Int]
  <2>1. NoByte \in Nat \X Int /\ Byte0 \in Nat \X Int /\ Junk \in Nat \X Int
    BY DEF NoByte, Byte0, Junk
  <2>2. \A a \in LVa : <<n, a - s.va>> \in Nat \X Int
    BY <1>2, SegmentFacts, LoaderAssumption DEF LVa
  <2> HIDE DEF s, range
  <2>3. \A a \in LVa : image'[a] \in Nat \X Int
    BY <1>1, <1>3, <2>1, <2>2
  <2> QED BY <1>3, <2>3
<1>5. Loaded(n)'
  <2> SUFFICES ASSUME NEW i \in DOMAIN ph, NEW a \in ph[i].va .. Last(ph[i]), i < n + 1
               PROVE  image'[a] = IF a < ph[i].va + ph[i].filesz THEN <<i, a - ph[i].va>> ELSE Byte0
    BY <1>3 DEF Loaded
  <2>1. i \in Nat /\ ph[i] \in Segment /\ a \in LVa /\ a \in Nat
    BY <1>1, ProgramFacts, SegmentPlace
  <2>2. CASE i = n
    <3>1. a \in range /\ s.va <= a /\ a <= Last(s)
      BY <1>2, <2>2, SegmentPlace, SegmentFacts
    <3> QED BY <1>3, <2>1, <2>2, <3>1
  <2>3. CASE i < n
    <3>1. image[a] = IF a < ph[i].va + ph[i].filesz THEN <<i, a - ph[i].va>> ELSE Byte0
      BY <1>1, <2>3 DEF Loaded
    <3>2. image[a] # NoByte
      BY <1>1, <2>1, <3>1, ProgramFacts DEF NoByte, Byte0
    <3>3. a < LPage(s.va) * LPGSIZE
      BY <1>1, <1>2, <2>3, SegmentsApart
    <3>4. a \notin range /\ a < s.va
      BY <1>2, <2>1, <3>3, SegmentFacts
    <3>5. ~(a >= s.va)
      BY <1>2, <2>1, <3>4, SegmentFacts
    <3> QED BY <1>3, <2>1, <3>1, <3>2, <3>4, <3>5
  <2> QED BY <1>2, <2>1, <2>2, <2>3
<1>6. n' \in 1 .. Len(ph) + 2
  BY <1>2, <1>3 DEF LoadSegment
<1> QED BY <1>1, <1>3, <1>4, <1>5, <1>6 DEF LoaderInv

\* The stack is on a page of its own.
LEMMA StackStep == LoaderInv /\ LoadStack => LoaderInv'
<1> SUFFICES ASSUME LoaderInv, LoadStack PROVE LoaderInv'
  OBVIOUS
<1>1. /\ ph \in Programs /\ n \in 1 .. Len(ph) + 2 /\ image \in [LVa -> Nat \X Int] /\ Loaded(n)
      /\ Len(ph) \in Nat /\ DOMAIN ph = 1 .. Len(ph)
  BY ProgramFacts DEF LoaderInv
<1>2. /\ n = Len(ph) + 1 /\ ph' = ph /\ n' = n + 1
      /\ image' = [a \in LVa |-> IF LPage(a) = LPAGES - 1 THEN Junk ELSE image[a]]
  BY DEF LoadStack
<1>3. image' \in [LVa -> Nat \X Int]
  BY <1>1, <1>2 DEF Junk
<1>4. Loaded(n)'
  <2>1. ASSUME NEW i \in DOMAIN ph, NEW a \in ph[i].va .. Last(ph[i])
        PROVE  image'[a] = IF a < ph[i].va + ph[i].filesz THEN <<i, a - ph[i].va>> ELSE Byte0
    <3>1. i < n /\ a \in LVa /\ LPage(a) # LPAGES - 1
      BY <1>1, <1>2, ProgramFacts, SegmentPlace
    <3> QED BY <1>1, <1>2, <3>1 DEF Loaded
  <2>2. ph' = ph
    BY <1>2
  <2> QED BY <2>1, <2>2 DEF Loaded
<1> QED BY <1>1, <1>2, <1>3, <1>4 DEF LoaderInv

\* Every program is in memory as its file says when load_icode (env.c:370-433) is
\* done, for any number and sizes of segments and pages: the extra page that
\* region_alloc maps after a segment that ends with its page undoes no other one.
THEOREM ProgramsLoaded == LoaderSpec => []LoadExact
<1>1. LoaderInit => LoaderInv
  <2> SUFFICES ASSUME LoaderInit PROVE LoaderInv
    OBVIOUS
  <2>1. ph \in Programs /\ n = 1 /\ image = [a \in LVa |-> NoByte]
    BY DEF LoaderInit
  <2>2. Len(ph) \in Nat /\ DOMAIN ph = 1 .. Len(ph)
    BY <2>1, ProgramFacts
  <2>3. Loaded(n)
    BY <2>1, <2>2 DEF Loaded
  <2> QED BY <2>1, <2>2, <2>3 DEF LoaderInv, NoByte
<1>2. LoaderInv /\ [LoaderNext]_<<ph, n, image>> => LoaderInv'
  <2>1. LoaderInv /\ UNCHANGED <<ph, n, image>> => LoaderInv'
    BY DEF LoaderInv, Loaded
  <2> QED BY <2>1, SegmentStep, StackStep DEF LoaderNext
<1>3. LoaderInv => LoadExact
  <2> SUFFICES ASSUME LoaderInv, n > Len(ph) + 1,
                      NEW i \in DOMAIN ph, NEW a \in ph[i].va .. Last(ph[i])
               PROVE  image[a] = IF a < ph[i].va + ph[i].filesz THEN <<i, a - ph[i].va>> ELSE Byte0
    BY DEF LoadExact
  <2>1. i < n
    BY ProgramFacts DEF LoaderInv
  <2> QED BY <2>1 DEF LoaderInv, Loaded
<1> QED BY <1>1, <1>2, <1>3, PTL DEF LoaderSpec

-----------------------------------------------------------------------------
(* stab_binsearch                                                          *)

Index == 0 .. NSTABS - 1

\* The address has no entry, or its entry is not followed by one of the very next
\* address.
Distinct == ~(\E i, j \in OfType : stabs[i] = wanted /\ stabs[j] = wanted + 1)

StabTypes == /\ stabs \in [Index -> 1 .. MAXADDR \cup {OtherType}] /\ Ordered(stabs)
             /\ wanted \in 0 .. MAXADDR /\ addr \in wanted .. MAXADDR + 1
             /\ l \in 0 .. NSTABS /\ r \in -1 .. NSTABS - 1
             /\ any_matches \in BOOLEAN /\ searching \in BOOLEAN

\* While it searches: the last entry that has begun, if it is not left, is in
\* [l, r], and right is just before an entry that has not begun.
Narrowed == /\ right = r /\ left \in 0 .. l
            /\ \A k \in OfType : k > r => stabs[k] > wanted
            /\ r = NSTABS - 1 \/ r + 1 \in OfType
            /\ any_matches => OfType # {}
            /\ ~any_matches => left = 0 /\ r = NSTABS - 1 /\ \A k \in OfType : k >= l

\* The lower side of it, if the address that the function looks for cannot be met
\* a second time.
Passed == /\ \A k \in OfType : k < l => k <= left /\ left \in Begun
          /\ \/ addr = wanted /\ (left \in Begun \/ left = 0)
             \/ addr = wanted + 1 /\ left \in OfType /\ stabs[left] = wanted

StabInv == /\ StabTypes
           /\ searching => Narrowed
           /\ searching /\ Distinct => Passed
           /\ SearchExact

\* Numbers and order.
LEMMA StabFacts ==
  ASSUME StabTypes
  PROVE  /\ OfType \subseteq Index /\ Begun \subseteq OfType
         /\ \A k \in OfType : stabs[k] \in Nat /\ stabs[k] >= 1 /\ stabs[k] <= MAXADDR
         /\ \A j, k \in OfType : j < k => stabs[j] < stabs[k]
         /\ NSTABS \in Nat \ {0} /\ MAXADDR \in Nat
         /\ \A k \in Index : k \in Nat /\ k < NSTABS
<1>1. DOMAIN stabs = Index
  BY DEF StabTypes
<1>2. \A k \in OfType : stabs[k] \in 1 .. MAXADDR
  BY <1>1 DEF StabTypes, OfType
<1>3. \A j, k \in OfType : j < k => stabs[j] < stabs[k]
  BY DEF StabTypes, Ordered, OfType
<1>4. OfType \subseteq Index /\ Begun \subseteq OfType
  BY <1>1 DEF OfType, Begun
<1> QED BY <1>2, <1>3, <1>4, StabAssumption DEF Index

\* What the loop finds: the last entry of the type in [l, true_m].
LEMMA MatchFacts ==
  ASSUME StabTypes, NEW m, IsMatch(m)
  PROVE  /\ searching /\ m \in OfType /\ m \in Nat /\ l <= m /\ m <= r /\ m <= true_m
         /\ true_m \in Nat /\ l <= true_m /\ true_m <= r
         /\ \A k \in OfType : k >= l /\ k <= true_m => k <= m
<1>1. l \in Nat /\ r \in Int /\ r < NSTABS /\ l <= r /\ NSTABS \in Nat
  BY StabAssumption DEF StabTypes, IsMatch
<1>2. true_m \in Nat /\ l <= true_m /\ true_m <= r
  BY <1>1 DEF true_m
<1>3. /\ searching /\ m \in l .. true_m /\ stabs[m] # OtherType
      /\ \A k \in l .. true_m : stabs[k] # OtherType => k <= m
  BY DEF IsMatch, Candidates
<1>4. DOMAIN stabs = Index
  BY DEF StabTypes
<1>5. m \in OfType
  BY <1>1, <1>2, <1>3, <1>4 DEF OfType, Index
<1>6. ASSUME NEW k \in OfType, k >= l, k <= true_m PROVE k <= m
  <2>1. k \in Int /\ stabs[k] # OtherType
    BY <1>4 DEF OfType, Index
  <2> QED BY <1>1, <1>2, <1>3, <1>6, <2>1
<1> QED BY <1>1, <1>2, <1>3, <1>5, <1>6

\* What the sets are after a step.
LEMMA SameStabs ==
  ASSUME stabs' = stabs, wanted' = wanted
  PROVE  OfType' = OfType /\ Begun' = Begun /\ (Distinct' <=> Distinct)
  BY DEF OfType, Begun, Distinct

LEMMA InitStabInv == StabInit => StabInv
<1> SUFFICES ASSUME StabInit PROVE StabInv
  OBVIOUS
<1>1. StabTypes
  <2>1. stabs \in [Index -> 1 .. MAXADDR \cup {OtherType}] /\ Ordered(stabs)
    BY DEF StabInit, Index
  <2>2. wanted \in Nat /\ wanted <= MAXADDR /\ addr = wanted /\ wanted \in 0 .. MAXADDR
    BY StabAssumption DEF StabInit
  <2>3. addr \in wanted .. MAXADDR + 1
    BY <2>2, StabAssumption
  <2>4. l \in 0 .. NSTABS /\ r \in -1 .. NSTABS - 1
    <3>1. l = 0 /\ r = NSTABS - 1
      BY DEF StabInit
    <3> QED BY <3>1, StabAssumption
  <2>5. any_matches \in BOOLEAN /\ searching \in BOOLEAN
    BY DEF StabInit
  <2> QED BY <2>1, <2>2, <2>3, <2>4, <2>5 DEF StabTypes
<1>2. /\ wanted = addr /\ l = 0 /\ r = NSTABS - 1 /\ left = 0 /\ right = NSTABS - 1
      /\ any_matches = FALSE /\ searching = TRUE
  BY DEF StabInit
<1>3. Narrowed
  BY <1>1, <1>2, StabFacts DEF Narrowed
<1>4. Passed
  BY <1>1, <1>2, StabFacts DEF Passed
<1> QED BY <1>1, <1>2, <1>3, <1>4 DEF StabInv, SearchExact

LEMMA NoMatchStep == StabInv /\ NoMatch => StabInv'
<1> SUFFICES ASSUME StabInv, NoMatch PROVE StabInv'
  OBVIOUS
<1>1. /\ searching /\ l <= r /\ Candidates = {} /\ l' = true_m + 1
      /\ stabs' = stabs /\ wanted' = wanted /\ addr' = addr /\ r' = r /\ left' = left
      /\ right' = right /\ any_matches' = any_matches /\ searching' = searching
  BY DEF NoMatch
<1>2. StabTypes /\ Narrowed /\ (Distinct => Passed)
  BY <1>1 DEF StabInv
<1>3. l \in Nat /\ r \in Int /\ r < NSTABS /\ NSTABS \in Nat /\ true_m \in Nat /\ l <= true_m /\ true_m <= r
  BY <1>1, <1>2, StabAssumption DEF StabTypes, true_m
<1>4. \A k \in OfType : k \in Nat /\ (k < true_m + 1 => k < l)
  <2> SUFFICES ASSUME NEW k \in OfType PROVE k \in Nat /\ (k < true_m + 1 => k < l)
    OBVIOUS
  <2>1. k \in Nat /\ stabs[k] # OtherType
    BY <1>2, StabFacts DEF OfType
  <2>2. k \notin l .. true_m
    BY <1>1, <2>1 DEF Candidates
  <2> QED BY <1>3, <2>1, <2>2
<1>5. StabTypes'
  BY <1>1, <1>2, <1>3 DEF StabTypes
<1>6. OfType' = OfType /\ Begun' = Begun /\ (Distinct' <=> Distinct)
  BY <1>1, SameStabs
<1>7. Narrowed'
  BY <1>1, <1>2, <1>3, <1>4, <1>6 DEF Narrowed
<1>8. Distinct => Passed'
  BY <1>1, <1>2, <1>3, <1>4, <1>6 DEF Passed
<1> QED BY <1>1, <1>5, <1>6, <1>7, <1>8 DEF StabInv, SearchExact

LEMMA BelowStep == ASSUME NEW m \in Index PROVE StabInv /\ Below(m) => StabInv'
<1> SUFFICES ASSUME StabInv, Below(m) PROVE StabInv'
  OBVIOUS
<1>1. /\ IsMatch(m) /\ stabs[m] < addr /\ l' = true_m + 1 /\ left' = m /\ any_matches' = TRUE
      /\ stabs' = stabs /\ wanted' = wanted /\ addr' = addr /\ r' = r
      /\ right' = right /\ searching' = searching
  BY DEF Below
<1>2. searching /\ StabTypes /\ Narrowed /\ (Distinct => Passed)
  BY <1>1 DEF StabInv, IsMatch
<1>3. /\ m \in OfType /\ m \in Nat /\ l <= m /\ m <= r /\ m <= true_m
      /\ true_m \in Nat /\ l <= true_m /\ true_m <= r
      /\ \A k \in OfType : k >= l /\ k <= true_m => k <= m
  BY <1>1, <1>2, MatchFacts
<1>4. /\ l \in Nat /\ r \in Int /\ r < NSTABS /\ NSTABS \in Nat /\ wanted \in Nat /\ addr \in Nat
      /\ left \in Int /\ \A k \in OfType : k \in Nat /\ stabs[k] \in Nat
  BY <1>2, StabFacts DEF StabTypes, Narrowed
<1>5. StabTypes'
  BY <1>1, <1>2, <1>3, <1>4 DEF StabTypes
<1>6. OfType' = OfType /\ Begun' = Begun /\ (Distinct' <=> Distinct)
  BY <1>1, SameStabs
<1>7. Narrowed'
  BY <1>1, <1>2, <1>3, <1>4, <1>6 DEF Narrowed
<1>8. ASSUME Distinct PROVE Passed'
  <2>1. Passed /\ left <= l
    BY <1>2, <1>8 DEF Narrowed
  <2>2. stabs[m] <= wanted /\ m \in Begun
    BY <1>1, <1>3, <1>4, <2>1 DEF Passed, Begun
  <2>3. \A k \in OfType : k < true_m + 1 => k <= m
    BY <1>3, <1>4, <2>1 DEF Passed
  <2>4. CASE addr = wanted
    BY <1>1, <1>6, <2>2, <2>3, <2>4 DEF Passed
  <2>5. CASE addr # wanted
    <3>1. addr = wanted + 1 /\ left \in OfType /\ stabs[left] = wanted
      BY <2>1, <2>5 DEF Passed
    <3>2. ~(left < m)
      BY <1>2, <1>3, <1>4, <2>2, <3>1, StabFacts
    <3>3. m = left
      BY <1>3, <1>4, <2>1, <3>2
    <3> QED BY <1>1, <1>6, <2>2, <2>3, <3>1, <3>3 DEF Passed
  <2> QED BY <2>4, <2>5
<1> QED BY <1>1, <1>2, <1>5, <1>6, <1>7, <1>8 DEF StabInv, SearchExact

LEMMA AboveStep == ASSUME NEW m \in Index PROVE StabInv /\ Above(m) => StabInv'
<1> SUFFICES ASSUME StabInv, Above(m) PROVE StabInv'
  OBVIOUS
<1>1. /\ IsMatch(m) /\ stabs[m] > addr /\ r' = m - 1 /\ right' = m - 1 /\ any_matches' = TRUE
      /\ stabs' = stabs /\ wanted' = wanted /\ addr' = addr /\ l' = l
      /\ left' = left /\ searching' = searching
  BY DEF Above
<1>2. searching /\ StabTypes /\ Narrowed /\ (Distinct => Passed)
  BY <1>1 DEF StabInv, IsMatch
<1>3. /\ m \in OfType /\ m \in Nat /\ l <= m /\ m <= r
  BY <1>1, <1>2, MatchFacts
<1>4. /\ l \in Nat /\ r \in Int /\ r < NSTABS /\ NSTABS \in Nat /\ wanted \in Nat /\ addr \in Nat
      /\ wanted <= addr /\ \A k \in OfType : k \in Nat /\ stabs[k] \in Nat
  BY <1>2, StabFacts DEF StabTypes
<1>5. StabTypes'
  BY <1>1, <1>2, <1>3, <1>4 DEF StabTypes
<1>6. OfType' = OfType /\ Begun' = Begun /\ (Distinct' <=> Distinct)
  BY <1>1, SameStabs
<1>7. Narrowed'
  <2>1. \A k \in OfType : k > m - 1 => stabs[k] > wanted
    <3> SUFFICES ASSUME NEW k \in OfType, k > m - 1 PROVE stabs[k] > wanted
      OBVIOUS
    <3>1. k = m \/ m < k
      BY <1>3, <1>4
    <3>2. stabs[m] <= stabs[k]
      BY <1>2, <1>3, <1>4, <3>1, StabFacts
    <3> QED BY <1>1, <1>3, <1>4, <3>2
  <2> QED BY <1>1, <1>2, <1>3, <1>4, <1>6, <2>1 DEF Narrowed
<1>8. Distinct => Passed'
  BY <1>1, <1>2, <1>6 DEF Passed
<1> QED BY <1>1, <1>2, <1>5, <1>6, <1>7, <1>8 DEF StabInv, SearchExact

LEMMA ExactStep == ASSUME NEW m \in Index PROVE StabInv /\ Exact(m) => StabInv'
<1> SUFFICES ASSUME StabInv, Exact(m) PROVE StabInv'
  OBVIOUS
<1>1. /\ IsMatch(m) /\ stabs[m] = addr /\ left' = m /\ l' = m /\ addr' = addr + 1
      /\ any_matches' = TRUE /\ stabs' = stabs /\ wanted' = wanted /\ r' = r
      /\ right' = right /\ searching' = searching
  BY DEF Exact
<1>2. searching /\ StabTypes /\ Narrowed /\ (Distinct => Passed)
  BY <1>1 DEF StabInv, IsMatch
<1>3. /\ m \in OfType /\ m \in Nat /\ l <= m /\ m <= r /\ m <= true_m
      /\ \A k \in OfType : k >= l /\ k <= true_m => k <= m
  BY <1>1, <1>2, MatchFacts
<1>4. /\ l \in Nat /\ r \in Int /\ r < NSTABS /\ NSTABS \in Nat /\ wanted \in Nat /\ addr \in Nat
      /\ left \in Int /\ \A k \in OfType : k \in Nat /\ stabs[k] \in Nat /\ stabs[k] <= MAXADDR
      /\ MAXADDR \in Nat /\ wanted <= addr
  BY <1>2, StabFacts DEF StabTypes, Narrowed
<1>5. StabTypes'
  <2>1. addr + 1 \in wanted .. MAXADDR + 1
    BY <1>1, <1>3, <1>4
  <2> QED BY <1>1, <1>2, <1>3, <1>4, <2>1 DEF StabTypes
<1>6. OfType' = OfType /\ Begun' = Begun /\ (Distinct' <=> Distinct)
  BY <1>1, SameStabs
<1>7. Narrowed'
  BY <1>1, <1>2, <1>3, <1>4, <1>6 DEF Narrowed
<1>8. ASSUME Distinct PROVE Passed'
  <2>1. Passed /\ left <= l
    BY <1>2, <1>8 DEF Narrowed
  <2>2. addr = wanted
    BY <1>1, <1>3, <1>8, <2>1 DEF Passed, Distinct
  <2>3. m \in Begun
    BY <1>1, <1>3, <1>4, <2>2 DEF Begun
  <2>4. \A k \in OfType : k < m => k <= m
    BY <1>3, <1>4
  <2> QED BY <1>1, <1>3, <1>6, <2>2, <2>3, <2>4 DEF Passed
<1> QED BY <1>1, <1>2, <1>5, <1>6, <1>7, <1>8 DEF StabInv, SearchExact

\* The loop ends with the last entry that has begun, and the walk back from right
\* comes to it.
LEMMA FinishStep == StabInv /\ Finish => StabInv'
<1> SUFFICES ASSUME StabInv, Finish PROVE StabInv'
  OBVIOUS
<1>1. /\ searching /\ l > r /\ searching' = FALSE
      /\ stabs' = stabs /\ wanted' = wanted /\ addr' = addr /\ l' = l /\ r' = r
      /\ any_matches' = any_matches
  BY DEF Finish
<1>2. StabTypes /\ Narrowed /\ (Distinct => Passed)
  BY <1>1 DEF StabInv
<1>3. /\ l \in Nat /\ r \in Int /\ r < NSTABS /\ NSTABS \in Nat \ {0} /\ wanted \in Nat
      /\ left \in Nat /\ right = r
      /\ \A k \in OfType : k \in Nat /\ k < NSTABS /\ stabs[k] \in Nat
  BY <1>2, StabFacts DEF StabTypes, Narrowed
<1>4. OfType' = OfType /\ Begun' = Begun
  BY <1>1, SameStabs
<1>5. OfType = {} => (left > right)'
  <2> SUFFICES ASSUME OfType = {} PROVE (left > right)'
    OBVIOUS
  <2>1. ~any_matches
    BY <1>2 DEF Narrowed
  <2> QED BY <1>3, <2>1 DEF Finish
<1>6. ASSUME Begun # {}, Distinct
      PROVE  Brackets'
  <2>1. /\ Passed /\ \A k \in OfType : k > r => stabs[k] > wanted
        /\ r = NSTABS - 1 \/ r + 1 \in OfType
        /\ ~any_matches => \A k \in OfType : k >= l
    BY <1>2, <1>6 DEF Narrowed
  <2>2. \A k \in Begun : k \in OfType /\ k \in Nat /\ stabs[k] <= wanted
    BY <1>3 DEF Begun
  <2>3. \A k \in OfType : k <= r => k <= left /\ left \in Begun
    BY <1>1, <1>3, <2>1 DEF Passed
  <2>4. \A k \in Begun : k <= r
    BY <1>3, <2>1, <2>2
  <2>5. left \in Begun /\ \A k \in Begun : k <= left
    BY <1>6, <2>2, <2>3, <2>4
  <2>6. any_matches
    BY <1>1, <1>3, <1>6, <2>1, <2>2, <2>4
  <2> DEFINE P(m) == /\ m <= right
                     /\ m <= left \/ stabs[m] # OtherType
                     /\ \A k \in m + 1 .. right : k > left /\ stabs[k] = OtherType
  <2>7. left' = (CHOOSE m \in -1 .. NSTABS - 1 : P(m)) /\ right' = right
    BY <2>6 DEF Finish
  <2>8. \A k \in left + 1 .. right : k > left /\ stabs[k] = OtherType
    <3> SUFFICES ASSUME NEW k \in left + 1 .. right PROVE k > left /\ stabs[k] = OtherType
      OBVIOUS
    <3>1. k \in Nat /\ k > left /\ k <= r
      BY <1>3
    <3>2. k \notin OfType
      BY <1>3, <2>3, <3>1
    <3>3. k \in DOMAIN stabs
      BY <1>2, <1>3, <3>1 DEF StabTypes, Index
    <3> QED BY <3>1, <3>2, <3>3 DEF OfType
  <2>9. left \in -1 .. NSTABS - 1 /\ P(left)
    BY <1>3, <2>2, <2>4, <2>5, <2>8
  <2>10. ASSUME NEW m \in -1 .. NSTABS - 1, P(m) PROVE m = left
    <3>1. ~(m > left)
      <4> SUFFICES ASSUME m > left PROVE FALSE
        OBVIOUS
      <4>1. m \in left + 1 .. right /\ stabs[m] # OtherType
        BY <1>3, <2>10
      <4> QED BY <2>8, <4>1
    <3>2. ~(m < left)
      <4> SUFFICES ASSUME m < left PROVE FALSE
        OBVIOUS
      <4>1. left \in m + 1 .. right
        BY <1>3, <2>9
      <4> QED BY <1>3, <2>10, <4>1
    <3> QED BY <1>3, <3>1, <3>2
  <2> HIDE DEF P
  <2>11. left' = left
    <3>1. P(CHOOSE m \in -1 .. NSTABS - 1 : P(m))
      BY <2>9
    <3> QED BY <2>7, <2>9, <2>10, <3>1
  <2>12. /\ right \in left .. NSTABS - 1
         /\ \A k \in OfType : k > left => k > right
    BY <1>3, <2>2, <2>3, <2>4, <2>5
  <2>13. DOMAIN stabs = 0 .. NSTABS - 1
    BY <1>2 DEF StabTypes, Index
  <2>14. right + 1 \in DOMAIN stabs => right + 1 \in OfType
    BY <1>3, <2>1, <2>13
  <2> QED BY <1>1, <1>4, <2>5, <2>7, <2>11, <2>12, <2>14 DEF Brackets
<1>7. SearchExact'
  <2>1. (\E i, j \in OfType : stabs[i] = wanted /\ stabs[j] = wanted + 1)' <=> ~Distinct
    BY <1>1, <1>4 DEF Distinct
  <2> QED BY <1>4, <1>5, <1>6, <2>1 DEF SearchExact
<1>8. StabTypes'
  BY <1>1, <1>2 DEF StabTypes
<1> QED BY <1>1, <1>7, <1>8 DEF StabInv

\* stab_binsearch (kdebug.c:45-101) finds the entry that contains the address and
\* where the next one begins, for any number of entries and however those of other
\* types lie between them; the walk back at its end never passes the entry.
THEOREM SearchFinds == StabSpec => []SearchExact
<1>1. StabInv /\ [StabNext]_stabvars => StabInv'
  <2> SUFFICES ASSUME StabInv, [StabNext]_stabvars PROVE StabInv'
    OBVIOUS
  <2>1. CASE UNCHANGED stabvars
    BY <2>1 DEF stabvars, StabInv, StabTypes, Narrowed, Passed, Distinct, SearchExact, Brackets,
       OfType, Begun
  <2>2. CASE StabNext
    BY <2>2, NoMatchStep, BelowStep, AboveStep, ExactStep, FinishStep DEF StabNext, Index
  <2> QED BY <2>1, <2>2
<1>2. StabInv => SearchExact
  BY DEF StabInv
<1> QED BY <1>1, <1>2, InitStabInv, PTL DEF StabSpec

-----------------------------------------------------------------------------
(* Induction over numbers, with a set for the predicate                    *)

LEMMA Smallest ==
  ASSUME NEW T, T \subseteq Nat, T # {}
  PROVE  \E x \in T : \A y \in T : x <= y
<1> DEFINE R == OpToRel(<, Nat)
<1>1. IsWellFoundedOn(R, Nat)
  BY NatLessThanWellFounded
<1>2. \A x, y \in Nat : y < x => <<y, x>> \in R
  BY DEF OpToRel
<1> HIDE DEF R
<1>3. PICK x \in T : \A y \in T : ~ (<<y, x>> \in R)
  BY <1>1, WFMin
<1>4. ASSUME NEW y \in T PROVE x <= y
  <2>1. x \in Nat /\ y \in Nat
    OBVIOUS
  <2>2. ~(y < x)
    BY <1>2, <1>3, <2>1
  <2> QED BY <2>1, <2>2
<1> QED BY <1>4

LEMMA Induction ==
  ASSUME NEW S, 0 \in S, \A k \in Nat : k \in S => k + 1 \in S
  PROVE  \A k \in Nat : k \in S
<1> SUFFICES ASSUME NEW k \in Nat, k \notin S PROVE FALSE
  OBVIOUS
<1> DEFINE T == {j \in Nat : j \notin S}
<1>1. T \subseteq Nat /\ T # {}
  OBVIOUS
<1> HIDE DEF T
<1>2. PICK x \in T : \A y \in T : x <= y
  BY <1>1, Smallest
<1>3. x \in Nat /\ x \notin S /\ x # 0
  BY <1>2 DEF T
<1>4. x - 1 \in Nat /\ x - 1 \notin T
  BY <1>2, <1>3
<1>5. x - 1 \in S
  BY <1>4 DEF T
<1> QED BY <1>3, <1>4, <1>5

-----------------------------------------------------------------------------
(* kbd_proc_data over several bytes                                        *)

\* What one more byte does.
Reads(x, b) == [bits |-> KbdProcData(x.bits, b).bits, out |-> x.out \o KbdProcData(x.bits, b).out]

\* The states of the first k bytes.
Decodes(d, k, bits, q) ==
  d = [i \in 0 .. k |-> IF i = 0 THEN [bits |-> bits, out |-> <<>>] ELSE Reads(d[i - 1], q[i])]

\* There are such states.
LEMMA DecodesExists ==
  ASSUME NEW bits, NEW q
  PROVE  \A k \in Nat : \E d : Decodes(d, k, bits, q)
<1> DEFINE S == {k \in Nat : \E d : Decodes(d, k, bits, q)}
<1>1. 0 \in S
  <2> DEFINE d == [i \in 0 .. 0 |-> [bits |-> bits, out |-> <<>>]]
  <2>1. Decodes(d, 0, bits, q)
    BY DEF Decodes
  <2> QED BY <2>1
<1>2. ASSUME NEW k \in Nat, k \in S PROVE k + 1 \in S
  <2>1. PICK d : Decodes(d, k, bits, q)
    BY <1>2
  <2> DEFINE e == [i \in 0 .. k + 1 |-> IF i = k + 1 THEN Reads(d[k], q[k + 1]) ELSE d[i]]
             f == [i \in 0 .. k + 1 |-> IF i = 0 THEN [bits |-> bits, out |-> <<>>]
                                        ELSE Reads(e[i - 1], q[i])]
  <2>2. ASSUME NEW i \in 0 .. k + 1 PROVE e[i] = f[i]
    <3>1. CASE i = 0
      <4>1. e[i] = d[0] /\ d[0] = [bits |-> bits, out |-> <<>>]
        BY <2>1, <3>1 DEF Decodes
      <4> QED BY <3>1, <4>1
    <3>2. CASE i = k + 1
      <4>1. e[i] = Reads(d[k], q[k + 1]) /\ e[i - 1] = d[k]
        BY <3>2
      <4>2. f[i] = Reads(e[i - 1], q[i])
        BY <3>2
      <4> QED BY <3>2, <4>1, <4>2
    <3>3. CASE i # 0 /\ i # k + 1
      <4>1. i \in 0 .. k /\ i - 1 \in 0 .. k + 1 /\ i - 1 # k + 1
        BY <3>3
      <4>2. e[i] = d[i] /\ e[i - 1] = d[i - 1] /\ f[i] = Reads(e[i - 1], q[i])
        BY <3>3, <4>1
      <4>3. d[i] = Reads(d[i - 1], q[i])
        BY <2>1, <3>3, <4>1 DEF Decodes
      <4> QED BY <4>2, <4>3
    <3> QED BY <3>1, <3>2, <3>3
  <2>3. e = f
    BY <2>2
  <2>4. Decodes(e, k + 1, bits, q)
    BY <2>3 DEF Decodes
  <2> QED BY <2>4
<1> HIDE DEF S
<1>3. \A k \in Nat : k \in S
  BY <1>1, <1>2, Induction
<1> QED BY <1>3 DEF S

\* Decoding is the last of them.
LEMMA DecodingStates ==
  ASSUME NEW bits, NEW q, Len(q) \in Nat
  PROVE  \E d : /\ d[0] = [bits |-> bits, out |-> <<>>]
                /\ \A i \in 1 .. Len(q) : d[i] = Reads(d[i - 1], q[i])
                /\ Decoding(bits, q) = d[Len(q)]
<1>1. \E d : Decodes(d, Len(q), bits, q)
  BY DecodesExists
<1>2. PICK d : Decodes(d, Len(q), bits, q) /\ Decoding(bits, q) = d[Len(q)]
  <2> DEFINE c == CHOOSE d : Decodes(d, Len(q), bits, q)
  <2>1. Decodes(c, Len(q), bits, q)
    BY <1>1
  <2>2. Decoding(bits, q) = c[Len(q)]
    BY DEF Decoding, Decodes, Reads
  <2> QED BY <2>1, <2>2
<1>3. d[0] = [bits |-> bits, out |-> <<>>]
  BY <1>2 DEF Decodes
<1>4. ASSUME NEW i \in 1 .. Len(q) PROVE d[i] = Reads(d[i - 1], q[i])
  BY <1>2 DEF Decodes
<1> QED BY <1>2, <1>3, <1>4

Result == [bits : SUBSET Bit, out : Seq(Char)]

\* A byte changes the bits, and makes a character at most.
LEMMA KbdTypes ==
  ASSUME NEW bits \in SUBSET Bit, NEW b \in Byte
  PROVE  /\ KbdProcData(bits, b) \in Result
         /\ \/ KbdProcData(bits, b).out = <<>>
            \/ \E c \in Char : KbdProcData(bits, b).out = <<c>>
<1> DEFINE k == <<b.code, "E0ESC" \in bits>>
           down == Pressed(bits, k)
<1>1. Released(bits, k) \in SUBSET Bit /\ down \in SUBSET Bit
  BY DEF Released, Pressed, ShiftCode, ToggleCode, Bit
<1>2. bits \cup {"E0ESC"} \in SUBSET Bit
  BY DEF Bit
<1>3. k \in Letter => CharCode(down, k) \in Char
  BY DEF CharCode, Char
<1> HIDE DEF k, down
<1>4. CASE b = E0
  BY <1>2, <1>4 DEF KbdProcData, Result
<1>5. CASE b # E0 /\ b.up
  BY <1>1, <1>5 DEF KbdProcData, Result, k
<1>6. CASE b # E0 /\ ~b.up
  <2>1. KbdProcData(bits, b) = [bits |-> down, out |-> IF k \in Letter THEN <<CharCode(down, k)>> ELSE <<>>]
    BY <1>6 DEF KbdProcData, k, down
  <2> QED BY <1>1, <1>3, <2>1 DEF Result
<1> QED BY <1>4, <1>5, <1>6

LEMMA ReadsType ==
  ASSUME NEW x \in Result, NEW b \in Byte
  PROVE  Reads(x, b) \in Result
<1>1. x.bits \in SUBSET Bit /\ x.out \in Seq(Char)
  BY DEF Result
<1>2. KbdProcData(x.bits, b) \in Result
  BY <1>1, KbdTypes
<1> QED BY <1>1, <1>2 DEF Reads, Result

\* The states of a decoding.
Run(d, bits, q) == /\ d[0] = [bits |-> bits, out |-> <<>>]
                   /\ \A i \in 1 .. Len(q) : d[i] = Reads(d[i - 1], q[i])

\* They are bits and characters.
LEMMA RunTypes ==
  ASSUME NEW bits \in SUBSET Bit, NEW q \in Seq(Byte), NEW d, Run(d, bits, q)
  PROVE  \A i \in 0 .. Len(q) : d[i] \in Result
<1> DEFINE S == {i \in Nat : i <= Len(q) => d[i] \in Result}
<1>1. 0 \in S
  <2>1. d[0] = [bits |-> bits, out |-> <<>>]
    BY DEF Run
  <2>2. d[0] \in Result
    BY <2>1 DEF Result
  <2> QED BY <2>2
<1>2. ASSUME NEW k \in Nat, k \in S PROVE k + 1 \in S
  <2> SUFFICES ASSUME k + 1 <= Len(q) PROVE d[k + 1] \in Result
    OBVIOUS
  <2>1. d[k] \in Result /\ k + 1 \in 1 .. Len(q) /\ (k + 1) - 1 = k
    BY <1>2
  <2>2. d[k + 1] = Reads(d[k], q[k + 1])
    BY <2>1 DEF Run
  <2>3. q[k + 1] \in Byte
    BY <2>1
  <2> QED BY <2>1, <2>2, <2>3, ReadsType
<1> HIDE DEF S
<1>3. \A k \in Nat : k \in S
  BY <1>1, <1>2, Induction
<1> QED BY <1>3 DEF S

LEMMA DecodingRun ==
  ASSUME NEW bits \in SUBSET Bit, NEW q \in Seq(Byte)
  PROVE  \E d : Run(d, bits, q) /\ Decoding(bits, q) = d[Len(q)] /\ Decoding(bits, q) \in Result
<1>1. Len(q) \in Nat
  OBVIOUS
<1>2. PICK d : Run(d, bits, q) /\ Decoding(bits, q) = d[Len(q)]
  BY <1>1, DecodingStates DEF Run
<1>3. d[Len(q)] \in Result
  <2>1. \A i \in 0 .. Len(q) : d[i] \in Result
    BY <1>2, RunTypes
  <2>2. Len(q) \in 0 .. Len(q)
    BY <1>1
  <2> QED BY <2>1, <2>2
<1> QED BY <1>2, <1>3

LEMMA DecodingType ==
  ASSUME NEW bits \in SUBSET Bit, NEW q \in Seq(Byte)
  PROVE  Decoding(bits, q) \in Result
  BY DecodingRun

LEMMA DecodingNone ==
  ASSUME NEW bits \in SUBSET Bit
  PROVE  Decoding(bits, <<>>) = [bits |-> bits, out |-> <<>>]
<1>1. <<>> \in Seq(Byte) /\ Len(<<>>) = 0
  OBVIOUS
<1>2. PICK d : Run(d, bits, <<>>) /\ Decoding(bits, <<>>) = d[Len(<<>>)]
  BY <1>1, DecodingRun
<1> QED BY <1>1, <1>2 DEF Run

\* One byte more at the end.
LEMMA DecodingAppend ==
  ASSUME NEW bits \in SUBSET Bit, NEW q \in Seq(Byte), NEW b \in Byte
  PROVE  Decoding(bits, Append(q, b)) = Reads(Decoding(bits, q), b)
<1> DEFINE p == Append(q, b)
<1>1. /\ p \in Seq(Byte) /\ Len(p) = Len(q) + 1 /\ p[Len(q) + 1] = b /\ Len(q) \in Nat
      /\ \A i \in 1 .. Len(q) : p[i] = q[i]
  OBVIOUS
<1> HIDE DEF p
<1>2. PICK d : Run(d, bits, q) /\ Decoding(bits, q) = d[Len(q)]
  BY DecodingRun
<1>3. PICK e : Run(e, bits, p) /\ Decoding(bits, p) = e[Len(p)]
  BY <1>1, DecodingRun
<1> DEFINE S == {i \in Nat : i <= Len(q) => e[i] = d[i]}
<1>4. 0 \in S
  BY <1>2, <1>3 DEF Run
<1>5. ASSUME NEW k \in Nat, k \in S PROVE k + 1 \in S
  <2> SUFFICES ASSUME k + 1 <= Len(q) PROVE e[k + 1] = d[k + 1]
    OBVIOUS
  <2>1. e[k] = d[k] /\ k + 1 \in 1 .. Len(q) /\ k + 1 \in 1 .. Len(p) /\ (k + 1) - 1 = k
    BY <1>1, <1>5
  <2>2. d[k + 1] = Reads(d[k], q[k + 1]) /\ e[k + 1] = Reads(e[k], p[k + 1])
    BY <1>2, <1>3, <2>1 DEF Run
  <2> QED BY <1>1, <2>1, <2>2
<1> HIDE DEF S
<1>6. \A k \in Nat : k \in S
  BY <1>4, <1>5, Induction
<1>7. e[Len(q)] = d[Len(q)]
  BY <1>1, <1>6 DEF S
<1>8. e[Len(q) + 1] = Reads(e[Len(q)], b)
  <2>1. Len(q) + 1 \in 1 .. Len(p) /\ (Len(q) + 1) - 1 = Len(q)
    BY <1>1
  <2>2. e[Len(q) + 1] = Reads(e[(Len(q) + 1) - 1], p[Len(q) + 1])
    BY <1>3, <2>1 DEF Run
  <2> QED BY <1>1, <2>1, <2>2
<1> QED BY <1>1, <1>2, <1>3, <1>7, <1>8 DEF p

\* The first byte is taken away: its characters come first.
LEMMA DecodingHead ==
  ASSUME NEW bits \in SUBSET Bit, NEW q \in Seq(Byte), q # <<>>
  PROVE  LET h == KbdProcData(bits, Head(q))
             x == Decoding(h.bits, Tail(q))
         IN Decoding(bits, q) = [bits |-> x.bits, out |-> h.out \o x.out]
<1> DEFINE h == KbdProcData(bits, Head(q))
           t == Tail(q)
<1>1. /\ t \in Seq(Byte) /\ Len(q) \in Nat \ {0} /\ Len(t) = Len(q) - 1 /\ Head(q) = q[1] /\ Head(q) \in Byte
      /\ \A i \in 1 .. Len(t) : t[i] = q[i + 1]
  OBVIOUS
<1>2. h \in Result
  BY <1>1, KbdTypes
<1> HIDE DEF h, t
<1>3. h.bits \in SUBSET Bit /\ h.out \in Seq(Char)
  BY <1>2 DEF Result
<1>4. PICK d : Run(d, bits, q) /\ Decoding(bits, q) = d[Len(q)]
  BY DecodingRun
<1>5. PICK e : Run(e, h.bits, t) /\ Decoding(h.bits, t) = e[Len(t)]
  BY <1>1, <1>3, DecodingRun
<1>6. \A i \in 0 .. Len(t) : e[i] \in Result
  BY <1>1, <1>3, <1>5, RunTypes
<1> DEFINE After(x) == [bits |-> x.bits, out |-> h.out \o x.out]
           S == {i \in Nat : i <= Len(t) => d[i + 1] = After(e[i])}
<1>7. 0 \in S
  <2>1. d[0] = [bits |-> bits, out |-> <<>>] /\ e[0] = [bits |-> h.bits, out |-> <<>>]
    BY <1>4, <1>5 DEF Run
  <2>2. d[1] = Reads(d[0], q[1])
    <3>1. 1 \in 1 .. Len(q) /\ 1 - 1 = 0
      BY <1>1
    <3>2. d[1] = Reads(d[1 - 1], q[1])
      BY <1>4, <3>1 DEF Run
    <3> QED BY <3>1, <3>2
  <2>3. Reads(d[0], q[1]) = [bits |-> h.bits, out |-> <<>> \o h.out]
    BY <1>1, <2>1 DEF Reads, h
  <2>4. <<>> \o h.out = h.out /\ h.out \o <<>> = h.out
    BY <1>3
  <2>5. d[0 + 1] = [bits |-> h.bits, out |-> h.out]
    BY <2>2, <2>3, <2>4
  <2>6. After(e[0]) = [bits |-> h.bits, out |-> h.out]
    BY <2>1, <2>4
  <2> HIDE DEF After
  <2> QED BY <2>5, <2>6
<1>8. ASSUME NEW k \in Nat, k \in S PROVE k + 1 \in S
  <2> SUFFICES ASSUME k + 1 <= Len(t) PROVE d[(k + 1) + 1] = After(e[k + 1])
    OBVIOUS
  <2>1. d[k + 1] = After(e[k])
    BY <1>8
  <2>2. /\ k + 1 \in 1 .. Len(t) /\ (k + 1) - 1 = k
        /\ (k + 1) + 1 \in 1 .. Len(q) /\ ((k + 1) + 1) - 1 = k + 1 /\ k \in 0 .. Len(t)
    BY <1>1
  <2>3. e[k + 1] = Reads(e[k], t[k + 1]) /\ d[(k + 1) + 1] = Reads(d[k + 1], q[(k + 1) + 1])
    BY <1>4, <1>5, <2>2 DEF Run
  <2>4. t[k + 1] = q[(k + 1) + 1] /\ t[k + 1] \in Byte
    BY <1>1, <2>2
  <2>5. e[k].bits \in SUBSET Bit /\ e[k].out \in Seq(Char)
    BY <1>6, <2>2 DEF Result
  <2> DEFINE y == KbdProcData(e[k].bits, t[k + 1])
  <2>6. y.out \in Seq(Char)
    BY <2>4, <2>5, KbdTypes DEF Result
  <2>7. e[k + 1] = [bits |-> y.bits, out |-> e[k].out \o y.out]
    BY <2>3 DEF Reads
  <2>8. d[(k + 1) + 1] = [bits |-> y.bits, out |-> (h.out \o e[k].out) \o y.out]
    BY <2>1, <2>3, <2>4 DEF Reads
  <2> HIDE DEF y
  <2>9. (h.out \o e[k].out) \o y.out = h.out \o (e[k].out \o y.out)
    <3>1. \A a, b, c \in Seq(Char) : (a \o b) \o c = a \o (b \o c)
      BY ConcatAssociative
    <3> QED BY <1>3, <2>5, <2>6, <3>1
  <2> QED BY <2>7, <2>8, <2>9
<1> HIDE DEF S
<1>9. \A k \in Nat : k \in S
  BY <1>7, <1>8, Induction
<1>10. d[Len(t) + 1] = After(e[Len(t)])
  <2> HIDE DEF After
  <2>1. Len(t) \in Nat /\ Len(t) \in S
    BY <1>1, <1>9
  <2> QED BY <2>1 DEF S
<1>11. Len(t) + 1 = Len(q)
  BY <1>1
<1> QED BY <1>4, <1>5, <1>10, <1>11 DEF h, t

-----------------------------------------------------------------------------
(* The keys                                                                *)

\* The bits that say which modifiers are down.
Shown == {b \in Bit : \/ b = "CTL" /\ \E m \in held : m[1] = "ctl"
                      \/ b = "SHIFT" /\ \E m \in held : m[1] = "shift"
                      \/ b = "CAPSLOCK" /\ caps}

\* Of every modifier one key at most.
OneOfEach == \A k, m \in held : k[1] = m[1] => k = m

LEMMA KeyFacts ==
  ASSUME NEW k \in Key
  PROVE  /\ k = <<k[1], k[2]>> /\ k[2] \in BOOLEAN
         /\ k[1] \in {"a", "ctl", "shift", "caps"}
         /\ k[2] => k[1] = "ctl"
         /\ k \in Letter <=> k[1] = "a"
         /\ k \in Modifier <=> k[1] \in {"ctl", "shift"}
         /\ k = Caps <=> k[1] = "caps"
<1>1. \/ k = <<"a", FALSE>> \/ k = <<"ctl", FALSE>> \/ k = <<"ctl", TRUE>>
      \/ k = <<"shift", FALSE>> \/ k = <<"caps", FALSE>>
  BY DEF Key, Letter, Modifier, Caps
<1>2. CASE k = <<"a", FALSE>>
  BY <1>2 DEF Letter, Modifier, Caps
<1>3. CASE k = <<"ctl", FALSE>>
  BY <1>3 DEF Letter, Modifier, Caps
<1>4. CASE k = <<"ctl", TRUE>>
  BY <1>4 DEF Letter, Modifier, Caps
<1>5. CASE k = <<"shift", FALSE>>
  BY <1>5 DEF Letter, Modifier, Caps
<1>6. CASE k = <<"caps", FALSE>>
  BY <1>6 DEF Letter, Modifier, Caps
<1> QED BY <1>1, <1>2, <1>3, <1>4, <1>5, <1>6

LEMMA ShiftCodes ==
  ASSUME NEW k \in Key
  PROVE  /\ k[1] = "ctl" => ShiftCode(k) = {"CTL"}
         /\ k[1] = "shift" => ShiftCode(k) = {"SHIFT"}
         /\ k \notin Modifier => ShiftCode(k) = {}
  BY KeyFacts DEF ShiftCode

\* The bits after a key goes down.
Toggled(s, k) == IF k = Caps THEN (s \ {"CAPSLOCK"}) \cup ({"CAPSLOCK"} \ s) ELSE s

\* The last byte of a key that goes up, or down.
KeyUp(k) == [code |-> k[1], up |-> TRUE]
KeyDown(k) == [code |-> k[1], up |-> FALSE]

LEMMA KeyCode ==
  ASSUME NEW k \in Key
  PROVE  /\ KeyUp(k) # E0 /\ KeyUp(k).up = TRUE /\ KeyUp(k).code = k[1] /\ KeyUp(k) \in Byte
         /\ KeyDown(k) # E0 /\ KeyDown(k).up = FALSE /\ KeyDown(k).code = k[1] /\ KeyDown(k) \in Byte
<1>1. k[1] \in {"a", "ctl", "shift", "caps"} /\ k[1] # "E0"
  BY KeyFacts
<1>2. KeyUp(k).code # E0.code /\ KeyDown(k).code # E0.code
  BY <1>1 DEF KeyUp, KeyDown, E0
<1>3. KeyUp(k) # E0 /\ KeyDown(k) # E0
  BY <1>2
<1> QED BY <1>1, <1>3 DEF KeyUp, KeyDown, Byte

\* A byte other than E0 that comes with the mark that an E0 byte leaves, or
\* without.
LEMMA KeyByte ==
  ASSUME NEW bits \in SUBSET Bit, NEW k \in Key, "E0ESC" \in bits <=> k[2] = TRUE,
         NEW c, c = Toggled((bits \ {"E0ESC"}) \cup ShiftCode(k), k)
  PROVE  /\ KbdProcData(bits, KeyUp(k)) = [bits |-> bits \ (ShiftCode(k) \cup {"E0ESC"}), out |-> <<>>]
         /\ KbdProcData(bits, KeyDown(k))
              = [bits |-> c, out |-> IF k \in Letter THEN <<CharCode(c, k)>> ELSE <<>>]
<1>1. PICK j : j = <<k[1], "E0ESC" \in bits>>
  OBVIOUS
<1>2. j = k
  <2>1. k = <<k[1], k[2]>> /\ k[2] \in BOOLEAN
    BY KeyFacts
  <2>2. k[2] = ("E0ESC" \in bits)
    BY <2>1
  <2> QED BY <1>1, <2>1, <2>2
<1>3. Pressed(bits, k) = c
  BY DEF Pressed, ToggleCode, Toggled
<1>4. Released(bits, k) = bits \ (ShiftCode(k) \cup {"E0ESC"})
  BY DEF Released
<1>5. KbdProcData(bits, KeyUp(k)) = [bits |-> Released(bits, j), out |-> <<>>]
  BY <1>1, KeyCode DEF KbdProcData
<1>6. KbdProcData(bits, KeyDown(k))
        = [bits |-> Pressed(bits, j), out |-> IF j \in Letter THEN <<CharCode(Pressed(bits, j), j)>> ELSE <<>>]
  BY <1>1, KeyCode DEF KbdProcData
<1> QED BY <1>2, <1>3, <1>4, <1>5, <1>6

\* What the bytes of a key do, the last of them b.
KeyReads(x, k, b) == Reads(IF k[2] THEN Reads(x, E0) ELSE x, b)

LEMMA KeyBytes ==
  ASSUME NEW x \in Result, NEW k \in Key, "E0ESC" \notin x.bits,
         NEW c, c = Toggled(x.bits \cup ShiftCode(k), k)
  PROVE  /\ KeyReads(x, k, KeyUp(k)) = [bits |-> x.bits \ ShiftCode(k), out |-> x.out]
         /\ KeyReads(x, k, KeyDown(k))
              = [bits |-> c, out |-> IF k \in Letter THEN x.out \o <<CharCode(c, k)>> ELSE x.out]
<1>1. x.bits \in SUBSET Bit /\ x.out \in Seq(Char) /\ x.out \o <<>> = x.out
  BY DEF Result
<1>2. KbdProcData(x.bits, E0) = [bits |-> x.bits \cup {"E0ESC"}, out |-> <<>>]
  BY DEF KbdProcData
<1>3. PICK y : y = IF k[2] THEN Reads(x, E0) ELSE x
  OBVIOUS
<1>4. k[2] \in BOOLEAN
  BY KeyFacts
<1>5. /\ y.out = x.out /\ y.bits \in SUBSET Bit /\ ("E0ESC" \in y.bits <=> k[2] = TRUE)
      /\ y.bits \ {"E0ESC"} = x.bits
  <2>1. CASE k[2] = TRUE
    <3>1. y.bits = x.bits \cup {"E0ESC"} /\ y.out = x.out
      BY <1>1, <1>2, <1>3, <2>1 DEF Reads
    <3>2. x.bits \cup {"E0ESC"} \in SUBSET Bit
      BY <1>1 DEF Bit
    <3> QED BY <2>1, <3>1, <3>2
  <2>2. CASE k[2] = FALSE
    BY <1>1, <1>3, <2>2
  <2> QED BY <1>4, <2>1, <2>2
<1>6. \A b : KeyReads(x, k, b) = [bits |-> KbdProcData(y.bits, b).bits,
                                  out |-> x.out \o KbdProcData(y.bits, b).out]
  BY <1>3, <1>5 DEF KeyReads, Reads
<1>7. c = Toggled((y.bits \ {"E0ESC"}) \cup ShiftCode(k), k)
  BY <1>5
<1>8. /\ KbdProcData(y.bits, KeyUp(k)) = [bits |-> y.bits \ (ShiftCode(k) \cup {"E0ESC"}), out |-> <<>>]
      /\ KbdProcData(y.bits, KeyDown(k))
           = [bits |-> c, out |-> IF k \in Letter THEN <<CharCode(c, k)>> ELSE <<>>]
  <2>1. y.bits \in SUBSET Bit /\ ("E0ESC" \in y.bits <=> k[2] = TRUE)
    BY <1>5
  <2> QED BY <1>7, <2>1, KeyByte
<1>9. y.bits \ (ShiftCode(k) \cup {"E0ESC"}) = x.bits \ ShiftCode(k)
  BY <1>5
<1>10. KeyReads(x, k, KeyUp(k)) = [bits |-> x.bits \ ShiftCode(k), out |-> x.out]
  <2>1. PICK z : z = KbdProcData(y.bits, KeyUp(k))
    OBVIOUS
  <2>2. KeyReads(x, k, KeyUp(k)) = [bits |-> z.bits, out |-> x.out \o z.out]
    BY <1>6, <2>1
  <2>3. z = [bits |-> x.bits \ ShiftCode(k), out |-> <<>>]
    BY <1>8, <1>9, <2>1
  <2>4. z.bits = x.bits \ ShiftCode(k) /\ z.out = <<>>
    BY <2>3
  <2> QED BY <1>1, <2>2, <2>4
<1>11. KeyReads(x, k, KeyDown(k))
         = [bits |-> c, out |-> IF k \in Letter THEN x.out \o <<CharCode(c, k)>> ELSE x.out]
  <2>1. PICK z : z = KbdProcData(y.bits, KeyDown(k))
    OBVIOUS
  <2>2. KeyReads(x, k, KeyDown(k)) = [bits |-> z.bits, out |-> x.out \o z.out]
    BY <1>6, <2>1
  <2>3. z = [bits |-> c, out |-> IF k \in Letter THEN <<CharCode(c, k)>> ELSE <<>>]
    BY <1>8, <2>1
  <2>4. z.bits = c /\ z.out = IF k \in Letter THEN <<CharCode(c, k)>> ELSE <<>>
    BY <2>3
  <2>5. CASE k \in Letter
    BY <2>2, <2>4, <2>5
  <2>6. CASE k \notin Letter
    BY <1>1, <2>2, <2>4, <2>6
  <2> QED BY <2>5, <2>6
<1> QED BY <1>10, <1>11

\* A key that goes down: the bits show it, and a letter is the character that was
\* meant.
LEMMA PressShown ==
  ASSUME NEW x \in Result, NEW k \in Key, x.bits = Shown, held \subseteq Modifier, caps \in BOOLEAN,
         held' = IF k \in Modifier THEN held \cup {k} ELSE held,
         caps' = IF k = Caps THEN ~caps ELSE caps
  PROVE  KeyReads(x, k, KeyDown(k)) = [bits |-> Shown', out |-> IF k \in Letter THEN x.out \o <<Meant(k)>> ELSE x.out]
<1>1. PICK c : c = Toggled(x.bits \cup ShiftCode(k), k)
  OBVIOUS
<1>2. KeyReads(x, k, KeyDown(k)) = [bits |-> c, out |-> IF k \in Letter THEN x.out \o <<CharCode(c, k)>> ELSE x.out]
  <2>1. "E0ESC" \notin x.bits
    BY DEF Shown
  <2> QED BY <1>1, <2>1, KeyBytes
<1>3. c = Shown'
  <2>1. CASE k = Caps
    <3>1. ShiftCode(k) = {} /\ held' = held /\ caps' = ~caps
      BY <2>1, KeyFacts, ShiftCodes
    <3>2. "CAPSLOCK" \in Bit
      BY DEF Bit
    <3> QED BY <1>1, <2>1, <3>1, <3>2 DEF Shown, Toggled
  <2>2. CASE k \in Letter
    <3>1. ShiftCode(k) = {} /\ held' = held /\ caps' = caps /\ k # Caps
      BY <2>2, KeyFacts, ShiftCodes
    <3> QED BY <1>1, <3>1 DEF Shown, Toggled
  <2>3. CASE k \in Modifier /\ k[1] = "ctl"
    <3>1. ShiftCode(k) = {"CTL"} /\ held' = held \cup {k} /\ caps' = caps /\ k # Caps
      BY <2>3, KeyFacts, ShiftCodes
    <3>2. "CTL" \in Bit
      BY DEF Bit
    <3> QED BY <1>1, <2>3, <3>1, <3>2 DEF Shown, Toggled
  <2>4. CASE k \in Modifier /\ k[1] = "shift"
    <3>1. ShiftCode(k) = {"SHIFT"} /\ held' = held \cup {k} /\ caps' = caps /\ k # Caps
      BY <2>4, KeyFacts, ShiftCodes
    <3>2. "SHIFT" \in Bit
      BY DEF Bit
    <3> QED BY <1>1, <2>4, <3>1, <3>2 DEF Shown, Toggled
  <2> QED BY <2>1, <2>2, <2>3, <2>4, KeyFacts
<1>4. ASSUME k \in Letter PROVE CharCode(c, k) = Meant(k)
  <2>1. c = Shown
    <3>1. ShiftCode(k) = {} /\ k # Caps
      BY <1>4, KeyFacts, ShiftCodes
    <3> QED BY <1>1, <3>1 DEF Toggled
  <2>2. "CTL" \in Shown <=> \E m \in held : m[1] = "ctl"
    BY DEF Shown, Bit
  <2>3. "SHIFT" \in Shown <=> \E m \in held : m[1] # "ctl"
    <3>1. \A m \in held : m[1] = "shift" <=> m[1] # "ctl"
      BY KeyFacts DEF Key
    <3>2. "SHIFT" \in Shown <=> \E m \in held : m[1] = "shift"
      BY DEF Shown, Bit
    <3> QED BY <3>1, <3>2
  <2>4. "CAPSLOCK" \in Shown <=> caps
    BY DEF Shown, Bit
  <2>5. PICK u \in BOOLEAN : u <=> \E m \in held : m[1] # "ctl"
    OBVIOUS
  <2>6. ("SHIFT" \in Shown) # ("CAPSLOCK" \in Shown) <=> u # caps
    BY <2>3, <2>4, <2>5
  <2>7. (\E m \in held : m[1] # "ctl") # caps <=> u # caps
    BY <2>5
  <2> QED BY <2>1, <2>2, <2>6, <2>7 DEF CharCode, Meant
<1> QED BY <1>2, <1>3, <1>4

\* A key that goes up.
LEMMA ReleaseShown ==
  ASSUME NEW x \in Result, NEW k \in Key, x.bits = Shown, held \subseteq Modifier, OneOfEach,
         k \in Modifier => k \in held, held' = held \ {k}, caps' = caps
  PROVE  KeyReads(x, k, KeyUp(k)) = [bits |-> Shown', out |-> x.out]
<1>1. "E0ESC" \notin x.bits
  BY DEF Shown
<1>2. KeyReads(x, k, KeyUp(k)) = [bits |-> x.bits \ ShiftCode(k), out |-> x.out]
  <2>1. PICK c : c = Toggled(x.bits \cup ShiftCode(k), k)
    OBVIOUS
  <2> QED BY <1>1, <2>1, KeyBytes
<1>3. x.bits \ ShiftCode(k) = Shown'
  <2>1. CASE k \notin Modifier
    <3>1. ShiftCode(k) = {} /\ held' = held
      BY <2>1, ShiftCodes
    <3> QED BY <3>1 DEF Shown
  <2>2. CASE k \in Modifier /\ k[1] = "ctl"
    <3>1. ShiftCode(k) = {"CTL"}
      BY <2>2, ShiftCodes
    <3>2. ~\E m \in held' : m[1] = "ctl"
      BY <2>2 DEF OneOfEach
    <3>3. \A m : m \in held /\ m[1] = "shift" <=> m \in held' /\ m[1] = "shift"
      BY <2>2
    <3> QED BY <3>1, <3>2, <3>3 DEF Shown
  <2>3. CASE k \in Modifier /\ k[1] = "shift"
    <3>1. ShiftCode(k) = {"SHIFT"}
      BY <2>3, ShiftCodes
    <3>2. ~\E m \in held' : m[1] = "shift"
      BY <2>3 DEF OneOfEach
    <3>3. \A m : m \in held /\ m[1] = "ctl" <=> m \in held' /\ m[1] = "ctl"
      BY <2>3
    <3> QED BY <3>1, <3>2, <3>3 DEF Shown
  <2> QED BY <2>1, <2>2, <2>3, KeyFacts
<1> QED BY <1>2, <1>3

\* The bytes of a key are read after those that are in the controller.
LEMMA KeyAppended ==
  ASSUME NEW k \in Key, NEW b \in Byte, shift \in SUBSET Bit, line \in Seq(Byte), shift' = shift,
         line' = line \o ((IF k[2] THEN <<E0>> ELSE <<>>) \o <<b>>)
  PROVE  /\ line' \in Seq(Byte)
         /\ Decoding(shift, line)' = KeyReads(Decoding(shift, line), k, b)
<1>1. E0 \in Byte
  BY DEF Byte
<1>2. CASE k[2]
  <2>1. PICK p : p = Append(line, E0)
    OBVIOUS
  <2>2. p \in Seq(Byte) /\ line' = Append(p, b) /\ Append(p, b) \in Seq(Byte)
    BY <1>1, <1>2, <2>1
  <2>3. Decoding(shift, Append(p, b)) = Reads(Decoding(shift, p), b)
    BY <2>2, DecodingAppend
  <2>4. Decoding(shift, p) = Reads(Decoding(shift, line), E0)
    BY <1>1, <2>1, DecodingAppend
  <2>5. Decoding(shift, line)' = Decoding(shift, Append(p, b))
    BY <2>2
  <2> QED BY <1>2, <2>2, <2>3, <2>4, <2>5 DEF KeyReads
<1>3. CASE ~k[2]
  <2>1. line' = Append(line, b) /\ line' \in Seq(Byte)
    BY <1>3
  <2>2. Decoding(shift, Append(line, b)) = Reads(Decoding(shift, line), b)
    BY DecodingAppend
  <2>3. Decoding(shift, line)' = Decoding(shift, Append(line, b))
    BY <2>1
  <2> QED BY <1>3, <2>1, <2>2, <2>3 DEF KeyReads
<1> QED BY <1>2, <1>3

-----------------------------------------------------------------------------
(* The ring                                                                *)

Cell == Char \cup {<<>>}

\* The types of what the ring has, and of the rest.
RingTypes == /\ buf \in [0 .. CONSBUFSIZE - 1 -> Cell]
             /\ rpos \in 0 .. CONSBUFSIZE - 1 /\ wpos \in 0 .. CONSBUFSIZE - 1
KeyTypes == /\ line \in Seq(Byte) /\ shift \in SUBSET Bit
            /\ held \subseteq Modifier /\ caps \in BOOLEAN /\ typed \in Seq(Char)

\* Inductive: the bits that the whole input leads to are those of the keys that are
\* down.
ConsoleInv == /\ RingTypes /\ KeyTypes /\ OneOfEach
              /\ Decoding(shift, line).bits = Shown
              /\ InRing \o Decoded = typed
              /\ Len(typed) <= TYPEAHEAD

\* Remainders of numbers that are not twice as large.
LEMMA OnceAround ==
  ASSUME NEW c \in Nat \ {0}, NEW x \in Nat, x < 2 * c
  PROVE  x % c = IF x < c THEN x ELSE x - c
  OBVIOUS

\* How many characters the ring has, and where.
RingShape ==
  /\ InRing \in Seq(Cell)
  /\ Len(InRing) = IF rpos <= wpos THEN wpos - rpos ELSE wpos - rpos + CONSBUFSIZE
  /\ \A i \in 1 .. Len(InRing) :
       InRing[i] = buf[IF rpos + i - 1 < CONSBUFSIZE THEN rpos + i - 1 ELSE rpos + i - 1 - CONSBUFSIZE]

LEMMA RingFacts == RingTypes => RingShape
<1> SUFFICES ASSUME RingTypes PROVE RingShape
  OBVIOUS
<1> DEFINE c == CONSBUFSIZE
           k == (wpos - rpos + c) % c
<1>1. c \in Nat \ {0} /\ rpos \in Nat /\ wpos \in Nat /\ rpos < c /\ wpos < c
  BY BufferAssumption DEF RingTypes
<1>2. k = IF rpos <= wpos THEN wpos - rpos ELSE wpos - rpos + c
  <2>1. PICK x \in Nat : x = wpos - rpos + c /\ x < 2 * c
    BY <1>1
  <2>2. x % c = IF x < c THEN x ELSE x - c
    BY <1>1, <2>1, OnceAround
  <2> QED BY <1>1, <2>1, <2>2
<1>3. k \in Nat /\ k < c
  BY <1>1, <1>2
<1> HIDE DEF k
<1>4. ASSUME NEW i \in 1 .. k
      PROVE  /\ (rpos + i - 1) % c = IF rpos + i - 1 < c THEN rpos + i - 1 ELSE rpos + i - 1 - c
             /\ (rpos + i - 1) % c \in 0 .. c - 1
  <2>1. PICK x \in Nat : x = rpos + i - 1 /\ x < 2 * c
    BY <1>1, <1>3
  <2>2. x % c = IF x < c THEN x ELSE x - c
    BY <1>1, <2>1, OnceAround
  <2> QED BY <1>1, <2>1, <2>2
<1>5. InRing = [i \in 1 .. k |-> buf[(rpos + i - 1) % c]]
  BY DEF InRing, k
<1>6. \A i \in 1 .. k : buf[(rpos + i - 1) % c] \in Cell
  BY <1>4 DEF RingTypes
<1>7. InRing \in Seq(Cell) /\ Len(InRing) = k
  BY <1>3, <1>5, <1>6
<1> QED BY <1>2, <1>4, <1>5, <1>7 DEF RingShape

\* A character goes to the end of a ring that has more than one place.
LEMMA RingPut ==
  ASSUME RingTypes, NEW c \in Char, Len(InRing) + 1 < CONSBUFSIZE,
         buf' = [buf EXCEPT ![wpos] = c], wpos' = Wrapped(wpos + 1), rpos' = rpos
  PROVE  RingTypes' /\ InRing' = Append(InRing, c)
<1> DEFINE C == CONSBUFSIZE
           k == Len(InRing)
           At(i) == IF rpos + i - 1 < C THEN rpos + i - 1 ELSE rpos + i - 1 - C
<1>1. C \in Nat \ {0} /\ rpos \in Nat /\ wpos \in Nat /\ rpos < C /\ wpos < C
  BY BufferAssumption DEF RingTypes
<1>2. wpos' = (IF wpos + 1 = C THEN 0 ELSE wpos + 1) /\ wpos' \in 0 .. C - 1
  BY <1>1 DEF Wrapped
<1>3. RingTypes'
  BY <1>1, <1>2 DEF RingTypes, Cell
<1>4. /\ InRing \in Seq(Cell) /\ k = IF rpos <= wpos THEN wpos - rpos ELSE wpos - rpos + C
      /\ \A i \in 1 .. k : InRing[i] = buf[At(i)]
  BY RingFacts DEF RingShape
<1>5. PICK j : j = Len(InRing')
  OBVIOUS
<1>6. /\ InRing' \in Seq(Cell) /\ j = IF rpos <= wpos' THEN wpos' - rpos ELSE wpos' - rpos + C
      /\ \A i \in 1 .. j : InRing'[i] = buf'[At(i)]
  <2>1. /\ InRing' \in Seq(Cell) /\ Len(InRing') = IF rpos' <= wpos' THEN wpos' - rpos' ELSE wpos' - rpos' + C
        /\ \A i \in 1 .. Len(InRing') :
             InRing'[i] = buf'[IF rpos' + i - 1 < C THEN rpos' + i - 1 ELSE rpos' + i - 1 - C]
    <3>1. RingShape'
      BY <1>3, RingFacts, PTL
    <3> QED BY <3>1 DEF RingShape
  <2> QED BY <1>5, <2>1
<1> HIDE DEF k
<1>7. k \in Nat /\ k + 1 < C /\ j = k + 1
  BY <1>1, <1>2, <1>4, <1>6 DEF k
<1>8. At(k + 1) = wpos
  BY <1>1, <1>4, <1>7
<1>9. \A i \in 1 .. k : At(i) \in 0 .. C - 1 /\ At(i) # wpos
  BY <1>1, <1>4, <1>7
<1>10. /\ \A i \in 0 .. C - 1 : i # wpos => buf'[i] = buf[i]
       /\ buf'[wpos] = c
  BY <1>1 DEF RingTypes
<1> HIDE DEF At
<1>11. ASSUME NEW i \in 1 .. j PROVE InRing'[i] = Append(InRing, c)[i]
  <2>1. CASE i = k + 1
    BY <1>4, <1>6, <1>7, <1>8, <1>10, <2>1 DEF k
  <2>2. CASE i # k + 1
    <3>1. i \in 1 .. k
      BY <1>7, <2>2
    <3>2. Append(InRing, c)[i] = InRing[i]
      BY <1>4, <3>1 DEF k
    <3> QED BY <1>4, <1>6, <1>9, <1>10, <3>1, <3>2
  <2> QED BY <2>1, <2>2
<1>12. Append(InRing, c) \in Seq(Cell) /\ Len(Append(InRing, c)) = j
  BY <1>4, <1>7 DEF k, Cell
<1>13. InRing' = Append(InRing, c)
  BY <1>5, <1>6, <1>11, <1>12, SeqEqual
<1> QED BY <1>3, <1>13

\* The first character is taken from a ring that is not empty.
LEMMA RingGet ==
  ASSUME RingTypes, rpos # wpos, buf' = buf, wpos' = wpos, rpos' = Wrapped(rpos + 1)
  PROVE  RingTypes' /\ InRing # <<>> /\ InRing' = Tail(InRing)
<1> DEFINE C == CONSBUFSIZE
           k == Len(InRing)
           At(i) == IF rpos + i - 1 < C THEN rpos + i - 1 ELSE rpos + i - 1 - C
           Next_(i) == IF rpos' + i - 1 < C THEN rpos' + i - 1 ELSE rpos' + i - 1 - C
<1>1. C \in Nat \ {0} /\ rpos \in Nat /\ wpos \in Nat /\ rpos < C /\ wpos < C
  BY BufferAssumption DEF RingTypes
<1>2. rpos' = (IF rpos + 1 = C THEN 0 ELSE rpos + 1) /\ rpos' \in 0 .. C - 1
  BY <1>1 DEF Wrapped
<1>3. RingTypes'
  BY <1>1, <1>2 DEF RingTypes
<1>4. /\ InRing \in Seq(Cell) /\ k = IF rpos <= wpos THEN wpos - rpos ELSE wpos - rpos + C
      /\ \A i \in 1 .. k : InRing[i] = buf[At(i)]
  BY RingFacts DEF RingShape
<1>5. PICK j : j = Len(InRing')
  OBVIOUS
<1>6. /\ InRing' \in Seq(Cell) /\ j = IF rpos' <= wpos THEN wpos - rpos' ELSE wpos - rpos' + C
      /\ \A i \in 1 .. j : InRing'[i] = buf[Next_(i)]
  <2>1. /\ InRing' \in Seq(Cell) /\ Len(InRing') = IF rpos' <= wpos' THEN wpos' - rpos' ELSE wpos' - rpos' + C
        /\ \A i \in 1 .. Len(InRing') :
             InRing'[i] = buf'[IF rpos' + i - 1 < C THEN rpos' + i - 1 ELSE rpos' + i - 1 - C]
    <3>1. RingShape'
      BY <1>3, RingFacts, PTL
    <3> QED BY <3>1 DEF RingShape
  <2> QED BY <1>5, <2>1
<1> HIDE DEF k
<1>7. k \in Nat \ {0} /\ j = k - 1 /\ j \in Nat /\ k < C
  BY <1>1, <1>2, <1>4, <1>6
<1>8. \A i \in 1 .. j : Next_(i) = At(i + 1)
  BY <1>1, <1>2, <1>7
<1>9. InRing # <<>> /\ Tail(InRing) \in Seq(Cell) /\ Len(Tail(InRing)) = j
  BY <1>4, <1>7 DEF k
<1> HIDE DEF At, Next_
<1>10. ASSUME NEW i \in 1 .. j PROVE InRing'[i] = Tail(InRing)[i]
  <2>1. i + 1 \in 1 .. k
    BY <1>7
  <2>2. Tail(InRing)[i] = InRing[i + 1]
    BY <1>4, <1>7, <1>9, <2>1 DEF k
  <2> QED BY <1>4, <1>6, <1>8, <2>1, <2>2
<1>11. InRing' = Tail(InRing)
  BY <1>5, <1>6, <1>9, <1>10, SeqEqual
<1> QED BY <1>3, <1>9, <1>11

-----------------------------------------------------------------------------
(* The console                                                             *)

\* The input is what the ring and the controller have.
LEMMA InputTypes ==
  ConsoleInv => /\ Decoding(shift, line) \in Result /\ Decoded \in Seq(Char)
                /\ InRing \in Seq(Cell) /\ Len(InRing) <= Len(typed) /\ Len(typed) \in Nat
<1> SUFFICES ASSUME ConsoleInv
             PROVE  /\ Decoding(shift, line) \in Result /\ Decoded \in Seq(Char)
                    /\ InRing \in Seq(Cell) /\ Len(InRing) <= Len(typed) /\ Len(typed) \in Nat
  OBVIOUS
<1>1. Decoding(shift, line) \in Result
  BY DecodingType DEF ConsoleInv, KeyTypes
<1>2. Decoded \in Seq(Char)
  BY <1>1 DEF Decoded, Result
<1>3. InRing \in Seq(Cell)
  BY RingFacts DEF ConsoleInv, RingShape
<1>4. InRing \o Decoded = typed /\ typed \in Seq(Char)
  BY DEF ConsoleInv, KeyTypes
<1>5. Decoded \in Seq(Cell)
  BY <1>2 DEF Cell
<1> HIDE DEF InRing, Decoded
<1>6. Len(InRing \o Decoded) = Len(InRing) + Len(Decoded) /\ Len(InRing) \in Nat /\ Len(Decoded) \in Nat
  BY <1>3, <1>5
<1> QED BY <1>1, <1>2, <1>3, <1>4, <1>6

LEMMA IntrStep == TYPEAHEAD < CONSBUFSIZE => (ConsoleInv /\ ConsIntr => ConsoleInv')
<1> SUFFICES ASSUME TYPEAHEAD < CONSBUFSIZE, ConsoleInv, ConsIntr PROVE ConsoleInv'
  OBVIOUS
<1>1. /\ RingTypes /\ KeyTypes /\ OneOfEach
      /\ Decoding(shift, line).bits = Shown /\ InRing \o Decoded = typed /\ Len(typed) <= TYPEAHEAD
  BY DEF ConsoleInv
<1>2. PICK h : h = KbdProcData(shift, Head(line))
  OBVIOUS
<1>3. /\ line # <<>> /\ line' = Tail(line) /\ shift' = h.bits
      /\ UNCHANGED <<rpos, pc, held, caps, typed>>
      /\ h.out # <<>> => buf' = [buf EXCEPT ![wpos] = h.out[1]] /\ wpos' = Wrapped(wpos + 1)
      /\ h.out = <<>> => buf' = buf /\ wpos' = wpos
  BY <1>2 DEF ConsIntr
<1>4. /\ line \in Seq(Byte) /\ shift \in SUBSET Bit /\ Head(line) \in Byte
      /\ Tail(line) \in Seq(Byte)
  BY <1>1, <1>3 DEF KeyTypes
<1>5. h \in Result /\ (h.out = <<>> \/ \E c \in Char : h.out = <<c>>)
  BY <1>2, <1>4, KbdTypes
<1>6. KeyTypes'
  BY <1>1, <1>3, <1>4, <1>5 DEF KeyTypes, Result
<1>7. PICK x : x = Decoding(h.bits, Tail(line))
  OBVIOUS
<1>8. Decoding(shift, line) = [bits |-> x.bits, out |-> h.out \o x.out]
  BY <1>2, <1>3, <1>4, <1>7, DecodingHead
<1>9. Decoding(shift, line)' = x
  BY <1>3, <1>7
<1>10. x \in Result /\ x.out \in Seq(Char)
  BY <1>4, <1>5, <1>7, DecodingType DEF Result
<1>11. Decoding(shift, line)'.bits = Shown'
  BY <1>1, <1>3, <1>8, <1>9 DEF Shown
<1>12. Decoded = h.out \o x.out /\ Decoded' = x.out
  <2>1. Decoded = Decoding(shift, line).out /\ Decoded' = Decoding(shift, line)'.out
    BY DEF Decoded
  <2>2. Decoding(shift, line).out = h.out \o x.out
    <3>1. PICK z : z = h.out \o x.out
      OBVIOUS
    <3>2. PICK w : w = Decoding(shift, line)
      OBVIOUS
    <3>3. w = [bits |-> x.bits, out |-> z]
      BY <1>8, <3>1, <3>2
    <3>4. w.out = z
      BY <3>3
    <3> QED BY <3>1, <3>2, <3>4
  <2>3. Decoding(shift, line)'.out = x.out
    BY <1>9
  <2> QED BY <2>1, <2>2, <2>3
<1>13. InRing \in Seq(Cell) /\ Len(InRing) \in Nat
  BY InputTypes DEF ConsoleInv
<1>14. RingTypes' /\ InRing' \o Decoded' = InRing \o Decoded
  <2>1. CASE h.out = <<>>
    <3>1. RingTypes' /\ InRing' = InRing
      BY <1>1, <1>3, <2>1 DEF RingTypes, InRing
    <3>2. Decoded' = Decoded
      BY <1>10, <1>12, <2>1
    <3> QED BY <3>1, <3>2
  <2>2. CASE h.out # <<>>
    <3>1. PICK c \in Char : h.out = <<c>>
      BY <1>5, <2>2
    <3>2. buf' = [buf EXCEPT ![wpos] = c] /\ wpos' = Wrapped(wpos + 1) /\ rpos' = rpos
      BY <1>3, <2>2, <3>1
    <3>3. PICK s \in Seq(Cell) : s = InRing
      BY <1>13
    <3>4. PICK y \in Seq(Cell) : y = x.out
      BY <1>10 DEF Cell
    <3>5. c \in Cell
      BY DEF Cell
    <3>6. Append(s, c) \o y = s \o (<<c>> \o y)
      BY <3>5
    <3>7. Len(InRing) + 1 < CONSBUFSIZE
      <4>1. typed = s \o (<<c>> \o y)
        BY <1>1, <1>12, <3>1, <3>3, <3>4
      <4>2. Len(s \o (<<c>> \o y)) = Len(s) + (1 + Len(y)) /\ Len(s) \in Nat /\ Len(y) \in Nat
        BY <3>5
      <4> QED BY <1>1, <3>3, <4>1, <4>2, BufferAssumption
    <3>8. RingTypes' /\ InRing' = Append(InRing, c)
      BY <1>1, <3>2, <3>7, RingPut
    <3> QED BY <1>12, <3>1, <3>3, <3>4, <3>6, <3>8
  <2> QED BY <2>1, <2>2
<1>15. OneOfEach' /\ typed' = typed
  BY <1>1, <1>3 DEF OneOfEach
<1> QED BY <1>1, <1>6, <1>11, <1>14, <1>15 DEF ConsoleInv

LEMMA GetcStep == ConsoleInv /\ (Polled \/ ConsGetc) => ConsoleInv'
<1> SUFFICES ASSUME ConsoleInv, Polled \/ ConsGetc PROVE ConsoleInv'
  OBVIOUS
<1>1. /\ RingTypes /\ KeyTypes /\ OneOfEach
      /\ Decoding(shift, line).bits = Shown /\ InRing \o Decoded = typed /\ Len(typed) <= TYPEAHEAD
      /\ InRing \in Seq(Cell) /\ Decoded \in Seq(Char) /\ Len(typed) \in Nat
  BY InputTypes DEF ConsoleInv
<1>2. UNCHANGED <<line, shift, buf, wpos, held, caps>>
  BY DEF Polled, ConsGetc
<1>3. /\ Decoding(shift, line)'.bits = Shown' /\ Decoded' = Decoded /\ OneOfEach'
  BY <1>1, <1>2 DEF Shown, Decoded, OneOfEach
<1>4. CASE UNCHANGED <<rpos, typed>>
  <2>1. RingTypes' /\ KeyTypes' /\ InRing' = InRing
    BY <1>1, <1>2, <1>4 DEF RingTypes, KeyTypes, InRing
  <2> QED BY <1>1, <1>3, <1>4, <2>1 DEF ConsoleInv
<1>5. CASE rpos # wpos /\ rpos' = Wrapped(rpos + 1) /\ typed' = Tail(typed)
  <2>1. RingTypes' /\ InRing # <<>> /\ InRing' = Tail(InRing)
    BY <1>1, <1>2, <1>5, RingGet
  <2>2. PICK s \in Seq(Cell) : s = InRing
    BY <1>1
  <2>3. PICK y \in Seq(Cell) : y = Decoded
    BY <1>1 DEF Cell
  <2>4. /\ s # <<>> /\ Tail(s \o y) = Tail(s) \o y /\ s \o y # <<>> /\ s \o y \in Seq(Cell)
    BY <2>1, <2>2
  <2>5. typed = s \o y
    BY <1>1, <2>2, <2>3
  <2>6. InRing' \o Decoded' = typed'
    BY <1>3, <1>5, <2>1, <2>2, <2>3, <2>4, <2>5
  <2>7. typed' \in Seq(Char) /\ Len(typed') = Len(typed) - 1
    BY <1>1, <1>5, <2>4, <2>5 DEF KeyTypes
  <2>8. KeyTypes'
    BY <1>1, <1>2, <2>7 DEF KeyTypes
  <2>9. Len(typed') <= TYPEAHEAD
    BY <1>1, <2>7, BufferAssumption
  <2> QED BY <1>3, <2>1, <2>6, <2>8, <2>9 DEF ConsoleInv
<1> QED BY <1>4, <1>5 DEF Polled, ConsGetc

LEMMA PressStep == ASSUME NEW k \in Key PROVE ConsoleInv /\ Press(k) => ConsoleInv'
<1> SUFFICES ASSUME ConsoleInv, Press(k) PROVE ConsoleInv'
  OBVIOUS
<1>1. /\ RingTypes /\ KeyTypes /\ OneOfEach
      /\ Decoding(shift, line).bits = Shown /\ InRing \o Decoded = typed /\ Len(typed) <= TYPEAHEAD
      /\ InRing \in Seq(Cell) /\ Decoded \in Seq(Char) /\ Len(typed) \in Nat
      /\ Decoding(shift, line) \in Result
  BY InputTypes DEF ConsoleInv
<1>2. /\ line' = line \o ((IF k[2] THEN <<E0>> ELSE <<>>) \o <<KeyDown(k)>>)
      /\ k \in Letter => Len(typed) < TYPEAHEAD
      /\ \A m \in held : m[1] = k[1] => m = k
      /\ held' = IF k \in Modifier THEN held \cup {k} ELSE held
      /\ caps' = IF k = Caps THEN ~caps ELSE caps
      /\ typed' = IF k \in Letter THEN Append(typed, Meant(k)) ELSE typed
      /\ UNCHANGED <<shift, buf, rpos, wpos, pc>>
  BY DEF Press, Sends, KeyDown
<1>3. PICK x \in Result : x = Decoding(shift, line)
  BY <1>1
<1>4. line' \in Seq(Byte) /\ Decoding(shift, line)' = KeyReads(x, k, KeyDown(k))
  BY <1>1, <1>2, <1>3, KeyAppended, KeyCode DEF KeyTypes
<1>5. KeyReads(x, k, KeyDown(k)) = [bits |-> Shown', out |-> IF k \in Letter THEN x.out \o <<Meant(k)>> ELSE x.out]
  BY <1>1, <1>2, <1>3, PressShown DEF KeyTypes
<1>6. Decoding(shift, line)'.bits = Shown' /\ Decoded' = IF k \in Letter THEN x.out \o <<Meant(k)>> ELSE x.out
  BY <1>4, <1>5 DEF Decoded
<1>7. RingTypes' /\ InRing' = InRing
  BY <1>1, <1>2 DEF RingTypes, InRing
<1>8. k \in Letter => Meant(k) \in Char
  BY DEF Meant, Char
<1>9. x.out = Decoded
  BY <1>3 DEF Decoded
<1>10. InRing' \o Decoded' = typed'
  <2>1. CASE k \in Letter
    <3>1. PICK s \in Seq(Cell) : s = InRing
      BY <1>1
    <3>2. PICK y \in Seq(Cell) : y = Decoded
      BY <1>1 DEF Cell
    <3>3. PICK c \in Cell : c = Meant(k)
      BY <1>8, <2>1 DEF Cell
    <3>4. s \o (y \o <<c>>) = Append(s \o y, c)
      OBVIOUS
    <3> QED BY <1>1, <1>2, <1>6, <1>7, <1>9, <2>1, <3>1, <3>2, <3>3, <3>4
  <2>2. CASE k \notin Letter
    BY <1>1, <1>2, <1>6, <1>7, <1>9, <2>2
  <2> QED BY <2>1, <2>2
<1>11. typed' \in Seq(Char) /\ Len(typed') <= TYPEAHEAD
  <2>1. CASE k \in Letter
    <3>1. typed' = Append(typed, Meant(k)) /\ Meant(k) \in Char /\ Len(typed) < TYPEAHEAD
      BY <1>2, <1>8, <2>1
    <3>2. typed \in Seq(Char)
      BY <1>1 DEF KeyTypes
    <3>3. typed' \in Seq(Char) /\ Len(typed') = Len(typed) + 1
      BY <3>1, <3>2
    <3> QED BY <1>1, <3>1, <3>3, BufferAssumption
  <2>2. CASE k \notin Letter
    BY <1>1, <1>2, <2>2 DEF KeyTypes
  <2> QED BY <2>1, <2>2
<1>12. held' \subseteq Modifier /\ caps' \in BOOLEAN /\ shift' = shift
  <2>1. held' \subseteq Modifier /\ shift' = shift
    BY <1>1, <1>2 DEF KeyTypes
  <2>2. caps' \in BOOLEAN
    <3>1. CASE k = Caps
      BY <1>2, <3>1
    <3>2. CASE k # Caps
      BY <1>1, <1>2, <3>2 DEF KeyTypes
    <3> QED BY <3>1, <3>2
  <2> QED BY <2>1, <2>2
<1>13. OneOfEach'
  <2> SUFFICES ASSUME NEW j \in held', NEW m \in held', j[1] = m[1] PROVE j = m
    BY DEF OneOfEach
  <2> QED BY <1>1, <1>2 DEF OneOfEach
<1>14. KeyTypes'
  BY <1>1, <1>4, <1>11, <1>12 DEF KeyTypes
<1> QED BY <1>6, <1>7, <1>10, <1>11, <1>13, <1>14 DEF ConsoleInv

LEMMA ReleaseStep == ASSUME NEW k \in Key PROVE ConsoleInv /\ Release(k) => ConsoleInv'
<1> SUFFICES ASSUME ConsoleInv, Release(k) PROVE ConsoleInv'
  OBVIOUS
<1>1. /\ RingTypes /\ KeyTypes /\ OneOfEach
      /\ Decoding(shift, line).bits = Shown /\ InRing \o Decoded = typed /\ Len(typed) <= TYPEAHEAD
      /\ Decoding(shift, line) \in Result
  BY InputTypes DEF ConsoleInv
<1>2. /\ line' = line \o ((IF k[2] THEN <<E0>> ELSE <<>>) \o <<KeyUp(k)>>)
      /\ k \in Modifier => k \in held
      /\ held' = held \ {k}
      /\ UNCHANGED <<shift, buf, rpos, wpos, pc, caps, typed>>
  BY DEF Release, Sends, KeyUp
<1>3. PICK x \in Result : x = Decoding(shift, line)
  BY <1>1
<1>4. line' \in Seq(Byte) /\ Decoding(shift, line)' = KeyReads(x, k, KeyUp(k))
  BY <1>1, <1>2, <1>3, KeyAppended, KeyCode DEF KeyTypes
<1>5. KeyReads(x, k, KeyUp(k)) = [bits |-> Shown', out |-> x.out]
  BY <1>1, <1>2, <1>3, ReleaseShown DEF KeyTypes
<1>6. Decoding(shift, line)'.bits = Shown' /\ Decoded' = Decoded
  BY <1>3, <1>4, <1>5 DEF Decoded
<1>7. RingTypes' /\ InRing' = InRing /\ typed' = typed
  BY <1>1, <1>2 DEF RingTypes, InRing
<1>8. OneOfEach'
  BY <1>1, <1>2 DEF OneOfEach
<1>9. KeyTypes'
  BY <1>1, <1>2, <1>4 DEF KeyTypes
<1> QED BY <1>1, <1>6, <1>7, <1>8, <1>9 DEF ConsoleInv

LEMMA ConsoleStarts == ConsoleInit => ConsoleInv
<1> SUFFICES ASSUME ConsoleInit PROVE ConsoleInv
  OBVIOUS
<1>1. /\ line = <<>> /\ shift = {} /\ rpos = 0 /\ wpos = 0 /\ held = {} /\ caps = FALSE /\ typed = <<>>
      /\ buf = [i \in 0 .. CONSBUFSIZE - 1 |-> <<>>]
  BY DEF ConsoleInit
<1>2. RingTypes
  BY <1>1, BufferAssumption DEF RingTypes, Cell
<1>3. KeyTypes /\ OneOfEach
  <2>1. line \in Seq(Byte) /\ typed \in Seq(Char)
    BY <1>1
  <2>2. shift \in SUBSET Bit /\ held \in SUBSET Modifier
    BY <1>1
  <2>3. caps \in BOOLEAN
    BY <1>1
  <2>4. OneOfEach
    BY <1>1 DEF OneOfEach
  <2> QED BY <2>1, <2>2, <2>3, <2>4 DEF KeyTypes
<1>4. Decoding(shift, line) = [bits |-> {}, out |-> <<>>]
  BY <1>1, DecodingNone
<1>5. Shown = {}
  BY <1>1 DEF Shown
<1>6. InRing = <<>>
  <2>1. InRing \in Seq(Cell) /\ Len(InRing) = 0
    BY <1>1, <1>2, RingFacts DEF RingShape
  <2> QED BY <2>1
<1>7. InRing \o Decoded = typed
  BY <1>1, <1>4, <1>6 DEF Decoded
<1> QED BY <1>1, <1>2, <1>3, <1>4, <1>5, <1>7, BufferAssumption DEF ConsoleInv

\* However keys, polls of the keyboard and reads interleave (console.c:337-440),
\* programs read the letters typed, in order and as they were meant, as long as
\* fewer wait than the ring has places.
THEOREM InputInOrder == TYPEAHEAD < CONSBUFSIZE => (ConsoleSpec => []TypedInOrder)
<1> SUFFICES ASSUME TYPEAHEAD < CONSBUFSIZE PROVE ConsoleSpec => []TypedInOrder
  OBVIOUS
<1>1. ConsoleInv /\ UNCHANGED consvars => ConsoleInv'
  <2> SUFFICES ASSUME ConsoleInv, UNCHANGED consvars PROVE ConsoleInv'
    OBVIOUS
  <2>1. /\ line' = line /\ shift' = shift /\ buf' = buf /\ rpos' = rpos /\ wpos' = wpos
        /\ held' = held /\ caps' = caps /\ typed' = typed
    BY DEF consvars
  <2>2. RingTypes'
    BY <2>1 DEF ConsoleInv, RingTypes
  <2>3. KeyTypes'
    BY <2>1 DEF ConsoleInv, KeyTypes
  <2>4. OneOfEach'
    BY <2>1 DEF ConsoleInv, OneOfEach
  <2>5. Decoding(shift, line)' = Decoding(shift, line)
    BY <2>1
  <2>6. Shown' = Shown
    BY <2>1 DEF Shown
  <2>7. InRing' = InRing
    BY <2>1 DEF InRing
  <2>8. Decoded' = Decoded
    BY <2>5 DEF Decoded
  <2> QED BY <2>1, <2>2, <2>3, <2>4, <2>5, <2>6, <2>7, <2>8 DEF ConsoleInv
<1>2. ConsoleInv /\ [ConsoleNext]_consvars => ConsoleInv'
  BY <1>1, IntrStep, GetcStep, PressStep, ReleaseStep DEF ConsoleNext
<1>3. ConsoleInv => TypedInOrder
  BY DEF ConsoleInv, TypedInOrder
<1> QED BY <1>2, <1>3, ConsoleStarts, PTL DEF ConsoleSpec

-----------------------------------------------------------------------------
(* mem_init: lists of pages                                                *)

\* The pages on a list; each is on it once.
Members(s) == {s[i] : i \in DOMAIN s}
Once(s) == \A i, j \in DOMAIN s : s[i] = s[j] => i = j

\* A list of pages of A.
ListOf(s, A) == s \in Seq(A) /\ Once(s)

\* One more page at the end.
LEMMA AppendOnce ==
  ASSUME NEW A, NEW s, ListOf(s, A), NEW x \in A, x \notin Members(s)
  PROVE  ListOf(Append(s, x), A) /\ Members(Append(s, x)) = Members(s) \cup {x}
<1> DEFINE q == Append(s, x)
<1>1. /\ s \in Seq(A) /\ Len(s) \in Nat /\ DOMAIN s = 1 .. Len(s)
      /\ q \in Seq(A) /\ DOMAIN q = 1 .. Len(s) + 1
      /\ q[Len(s) + 1] = x /\ \A i \in 1 .. Len(s) : q[i] = s[i]
  BY DEF ListOf
<1> HIDE DEF q
<1>2. Members(q) = Members(s) \cup {x}
  BY <1>1 DEF Members
<1>3. Once(q)
  <2> SUFFICES ASSUME NEW i \in DOMAIN q, NEW j \in DOMAIN q, q[i] = q[j] PROVE i = j
    BY DEF Once
  <2>1. \A k \in 1 .. Len(s) : q[k] # x
    BY <1>1 DEF Members
  <2> QED BY <1>1, <2>1 DEF ListOf, Once
<1> QED BY <1>1, <1>2, <1>3 DEF q, ListOf

\* w is the list s and behind it q.
Joined(w, s, q) == /\ Members(w) = Members(s) \cup Members(q) /\ Len(w) = Len(s) + Len(q)
                   /\ \A i \in 1 .. Len(s) : w[i] = s[i]
                   /\ \A i \in 1 .. Len(q) : w[Len(s) + i] = q[i]

\* One list after another.
LEMMA ConcatOnce ==
  ASSUME NEW A, NEW s, NEW q, ListOf(s, A), ListOf(q, A), Members(s) \cap Members(q) = {},
         NEW w, w = s \o q
  PROVE  ListOf(w, A) /\ Joined(w, s, q)
<1>1. /\ s \in Seq(A) /\ Len(s) \in Nat /\ DOMAIN s = 1 .. Len(s)
      /\ q \in Seq(A) /\ Len(q) \in Nat /\ DOMAIN q = 1 .. Len(q)
      /\ w \in Seq(A) /\ Len(w) = Len(s) + Len(q) /\ DOMAIN w = 1 .. Len(s) + Len(q)
      /\ \A i \in 1 .. Len(s) : w[i] = s[i]
      /\ \A i \in 1 .. Len(q) : w[Len(s) + i] = q[i]
  BY DEF ListOf
<1>2. \A k \in DOMAIN w : k \in 1 .. Len(s) \/ (k - Len(s) \in 1 .. Len(q) /\ w[k] = q[k - Len(s)])
  <2> SUFFICES ASSUME NEW k \in DOMAIN w, k > Len(s)
               PROVE  k - Len(s) \in 1 .. Len(q) /\ w[k] = q[k - Len(s)]
    BY <1>1
  <2>1. k - Len(s) \in 1 .. Len(q) /\ Len(s) + (k - Len(s)) = k
    BY <1>1
  <2> QED BY <1>1, <2>1
<1>3. Members(w) = Members(s) \cup Members(q)
  <2>1. \A i \in 1 .. Len(q) : Len(s) + i \in DOMAIN w
    BY <1>1
  <2>2. \A i \in 1 .. Len(s) : i \in DOMAIN w
    BY <1>1
  <2>3. ASSUME NEW x \in Members(w) PROVE x \in Members(s) \cup Members(q)
    <3>1. PICK k \in DOMAIN w : x = w[k]
      BY DEF Members
    <3>2. CASE k \in 1 .. Len(s)
      BY <1>1, <3>1, <3>2 DEF Members
    <3>3. CASE k - Len(s) \in 1 .. Len(q) /\ w[k] = q[k - Len(s)]
      BY <1>1, <3>1, <3>3 DEF Members
    <3> QED BY <1>2, <3>2, <3>3
  <2>4. Members(s) \subseteq Members(w)
    BY <1>1, <2>2 DEF Members
  <2>5. Members(q) \subseteq Members(w)
    BY <1>1, <2>1 DEF Members
  <2> QED BY <2>3, <2>4, <2>5
<1>4. Once(w)
  <2> SUFFICES ASSUME NEW i \in DOMAIN w, NEW j \in DOMAIN w, w[i] = w[j] PROVE i = j
    BY DEF Once
  <2>1. i \in 1 .. Len(s) => w[i] = s[i] /\ w[i] \in Members(s)
    BY <1>1 DEF Members
  <2>2. j \in 1 .. Len(s) => w[j] = s[j] /\ w[j] \in Members(s)
    BY <1>1 DEF Members
  <2>3. i \notin 1 .. Len(s) => i - Len(s) \in DOMAIN q /\ w[i] = q[i - Len(s)] /\ w[i] \in Members(q)
    BY <1>1, <1>2 DEF Members
  <2>4. j \notin 1 .. Len(s) => j - Len(s) \in DOMAIN q /\ w[j] = q[j - Len(s)] /\ w[j] \in Members(q)
    BY <1>1, <1>2 DEF Members
  <2>5. CASE i \in 1 .. Len(s) /\ j \in 1 .. Len(s)
    BY <1>1, <2>1, <2>2, <2>5 DEF ListOf, Once
  <2>6. CASE i \notin 1 .. Len(s) /\ j \notin 1 .. Len(s)
    <3>1. i - Len(s) = j - Len(s)
      BY <2>3, <2>4, <2>6 DEF ListOf, Once
    <3> QED BY <1>1, <3>1
  <2> QED BY <2>1, <2>2, <2>3, <2>4, <2>5, <2>6
<1> QED BY <1>1, <1>3, <1>4 DEF ListOf, Joined

\* A list is as long as it has pages.
LEMMA ListLength ==
  ASSUME NEW A, NEW s, ListOf(s, A)
  PROVE  IsFiniteSet(Members(s)) /\ Cardinality(Members(s)) = Len(s)
<1>1. Len(s) \in Nat /\ DOMAIN s = 1 .. Len(s)
  BY DEF ListOf
<1> DEFINE f == [i \in 1 .. Len(s) |-> s[i]]
<1>2. f \in Bijection(1 .. Len(s), Members(s))
  BY <1>1 DEF Bijection, Injection, Surjection, IsInjective, Members, ListOf, Once
<1>3. ExistsBijection(1 .. Len(s), Members(s))
  BY <1>2 DEF ExistsBijection
<1>4. IsFiniteSet(1 .. Len(s)) /\ Cardinality(1 .. Len(s)) = Len(s)
  <2>1. PICK k \in Nat : k = Len(s)
    BY <1>1
  <2>2. IsFiniteSet(1 .. k) /\ Cardinality(1 .. k) = IF 1 > k THEN 0 ELSE k - 1 + 1
    BY FS_Interval
  <2> QED BY <2>1, <2>2
<1> QED BY <1>1, <1>3, <1>4, FS_Bijection

\* The first pages of a list.
First(s, m) == {s[i] : i \in 1 .. m}

\* q is the list without them.
Rest(q, s, m) == /\ Len(q) = Len(s) - m
                 /\ \A i \in 1 .. Len(s) - m : q[i] = s[i + m]
                 /\ Members(q) = Members(s) \ First(s, m)

\* A list without its first pages.
LEMMA RestOnce ==
  ASSUME NEW A, NEW s, ListOf(s, A), NEW m \in 0 .. Len(s),
         NEW c \in Nat, c = m + 1, NEW q, q = SubSeq(s, c, Len(s))
  PROVE  ListOf(q, A) /\ Rest(q, s, m)
<1>1. s \in Seq(A) /\ Len(s) \in Nat /\ DOMAIN s = 1 .. Len(s) /\ Once(s) /\ m \in Nat /\ m <= Len(s)
  BY DEF ListOf
<1>2. /\ q \in Seq(A) /\ Len(q) = IF c <= Len(s) THEN Len(s) - c + 1 ELSE 0
      /\ \A i \in 1 .. Len(s) - c + 1 : q[i] = s[c + i - 1]
  <2>1. c \in Int /\ Len(s) \in Int /\ \A i \in c .. Len(s) : s[i] \in A
    BY <1>1
  <2> QED BY <2>1, SubSeqProperties
<1>3. Len(q) = Len(s) - m /\ DOMAIN q = 1 .. Len(s) - m
  <2>1. PICK L \in Nat : L = Len(s)
    BY <1>1
  <2>2. Len(q) = IF c <= L THEN L - c + 1 ELSE 0
    BY <1>2, <2>1
  <2>5. m \in Nat /\ m <= L
    BY <1>1, <2>1
  <2>3. (c <= L => L - c + 1 = L - m) /\ (~(c <= L) => L - m = 0)
    BY <2>5
  <2>4. Len(q) = Len(s) - m
    BY <2>1, <2>2, <2>3
  <2> QED BY <1>2, <2>4
<1>6. \A i \in 1 .. Len(s) - m : q[i] = s[i + m]
  <2> SUFFICES ASSUME NEW i \in 1 .. Len(s) - m PROVE q[i] = s[i + m]
    OBVIOUS
  <2>1. i \in 1 .. Len(s) - c + 1 /\ c + i - 1 = i + m
    BY <1>1
  <2> QED BY <1>2, <2>1
<1>4. Once(q)
  <2> SUFFICES ASSUME NEW i \in DOMAIN q, NEW j \in DOMAIN q, q[i] = q[j] PROVE i = j
    BY DEF Once
  <2>1. i \in 1 .. Len(s) - m /\ j \in 1 .. Len(s) - m
    BY <1>3
  <2>2. s[i + m] = s[j + m] /\ i + m \in 1 .. Len(s) /\ j + m \in 1 .. Len(s)
    BY <1>1, <1>6, <2>1
  <2>3. i + m = j + m
    BY <1>1, <2>2 DEF Once
  <2> QED BY <1>1, <2>1, <2>3
<1>5. Members(q) = Members(s) \ First(s, m)
  <2>1. ASSUME NEW x \in Members(q) PROVE x \in Members(s) \ First(s, m)
    <3>1. PICK i \in 1 .. Len(s) - m : x = q[i]
      BY <1>3 DEF Members
    <3>2. i + m \in 1 .. Len(s) /\ x = s[i + m] /\ i + m > m
      BY <1>1, <1>6, <3>1
    <3>3. \A j \in 1 .. m : j \in 1 .. Len(s) /\ j # i + m
      BY <1>1, <3>2
    <3>4. \A j \in 1 .. m : s[j] # x
      BY <1>1, <3>2, <3>3 DEF Once
    <3> QED BY <1>1, <3>2, <3>4 DEF Members, First
  <2>2. ASSUME NEW x \in Members(s), x \notin First(s, m) PROVE x \in Members(q)
    <3>1. PICK j \in 1 .. Len(s) : x = s[j]
      BY <1>1 DEF Members
    <3>2. j > m
      BY <2>2, <3>1, <1>1 DEF First
    <3>3. j - m \in DOMAIN q /\ q[j - m] = x
      <4>1. j - m \in 1 .. Len(s) - m /\ (j - m) + m = j
        BY <1>1, <3>1, <3>2
      <4> QED BY <1>3, <1>6, <3>1, <4>1
    <3> QED BY <3>3 DEF Members
  <2> QED BY <2>1, <2>2
<1> QED BY <1>2, <1>3, <1>4, <1>5, <1>6 DEF ListOf, Rest

\* q is the list s with its first three pages in another order.
Moved(q, s, i, j, k) == /\ Members(q) = Members(s) /\ Len(q) = Len(s)
                        /\ q[1] = s[i] /\ q[2] = s[j] /\ q[3] = s[k]
                        /\ \A h \in 4 .. Len(s) : q[h] = s[h]

\* The first three pages change places.
LEMMA ThreeMoved ==
  ASSUME NEW A, NEW s, ListOf(s, A), Len(s) >= 3,
         NEW i \in 1 .. 3, NEW j \in 1 .. 3, NEW k \in 1 .. 3, i # j, i # k, j # k,
         s = freelist, NEW q, q = FirstThree(i, j, k)
  PROVE  ListOf(q, A) /\ Moved(q, s, i, j, k)
<1>1. s \in Seq(A) /\ Len(s) \in Nat /\ DOMAIN s = 1 .. Len(s) /\ Once(s)
  BY DEF ListOf
<1>2. PICK c \in Nat : c = 4
  OBVIOUS
<1>13. PICK w : w = SubSeq(s, c, Len(s))
  OBVIOUS
<1>3. /\ ListOf(w, A) /\ Len(w) = Len(s) - 3
      /\ \A h \in 1 .. Len(s) - 3 : w[h] = s[h + 3]
      /\ Members(w) = Members(s) \ First(s, 3)
  <2>1. 3 \in 0 .. Len(s) /\ c = 3 + 1
    BY <1>1, <1>2
  <2>2. ListOf(w, A) /\ Rest(w, s, 3)
    BY <1>13, <2>1, RestOnce
  <2> QED BY <2>2 DEF Rest
<1>4. PICK t : t = <<s[i], s[j], s[k]>>
  OBVIOUS
<1>5. t \in Seq(A) /\ Len(t) = 3 /\ t[1] = s[i] /\ t[2] = s[j] /\ t[3] = s[k] /\ DOMAIN t = 1 .. 3
  BY <1>1, <1>4
<1>6. ListOf(t, A) /\ Members(t) = First(s, 3)
  <2>1. Once(t)
    <3>1. \A g, h \in 1 .. 3 : s[g] = s[h] => g = h
      BY <1>1 DEF Once
    <3>2. t[1] # t[2] /\ t[1] # t[3] /\ t[2] # t[3]
      BY <1>5, <3>1
    <3> QED BY <1>5, <3>2 DEF Once
  <2>2. Members(t) = {t[1], t[2], t[3]}
    BY <1>5 DEF Members
  <2>3. First(s, 3) = {s[1], s[2], s[3]}
    BY DEF First
  <2> QED BY <1>5, <2>1, <2>2, <2>3 DEF ListOf
<1>7. q = t \o w
  BY <1>2, <1>4, <1>13 DEF FirstThree
<1>8. /\ ListOf(q, A) /\ Members(q) = Members(t) \cup Members(w)
      /\ Len(q) = Len(t) + Len(w) /\ \A h \in 1 .. Len(t) : q[h] = t[h]
      /\ \A h \in 1 .. Len(w) : q[Len(t) + h] = w[h]
  <2>1. Members(t) \cap Members(w) = {}
    BY <1>3, <1>6
  <2>2. ListOf(q, A) /\ Joined(q, t, w)
    BY <1>3, <1>6, <1>7, <2>1, ConcatOnce
  <2> QED BY <2>2 DEF Joined
<1>9. Members(q) = Members(s)
  <2>1. First(s, 3) \subseteq Members(s)
    BY <1>1 DEF Members, First
  <2> QED BY <1>3, <1>6, <1>8, <2>1
<1>10. \A h \in 4 .. Len(s) : q[h] = s[h]
  <2> SUFFICES ASSUME NEW h \in 4 .. Len(s) PROVE q[h] = s[h]
    OBVIOUS
  <2>1. PICK g \in 1 .. Len(s) - 3 : h = 3 + g /\ h = g + 3
    <3>1. h - 3 \in 1 .. Len(s) - 3 /\ h = 3 + (h - 3) /\ h = (h - 3) + 3
      BY <1>1
    <3> QED BY <3>1
  <2>2. w[g] = s[h]
    BY <1>3, <2>1
  <2>3. q[h] = w[g]
    BY <1>3, <1>5, <1>8, <2>1
  <2> QED BY <2>2, <2>3
<1>11. Len(q) = Len(s)
  BY <1>1, <1>3, <1>5, <1>8
<1>12. q[1] = s[i] /\ q[2] = s[j] /\ q[3] = s[k]
  BY <1>5, <1>8
<1> QED BY <1>8, <1>9, <1>10, <1>11, <1>12 DEF Moved

\* The sequences that Only goes through.
OnlyTo(f, k, s, t) ==
  f = [i \in 0 .. k |-> IF i = 0 THEN <<>>
                        ELSE IF s[i] \in t THEN Append(f[i - 1], s[i]) ELSE f[i - 1]]

\* Only's list can be built for every length.
LEMMA OnlyExists ==
  ASSUME NEW s, NEW t
  PROVE  \A k \in Nat : \E f : OnlyTo(f, k, s, t)
<1> DEFINE S == {k \in Nat : \E f : OnlyTo(f, k, s, t)}
<1>1. 0 \in S
  <2> DEFINE f == [i \in 0 .. 0 |-> <<>>]
  <2>1. OnlyTo(f, 0, s, t)
    BY DEF OnlyTo
  <2> QED BY <2>1
<1>2. ASSUME NEW k \in Nat, k \in S PROVE k + 1 \in S
  <2>1. PICK f : OnlyTo(f, k, s, t)
    BY <1>2
  <2> DEFINE Longer(w, i) == IF s[i] \in t THEN Append(w, s[i]) ELSE w
             e == [i \in 0 .. k + 1 |-> IF i = k + 1 THEN Longer(f[k], k + 1) ELSE f[i]]
             h == [i \in 0 .. k + 1 |-> IF i = 0 THEN <<>> ELSE Longer(e[i - 1], i)]
  <2>2. ASSUME NEW i \in 0 .. k + 1 PROVE e[i] = h[i]
    <3>1. CASE i = 0
      <4>1. e[i] = f[0] /\ f[0] = <<>>
        BY <2>1, <3>1 DEF OnlyTo
      <4> QED BY <3>1, <4>1
    <3>2. CASE i = k + 1
      <4>1. e[i] = Longer(f[k], k + 1) /\ e[i - 1] = f[k]
        BY <3>2
      <4>2. h[i] = Longer(e[i - 1], i)
        BY <3>2
      <4> QED BY <3>2, <4>1, <4>2
    <3>3. CASE i # 0 /\ i # k + 1
      <4>1. i \in 0 .. k /\ i - 1 \in 0 .. k + 1 /\ i - 1 # k + 1
        BY <3>3
      <4>2. e[i] = f[i] /\ e[i - 1] = f[i - 1] /\ h[i] = Longer(e[i - 1], i)
        BY <3>3, <4>1
      <4>3. f[i] = Longer(f[i - 1], i)
        BY <2>1, <3>3, <4>1 DEF OnlyTo
      <4> QED BY <4>2, <4>3
    <3> QED BY <3>1, <3>2, <3>3
  <2>3. e = h
    BY <2>2
  <2>4. OnlyTo(e, k + 1, s, t)
    BY <2>3 DEF OnlyTo
  <2> QED BY <2>4
<1> HIDE DEF S
<1>3. \A k \in Nat : k \in S
  BY <1>1, <1>2, Induction
<1> QED BY <1>3 DEF S

\* Only keeps what is in t, each page once.
LEMMA OnlyRight ==
  ASSUME NEW A, NEW s, ListOf(s, A), NEW t, NEW q, q = Only(s, t)
  PROVE  ListOf(q, A) /\ Members(q) = Members(s) \cap t
<1>1. s \in Seq(A) /\ Len(s) \in Nat /\ DOMAIN s = 1 .. Len(s) /\ Once(s)
  BY DEF ListOf
<1>2. PICK f : OnlyTo(f, Len(s), s, t) /\ q = f[Len(s)]
  <2> DEFINE c == CHOOSE f : OnlyTo(f, Len(s), s, t)
  <2>1. \E f : OnlyTo(f, Len(s), s, t)
    BY <1>1, OnlyExists
  <2>2. OnlyTo(c, Len(s), s, t)
    BY <2>1
  <2>3. Only(s, t) = c[Len(s)]
    BY DEF Only, OnlyTo
  <2> QED BY <2>2, <2>3
<1> DEFINE Good(k) == ListOf(f[k], A) /\ Members(f[k]) = First(s, k) \cap t
           S == {k \in Nat : k <= Len(s) => Good(k)}
<1>3. 0 \in S
  <2>1. f[0] = <<>>
    BY <1>1, <1>2 DEF OnlyTo
  <2>2. ListOf(<<>>, A) /\ Members(<<>>) = {} /\ First(s, 0) = {}
    BY DEF ListOf, Once, Members, First
  <2> QED BY <2>1, <2>2
<1>4. ASSUME NEW k \in Nat, k \in S PROVE k + 1 \in S
  <2> SUFFICES ASSUME k + 1 <= Len(s) PROVE Good(k + 1)
    OBVIOUS
  <2>1. Good(k) /\ k + 1 \in 1 .. Len(s) /\ (k + 1) - 1 = k
    BY <1>1, <1>4
  <2>2. f[k + 1] = IF s[k + 1] \in t THEN Append(f[k], s[k + 1]) ELSE f[k]
    <3>1. PICK i \in 0 .. Len(s) : i = k + 1 /\ i # 0 /\ i - 1 = k
      BY <1>1, <2>1
    <3>2. f[i] = IF s[i] \in t THEN Append(f[i - 1], s[i]) ELSE f[i - 1]
      BY <1>2, <3>1 DEF OnlyTo
    <3> QED BY <3>1, <3>2
  <2>3. PICK x \in A : x = s[k + 1]
    BY <1>1, <2>1
  <2>4. First(s, k + 1) = First(s, k) \cup {x}
    <3>1. 1 .. k + 1 = 1 .. k \cup {k + 1}
      OBVIOUS
    <3> QED BY <2>3, <3>1 DEF First
  <2>5. x \notin First(s, k)
    <3> SUFFICES ASSUME NEW j \in 1 .. k, s[j] = x PROVE FALSE
      BY DEF First
    <3>1. j \in 1 .. Len(s) /\ j # k + 1
      BY <1>1, <2>1
    <3> QED BY <1>1, <2>1, <2>3, <3>1 DEF Once
  <2>6. CASE x \in t
    <3>1. ListOf(Append(f[k], x), A) /\ Members(Append(f[k], x)) = Members(f[k]) \cup {x}
      BY <2>1, <2>5, AppendOnce
    <3> QED BY <2>1, <2>2, <2>3, <2>4, <2>6, <3>1
  <2>7. CASE x \notin t
    BY <2>1, <2>2, <2>3, <2>4, <2>7
  <2> QED BY <2>6, <2>7
<1> HIDE DEF S
<1>5. \A k \in Nat : k \in S
  BY <1>3, <1>4, Induction
<1>6. Good(Len(s))
  BY <1>1, <1>5 DEF S
<1>7. First(s, Len(s)) = Members(s)
  BY <1>1 DEF First, Members
<1> QED BY <1>2, <1>6, <1>7

\* How many numbers of a set are up to i.
Rank(M, i) == Cardinality({j \in M : j <= i})

\* In this way a set is counted.
LEMMA Counted ==
  ASSUME NEW M, M \subseteq Nat, IsFiniteSet(M)
  PROVE  \E f \in Bijection(M, 1 .. Cardinality(M)) : \A i \in M : f[i] = Rank(M, i)
<1> DEFINE f == [i \in M |-> Rank(M, i)]
           UpTo(i) == {j \in M : j <= i}
<1>1. PICK m \in Nat : m = Cardinality(M)
  BY FS_CardinalityType
<1>2. \A i \in M : f[i] = Rank(M, i)
  OBVIOUS
<1>3. ASSUME NEW i \in M
      PROVE  IsFiniteSet(UpTo(i)) /\ Cardinality(UpTo(i)) \in 1 .. m
  <2>1. UpTo(i) \in SUBSET M /\ i \in UpTo(i)
    OBVIOUS
  <2> HIDE DEF UpTo
  <2>2. IsFiniteSet(UpTo(i)) /\ Cardinality(UpTo(i)) <= m
    BY <1>1, <2>1, FS_Subset
  <2>3. Cardinality(UpTo(i)) \in Nat /\ Cardinality(UpTo(i)) # 0
    BY <2>1, <2>2, FS_CardinalityType, FS_EmptySet
  <2> QED BY <2>2, <2>3
<1>4. f \in [M -> 1 .. m]
  BY <1>3 DEF Rank
<1>5. ASSUME NEW i \in M, NEW j \in M, i < j PROVE f[i] # f[j]
  <2>4. i \in Nat /\ j \in Nat /\ M \subseteq Nat
    OBVIOUS
  <2>5. UpTo(i) \subseteq UpTo(j)
    <3> SUFFICES ASSUME NEW h \in M, h <= i PROVE h <= j
      OBVIOUS
    <3>1. h \in Nat
      BY <2>4
    <3> QED BY <1>5, <2>4, <3>1
  <2>6. j \in UpTo(j) /\ j \notin UpTo(i)
    BY <1>5, <2>4
  <2>1. UpTo(i) \in SUBSET UpTo(j) /\ j \in UpTo(j) /\ j \notin UpTo(i)
    BY <2>5, <2>6
  <2>2. IsFiniteSet(UpTo(j))
    BY <1>3
  <2>3. Cardinality(UpTo(j)) = Cardinality(UpTo(i)) => UpTo(j) = UpTo(i)
    <3> HIDE DEF UpTo
    <3> QED BY <2>1, <2>2, FS_Subset
  <2> QED BY <2>1, <2>3 DEF Rank
<1>6. f \in Injection(M, 1 .. m)
  <2>1. \A i, j \in M : f[i] = f[j] => i = j
    <3> SUFFICES ASSUME NEW i \in M, NEW j \in M, i # j PROVE f[i] # f[j]
      OBVIOUS
    <3>1. i < j \/ j < i
      OBVIOUS
    <3> QED BY <1>5, <3>1
  <2> HIDE DEF f
  <2> QED BY <1>4, <2>1 DEF Injection, IsInjective
<1>7. IsFiniteSet(1 .. m) /\ Cardinality(1 .. m) = m
  <2>1. IsFiniteSet(1 .. m) /\ Cardinality(1 .. m) = IF 1 > m THEN 0 ELSE m - 1 + 1
    BY FS_Interval
  <2> QED BY <2>1
<1> HIDE DEF f
<1>8. f \in Surjection(M, 1 .. m)
  BY <1>1, <1>6, <1>7, FS_Injection
<1> QED BY <1>1, <1>2, <1>6, <1>8 DEF Bijection

\* Each number of M gets one of the first pages of list s, by its rank.
GivenTo(s, M) == /\ \A i \in M : s[Rank(M, i)] \in First(s, Cardinality(M))
                 /\ \A i, j \in M : s[Rank(M, i)] = s[Rank(M, j)] => i = j
                 /\ {s[Rank(M, i)] : i \in M} = First(s, Cardinality(M))

\* The first pages of a list, given out by rank.
LEMMA GivenOut ==
  ASSUME NEW A, NEW s, ListOf(s, A), NEW M, M \subseteq Nat, IsFiniteSet(M), Cardinality(M) <= Len(s)
  PROVE  GivenTo(s, M)
<1>1. PICK m \in Nat : m = Cardinality(M)
  BY FS_CardinalityType
<1>2. PICK f \in Bijection(M, 1 .. m) : \A i \in M : f[i] = Rank(M, i)
  BY <1>1, Counted
<1>3. Len(s) \in Nat /\ DOMAIN s = 1 .. Len(s) /\ Once(s) /\ m <= Len(s)
  BY <1>1 DEF ListOf
<1>4. /\ \A i \in M : Rank(M, i) \in 1 .. m
      /\ \A i, j \in M : Rank(M, i) = Rank(M, j) => i = j
      /\ \A k \in 1 .. m : \E i \in M : Rank(M, i) = k
  BY <1>2 DEF Bijection, Injection, Surjection, IsInjective
<1>5. \A i \in M : s[Rank(M, i)] \in First(s, m) /\ Rank(M, i) \in DOMAIN s
  BY <1>3, <1>4 DEF First
<1>6. \A i, j \in M : s[Rank(M, i)] = s[Rank(M, j)] => i = j
  BY <1>3, <1>4, <1>5 DEF Once
<1>7. {s[Rank(M, i)] : i \in M} = First(s, m)
  <2>1. ASSUME NEW x \in First(s, m) PROVE x \in {s[Rank(M, i)] : i \in M}
    <3>1. PICK k \in 1 .. m : x = s[k]
      BY DEF First
    <3> QED BY <1>4, <3>1
  <2> QED BY <1>5, <2>1
<1> QED BY <1>1, <1>5, <1>6, <1>7 DEF GivenTo

-----------------------------------------------------------------------------
(* mem_init: the map of the kernel                                         *)

\* Products keep the order.
LEMMA Products ==
  ASSUME NEW a \in Nat, NEW b \in Nat, NEW size \in Nat, a <= b
  PROVE  a * size \in Nat /\ b * size \in Nat /\ a * size <= b * size
<1>1. PICK d \in Nat : b = a + d
  <2>1. b - a \in Nat /\ b = a + (b - a)
    OBVIOUS
  <2> QED BY <2>1
<1>2. a * size \in Nat /\ d * size \in Nat
  OBVIOUS
<1>3. b * size = a * size + d * size
  BY <1>1
<1> QED BY <1>2, <1>3

\* The addresses of a table lie in it.
LEMMA InTable ==
  ASSUME NEW i \in Nat, NEW v \in Nat, NEW size \in Nat \ {0}, i * size <= v, v <= i * size + size - 1
  PROVE  v \div size = i
<1>1. i * size \in Nat
  OBVIOUS
<1>2. PICK q \in Nat : q = v \div size
  BY PageBounds
<1>3. q * size \in Nat /\ q * size <= v /\ v <= q * size + size - 1
  BY <1>2, PageBounds
<1>4. ~(q < i)
  <2> SUFFICES ASSUME q < i PROVE FALSE
    OBVIOUS
  <2>1. (q + 1) * size <= i * size
    BY Products
  <2>2. (q + 1) * size = q * size + size
    OBVIOUS
  <2> QED BY <1>1, <1>3, <2>1, <2>2
<1>5. ~(i < q)
  <2> SUFFICES ASSUME i < q PROVE FALSE
    OBVIOUS
  <2>1. (i + 1) * size <= q * size
    BY Products
  <2>2. (i + 1) * size = i * size + size
    OBVIOUS
  <2> QED BY <1>1, <1>3, <2>1, <2>2
<1> QED BY <1>2, <1>4, <1>5

\* The constants are numbers.
LEMMA Numbers ==
  /\ PAGEBYTES \in Nat /\ PAGEBYTES > 34 /\ STRUCTBYTES \in Nat \ {0} /\ NPT \in Nat \ {0}
  /\ NPD \in Nat \ {0} /\ KTABLES \in Nat \ {0} /\ IOPAGES \in Nat \ {0} /\ NCPU \in Nat \ {0}
  /\ KSTKSIZE \in Nat \ {0} /\ KSTKGAP \in Nat \ {0} /\ IOPHYSMEM \in Nat \ {0}
  /\ EXTPHYSMEM \in Nat \ {0} /\ MPENTRY \in Nat \ {0} /\ ENVPAGES \in Nat \ {0}
  /\ MAXEND \in Nat \ {0}
  BY LayoutAssumption, PageBytesAssumption

\* The first table of the kernel's own addresses.
KernelTable == NPD - KTABLES

\* Where the parts of the map are.
Layout == /\ KernelTable \in Nat /\ KernelTable >= 5 /\ NPD = KernelTable + KTABLES
          /\ KTABLES * NPT \in Nat /\ VTOP \in Nat /\ KERNBASE \in Nat
          /\ VTOP = KERNBASE + KTABLES * NPT /\ KERNBASE >= 5 * NPT
          /\ UENVS = KERNBASE - 5 * NPT /\ UPAGES = KERNBASE - 4 * NPT /\ KSTACKTOP = KERNBASE - NPT
          /\ IOMEMBASE \in Nat /\ KERNBASE <= IOMEMBASE /\ IOMEMBASE = VTOP - IOPAGES
          /\ KERNBASE = KernelTable * NPT
          /\ UENVS = (KernelTable - 5) * NPT /\ UPAGES = (KernelTable - 4) * NPT
          /\ KSTACKTOP - NPT = (KernelTable - 2) * NPT
LEMMA LayoutHolds == Layout
<1>1. PICK T \in Nat : T = KernelTable /\ T >= 5 /\ NPD = T + KTABLES
  <2>1. NPD - KTABLES \in Nat /\ NPD - KTABLES >= 5 /\ NPD = (NPD - KTABLES) + KTABLES
    BY Numbers, MapAssumption
  <2> QED BY <2>1 DEF KernelTable
<1>2. NPT \in Nat /\ KTABLES \in Nat /\ IOPAGES \in Nat /\ IOPAGES <= KTABLES * NPT
  BY Numbers, MapAssumption
<1>3. PICK K \in Nat : K = T * NPT /\ K >= 5 * NPT
  <2>1. T * NPT \in Nat /\ 5 * NPT <= T * NPT
    BY <1>1, <1>2, Products
  <2> QED BY <2>1
<1>4. KERNBASE = K
  BY <1>1, <1>3 DEF KERNBASE, KernelTable
<1>5. KTABLES * NPT \in Nat /\ VTOP = K + KTABLES * NPT
  <2>1. (T + KTABLES) * NPT = T * NPT + KTABLES * NPT
    BY <1>2
  <2> QED BY <1>1, <1>2, <1>3, <2>1 DEF VTOP
<1>6. PICK Y \in Nat : Y = KTABLES * NPT
  BY <1>5
<1>7. /\ KSTACKTOP = K - NPT /\ UPAGES = K - 4 * NPT /\ UENVS = K - 5 * NPT
  BY <1>2, <1>4 DEF KSTACKTOP, UPAGES, UENVS, UVPT
<1>8. /\ (T - 5) * NPT = K - 5 * NPT /\ (T - 4) * NPT = K - 4 * NPT /\ (T - 2) * NPT = K - 2 * NPT
  BY <1>2, <1>3
<1>9. IOMEMBASE = VTOP - IOPAGES
  BY DEF IOMEMBASE
<1>10. IOMEMBASE \in Nat /\ K <= IOMEMBASE /\ VTOP \in Nat
  BY <1>2, <1>5, <1>6, <1>9
<1> QED BY <1>1, <1>2, <1>3, <1>4, <1>5, <1>7, <1>8, <1>9, <1>10 DEF Layout

\* The tables of an environment's directory that the kernel fills.
LEMMA TablesCounted ==
  /\ EnvTables = {KernelTable - 4, KernelTable - 5, KernelTable - 2} \cup KernelTable .. NPD - 1
  /\ EnvTables \subseteq 0 .. NPD - 1
  /\ IsFiniteSet(EnvTables) /\ Cardinality(EnvTables) <= KTABLES + 3
<1>1. PICK T \in Nat : T = KernelTable /\ T >= 5 /\ NPD = T + KTABLES
  BY LayoutHolds DEF Layout
<1>2. PICK N \in Nat \ {0} : N = NPT
  BY Numbers
<1>3. PDX(UPAGES) = T - 4
  <2>1. PICK i \in Nat : i = T - 4
    BY <1>1
  <2>2. UPAGES = i * N /\ i * N \in Nat
    BY <1>1, <1>2, <2>1, LayoutHolds DEF Layout
  <2>3. (i * N) \div N = i
    BY <2>2, InTable
  <2> QED BY <1>2, <2>1, <2>2, <2>3 DEF PDX
<1>4. PDX(UENVS) = T - 5
  <2>1. PICK i \in Nat : i = T - 5
    BY <1>1
  <2>2. UENVS = i * N /\ i * N \in Nat
    BY <1>1, <1>2, <2>1, LayoutHolds DEF Layout
  <2>3. (i * N) \div N = i
    BY <2>2, InTable
  <2> QED BY <1>2, <2>1, <2>2, <2>3 DEF PDX
<1>5. PDX(KERNBASE) = T
  <2>2. KERNBASE = T * N /\ T * N \in Nat
    BY <1>1, <1>2, LayoutHolds DEF Layout
  <2>3. (T * N) \div N = T
    BY <2>2, InTable
  <2> QED BY <1>2, <2>2, <2>3 DEF PDX
<1>6. KSTKSIZE \in Nat \ {0} /\ KSTKSIZE <= N
  <2>1. KSTKSIZE + KSTKGAP \in Nat /\ NCPU \in Nat /\ 1 <= NCPU
    BY Numbers
  <2>2. 1 * (KSTKSIZE + KSTKGAP) <= NCPU * (KSTKSIZE + KSTKGAP)
    BY <2>1, Products
  <2>3. NCPU * (KSTKSIZE + KSTKGAP) \in Nat
    BY <2>1
  <2> QED BY <1>2, <2>2, <2>3, Numbers, MapAssumption
<1>7. PDX(KSTACKTOP - KSTKSIZE) = T - 2
  <2>1. PICK i \in Nat : i = T - 2
    BY <1>1
  <2>2. KSTACKTOP - N = i * N /\ i * N \in Nat /\ KSTACKTOP \in Int
    BY <1>1, <1>2, <2>1, LayoutHolds DEF Layout
  <2>4. PICK v \in Nat : v = KSTACKTOP - KSTKSIZE /\ i * N <= v /\ v <= i * N + N - 1
    <3>1. PICK a \in Nat : a = i * N
      BY <2>2
    <3>2. KSTACKTOP = a + N
      BY <1>2, <2>2, <3>1
    <3> QED BY <1>2, <1>6, <3>1, <3>2
  <2>3. v \div N = i
    BY <2>4, InTable
  <2> QED BY <1>2, <2>1, <2>3, <2>4 DEF PDX
<1>8. EnvTables = {T - 4, T - 5, T - 2} \cup T .. NPD - 1
  BY <1>3, <1>4, <1>5, <1>7 DEF EnvTables
<1>9. EnvTables \subseteq 0 .. NPD - 1
  <2>1. KTABLES \in Nat \ {0}
    BY Numbers
  <2> QED BY <1>1, <1>8, <2>1
<1>10. IsFiniteSet(EnvTables) /\ Cardinality(EnvTables) <= KTABLES + 3
  <2>1. PICK L \in Nat : L = NPD - 1 /\ L - T + 1 = KTABLES /\ KTABLES \in Nat
    BY <1>1, Numbers
  <2>2. IsFiniteSet(T .. L) /\ Cardinality(T .. L) = IF T > L THEN 0 ELSE L - T + 1
    BY FS_Interval
  <2>3. IsFiniteSet(T .. L) /\ Cardinality(T .. L) <= KTABLES /\ Cardinality(T .. L) \in Nat
    BY <2>1, <2>2
  <2> DEFINE S1 == T .. L \cup {T - 4}
             S2 == S1 \cup {T - 5}
             S3 == S2 \cup {T - 2}
  <2>4. IsFiniteSet(S1) /\ Cardinality(S1) <= KTABLES + 1 /\ Cardinality(S1) \in Nat
    <3>1. IsFiniteSet(S1) /\ Cardinality(S1) = IF T - 4 \in T .. L THEN Cardinality(T .. L) ELSE Cardinality(T .. L) + 1
      BY <2>3, FS_AddElement
    <3> HIDE DEF S1
    <3> QED BY <2>1, <2>3, <3>1
  <2>5. IsFiniteSet(S2) /\ Cardinality(S2) <= KTABLES + 2 /\ Cardinality(S2) \in Nat
    <3> HIDE DEF S1
    <3>1. IsFiniteSet(S2) /\ Cardinality(S2) = IF T - 5 \in S1 THEN Cardinality(S1) ELSE Cardinality(S1) + 1
      BY <2>4, FS_AddElement
    <3> HIDE DEF S2
    <3> QED BY <2>1, <2>4, <3>1
  <2>6. IsFiniteSet(S3) /\ Cardinality(S3) <= KTABLES + 3 /\ Cardinality(S3) \in Nat
    <3> HIDE DEF S1, S2
    <3>1. IsFiniteSet(S3) /\ Cardinality(S3) = IF T - 2 \in S2 THEN Cardinality(S2) ELSE Cardinality(S2) + 1
      BY <2>5, FS_AddElement
    <3> HIDE DEF S3
    <3> QED BY <2>1, <2>5, <3>1
  <2>7. EnvTables = S3
    BY <1>8, <2>1
  <2> QED BY <2>6, <2>7
<1> QED BY <1>1, <1>8, <1>9, <1>10

\* What is left of the memory when it is counted from KERNBASE up to 2 ^ 32, as C reads that.
LEMMA AllMemory == PhysSize \div PAGEBYTES = KTABLES * NPT
<1>1. PICK B \in Nat : B = PAGEBYTES /\ B > 34
  BY Numbers
<1>2. PICK Y \in Nat : Y = KTABLES * NPT
  BY LayoutHolds DEF Layout
<1>3. PICK K \in Nat : K = KERNBASE /\ K >= 1
  BY Numbers, LayoutHolds DEF Layout
<1>4. PICK k \in Nat : k = K * B
  BY <1>1
<1>5. k > 34
  <2>1. 1 * B <= K * B
    BY <1>1, <1>3, Products
  <2> QED BY <1>1, <1>4, <2>1
<1>6. PICK y \in Nat : y = Y * B
  BY <1>1
<1>7. VTOP * PAGEBYTES = k + y
  <2>1. (K + Y) * B = K * B + Y * B
    BY <1>1
  <2> QED BY <1>1, <1>2, <1>3, <1>4, <1>6, <2>1, LayoutHolds DEF Layout
<1>8. PhysSize = (34 - k) % (k + y)
  BY <1>1, <1>3, <1>4, <1>7 DEF PhysSize
<1>9. (34 - k) % (k + y) = y + 34
  BY <1>5
<1>10. (y + 34) \div B = Y
  <2>1. Y * B <= y + 34 /\ y + 34 <= Y * B + B - 1
    BY <1>1, <1>6
  <2> QED BY <1>1, <2>1, InTable
<1> QED BY <1>1, <1>2, <1>8, <1>9, <1>10

\* What mem_init maps, region by region.
RegionsAre ==
  /\ Len(Regions) = 4 + NCPU
  /\ Regions[1] = [va |-> UPAGES, n |-> NPT, pa |-> PagesArray, w |-> FALSE, u |-> TRUE]
  /\ Regions[2] = [va |-> UENVS, n |-> NPT, pa |-> EnvsArray, w |-> FALSE, u |-> TRUE]
  /\ Regions[3] = [va |-> KERNBASE, n |-> KTABLES * NPT, pa |-> 0, w |-> TRUE, u |-> FALSE]
  /\ Regions[4] = [va |-> IOMEMBASE, n |-> IOPAGES, pa |-> IOMEMBASE, w |-> TRUE, u |-> FALSE]
  /\ \A c \in 0 .. NCPU - 1 :
       Regions[5 + c] = [va |-> StackTop(c) - KSTKSIZE, n |-> KSTKSIZE, pa |-> StackPage(c),
                         w |-> TRUE, u |-> FALSE]
LEMMA RegionsHold == RegionsAre
<1>1. \A x \in Nat : (x * PAGEBYTES) \div PAGEBYTES = x
  <2> SUFFICES ASSUME NEW x \in Nat PROVE (x * PAGEBYTES) \div PAGEBYTES = x
    OBVIOUS
  <2>1. PICK B \in Nat \ {0} : B = PAGEBYTES
    BY Numbers
  <2>2. x * B \in Nat
    OBVIOUS
  <2>3. (x * B) \div B = x
    BY <2>2, InTable
  <2> QED BY <2>1, <2>3
<1>2. /\ (NPT * PAGEBYTES) \div PAGEBYTES = NPT
      /\ (IOPAGES * PAGEBYTES) \div PAGEBYTES = IOPAGES
      /\ (KSTKSIZE * PAGEBYTES) \div PAGEBYTES = KSTKSIZE
  BY <1>1, Numbers
<1> DEFINE fixed == <<Region(UPAGES, NPT * PAGEBYTES, PagesArray, FALSE, TRUE),
                      Region(UENVS, NPT * PAGEBYTES, EnvsArray, FALSE, TRUE),
                      Region(KERNBASE, PhysSize, 0, TRUE, FALSE),
                      Region(IOMEMBASE, IOPAGES * PAGEBYTES, IOMEMBASE, TRUE, FALSE)>>
           stacks == [i \in 1 .. NCPU |-> Region(StackTop(i - 1) - KSTKSIZE, KSTKSIZE * PAGEBYTES,
                                                 StackPage(i - 1), TRUE, FALSE)]
           A == {fixed[i] : i \in 1 .. 4} \cup {stacks[i] : i \in 1 .. NCPU}
<1>3. Regions = fixed \o stacks
  BY DEF Regions
<1>4. /\ fixed[1] = [va |-> UPAGES, n |-> NPT, pa |-> PagesArray, w |-> FALSE, u |-> TRUE]
      /\ fixed[2] = [va |-> UENVS, n |-> NPT, pa |-> EnvsArray, w |-> FALSE, u |-> TRUE]
      /\ fixed[3] = [va |-> KERNBASE, n |-> KTABLES * NPT, pa |-> 0, w |-> TRUE, u |-> FALSE]
      /\ fixed[4] = [va |-> IOMEMBASE, n |-> IOPAGES, pa |-> IOMEMBASE, w |-> TRUE, u |-> FALSE]
  BY <1>2, AllMemory DEF Region
<1>5. \A c \in 0 .. NCPU - 1 :
        stacks[1 + c] = [va |-> StackTop(c) - KSTKSIZE, n |-> KSTKSIZE, pa |-> StackPage(c),
                         w |-> TRUE, u |-> FALSE]
  <2> SUFFICES ASSUME NEW c \in 0 .. NCPU - 1
               PROVE  stacks[1 + c] = [va |-> StackTop(c) - KSTKSIZE, n |-> KSTKSIZE, pa |-> StackPage(c),
                                       w |-> TRUE, u |-> FALSE]
    OBVIOUS
  <2>1. PICK i \in 1 .. NCPU : i = 1 + c /\ i - 1 = c
    BY Numbers
  <2>2. stacks[i] = Region(StackTop(c) - KSTKSIZE, KSTKSIZE * PAGEBYTES, StackPage(c), TRUE, FALSE)
    BY <2>1
  <2> HIDE DEF stacks
  <2> QED BY <1>2, <2>1, <2>2 DEF Region
<1>6. NCPU \in Nat
  BY Numbers
<1>7. fixed \in Seq(A) /\ Len(fixed) = 4
  <2>1. Len(fixed) = 4 /\ fixed = [i \in 1 .. 4 |-> fixed[i]]
    OBVIOUS
  <2>2. \A i \in 1 .. 4 : fixed[i] \in A
    OBVIOUS
  <2> HIDE DEF fixed, A
  <2>3. fixed \in [1 .. 4 -> A]
    BY <2>1, <2>2
  <2> QED BY <2>1, <2>3, SeqDef
<1>8. stacks \in Seq(A) /\ Len(stacks) = NCPU
  <2>1. stacks = [i \in 1 .. NCPU |-> stacks[i]]
    OBVIOUS
  <2>2. \A i \in 1 .. NCPU : stacks[i] \in A
    OBVIOUS
  <2> HIDE DEF stacks, A
  <2>3. stacks \in [1 .. NCPU -> A]
    BY <2>1, <2>2
  <2> QED BY <1>6, <2>3, LenProperties, SeqDef
<1> HIDE DEF fixed, stacks, A
<1>9. /\ Len(Regions) = 4 + NCPU
      /\ \A i \in 1 .. 4 : Regions[i] = fixed[i]
      /\ \A i \in 1 .. NCPU : Regions[4 + i] = stacks[i]
  <2>1. PICK a, b : a = fixed /\ b = stacks
    OBVIOUS
  <2>2. /\ a \in Seq(A) /\ b \in Seq(A) /\ Len(a) = 4 /\ Len(b) = NCPU /\ Regions = a \o b
    BY <1>3, <1>7, <1>8, <2>1
  <2>3. /\ Len(a \o b) = 4 + NCPU
        /\ \A i \in 1 .. 4 : (a \o b)[i] = a[i]
        /\ \A i \in 1 .. NCPU : (a \o b)[4 + i] = b[i]
    <3>1. Len(a \o b) = Len(a) + Len(b)
      BY <2>2, ConcatProperties
    <3>2. \A i \in 1 .. Len(a) + Len(b) : (a \o b)[i] = IF i <= Len(a) THEN a[i] ELSE b[i - Len(a)]
      BY <2>2, ConcatProperties
    <3>3. ASSUME NEW i \in 1 .. NCPU PROVE (a \o b)[4 + i] = b[i]
      <4>1. 4 + i \in 1 .. 4 + NCPU /\ ~(4 + i <= 4) /\ (4 + i) - 4 = i
        BY <1>6
      <4> QED BY <2>2, <3>2, <4>1
    <3>4. ASSUME NEW i \in 1 .. 4 PROVE (a \o b)[i] = a[i]
      <4>1. i \in 1 .. 4 + NCPU /\ i <= 4
        BY <1>6
      <4> QED BY <2>2, <3>2, <4>1
    <3> QED BY <2>2, <3>1, <3>3, <3>4
  <2> QED BY <2>1, <2>2, <2>3
<1>10. ASSUME NEW c \in 0 .. NCPU - 1 PROVE Regions[5 + c] = stacks[1 + c]
  <2>1. 1 + c \in 1 .. NCPU /\ 4 + (1 + c) = 5 + c
    BY <1>6
  <2> QED BY <1>9, <2>1
<1> QED BY <1>4, <1>5, <1>9, <1>10 DEF RegionsAre

\* The sizes of the machine and of the image, and what boot_alloc has given out.
SizeInv == /\ npages \in EXTPHYSMEM + 1 .. VTOP - KERNBASE - IOPAGES
           /\ kend \in StackPage(NCPU) .. MAXEND
           /\ nextfree = IF stage = "alloc" THEN kend ELSE EnvsArray + ENVPAGES

\* The kernel and the array of pages are in what entry_pgdir maps.
Fits == /\ npages \in Nat /\ npages > EXTPHYSMEM /\ KERNBASE + npages <= IOMEMBASE
        /\ kend \in Nat /\ EXTPHYSMEM <= kend /\ PagesArray \in Nat /\ EnvsArray \in Nat
        /\ PagesArray <= NPT /\ EnvsArray <= NPT /\ kend < EnvsArray /\ StackPage(NCPU) <= kend
        /\ \A p \in 0 .. npages - 1 : (p * STRUCTBYTES) \div PAGEBYTES \in 0 .. NPT - 1
LEMMA SizesFit ==
  ASSUME SizeInv
  PROVE  Fits
<1>1. PICK size \in Nat : size = npages /\ size > EXTPHYSMEM /\ size <= VTOP - KERNBASE - IOPAGES
  <2>1. npages \in EXTPHYSMEM + 1 .. VTOP - KERNBASE - IOPAGES
    BY DEF SizeInv
  <2>2. EXTPHYSMEM \in Nat /\ VTOP - KERNBASE - IOPAGES \in Int
    BY Numbers, LayoutHolds DEF Layout
  <2> QED BY <2>1, <2>2
<1>2. PICK M \in Nat : M = KTABLES * NPT - IOPAGES /\ size <= M
  BY <1>1, Numbers, LayoutHolds DEF Layout
<1>3. PICK z \in Nat \ {0}, B \in Nat \ {0} : z = STRUCTBYTES /\ B = PAGEBYTES
  BY Numbers
<1>4. PICK x \in Nat, y \in Nat : x = size * z /\ y = M * z /\ x <= y
  BY <1>2, <1>3, Products
<1>5. PICK X \in Nat, Y \in Nat : X = (x + B - 1) \div B /\ Y = (y + B - 1) \div B /\ X <= Y
  <2>1. x + B - 1 \in Nat /\ y + B - 1 \in Nat /\ x + B - 1 <= y + B - 1
    BY <1>4
  <2>2. (x + B - 1) \div B \in Nat /\ (y + B - 1) \div B \in Nat
    BY <2>1, PageBounds
  <2>3. (x + B - 1) \div B <= (y + B - 1) \div B
    BY <2>1, PagesAscend
  <2> QED BY <2>2, <2>3
<1>6. PagesOf(npages * STRUCTBYTES) = X /\ MAXEND + Y < NPT
  <2>1. MAXEND + ((KTABLES * NPT - IOPAGES) * STRUCTBYTES + PAGEBYTES - 1) \div PAGEBYTES < NPT
    BY MapAssumption
  <2>2. ((KTABLES * NPT - IOPAGES) * STRUCTBYTES + PAGEBYTES - 1) \div PAGEBYTES = Y
    BY <1>2, <1>3, <1>4, <1>5
  <2>3. PagesOf(npages * STRUCTBYTES) = X
    BY <1>1, <1>3, <1>4, <1>5 DEF PagesOf
  <2> QED BY <2>1, <2>2, <2>3
<1>7. EXTPHYSMEM <= StackPage(NCPU) /\ StackPage(NCPU) \in Nat
  <2>1. NCPU * KSTKSIZE \in Nat
    BY Numbers
  <2> QED BY <2>1, Numbers DEF StackPage
<1>8. kend \in Nat /\ StackPage(NCPU) <= kend /\ kend <= MAXEND
  BY <1>7, Numbers DEF SizeInv
<1>9. PagesArray = kend + 1 /\ EnvsArray = kend + 1 + X
  BY <1>6 DEF PagesArray, EnvsArray
<1>10. ASSUME NEW p \in 0 .. npages - 1 PROVE (p * STRUCTBYTES) \div PAGEBYTES \in 0 .. NPT - 1
  <2>1. p \in Nat /\ p <= size
    BY <1>1
  <2>2. PICK a \in Nat : a = p * z /\ a <= x
    BY <1>3, <1>4, <2>1, Products
  <2>3. a \div B \in Nat /\ a \div B <= (x + B - 1) \div B
    <3>1. x + B - 1 \in Nat /\ a <= x + B - 1
      BY <1>3, <2>2
    <3> QED BY <3>1, PageBounds, PagesAscend
  <2>4. a \div B <= X /\ X < NPT
    <3>1. MAXEND \in Nat /\ NPT \in Nat
      BY Numbers
    <3> QED BY <1>5, <1>6, <2>3, <3>1
  <2> QED BY <1>3, <2>2, <2>3, <2>4, Numbers
<1>11. KERNBASE + npages <= IOMEMBASE
  BY <1>1, Numbers, LayoutHolds DEF Layout
<1>12. PagesArray \in Nat /\ EnvsArray \in Nat /\ PagesArray <= NPT /\ EnvsArray <= NPT /\ kend < EnvsArray
  BY <1>5, <1>6, <1>8, <1>9, Numbers
<1>13. EXTPHYSMEM <= kend
  BY <1>7, <1>8, Numbers
<1> QED BY <1>1, <1>8, <1>10, <1>11, <1>12, <1>13 DEF Fits

\* The stack of CPU c, and the gap below it, are in the table below KSTACKTOP.
StackFits(c) == /\ StackTop(c) \in Nat /\ StackTop(c) <= KSTACKTOP
                /\ StackTop(c) - (KSTKSIZE + KSTKGAP) >= KSTACKTOP - NPT
                /\ StackPage(c) \in Nat /\ StackPage(c) + KSTKSIZE <= StackPage(NCPU)
LEMMA StacksFit ==
  ASSUME NEW c \in 0 .. NCPU - 1
  PROVE  StackFits(c)
<1>1. PICK G \in Nat : G = KSTKSIZE + KSTKGAP
  BY Numbers
<1>2. c \in Nat /\ NCPU \in Nat /\ c + 1 <= NCPU /\ KSTKSIZE \in Nat
  BY Numbers
<1>3. PICK a \in Nat : a = c * G /\ a + G <= NPT
  <2>1. c * G \in Nat /\ (c + 1) * G = c * G + G
    BY <1>2
  <2>2. (c + 1) * G <= NCPU * G
    BY <1>2, Products
  <2>3. NCPU * G <= NPT
    BY <1>1, MapAssumption
  <2>4. NCPU * G \in Nat
    BY <1>2
  <2> QED BY <2>1, <2>2, <2>3, <2>4, Numbers
<1>4. StackTop(c) = KSTACKTOP - a
  BY <1>1, <1>3 DEF StackTop
<1>5. PICK b \in Nat : b = c * KSTKSIZE /\ b + KSTKSIZE <= NCPU * KSTKSIZE
  <2>1. c * KSTKSIZE \in Nat /\ (c + 1) * KSTKSIZE = c * KSTKSIZE + KSTKSIZE
    BY <1>2
  <2>2. (c + 1) * KSTKSIZE <= NCPU * KSTKSIZE
    BY <1>2, Products
  <2> QED BY <2>1, <2>2
<1>6. StackPage(c) = EXTPHYSMEM + b /\ StackPage(NCPU) = EXTPHYSMEM + NCPU * KSTKSIZE
  BY <1>5 DEF StackPage
<1>7. NCPU * KSTKSIZE \in Nat
  BY <1>2
<1>8. StackPage(c) \in Nat /\ StackPage(c) + KSTKSIZE <= StackPage(NCPU)
  BY <1>2, <1>5, <1>6, <1>7, Numbers
<1>9. KSTACKTOP \in Nat /\ NPT <= KSTACKTOP
  BY Numbers, LayoutHolds DEF Layout
<1>10. /\ StackTop(c) \in Nat /\ StackTop(c) <= KSTACKTOP
       /\ StackTop(c) - G >= KSTACKTOP - NPT
  BY <1>3, <1>4, <1>9, Numbers
<1> QED BY <1>1, <1>8, <1>10 DEF StackFits

\* Two stacks are apart, with a gap between them.
LEMMA StackGaps ==
  ASSUME NEW c \in 0 .. NCPU - 1, NEW d \in 0 .. NCPU - 1, c < d
  PROVE  StackTop(d) <= StackTop(c) - (KSTKSIZE + KSTKGAP)
<1>1. PICK G \in Nat : G = KSTKSIZE + KSTKGAP
  BY Numbers
<1>2. c \in Nat /\ d \in Nat /\ c + 1 <= d
  BY Numbers
<1>3. c * G \in Nat /\ d * G \in Nat /\ c * G + G <= d * G
  <2>1. (c + 1) * G = c * G + G
    BY <1>2
  <2> QED BY <1>2, <2>1, Products
<1>4. KSTACKTOP \in Int
  BY Numbers, LayoutHolds DEF Layout
<1>5. StackTop(c) = KSTACKTOP - c * G /\ StackTop(d) = KSTACKTOP - d * G
  BY <1>1 DEF StackTop
<1> QED BY <1>1, <1>3, <1>4, <1>5

\* The addresses of region q, and what boot_map_region writes for one of them.
Vas(q) == Regions[q].va .. Regions[q].va + Regions[q].n - 1
Entry(q, v) == [pa |-> Regions[q].pa + v - Regions[q].va, w |-> Regions[q].w, u |-> Regions[q].u]

\* Where the addresses of a region are.
Place(q, v) == /\ q = 1 => UPAGES <= v /\ v < UPAGES + NPT
               /\ q = 2 => UENVS <= v /\ v < UPAGES
               /\ q \in {3, 4} => KERNBASE <= v /\ v < VTOP
               /\ q = 4 => IOMEMBASE <= v
               /\ q >= 5 => /\ KSTACKTOP - NPT <= v /\ v < KSTACKTOP
                            /\ StackTop(q - 5) - KSTKSIZE <= v /\ v < StackTop(q - 5)
LEMMA Placed ==
  ASSUME NEW q \in 1 .. NCPU + 4, NEW v \in Vas(q)
  PROVE  v \in Nat /\ Place(q, v)
<1>1. CASE q = 1
  <2>1. Vas(q) = UPAGES .. UPAGES + NPT - 1
    BY <1>1, RegionsHold DEF Vas, RegionsAre
  <2> QED BY <1>1, <2>1, Numbers, LayoutHolds DEF Layout, Place
<1>2. CASE q = 2
  <2>1. Vas(q) = UENVS .. UENVS + NPT - 1
    BY <1>2, RegionsHold DEF Vas, RegionsAre
  <2> QED BY <1>2, <2>1, Numbers, LayoutHolds DEF Layout, Place
<1>3. CASE q = 3
  <2>1. PICK Y \in Nat : Y = KTABLES * NPT /\ VTOP = KERNBASE + Y
    BY LayoutHolds DEF Layout
  <2>2. Regions[3] = [va |-> KERNBASE, n |-> Y, pa |-> 0, w |-> TRUE, u |-> FALSE]
    BY <2>1, RegionsHold DEF RegionsAre
  <2>3. Vas(q) = KERNBASE .. KERNBASE + Y - 1
    BY <1>3, <2>2 DEF Vas
  <2> QED BY <1>3, <2>1, <2>3, Numbers, LayoutHolds DEF Layout, Place
<1>4. CASE q = 4
  <2>1. Vas(q) = IOMEMBASE .. IOMEMBASE + IOPAGES - 1
    BY <1>4, RegionsHold DEF Vas, RegionsAre
  <2>2. v >= IOMEMBASE /\ v < VTOP /\ v \in Nat
    BY <2>1, Numbers, LayoutHolds DEF Layout
  <2> QED BY <1>4, <2>2, Numbers, LayoutHolds DEF Layout, Place
<1>5. CASE q >= 5
  <2>1. PICK c \in 0 .. NCPU - 1 : c = q - 5 /\ q = 5 + c
    BY <1>5, Numbers
  <2>6. Regions[q] = [va |-> StackTop(c) - KSTKSIZE, n |-> KSTKSIZE, pa |-> StackPage(c),
                      w |-> TRUE, u |-> FALSE]
    BY <2>1, RegionsHold DEF RegionsAre
  <2>2. Vas(q) = StackTop(c) - KSTKSIZE .. StackTop(c) - KSTKSIZE + KSTKSIZE - 1
    <3>1. Regions[q].va = StackTop(c) - KSTKSIZE /\ Regions[q].n = KSTKSIZE
      BY <2>6
    <3> QED BY <3>1 DEF Vas
  <2>3. StackFits(c)
    BY StacksFit
  <2>4. /\ StackTop(c) \in Nat /\ StackTop(c) <= KSTACKTOP
        /\ StackTop(c) - (KSTKSIZE + KSTKGAP) >= KSTACKTOP - NPT
        /\ KSTKSIZE \in Nat /\ KSTKGAP \in Nat /\ KSTACKTOP \in Nat /\ NPT \in Nat /\ NPT <= KSTACKTOP
    BY <2>3, Numbers, LayoutHolds DEF StackFits, Layout
  <2>5. /\ v \in Nat /\ StackTop(c) - KSTKSIZE <= v /\ v < StackTop(c)
        /\ KSTACKTOP - NPT <= v /\ v < KSTACKTOP
    BY <2>2, <2>4
  <2> QED BY <1>5, <2>1, <2>5 DEF Place
<1> QED BY <1>1, <1>2, <1>3, <1>4, <1>5, Numbers

\* Two regions have no address in common, but for the I/O memory in that of all memory.
LEMMA RegionsApart ==
  ASSUME NEW q \in 1 .. NCPU + 4, NEW reg \in 1 .. NCPU + 4, q < reg, NEW v, v \in Vas(q), v \in Vas(reg)
  PROVE  q = 3 /\ reg = 4 /\ v >= IOMEMBASE
<1>1. v \in Nat /\ Place(q, v) /\ Place(reg, v)
  BY Placed
<1>2. /\ KERNBASE \in Nat /\ NPT \in Nat \ {0} /\ NCPU \in Nat /\ KERNBASE >= 5 * NPT
      /\ UENVS = KERNBASE - 5 * NPT /\ UPAGES = KERNBASE - 4 * NPT /\ KSTACKTOP = KERNBASE - NPT
  BY Numbers, LayoutHolds DEF Layout
<1>3. CASE reg = 2 \/ (reg = 3 /\ q \in {1, 2}) \/ (reg = 4 /\ q \in {1, 2})
  BY <1>1, <1>2, <1>3 DEF Place
<1>4. CASE reg = 3 /\ q \notin {1, 2}
  BY <1>2, <1>4
<1>5. CASE reg = 4 /\ q = 3
  BY <1>1, <1>5 DEF Place
<1>6. CASE reg >= 5 /\ q <= 4
  <2>1. KSTACKTOP - NPT <= v /\ v < KSTACKTOP
    BY <1>1, <1>6 DEF Place
  <2>2. q \in {1, 2, 3, 4}
    BY <1>2, <1>6
  <2>3. CASE q \in {1, 2}
    BY <1>1, <1>2, <2>1, <2>3 DEF Place
  <2>4. CASE q \in {3, 4}
    <3>1. KERNBASE <= v
      BY <1>1, <2>4 DEF Place
    <3> QED BY <1>1, <1>2, <2>1, <3>1
  <2> QED BY <2>2, <2>3, <2>4
<1>7. CASE reg >= 5 /\ q >= 5
  <2>1. PICK c \in 0 .. NCPU - 1, d \in 0 .. NCPU - 1 : c = q - 5 /\ d = reg - 5 /\ c < d
    <3>1. q - 5 \in 0 .. NCPU - 1 /\ reg - 5 \in 0 .. NCPU - 1 /\ q - 5 < reg - 5
      BY <1>2, <1>7
    <3> QED BY <3>1
  <2>2. StackTop(c) - KSTKSIZE <= v /\ v < StackTop(d)
    BY <1>1, <1>7, <2>1 DEF Place
  <2>3. StackTop(d) <= StackTop(c) - (KSTKSIZE + KSTKGAP)
    BY <2>1, StackGaps
  <2>4. StackFits(c) /\ StackFits(d)
    BY StacksFit
  <2>5. StackTop(c) \in Nat /\ StackTop(d) \in Nat /\ KSTKSIZE \in Nat \ {0} /\ KSTKGAP \in Nat \ {0}
    BY <2>4, Numbers DEF StackFits
  <2> QED BY <1>1, <2>2, <2>3, <2>5
<1>8. reg \in {2, 3, 4} \/ reg >= 5
  BY <1>2
<1>9. q \in {1, 2, 3, 4} \/ q >= 5
  BY <1>2
<1> QED BY <1>2, <1>3, <1>4, <1>5, <1>6, <1>7, <1>8, <1>9

\* Every region is in tables that env_setup_vm copies, and these tell those a user may read.
Covered(q, v) == /\ v \in UENVS .. VTOP - 1
                 /\ PDX(v) \in EnvTables
                 /\ q \in {1, 2} <=> PDX(v) \in {PDX(UPAGES), PDX(UENVS)}
LEMMA RegionCovered ==
  ASSUME NEW q \in 1 .. NCPU + 4, NEW v \in Vas(q)
  PROVE  Covered(q, v)
<1>1. v \in Nat /\ Place(q, v) /\ NCPU \in Nat
  BY Placed, Numbers
<1>2. PICK T \in Nat, N \in Nat \ {0}, K \in Nat :
        /\ T = KernelTable /\ N = NPT /\ K = KERNBASE /\ T >= 5 /\ NPD = T + KTABLES
        /\ K = T * N /\ K >= 5 * N
  BY Numbers, LayoutHolds DEF Layout
<1>3. /\ UENVS = K - 5 * N /\ UPAGES = K - 4 * N /\ KSTACKTOP = K - N /\ VTOP \in Nat /\ K < VTOP
  <2>1. IOMEMBASE < VTOP
    BY Numbers, LayoutHolds DEF Layout
  <2> QED BY <1>2, <2>1, LayoutHolds DEF Layout
<1>4. (T - 5) * N = K - 5 * N /\ (T - 4) * N = K - 4 * N /\ (T - 2) * N = K - 2 * N
  BY <1>2
<1>5. \A i \in Nat, a \in Nat : a = i * N /\ a <= v /\ v < a + N => PDX(v) = i
  <2> SUFFICES ASSUME NEW i \in Nat, NEW a \in Nat, a = i * N, a <= v, v < a + N PROVE PDX(v) = i
    OBVIOUS
  <2>1. v \div N = i
    <3>1. i * N <= v /\ v <= i * N + N - 1
      BY <1>1
    <3> QED BY <1>1, <3>1, InTable
  <2> QED BY <1>2, <2>1 DEF PDX
<1>6. PDX(UPAGES) = T - 4
  <2>1. PICK i \in Nat : i = T - 4
    BY <1>2
  <2>2. UPAGES = i * N /\ i * N \in Nat
    BY <1>3, <1>4, <2>1
  <2>3. (i * N) \div N = i
    BY <2>2, InTable
  <2> QED BY <1>2, <2>1, <2>2, <2>3 DEF PDX
<1>7. PDX(UENVS) = T - 5
  <2>1. PICK i \in Nat : i = T - 5
    BY <1>2
  <2>2. UENVS = i * N /\ i * N \in Nat
    BY <1>3, <1>4, <2>1
  <2>3. (i * N) \div N = i
    BY <2>2, InTable
  <2> QED BY <1>2, <2>1, <2>2, <2>3 DEF PDX
<1>8. EnvTables = {T - 4, T - 5, T - 2} \cup T .. NPD - 1
  BY <1>2, TablesCounted
<1>9. CASE q = 1
  <2>1. UPAGES <= v /\ v < UPAGES + NPT
    BY <1>1, <1>9 DEF Place
  <2>2. PICK i \in Nat, a \in Nat : i = T - 4 /\ a = i * N /\ a = UPAGES
    BY <1>2, <1>3, <1>4
  <2>3. PDX(v) = T - 4
    BY <1>2, <1>5, <2>1, <2>2
  <2>4. v \in UENVS .. VTOP - 1
    BY <1>1, <1>2, <1>3, <2>1
  <2> QED BY <1>6, <1>8, <1>9, <2>3, <2>4 DEF Covered
<1>10. CASE q = 2
  <2>1. UENVS <= v /\ v < UPAGES
    BY <1>1, <1>10 DEF Place
  <2>2. PICK i \in Nat, a \in Nat : i = T - 5 /\ a = i * N /\ a = UENVS /\ a + N = UPAGES
    BY <1>2, <1>3, <1>4
  <2>3. PDX(v) = T - 5
    BY <1>5, <2>1, <2>2
  <2>4. v \in UENVS .. VTOP - 1
    BY <1>1, <1>2, <1>3, <2>1
  <2> QED BY <1>7, <1>8, <1>10, <2>3, <2>4 DEF Covered
<1>11. CASE q \in {3, 4}
  <2>1. K <= v /\ v < VTOP
    BY <1>1, <1>2, <1>11 DEF Place
  <2>2. PDX(v) \in T .. NPD - 1
    <3>1. PICK x \in Nat : x = v \div N /\ x * N \in Nat /\ x * N <= v /\ v <= x * N + N - 1
      BY <1>1, PageBounds
    <3>2. T <= x
      <4> SUFFICES ASSUME x + 1 <= T PROVE FALSE
        BY <1>2
      <4>1. (x + 1) * N <= T * N /\ (x + 1) * N = x * N + N
        BY Products
      <4> QED BY <1>1, <1>2, <2>1, <3>1, <4>1
    <3>3. x < NPD
      <4> SUFFICES ASSUME NPD <= x PROVE FALSE
        BY Numbers
      <4>1. NPD * N <= x * N
        BY Numbers, Products
      <4>2. NPD * N = VTOP
        BY <1>2 DEF VTOP
      <4> QED BY <1>1, <1>3, <2>1, <3>1, <4>1, <4>2
    <3> QED BY <1>2, <3>1, <3>2, <3>3, Numbers DEF PDX
  <2>3. v \in UENVS .. VTOP - 1
    BY <1>1, <1>2, <1>3, <2>1
  <2>4. PDX(v) \notin {T - 4, T - 5}
    BY <1>2, <2>2, Numbers
  <2> QED BY <1>6, <1>7, <1>8, <1>11, <2>2, <2>3, <2>4 DEF Covered
<1>12. CASE q >= 5
  <2>1. KSTACKTOP - NPT <= v /\ v < KSTACKTOP
    BY <1>1, <1>12 DEF Place
  <2>2. PICK i \in Nat, a \in Nat : i = T - 2 /\ a = i * N /\ a = KSTACKTOP - N /\ a + N = KSTACKTOP
    BY <1>2, <1>3, <1>4
  <2>3. PDX(v) = T - 2
    BY <1>2, <1>5, <2>1, <2>2
  <2>4. v \in UENVS .. VTOP - 1
    BY <1>1, <1>2, <1>3, <2>1
  <2>5. PDX(v) \notin {T - 4, T - 5} /\ q \notin {1, 2}
    BY <1>2, <1>12, <2>3
  <2> QED BY <1>6, <1>7, <1>8, <2>3, <2>4, <2>5 DEF Covered
<1>13. q \in {1, 2, 3, 4} \/ q >= 5
  BY <1>1
<1> QED BY <1>9, <1>10, <1>11, <1>12, <1>13

\* What boot_map_region writes is a page of the kernel's address space.
LEMMA EntryTyped ==
  ASSUME SizeInv, NEW q \in 1 .. NCPU + 4, NEW v \in Vas(q)
  PROVE  Entry(q, v) \in KernelEntry
<1>1. Fits /\ v \in Nat /\ Place(q, v) /\ NCPU \in Nat
  BY SizesFit, Placed, Numbers
<1>2. /\ VTOP \in Nat /\ NPT \in Nat /\ KERNBASE \in Nat /\ KERNBASE <= IOMEMBASE
      /\ IOMEMBASE \in Nat /\ IOMEMBASE < VTOP /\ 2 * NPT < VTOP
  <2>1. KERNBASE >= 5 * NPT /\ NPT \in Nat \ {0} /\ KERNBASE \in Nat
    BY Numbers, LayoutHolds DEF Layout
  <2>2. KERNBASE <= IOMEMBASE /\ IOMEMBASE \in Nat /\ VTOP \in Nat /\ IOMEMBASE < VTOP
    BY Numbers, LayoutHolds DEF Layout
  <2> QED BY <2>1, <2>2
<1>3. /\ UENVS \in Nat /\ UPAGES \in Nat /\ UPAGES = UENVS + NPT
  BY Numbers, LayoutHolds DEF Layout
<1>4. CASE q = 1
  <2>1. Entry(q, v) = [pa |-> PagesArray + v - UPAGES, w |-> FALSE, u |-> TRUE]
    BY <1>4, RegionsHold DEF RegionsAre, Entry
  <2>2. PagesArray + v - UPAGES \in 0 .. VTOP - 1
    BY <1>1, <1>2, <1>3, <1>4 DEF Place, Fits
  <2> QED BY <2>1, <2>2 DEF KernelEntry
<1>5. CASE q = 2
  <2>1. Entry(q, v) = [pa |-> EnvsArray + v - UENVS, w |-> FALSE, u |-> TRUE]
    BY <1>5, RegionsHold DEF RegionsAre, Entry
  <2>2. EnvsArray + v - UENVS \in 0 .. VTOP - 1
    BY <1>1, <1>2, <1>3, <1>5 DEF Place, Fits
  <2> QED BY <2>1, <2>2 DEF KernelEntry
<1>6. CASE q = 3
  <2>1. Entry(q, v) = [pa |-> 0 + v - KERNBASE, w |-> TRUE, u |-> FALSE]
    BY <1>6, RegionsHold DEF RegionsAre, Entry
  <2>2. 0 + v - KERNBASE \in 0 .. VTOP - 1
    BY <1>1, <1>2, <1>6 DEF Place
  <2> QED BY <2>1, <2>2 DEF KernelEntry
<1>7. CASE q = 4
  <2>1. Entry(q, v) = [pa |-> IOMEMBASE + v - IOMEMBASE, w |-> TRUE, u |-> FALSE]
    BY <1>7, RegionsHold DEF RegionsAre, Entry
  <2>2. IOMEMBASE + v - IOMEMBASE \in 0 .. VTOP - 1
    BY <1>1, <1>2, <1>7 DEF Place
  <2> QED BY <2>1, <2>2 DEF KernelEntry
<1>8. CASE q >= 5
  <2>1. PICK c \in 0 .. NCPU - 1 : c = q - 5 /\ q = 5 + c
    BY <1>1, <1>8
  <2>2. Regions[q] = [va |-> StackTop(c) - KSTKSIZE, n |-> KSTKSIZE, pa |-> StackPage(c),
                      w |-> TRUE, u |-> FALSE]
    BY <2>1, RegionsHold DEF RegionsAre
  <2>3. Entry(q, v) = [pa |-> StackPage(c) + v - (StackTop(c) - KSTKSIZE), w |-> TRUE, u |-> FALSE]
    BY <2>2 DEF Entry
  <2>4. /\ StackFits(c) /\ StackTop(c) - KSTKSIZE <= v /\ v < StackTop(c)
    BY <1>1, <1>8, <2>1, StacksFit DEF Place
  <2>5. /\ StackTop(c) \in Nat /\ StackPage(c) \in Nat /\ KSTKSIZE \in Nat
        /\ StackPage(c) + KSTKSIZE <= NPT
    <3>1. StackPage(NCPU) \in Nat
      BY Numbers DEF StackPage
    <3> QED BY <1>1, <1>2, <2>4, <3>1, Numbers DEF StackFits, Fits
  <2>6. StackPage(c) + v - (StackTop(c) - KSTKSIZE) \in 0 .. VTOP - 1
    BY <1>1, <1>2, <2>4, <2>5
  <2> QED BY <2>3, <2>6 DEF KernelEntry
<1>9. q \in {1, 2, 3, 4} \/ q >= 5
  BY <1>1
<1> QED BY <1>4, <1>5, <1>6, <1>7, <1>8, <1>9

-----------------------------------------------------------------------------
(* mem_init: the inductive invariant                                       *)

\* From page_init on, every page that nothing uses is on the list or holds a table, and
\* is there once.
ListInv == /\ Once(freelist)
           /\ stage \in {"alloc", "init"} => freelist = <<>>
           /\ stage \notin {"alloc", "init", "panic"} =>
                /\ Members(freelist) \cup TablePages = Unused
                /\ Members(freelist) \cap TablePages = {}

\* While entry_pgdir is in use the list begins with enough pages that it maps for all
\* tables that are still missing.
Reserve == IOPHYSMEM - 2 - Cardinality(DOMAIN kdir)
LowInv == stage \in {"check", "map"} => /\ Reserve <= Len(freelist)
                                        /\ \A i \in 1 .. Reserve : EntryMapped(freelist[i])

\* The tables are those of the regions, each in a page of its own.
DirInv == /\ DOMAIN kdir \subseteq EnvTables
          /\ \A i, j \in DOMAIN kdir : kdir[i] = kdir[j] => i = j
          /\ stage \in {"alloc", "init", "reorder", "check"} => kdir = <<>>
          /\ stage \in {"installed", "done"} => region = NCPU + 5
          /\ region \in 1 .. NCPU + 5

\* What the regions so far map; the I/O memory replaces the end of all memory.
MapInv == /\ \A v \in DOMAIN kmap : \E q \in 1 .. region - 1 : v \in Vas(q)
          /\ \A q \in 1 .. region - 1 : \A v \in Vas(q) :
               /\ v \in DOMAIN kmap
               /\ (q = 3 /\ region > 4 => v < IOMEMBASE) => kmap[v] = Entry(q, v)

BootInv == BootTypeOK /\ NoBootFault /\ SizeInv /\ ListInv /\ LowInv /\ DirInv /\ MapInv

\* The regions depend on the sizes of the machine and of the image only.
LEMMA RegionsKept ==
  ASSUME UNCHANGED <<npages, kend>>
  PROVE  /\ Regions' = Regions /\ EnvsArray' = EnvsArray
         /\ \A q : Vas(q)' = Vas(q) /\ \A v : Entry(q, v)' = Entry(q, v)
<1>1. PagesArray' = PagesArray
  BY DEF PagesArray
<1>2. EnvsArray' = EnvsArray
  BY <1>1 DEF EnvsArray, PagesOf
<1>3. Regions' = Regions
  BY <1>1, <1>2 DEF Regions
<1> QED BY <1>2, <1>3 DEF Vas, Entry

\* A step that maps nothing keeps the map.
LEMMA MapKept ==
  ASSUME MapInv, UNCHANGED <<npages, kend, kmap, region>>
  PROVE  MapInv'
<1>1. \A q : Vas(q)' = Vas(q) /\ \A v : Entry(q, v)' = Entry(q, v)
  BY RegionsKept
<1> QED BY <1>1 DEF MapInv

\* After boot_alloc the sizes stay.
LEMMA SizeKept ==
  ASSUME SizeInv, UNCHANGED <<npages, kend, nextfree>>, stage # "alloc", stage' # "alloc"
  PROVE  SizeInv'
<1>1. EnvsArray' = EnvsArray
  BY RegionsKept
<1> QED BY <1>1 DEF SizeInv

\* The empty list, directory and map.
LEMMA Nothing ==
  /\ \A A : ListOf(<<>>, A)
  /\ \A A : <<>> \in [{} -> A]
  /\ DOMAIN <<>> = {} /\ Members(<<>>) = {}
<1>1. DOMAIN <<>> = {}
  OBVIOUS
<1>2. \A A : <<>> \in [{} -> A]
  OBVIOUS
<1> QED BY <1>1, <1>2 DEF ListOf, Once, Members

\* The invariant holds when mem_init begins.
LEMMA InitHolds ==
  ASSUME BootInit
  PROVE  BootInv
<1> USE DEF BootInit
<1>1. SizeInv
  BY DEF SizeInv
<1>2. Fits
  BY <1>1, SizesFit
<1>3. BootTypeOK
  <2>1. freelist \in Seq(1 .. npages - 1)
    BY Nothing DEF ListOf
  <2>2. DOMAIN kdir = {} /\ kdir \in [DOMAIN kdir -> 1 .. npages - 1]
    BY Nothing
  <2>3. DOMAIN kmap = {} /\ kmap \in [DOMAIN kmap -> KernelEntry]
    BY Nothing
  <2>4. npages \in Nat /\ kend \in Nat
    BY <1>2 DEF Fits
  <2> QED BY <2>1, <2>2, <2>3, <2>4 DEF BootTypeOK
<1>4. ListInv
  BY Nothing DEF ListInv, ListOf
<1>5. DirInv
  BY Nothing, Numbers DEF DirInv
<1>6. MapInv
  BY Nothing DEF MapInv
<1>7. LowInv /\ NoBootFault
  BY DEF LowInv, NoBootFault
<1> QED BY <1>1, <1>3, <1>4, <1>5, <1>6, <1>7 DEF BootInv

\* boot_alloc keeps it.
LEMMA AllocStep ==
  ASSUME BootInv, BootAlloc
  PROVE  BootInv'
<1> USE DEF BootAlloc
<1>1. SizeInv /\ Fits /\ MapInv /\ EnvsArray' = EnvsArray
  BY SizesFit, RegionsKept DEF BootInv
<1>2. stage' \in {"panic", "init"}
  OBVIOUS
<1>3. SizeInv'
  BY <1>1, <1>2 DEF SizeInv
<1>4. BootTypeOK'
  <2>1. nextfree' \in Nat
    BY <1>1, Numbers DEF Fits
  <2> QED BY <1>2, <2>1 DEF BootInv, BootTypeOK
<1>5. MapInv'
  BY <1>1, MapKept
<1>6. ListInv'
  BY <1>2 DEF BootInv, ListInv
<1>7. DirInv'
  BY <1>2 DEF BootInv, DirInv
<1>8. LowInv' /\ NoBootFault'
  BY <1>2 DEF LowInv, NoBootFault
<1> QED BY <1>3, <1>4, <1>5, <1>6, <1>7, <1>8 DEF BootInv

\* A list is one of the pages that it has.
LEMMA ListWithin ==
  ASSUME NEW A, NEW C, NEW s, ListOf(s, A), Members(s) \subseteq C
  PROVE  ListOf(s, C)
<1>1. s \in [1 .. Len(s) -> A] /\ Len(s) \in Nat /\ DOMAIN s = 1 .. Len(s)
  BY DEF ListOf
<1>2. s \in [1 .. Len(s) -> C]
  BY <1>1 DEF Members
<1>3. s \in Seq(C)
  BY <1>1, <1>2, SeqDef
<1> QED BY <1>3 DEF ListOf

\* page_init makes the list of all unused pages.
LEMMA InitStep ==
  ASSUME BootInv, PageInit
  PROVE  BootInv'
<1>1. SizeInv /\ Fits /\ MapInv /\ EnvsArray' = EnvsArray /\ stage = "init" /\ UNCHANGED <<npages, kend>>
  BY SizesFit, RegionsKept DEF BootInv, PageInit
<1>2. EntryMapped(EnvsArray - 1)
  BY <1>1, Numbers DEF EntryMapped, Fits
<1>3. /\ stage' = "reorder" /\ UNCHANGED <<nextfree, kdir, kmap, region>>
      /\ freelist' = Only([i \in 1 .. npages |-> npages - i], Unused)
  BY <1>2 DEF PageInit
<1>4. PICK size \in Nat : size = npages
  BY <1>1 DEF Fits
<1>5. PICK s : s = [i \in 1 .. npages |-> npages - i]
  OBVIOUS
<1>6. ListOf(s, 0 .. size - 1) /\ Members(s) = 0 .. size - 1
  <2>7. s = [i \in 1 .. size |-> size - i]
    BY <1>4, <1>5
  <2>8. \A i \in 1 .. size : size - i \in 0 .. size - 1
    OBVIOUS
  <2>1. DOMAIN s = 1 .. size /\ \A i \in 1 .. size : s[i] = size - i /\ s[i] \in 0 .. size - 1
    BY <2>7, <2>8
  <2>2. s \in [1 .. size -> 0 .. size - 1]
    BY <2>7, <2>8
  <2>3. s \in Seq(0 .. size - 1)
    BY <2>2, SeqDef
  <2>4. Once(s)
    BY <2>1 DEF Once
  <2>5. ASSUME NEW p \in 0 .. size - 1 PROVE p \in Members(s)
    <3>1. size - p \in 1 .. size /\ size - (size - p) = p
      OBVIOUS
    <3> QED BY <2>1, <3>1 DEF Members
  <2>6. Members(s) \subseteq 0 .. size - 1
    BY <2>1 DEF Members
  <2> QED BY <2>3, <2>4, <2>5, <2>6 DEF ListOf
<1>7. freelist' = Only(s, Unused)
  BY <1>3, <1>5
<1>8. ListOf(freelist', 0 .. size - 1) /\ Members(freelist') = Members(s) \cap Unused
  BY <1>6, <1>7, OnlyRight
<1>9. Unused \subseteq 1 .. size - 1
  BY <1>4 DEF Unused, InUse
<1>10. Members(freelist') = Unused
  <2>1. Unused \subseteq 0 .. size - 1
    BY <1>9
  <2>2. Members(freelist') = (0 .. size - 1) \cap Unused
    BY <1>6, <1>8
  <2> QED BY <2>1, <2>2
<1>11. ListOf(freelist', 1 .. size - 1)
  BY <1>8, <1>9, <1>10, ListWithin
<1>12. freelist' \in Seq(1 .. npages' - 1)
  BY <1>1, <1>4, <1>11 DEF ListOf
<1>13. BootTypeOK'
  BY <1>1, <1>3, <1>12 DEF BootInv, BootTypeOK
<1>14. Unused' = Unused /\ TablePages' = {}
  <2>1. kdir' = <<>>
    BY <1>1, <1>3 DEF BootInv, DirInv
  <2>2. TablePages' = {}
    BY <2>1, Nothing DEF TablePages
  <2>3. Unused' = Unused
    BY <1>1, <1>3 DEF Unused, InUse
  <2> QED BY <2>2, <2>3
<1>15. ListInv'
  <2>1. Once(freelist') /\ Members(freelist)' = Unused
    BY <1>10, <1>11 DEF ListOf, Members
  <2> QED BY <1>3, <1>14, <2>1 DEF ListInv, Once
<1>16. SizeInv'
  BY <1>1, <1>3, SizeKept
<1>17. MapInv'
  BY <1>1, <1>3, MapKept
<1>18. DirInv'
  BY <1>1, <1>3 DEF BootInv, DirInv
<1>19. LowInv' /\ NoBootFault'
  BY <1>3 DEF LowInv, NoBootFault
<1> QED BY <1>13, <1>15, <1>16, <1>17, <1>18, <1>19 DEF BootInv


\* check_page_free_list moves all pages below the I/O hole, less page 0 and MPENTRY,
\* to the front.
LEMMA ReorderStep ==
  ASSUME BootInv, CheckPageFreeList
  PROVE  BootInv'
<1> DEFINE low == {p \in 0 .. npages - 1 : EntryMapped(p)}
           high == (0 .. npages - 1) \ low
<1>1. /\ SizeInv /\ Fits /\ MapInv /\ stage = "reorder" /\ UNCHANGED <<npages, kend, nextfree, kdir, kmap, region>>
      /\ stage' \in {"check", "panic"} /\ freelist' = Only(freelist, low) \o Only(freelist, high)
  BY SizesFit DEF BootInv, CheckPageFreeList, Reordered
<1>2. PICK size \in Nat : size = npages
  BY <1>1 DEF Fits
<1>3. /\ ListOf(freelist, 1 .. size - 1) /\ kdir = <<>>
      /\ Members(freelist) \cup TablePages = Unused
  BY <1>1, <1>2 DEF BootInv, BootTypeOK, ListInv, DirInv, ListOf
<1>4. TablePages = {} /\ Members(freelist) = Unused
  <2>1. TablePages = {}
    BY <1>3, Nothing DEF TablePages
  <2> QED BY <1>3, <2>1
<1>5. PICK a, b : a = Only(freelist, low) /\ b = Only(freelist, high)
  OBVIOUS
<1>6. /\ ListOf(a, 1 .. size - 1) /\ Members(a) = Unused \cap low
      /\ ListOf(b, 1 .. size - 1) /\ Members(b) = Unused \cap high
  <2> HIDE DEF low, high
  <2> QED BY <1>3, <1>4, <1>5, OnlyRight
<1>7. Unused \subseteq low \cup high /\ low \cap high = {}
  BY DEF Unused
<1> HIDE DEF low, high
<1>8. freelist' = a \o b
  BY <1>1, <1>5
<1>9. ListOf(freelist', 1 .. size - 1) /\ Joined(freelist', a, b)
  <2>1. Members(a) \cap Members(b) = {}
    BY <1>6, <1>7
  <2> QED BY <1>6, <1>8, <2>1, ConcatOnce
<1>10. Members(freelist') = Unused
  BY <1>6, <1>7, <1>9 DEF Joined
<1>11. Unused' = Unused /\ TablePages' = {}
  BY <1>1, <1>4 DEF Unused, InUse, TablePages
<1>12. BootTypeOK'
  BY <1>1, <1>2, <1>9 DEF BootInv, BootTypeOK, ListOf
<1>13. ListInv'
  <2>1. Once(freelist') /\ Members(freelist)' = Unused
    BY <1>9, <1>10 DEF ListOf, Members
  <2> QED BY <1>1, <1>11, <2>1 DEF ListInv, Once
<1>14. LowInv'
  <2>1. Reserve' = IOPHYSMEM - 2
    <3>1. DOMAIN (kdir') = {} /\ Cardinality({}) = 0
      BY <1>1, <1>3, Nothing, FS_EmptySet
    <3> QED BY <3>1, Numbers DEF Reserve
  <2>2. PICK W : W = (1 .. IOPHYSMEM - 1) \ {MPENTRY}
    OBVIOUS
  <2>3. IsFiniteSet(W) /\ Cardinality(W) >= IOPHYSMEM - 2 /\ Cardinality(W) \in Nat
    <3>1. PICK k \in Nat : k = IOPHYSMEM - 1
      BY Numbers
    <3>2. IsFiniteSet(1 .. k) /\ Cardinality(1 .. k) = IF 1 > k THEN 0 ELSE k - 1 + 1
      BY FS_Interval
    <3>3. IsFiniteSet(1 .. k) /\ Cardinality(1 .. k) = k
      BY <3>2
    <3>4. /\ IsFiniteSet((1 .. k) \ {MPENTRY})
          /\ Cardinality((1 .. k) \ {MPENTRY}) = IF MPENTRY \in 1 .. k THEN Cardinality(1 .. k) - 1 ELSE Cardinality(1 .. k)
      BY <3>3, FS_RemoveElement
    <3>5. W = (1 .. k) \ {MPENTRY} /\ IOPHYSMEM - 2 = k - 1
      BY <2>2, <3>1, Numbers
    <3>6. Cardinality(W) \in Nat
      BY <3>4, <3>5, FS_CardinalityType
    <3> QED BY <3>3, <3>4, <3>5, <3>6
  <2>4. W \subseteq Members(a)
    <3> SUFFICES ASSUME NEW p \in W PROVE p \in Unused /\ p \in low
      BY <1>6
    <3>1. p \in Nat /\ p # 0 /\ p < IOPHYSMEM /\ p # MPENTRY
      BY <2>2, Numbers
    <3>2. IOPHYSMEM <= EXTPHYSMEM /\ EXTPHYSMEM < size /\ EXTPHYSMEM < NPT
      BY <1>1, <1>2, Numbers, MapAssumption DEF Fits, PagesArray
    <3>3. p \in 0 .. size - 1 /\ p < NPT
      BY <1>2, <3>1, <3>2, Numbers
    <3>4. p \notin IOPHYSMEM .. nextfree - 1
      BY <3>1, Numbers
    <3> QED BY <1>2, <3>1, <3>3, <3>4 DEF Unused, InUse, EntryMapped, low
  <2>5. IsFiniteSet(Members(a)) /\ Cardinality(Members(a)) = Len(a)
    BY <1>6, ListLength
  <2>6. Cardinality(W) <= Len(a)
    BY <2>4, <2>5, FS_Subset
  <2>7. Len(a) \in Nat /\ Len(b) \in Nat /\ Len(freelist') = Len(a) + Len(b)
    BY <1>6, <1>9 DEF ListOf, Joined
  <2>8. ASSUME NEW i \in 1 .. Reserve' PROVE EntryMapped(freelist'[i])
    <3>1. i \in 1 .. Len(a)
      BY <2>1, <2>3, <2>6, <2>7, <2>8, Numbers
    <3>2. freelist'[i] = a[i] /\ a[i] \in Members(a)
      BY <1>6, <1>9, <3>1 DEF Joined, Members, ListOf
    <3> QED BY <1>6, <3>2 DEF low
  <2>9. Reserve' <= Len(freelist')
    BY <2>1, <2>3, <2>6, <2>7, Numbers
  <2>10. \A i \in 1 .. Reserve' : EntryMapped(freelist[i])'
    BY <2>8 DEF EntryMapped
  <2> QED BY <2>9, <2>10 DEF LowInv
<1>15. SizeInv'
  BY <1>1, SizeKept
<1>16. MapInv'
  BY <1>1, MapKept
<1>17. DirInv'
  BY <1>1, <1>3 DEF BootInv, DirInv
<1>18. NoBootFault'
  BY <1>1 DEF NoBootFault
<1> QED BY <1>12, <1>13, <1>14, <1>15, <1>16, <1>17, <1>18 DEF BootInv

\* A check takes three pages and gives them back.
LEMMA ThreeKept ==
  ASSUME BootInv, stage \in {"check", "installed"}, Len(freelist) >= 3, UNCHANGED <<npages, kend, nextfree, kdir, kmap, region>>,
         stage' \in {"map", "done"}, stage = "check" => stage' = "map",
         stage = "installed" => stage' = "done",
         NEW i \in 1 .. 3, NEW j \in 1 .. 3, NEW k \in 1 .. 3, i # j, i # k, j # k,
         freelist' = FirstThree(i, j, k)
  PROVE  BootInv'
<1>1. SizeInv /\ Fits /\ MapInv
  BY SizesFit DEF BootInv
<1>2. PICK size \in Nat : size = npages
  BY <1>1 DEF Fits
<1>3. /\ ListOf(freelist, 1 .. size - 1) /\ Members(freelist) \cup TablePages = Unused
      /\ Members(freelist) \cap TablePages = {}
  BY <1>2 DEF BootInv, BootTypeOK, ListInv, ListOf
<1>4. PICK q : q = FirstThree(i, j, k)
  OBVIOUS
<1>5. freelist' = q
  BY <1>4
<1>6. /\ ListOf(q, 1 .. size - 1) /\ Members(q) = Members(freelist) /\ Len(q) = Len(freelist)
      /\ q[1] = freelist[i] /\ q[2] = freelist[j] /\ q[3] = freelist[k]
      /\ \A h \in 4 .. Len(freelist) : q[h] = freelist[h]
  <2>1. ListOf(q, 1 .. size - 1) /\ Moved(q, freelist, i, j, k)
    BY <1>3, <1>4, ThreeMoved
  <2> QED BY <2>1 DEF Moved
<1>7. BootTypeOK'
  BY <1>2, <1>5, <1>6 DEF BootInv, BootTypeOK, ListOf
<1>8. ListInv'
  <2>1. Unused' = Unused /\ TablePages' = TablePages
    BY DEF Unused, InUse, TablePages
  <2>2. Once(q) /\ Members(q) = Members(freelist)
    BY <1>6 DEF ListOf
  <2>3. Once(freelist') /\ Members(freelist)' = Members(freelist)
    BY <1>5, <2>2 DEF Members
  <2> QED BY <1>3, <2>1, <2>3 DEF ListInv, Once
<1>9. LowInv'
  <2> SUFFICES ASSUME stage = "check" PROVE LowInv'
    BY DEF LowInv
  <2>1. /\ Reserve <= Len(freelist) /\ \A h \in 1 .. Reserve : EntryMapped(freelist[h])
        /\ kdir = <<>>
    BY DEF BootInv, LowInv, DirInv
  <2>2. Reserve' = Reserve /\ Reserve \in Int /\ Reserve >= 3
    <3>1. Cardinality(DOMAIN kdir) = 0
      BY <2>1, Nothing, FS_EmptySet
    <3>2. Reserve' = Reserve
      BY DEF Reserve
    <3> QED BY <3>1, <3>2, Numbers, MapAssumption DEF Reserve
  <2>3. Len(freelist) \in Nat
    BY <1>3 DEF ListOf
  <2>4. ASSUME NEW h \in 1 .. Reserve PROVE EntryMapped(q[h])
    <3>1. EntryMapped(freelist[i]) /\ EntryMapped(freelist[j]) /\ EntryMapped(freelist[k])
      BY <2>1, <2>2
    <3>2. CASE h \in {1, 2, 3}
      BY <1>6, <3>1, <3>2
    <3>3. CASE h \notin {1, 2, 3}
      <4>1. h \in 4 .. Len(freelist)
        BY <2>1, <2>2, <2>3, <3>3
      <4> QED BY <1>6, <2>1, <4>1
    <3> QED BY <3>2, <3>3
  <2>5. \A h \in 1 .. Reserve' : EntryMapped(freelist[h])'
    BY <1>5, <2>2, <2>4 DEF EntryMapped
  <2>6. Reserve' <= Len(freelist')
    BY <1>5, <1>6, <2>1, <2>2
  <2> QED BY <2>5, <2>6 DEF LowInv
<1>10. SizeInv'
  BY <1>1, SizeKept
<1>11. MapInv'
  BY <1>1, MapKept
<1>12. DirInv'
  BY DEF BootInv, DirInv
<1>13. NoBootFault'
  BY DEF NoBootFault
<1> QED BY <1>7, <1>8, <1>9, <1>10, <1>11, <1>12, <1>13 DEF BootInv

\* A panic keeps all that is there.
LEMMA PanicStep ==
  ASSUME BootInv, stage # "alloc", stage' = "panic",
         UNCHANGED <<npages, kend, nextfree, freelist, kdir, kmap, region>>
  PROVE  BootInv'
<1>1. SizeInv' /\ MapInv'
  BY SizeKept, MapKept DEF BootInv
<1>2. BootTypeOK'
  BY DEF BootInv, BootTypeOK
<1>3. ListInv' /\ LowInv' /\ DirInv' /\ NoBootFault'
  BY DEF BootInv, ListInv, LowInv, DirInv, NoBootFault, Once
<1> QED BY <1>1, <1>2, <1>3 DEF BootInv

\* check_page finds its pages mapped.
LEMMA CheckStep ==
  ASSUME BootInv, CheckPage
  PROVE  BootInv'
<1>1. stage = "check" /\ UNCHANGED <<npages, kend, nextfree, kdir, kmap, region>>
  BY DEF CheckPage
<1>2. CASE Len(freelist) < 3
  BY <1>1, <1>2, PanicStep DEF CheckPage
<1>3. CASE ~(Len(freelist) < 3)
  <2>1. Len(freelist) >= 3
    BY <1>3 DEF BootInv, BootTypeOK
  <2>2. EntryMapped(freelist[1]) /\ EntryMapped(freelist[3])
    <3>1. \A h \in 1 .. Reserve : EntryMapped(freelist[h])
      BY <1>1 DEF BootInv, LowInv
    <3>2. kdir = <<>>
      BY <1>1 DEF BootInv, DirInv
    <3>3. Cardinality(DOMAIN kdir) = 0
      BY <3>2, Nothing, FS_EmptySet
    <3>4. Reserve \in Int /\ Reserve >= 3
      BY <3>3, Numbers, MapAssumption DEF Reserve
    <3> QED BY <3>1, <3>4
  <2>3. stage' = "map" /\ freelist' = FirstThree(3, 2, 1)
    BY <1>3, <2>2 DEF CheckPage
  <2> QED BY <1>1, <2>1, <2>3, ThreeKept
<1> QED BY <1>2, <1>3

\* check_page_installed_pgdir keeps the list.
LEMMA InstalledStep ==
  ASSUME BootInv, CheckInstalled
  PROVE  BootInv'
<1>1. stage = "installed" /\ UNCHANGED <<npages, kend, nextfree, kdir, kmap, region>>
  BY DEF CheckInstalled
<1>2. CASE Len(freelist) < 3
  BY <1>1, <1>2, PanicStep DEF CheckInstalled
<1>3. CASE ~(Len(freelist) < 3)
  <2>1. Len(freelist) >= 3
    BY <1>3 DEF BootInv, BootTypeOK
  <2>3. stage' = "done" /\ freelist' = FirstThree(1, 3, 2)
    BY <1>3 DEF CheckInstalled
  <2> QED BY <1>1, <2>1, <2>3, ThreeKept
<1> QED BY <1>2, <1>3

\* When lcr3 is reached all regions are mapped; the list is checked again.
LEMMA Cr3Step ==
  ASSUME BootInv, LoadCr3
  PROVE  BootInv'
<1>1. /\ stage = "map" /\ region > Len(Regions)
      /\ stage' = "installed" \/ stage' = "panic"
      /\ UNCHANGED <<npages, kend, nextfree, freelist, kdir, kmap, region>>
  BY DEF LoadCr3
<1>2. CASE stage' = "panic"
  BY <1>1, <1>2, PanicStep
<1>3. CASE stage' = "installed"
  <2>1. region = NCPU + 5
    <3>1. region \in 1 .. NCPU + 5 /\ region > 4 + NCPU
      BY <1>1, RegionsHold DEF BootInv, DirInv, RegionsAre
    <3> QED BY <3>1, Numbers
  <2>2. SizeInv' /\ MapInv'
    BY <1>1, <1>3, SizeKept, MapKept DEF BootInv
  <2>3. BootTypeOK' /\ LowInv' /\ NoBootFault'
    BY <1>1, <1>3 DEF BootInv, BootTypeOK, LowInv, NoBootFault
  <2>4. DirInv'
    BY <1>1, <1>3, <2>1 DEF BootInv, DirInv
  <2>5. ListInv'
    <3>1. Unused' = Unused /\ TablePages' = TablePages
      BY <1>1 DEF Unused, InUse, TablePages
    <3> QED BY <1>1, <1>3, <3>1 DEF BootInv, ListInv, Once, Members
  <2> QED BY <2>2, <2>3, <2>4, <2>5 DEF BootInv
<1> QED BY <1>1, <1>2, <1>3

\* The tables that boot_map_region finds missing.
Missing == {PDX(v) : v \in Vas(region)} \ DOMAIN kdir

\* There are enough pages for them that entry_pgdir maps.
Enough == /\ IsFiniteSet(Missing) /\ Missing \subseteq EnvTables
          /\ Cardinality(Missing) \in Nat /\ Cardinality(DOMAIN kdir) \in Nat
          /\ IsFiniteSet(DOMAIN kdir)
          /\ Cardinality(DOMAIN kdir \cup Missing) = Cardinality(DOMAIN kdir) + Cardinality(Missing)
          /\ Cardinality(Missing) <= Reserve /\ Reserve \in Int
LEMMA EnoughTables ==
  ASSUME BootInv, stage = "map", region <= NCPU + 4
  PROVE  Enough
<1>1. region \in 1 .. NCPU + 4 /\ DOMAIN kdir \subseteq EnvTables
  BY Numbers DEF BootInv, DirInv
<1>2. Missing \subseteq EnvTables
  BY <1>1, RegionCovered DEF Missing, Covered
<1>3. IsFiniteSet(EnvTables) /\ Cardinality(EnvTables) <= KTABLES + 3
  BY TablesCounted
<1>4. PICK D, M, E : D = DOMAIN kdir /\ M = Missing /\ E = EnvTables
  OBVIOUS
<1>5. D \subseteq E /\ M \subseteq E /\ IsFiniteSet(E) /\ D \cap M = {}
  BY <1>1, <1>2, <1>3, <1>4 DEF Missing
<1>6. IsFiniteSet(D) /\ IsFiniteSet(M) /\ IsFiniteSet(D \cup M)
  BY <1>5, FS_Subset, FS_Union
<1>7. Cardinality(D) \in Nat /\ Cardinality(M) \in Nat /\ Cardinality(E) \in Nat
  BY <1>5, <1>6, FS_CardinalityType
<1>8. Cardinality(D \cup M) <= Cardinality(E)
  <2>1. D \cup M \in SUBSET E
    BY <1>5
  <2> QED BY <1>5, <2>1, FS_Subset
<1>9. Cardinality(D \cup M) = Cardinality(D) + Cardinality(M)
  <2>1. Cardinality(D \cup M) = Cardinality(D) + Cardinality(M) - Cardinality(D \cap M)
    BY <1>6, FS_Union
  <2>2. Cardinality(D \cap M) = 0
    BY <1>5, FS_EmptySet
  <2> QED BY <1>7, <2>1, <2>2
<1>10. Cardinality(D) + Cardinality(M) <= IOPHYSMEM - 2
  BY <1>3, <1>4, <1>7, <1>8, <1>9, Numbers, MapAssumption
<1>11. Reserve \in Int /\ Cardinality(M) <= Reserve
  BY <1>4, <1>7, <1>10, Numbers DEF Reserve
<1> QED BY <1>2, <1>4, <1>6, <1>7, <1>9, <1>11 DEF Enough

\* What boot_map_region does for region reg.
Mapped(reg, m) ==
  /\ kdir' = [i \in DOMAIN kdir \cup Missing |->
                IF i \in Missing THEN freelist[Rank(Missing, i)] ELSE kdir[i]]
  /\ kmap' = [v \in DOMAIN kmap \cup Vas(reg) |-> IF v \in Vas(reg) THEN Entry(reg, v) ELSE kmap[v]]
  /\ freelist' = SubSeq(freelist, m + 1, Len(freelist))
  /\ stage' = "map" /\ region' = reg + 1 /\ UNCHANGED <<npages, kend, nextfree>>

\* boot_map_region never meets the missing page.
LEMMA MappedOnly ==
  ASSUME BootInv, BootMapRegion
  PROVE  /\ stage = "map" /\ region \in 1 .. NCPU + 4 /\ Enough /\ Cardinality(Missing) <= Len(freelist)
         /\ Mapped(region, Cardinality(Missing))
<1>1. stage = "map" /\ region <= NCPU + 4 /\ region \in 1 .. NCPU + 4
  <2>1. region <= Len(Regions) /\ region \in 1 .. NCPU + 5 /\ stage = "map"
    BY DEF BootMapRegion, BootInv, DirInv
  <2>2. Len(Regions) = 4 + NCPU
    BY RegionsHold DEF RegionsAre
  <2> QED BY <2>1, <2>2, Numbers
<1>2. Enough
  BY <1>1, EnoughTables
<1>3. Reserve <= Len(freelist) /\ \A i \in 1 .. Reserve : EntryMapped(freelist[i])
  BY <1>1 DEF BootInv, LowInv
<1>4. Len(freelist) \in Nat
  BY DEF BootInv, BootTypeOK
<1>5. Cardinality(Missing) <= Len(freelist) /\ Len(freelist) >= Cardinality(Missing)
  BY <1>2, <1>3, <1>4 DEF Enough
<1>6. \A i \in 1 .. Cardinality(Missing) : EntryMapped(freelist[i])
  BY <1>2, <1>3 DEF Enough
<1>7. Mapped(region, Cardinality(Missing))
  <2>1. /\ kdir' = [i \in DOMAIN kdir \cup Missing |->
                      IF i \in Missing THEN freelist[Rank(Missing, i)] ELSE kdir[i]]
        /\ kmap' = [v \in DOMAIN kmap \cup Vas(region) |->
                      IF v \in Vas(region)
                      THEN [pa |-> Regions[region].pa + v - Regions[region].va,
                            w |-> Regions[region].w, u |-> Regions[region].u]
                      ELSE kmap[v]]
        /\ freelist' = SubSeq(freelist, Cardinality(Missing) + 1, Len(freelist))
        /\ stage' = stage /\ region' = region + 1 /\ UNCHANGED <<npages, kend, nextfree>>
    BY <1>5, <1>6 DEF BootMapRegion, Missing, Vas, Rank
  <2> QED BY <1>1, <2>1 DEF Mapped, Entry
<1> QED BY <1>1, <1>2, <1>5, <1>7

\* boot_map_region adds a region; the pages of its tables leave the list.
LEMMA MapStep ==
  ASSUME BootInv, BootMapRegion
  PROVE  BootInv'
<1>1. PICK reg \in 1 .. NCPU + 4 : reg = region
  BY MappedOnly
<1>2. PICK m \in Nat : m = Cardinality(Missing)
  BY MappedOnly DEF Enough
<1>3. /\ SizeInv /\ Fits /\ stage = "map" /\ Enough /\ m <= Len(freelist) /\ Mapped(reg, m)
  BY <1>1, <1>2, MappedOnly, SizesFit DEF BootInv
<1>4. PICK size \in Nat : size = npages
  BY <1>3 DEF Fits
<1>5. PICK D, M, T : D = DOMAIN kdir /\ M = Missing /\ T = TablePages
  OBVIOUS
<1>6. PICK s : s = freelist
  OBVIOUS
<1>7. /\ ListOf(s, 1 .. size - 1) /\ Members(s) \cup T = Unused /\ Members(s) \cap T = {}
      /\ Len(s) \in Nat /\ DOMAIN s = 1 .. Len(s)
  BY <1>3, <1>4, <1>5, <1>6 DEF BootInv, BootTypeOK, ListInv, ListOf
<1>8. /\ D \subseteq EnvTables /\ D \cap M = {} /\ M \subseteq Nat /\ M \subseteq EnvTables /\ IsFiniteSet(M)
      /\ m = Cardinality(M) /\ m <= Len(s)
  BY <1>2, <1>3, <1>5, <1>6, TablesCounted DEF BootInv, DirInv, Enough, Missing
<1>9. PICK q : q = SubSeq(s, m + 1, Len(s))
  OBVIOUS
<1>10. /\ freelist' = q /\ region' = reg + 1 /\ stage' = "map" /\ UNCHANGED <<npages, kend, nextfree>>
       /\ kdir' = [i \in D \cup M |-> IF i \in M THEN s[Rank(M, i)] ELSE kdir[i]]
       /\ kmap' = [v \in DOMAIN kmap \cup Vas(reg) |-> IF v \in Vas(reg) THEN Entry(reg, v) ELSE kmap[v]]
  BY <1>3, <1>5, <1>6, <1>9 DEF Mapped
<1>11. /\ ListOf(q, 1 .. size - 1) /\ Len(q) = Len(s) - m
       /\ \A i \in 1 .. Len(s) - m : q[i] = s[i + m]
       /\ Members(q) = Members(s) \ First(s, m)
  <2>1. PICK c \in Nat : c = m + 1
    OBVIOUS
  <2>2. m \in 0 .. Len(s)
    BY <1>7, <1>8
  <2>3. ListOf(q, 1 .. size - 1) /\ Rest(q, s, m)
    BY <1>7, <1>9, <2>1, <2>2, RestOnce
  <2> QED BY <2>3 DEF Rest
<1>12. /\ \A i \in M : s[Rank(M, i)] \in First(s, m)
       /\ \A i, j \in M : s[Rank(M, i)] = s[Rank(M, j)] => i = j
       /\ {s[Rank(M, i)] : i \in M} = First(s, m)
  <2>1. GivenTo(s, M)
    BY <1>7, <1>8, GivenOut
  <2> QED BY <1>8, <2>1 DEF GivenTo
<1>13. First(s, m) \subseteq Members(s) /\ Members(s) \subseteq 1 .. size - 1
  <2>1. \A i \in 1 .. m : i \in 1 .. Len(s)
    BY <1>7, <1>8
  <2>2. First(s, m) \subseteq Members(s)
    BY <1>7, <2>1 DEF First, Members
  <2>3. \A i \in 1 .. Len(s) : s[i] \in 1 .. size - 1
    BY <1>7 DEF ListOf
  <2>4. Members(s) \subseteq 1 .. size - 1
    BY <1>7, <2>3 DEF Members
  <2> QED BY <2>2, <2>4
<1>14. /\ DOMAIN kdir' = D \cup M
       /\ \A i \in M : kdir'[i] = s[Rank(M, i)]
       /\ \A i \in D : kdir'[i] = kdir[i]
  BY <1>8, <1>10
<1>15. T = {kdir[i] : i \in D} /\ \A i, j \in D : kdir[i] = kdir[j] => i = j
  BY <1>5 DEF TablePages, BootInv, DirInv
<1>16. TablePages' = T \cup First(s, m)
  <2>1. TablePages' = {kdir'[i] : i \in D \cup M}
    BY <1>14 DEF TablePages
  <2>2. ASSUME NEW x \in TablePages' PROVE x \in T \cup First(s, m)
    <3>1. PICK i \in D \cup M : x = kdir'[i]
      BY <2>1
    <3> QED BY <1>12, <1>14, <1>15, <3>1
  <2>3. ASSUME NEW x \in T PROVE x \in TablePages'
    BY <1>14, <1>15, <2>1
  <2>4. ASSUME NEW x \in First(s, m) PROVE x \in TablePages'
    <3>1. PICK i \in M : x = s[Rank(M, i)]
      BY <1>12
    <3> QED BY <1>14, <2>1, <3>1
  <2> QED BY <2>2, <2>3, <2>4
<1>17. Unused' = Unused
  BY <1>10 DEF Unused, InUse
<1>18. ListInv'
  <2>1. Once(freelist') /\ Members(freelist)' = Members(q)
    BY <1>10, <1>11 DEF ListOf, Members
  <2>2. Members(q) \cup TablePages' = Unused'
    BY <1>7, <1>11, <1>13, <1>16, <1>17
  <2>3. Members(q) \cap TablePages' = {}
    BY <1>7, <1>11, <1>13, <1>16
  <2> QED BY <1>10, <2>1, <2>2, <2>3 DEF ListInv, Once
<1>19. DirInv'
  <2>1. ASSUME NEW i \in D \cup M, NEW j \in D \cup M, kdir'[i] = kdir'[j] PROVE i = j
    <3>1. CASE i \in D /\ j \in D
      BY <1>14, <1>15, <2>1, <3>1
    <3>2. CASE i \in M /\ j \in M
      BY <1>12, <1>14, <2>1, <3>2
    <3>3. ASSUME NEW a \in D, NEW b \in M PROVE kdir'[a] # kdir'[b]
      <4>1. kdir'[a] \in T /\ kdir'[b] \in Members(s)
        BY <1>12, <1>13, <1>14, <1>15
      <4> QED BY <1>7, <4>1
    <3>4. CASE (i \in D /\ j \in M) \/ (i \in M /\ j \in D)
      BY <2>1, <3>3, <3>4
    <3> QED BY <3>1, <3>2, <3>4
  <2>2. EnvTables' = EnvTables
    BY DEF EnvTables
  <2>3. DOMAIN kdir' \subseteq EnvTables
    BY <1>8, <1>14
  <2>4. region' \in 1 .. NCPU + 5
    BY <1>10, Numbers
  <2>5. \A i, j \in DOMAIN kdir' : kdir'[i] = kdir'[j] => i = j
    BY <1>14, <2>1
  <2> QED BY <1>10, <2>2, <2>3, <2>4, <2>5 DEF DirInv
<1>20. LowInv'
  <2>1. /\ Reserve <= Len(s) /\ \A i \in 1 .. Reserve : EntryMapped(s[i])
    BY <1>3, <1>6 DEF BootInv, LowInv
  <2>2. Reserve' = Reserve - m /\ Reserve \in Int /\ m <= Reserve
    <3>1. Cardinality(D \cup M) = Cardinality(D) + m /\ Cardinality(D) \in Nat
      BY <1>3, <1>5, <1>8 DEF Enough
    <3>2. Reserve' = IOPHYSMEM - 2 - Cardinality(D \cup M)
      BY <1>14 DEF Reserve
    <3>3. Reserve = IOPHYSMEM - 2 - Cardinality(D)
      BY <1>5 DEF Reserve
    <3> QED BY <1>3, <1>2, <3>1, <3>2, <3>3, Numbers DEF Enough
  <2>3. ASSUME NEW i \in 1 .. Reserve' PROVE EntryMapped(q[i])
    <3>1. i \in 1 .. Len(s) - m /\ i + m \in 1 .. Reserve
      BY <1>7, <2>1, <2>2
    <3> QED BY <1>11, <2>1, <3>1
  <2>4. \A i \in 1 .. Reserve' : EntryMapped(freelist[i])'
    BY <1>10, <2>3 DEF EntryMapped
  <2>5. Reserve' <= Len(freelist')
    BY <1>7, <1>10, <1>11, <2>1, <2>2
  <2> QED BY <2>4, <2>5 DEF LowInv
<1>21. \A x : Vas(x)' = Vas(x) /\ \A v : Entry(x, v)' = Entry(x, v)
  BY <1>10, RegionsKept
<1>22. \A v \in Vas(reg) : Covered(reg, v) /\ Entry(reg, v) \in KernelEntry
  BY <1>3, RegionCovered, EntryTyped
<1>23. NCPU \in Nat /\ reg \in Nat /\ reg >= 1
  BY Numbers
<1>24. MapInv'
  <2>1. MapInv
    BY DEF BootInv
  <2>2. \A v \in DOMAIN kmap' : \E x \in 1 .. reg : v \in Vas(x)
    <3> SUFFICES ASSUME NEW v \in DOMAIN kmap' PROVE \E x \in 1 .. reg : v \in Vas(x)
      OBVIOUS
    <3>1. CASE v \in Vas(reg)
      BY <1>23, <3>1
    <3>2. CASE v \notin Vas(reg)
      <4>1. v \in DOMAIN kmap
        BY <1>10, <3>2
      <4>2. PICK x \in 1 .. region - 1 : v \in Vas(x)
        BY <2>1, <4>1 DEF MapInv
      <4>3. x \in 1 .. reg
        BY <1>1, <1>23, <4>2
      <4> QED BY <4>2, <4>3
    <3> QED BY <3>1, <3>2
  <2>3. ASSUME NEW x \in 1 .. reg, NEW v \in Vas(x)
        PROVE  v \in DOMAIN kmap' /\ ((x = 3 /\ reg + 1 > 4 => v < IOMEMBASE) => kmap'[v] = Entry(x, v))
    <3>1. CASE x = reg
      BY <1>10, <3>1
    <3>2. CASE x # reg
      <4>1. x \in 1 .. region - 1 /\ x < reg /\ x \in 1 .. NCPU + 4
        BY <1>1, <1>23, <3>2
      <4>2. v \in DOMAIN kmap /\ ((x = 3 /\ region > 4 => v < IOMEMBASE) => kmap[v] = Entry(x, v))
        BY <2>1, <4>1 DEF MapInv
      <4>3. CASE v \notin Vas(reg)
        <5>1. v \in DOMAIN kmap' /\ kmap'[v] = kmap[v]
          BY <1>10, <4>2, <4>3
        <5>2. region > 4 => reg + 1 > 4
          BY <1>1, <1>23
        <5> QED BY <4>2, <5>1, <5>2
      <4>4. CASE v \in Vas(reg)
        <5>1. x = 3 /\ reg = 4 /\ v >= IOMEMBASE
          BY <4>1, <4>4, RegionsApart
        <5>2. ~(v < IOMEMBASE)
          <6>1. v \in Nat
            BY <4>1, Placed
          <6> QED BY <5>1, <6>1, LayoutHolds DEF Layout
        <5> QED BY <1>10, <4>4, <5>1, <5>2
      <4> QED BY <4>3, <4>4
    <3> QED BY <3>1, <3>2
  <2>4. 1 .. region' - 1 = 1 .. reg /\ (region' > 4 <=> reg + 1 > 4)
    BY <1>10, <1>23
  <2>5. \A v \in DOMAIN kmap' : \E x \in 1 .. region' - 1 : v \in Vas(x)'
    BY <1>21, <2>2, <2>4
  <2>6. \A x \in 1 .. region' - 1 : \A v \in Vas(x)' :
          v \in DOMAIN kmap' /\ ((x = 3 /\ region' > 4 => v < IOMEMBASE) => kmap'[v] = Entry(x, v)')
    BY <1>21, <2>3, <2>4
  <2>7. IOMEMBASE' = IOMEMBASE
    BY DEF IOMEMBASE
  <2> QED BY <2>5, <2>6, <2>7 DEF MapInv
<1>25. BootTypeOK'
  <2>1. freelist' \in Seq(1 .. npages' - 1)
    BY <1>4, <1>10, <1>11 DEF ListOf
  <2>2. kdir' \in [DOMAIN kdir' -> 1 .. npages' - 1] /\ DOMAIN kdir' \subseteq 0 .. NPD - 1
    <3>1. \A i \in D : kdir[i] \in 1 .. size - 1
      BY <1>4, <1>5 DEF BootInv, BootTypeOK
    <3>2. \A i \in D \cup M : kdir'[i] \in 1 .. size - 1
      BY <1>12, <1>13, <1>14, <3>1
    <3>3. kdir' \in [D \cup M -> 1 .. size - 1]
      BY <1>10, <1>14, <3>2
    <3>4. D \cup M \subseteq 0 .. NPD - 1
      BY <1>8, TablesCounted
    <3> QED BY <1>4, <1>10, <1>14, <3>3, <3>4
  <2>3. kmap' \in [DOMAIN kmap' -> KernelEntry] /\ DOMAIN kmap' \subseteq UENVS .. VTOP - 1
    <3>1. kmap \in [DOMAIN kmap -> KernelEntry] /\ DOMAIN kmap \subseteq UENVS .. VTOP - 1
      BY DEF BootInv, BootTypeOK
    <3>2. DOMAIN kmap' = DOMAIN kmap \cup Vas(reg)
      BY <1>10
    <3>3. \A v \in DOMAIN kmap \cup Vas(reg) : kmap'[v] \in KernelEntry
      BY <1>10, <1>22, <3>1
    <3>4. kmap' \in [DOMAIN kmap \cup Vas(reg) -> KernelEntry]
      BY <1>10, <3>3
    <3>5. Vas(reg) \subseteq UENVS .. VTOP - 1
      BY <1>22 DEF Covered
    <3> QED BY <3>1, <3>2, <3>4, <3>5
  <2>4. KernelEntry' = KernelEntry /\ (UENVS .. VTOP - 1)' = UENVS .. VTOP - 1 /\ NPD' = NPD
    BY DEF KernelEntry, UENVS, VTOP, UPAGES, UVPT, KSTACKTOP, KERNBASE
  <2>5. region' \in Nat /\ npages' \in Nat /\ kend' \in Nat /\ nextfree' \in Nat
    BY <1>10, <1>23 DEF BootInv, BootTypeOK
  <2> QED BY <1>10, <2>1, <2>2, <2>3, <2>4, <2>5 DEF BootTypeOK
<1>26. SizeInv'
  BY <1>3, <1>10, SizeKept
<1>27. NoBootFault'
  BY <1>10 DEF NoBootFault
<1> QED BY <1>18, <1>19, <1>20, <1>24, <1>25, <1>26, <1>27 DEF BootInv

-----------------------------------------------------------------------------
(* mem_init: what is true when it is done                                  *)

\* The list of free pages is complete.
LEMMA FreeListReady ==
  ASSUME BootInv, stage = "done"
  PROVE  Members(freelist) = (0 .. npages - 1) \ Occupied
<1>1. /\ Fits /\ Members(freelist) \cup TablePages = Unused /\ Members(freelist) \cap TablePages = {}
      /\ nextfree = EnvsArray + ENVPAGES
  BY SizesFit DEF BootInv, ListInv, SizeInv
<1>2. PICK a \in Nat, b \in Nat, c \in Nat, d \in Nat :
        /\ a = IOPHYSMEM /\ b = EXTPHYSMEM /\ c = kend /\ d = nextfree /\ a <= b /\ b <= c /\ c <= d
  BY <1>1, Numbers, MapAssumption DEF Fits
<1>3. a .. b - 1 \cup b .. c - 1 \cup c .. d - 1 = a .. d - 1
  BY <1>2
<1>4. Occupied = {0, MPENTRY} \cup a .. d - 1 \cup TablePages
  <2>1. Occupied = {0, MPENTRY} \cup a .. b - 1 \cup b .. c - 1 \cup c .. d - 1 \cup TablePages
    <3>1. IOPHYSMEM = a /\ EXTPHYSMEM = b /\ kend = c /\ EnvsArray + ENVPAGES - 1 = d - 1
      BY <1>1, <1>2, Numbers DEF Fits
    <3> QED BY <3>1, Zenon DEF Occupied
  <2> QED BY <1>3, <2>1
<1>5. Unused = (0 .. npages - 1) \ ({0, MPENTRY} \cup a .. d - 1)
  <2>1. \A page : InUse(page) <=> page \in {0, MPENTRY} \cup a .. d - 1
    BY <1>2 DEF InUse
  <2> QED BY <2>1 DEF Unused
<1> QED BY <1>1, <1>4, <1>5

\* When all regions are mapped an address of region q has the entry of region q.
LEMMA EntryReady ==
  ASSUME BootInv, stage = "done", NEW q \in 1 .. NCPU + 4, NEW v \in Vas(q), q = 3 => v < IOMEMBASE
  PROVE  v \in DOMAIN kmap /\ kmap[v] = Entry(q, v)
<1>1. MapInv /\ region = NCPU + 5
  BY DEF BootInv, DirInv
<1>2. q \in 1 .. region - 1
  BY <1>1, Numbers
<1> QED BY <1>1, <1>2 DEF MapInv

\* And nothing else is mapped.
LEMMA RegionReady ==
  ASSUME BootInv, stage = "done", NEW v \in DOMAIN kmap
  PROVE  \E q \in 1 .. NCPU + 4 : v \in Vas(q) /\ kmap[v] = Entry(q, v)
<1>1. MapInv /\ region = NCPU + 5 /\ NCPU \in Nat
  BY Numbers DEF BootInv, DirInv
<1>2. PICK q \in 1 .. NCPU + 4 : v \in Vas(q)
  <2>1. PICK q \in 1 .. region - 1 : v \in Vas(q)
    BY <1>1 DEF MapInv
  <2> QED BY <1>1, <2>1
<1>3. CASE q = 3 => v < IOMEMBASE
  BY <1>2, <1>3, EntryReady
<1>4. CASE q = 3 /\ ~(v < IOMEMBASE)
  <2>1. v \in Nat /\ Place(q, v)
    BY <1>2, Placed
  <2>2. IOMEMBASE <= v /\ v < VTOP
    BY <1>4, <2>1, LayoutHolds DEF Place, Layout
  <2>3. Regions[4].va = IOMEMBASE /\ Regions[4].n = IOPAGES
    BY RegionsHold DEF RegionsAre
  <2>4. v \in Vas(4)
    <3>1. IOMEMBASE \in Nat /\ VTOP = IOMEMBASE + IOPAGES /\ IOPAGES \in Nat
      BY Numbers, LayoutHolds DEF Layout
    <3> QED BY <2>1, <2>2, <2>3, <3>1 DEF Vas
  <2>5. 4 \in 1 .. NCPU + 4
    BY <1>1
  <2>6. PICK reg \in 1 .. NCPU + 4 : reg = 4 /\ v \in Vas(reg)
    BY <2>4, <2>5
  <2>7. kmap[v] = Entry(reg, v)
    BY <2>6, EntryReady
  <2> QED BY <2>6, <2>7
<1> QED BY <1>3, <1>4

\* All memory, and the I/O memory.
LEMMA MemoryMapped ==
  ASSUME BootInv, stage = "done"
  PROVE  /\ \A p \in 0 .. npages - 1 : MapsTo(KERNBASE + p, p)
         /\ \A v \in IOMEMBASE .. VTOP - 1 : MapsTo(v, v)
<1>1. /\ Fits /\ KERNBASE \in Nat /\ IOMEMBASE \in Nat /\ NCPU \in Nat /\ VTOP \in Nat
      /\ IOPAGES \in Nat /\ VTOP = IOMEMBASE + IOPAGES
  BY SizesFit, Numbers, LayoutHolds DEF BootInv, Layout
<1>2. PICK Y \in Nat : Y = KTABLES * NPT /\ VTOP = KERNBASE + Y
  BY LayoutHolds DEF Layout
<1>3. ASSUME NEW p \in 0 .. npages - 1 PROVE MapsTo(KERNBASE + p, p)
  <2>1. PICK v \in Nat : v = KERNBASE + p
    BY <1>1
  <2>2. v >= KERNBASE /\ v < IOMEMBASE /\ v < VTOP /\ 0 + v - KERNBASE = p
    BY <1>1, <2>1 DEF Fits
  <2>3. Regions[3] = [va |-> KERNBASE, n |-> Y, pa |-> 0, w |-> TRUE, u |-> FALSE]
    BY <1>2, RegionsHold DEF RegionsAre
  <2>4. v \in Vas(3)
    BY <1>1, <1>2, <2>2, <2>3 DEF Vas
  <2>5. PICK q \in 1 .. NCPU + 4 : q = 3
    BY <1>1
  <2>6. v \in DOMAIN kmap /\ kmap[v] = Entry(q, v)
    BY <2>2, <2>4, <2>5, EntryReady
  <2>7. Entry(q, v).pa = 0 + v - KERNBASE
    BY <2>3, <2>5 DEF Entry
  <2> QED BY <2>1, <2>2, <2>6, <2>7 DEF MapsTo
<1>4. ASSUME NEW v \in IOMEMBASE .. VTOP - 1 PROVE MapsTo(v, v)
  <2>1. Regions[4] = [va |-> IOMEMBASE, n |-> IOPAGES, pa |-> IOMEMBASE, w |-> TRUE, u |-> FALSE]
    BY RegionsHold DEF RegionsAre
  <2>2. v \in Vas(4) /\ IOMEMBASE + v - IOMEMBASE = v
    BY <1>1, <2>1 DEF Vas
  <2>3. PICK q \in 1 .. NCPU + 4 : q = 4
    BY <1>1
  <2>4. v \in DOMAIN kmap /\ kmap[v] = Entry(q, v)
    BY <2>2, <2>3, EntryReady
  <2>5. Entry(q, v).pa = IOMEMBASE + v - IOMEMBASE
    BY <2>1, <2>3 DEF Entry
  <2> QED BY <2>2, <2>4, <2>5 DEF MapsTo
<1> QED BY <1>3, <1>4

\* The stacks and the gaps between them.
LEMMA StacksMapped ==
  ASSUME BootInv, stage = "done", NEW c \in 0 .. NCPU - 1, NEW k \in 1 .. KSTKSIZE + KSTKGAP,
         NEW v, v = KSTACKTOP - c * (KSTKSIZE + KSTKGAP) - k
  PROVE  IF k <= KSTKSIZE THEN MapsTo(v, StackPage(c) + KSTKSIZE - k) ELSE v \notin DOMAIN kmap
<1>1. /\ StackFits(c) /\ NCPU \in Nat /\ KSTKSIZE \in Nat /\ KSTKGAP \in Nat /\ NPT \in Nat
      /\ KSTACKTOP \in Nat /\ KERNBASE \in Nat /\ KSTACKTOP = KERNBASE - NPT /\ NPT <= KSTACKTOP
  BY StacksFit, Numbers, LayoutHolds DEF Layout
<1>2. PICK t \in Nat : t = StackTop(c) /\ v = t - k
  BY <1>1 DEF StackTop, StackFits
<1>3. /\ t <= KSTACKTOP /\ t - (KSTKSIZE + KSTKGAP) >= KSTACKTOP - NPT
      /\ k \in Nat /\ 1 <= k /\ k <= KSTKSIZE + KSTKGAP
  BY <1>1, <1>2 DEF StackFits
<1>4. v \in Nat /\ v < t /\ KSTACKTOP - NPT <= v
  BY <1>1, <1>2, <1>3
<1>5. ASSUME k <= KSTKSIZE PROVE MapsTo(v, StackPage(c) + KSTKSIZE - k)
  <2>1. PICK q \in 1 .. NCPU + 4 : q = 5 + c
    BY <1>1
  <2>2. Regions[q] = [va |-> t - KSTKSIZE, n |-> KSTKSIZE, pa |-> StackPage(c),
                      w |-> TRUE, u |-> FALSE]
    BY <1>2, <2>1, RegionsHold DEF RegionsAre
  <2>3. v \in t - KSTKSIZE .. t - KSTKSIZE + KSTKSIZE - 1
    BY <1>1, <1>2, <1>3, <1>5
  <2>4. v \in Vas(q)
    <3>1. Regions[q].va = t - KSTKSIZE /\ Regions[q].n = KSTKSIZE
      BY <2>2
    <3> QED BY <2>3, <3>1 DEF Vas
  <2>5. v \in DOMAIN kmap /\ kmap[v] = Entry(q, v)
    BY <1>1, <2>1, <2>4, EntryReady
  <2>6. Entry(q, v).pa = StackPage(c) + v - (t - KSTKSIZE)
    BY <2>2 DEF Entry
  <2>7. StackPage(c) + v - (t - KSTKSIZE) = StackPage(c) + KSTKSIZE - k
    BY <1>1, <1>2, <1>3 DEF StackFits
  <2> QED BY <2>5, <2>6, <2>7 DEF MapsTo
<1>6. ASSUME k > KSTKSIZE PROVE v \notin DOMAIN kmap
  <2> SUFFICES ASSUME v \in DOMAIN kmap PROVE FALSE
    OBVIOUS
  <2>1. PICK q \in 1 .. NCPU + 4 : v \in Vas(q)
    BY RegionReady
  <2>2. Place(q, v)
    BY <2>1, Placed
  <2>3. /\ KSTACKTOP - NPT <= v /\ v < KSTACKTOP /\ UPAGES = KERNBASE - 4 * NPT /\ NPT > 0
    BY <1>1, <1>3, <1>4, Numbers, LayoutHolds DEF Layout
  <2>4. q \notin {1, 2}
    BY <1>1, <1>4, <2>2, <2>3 DEF Place
  <2>5. q \notin {3, 4}
    BY <1>1, <1>4, <2>2, <2>3 DEF Place
  <2>6. q >= 5
    BY <1>1, <2>4, <2>5
  <2>7. PICK d \in 0 .. NCPU - 1 : d = q - 5
    BY <1>1, <2>6
  <2>8. StackTop(d) - KSTKSIZE <= v /\ v < StackTop(d)
    BY <2>2, <2>6, <2>7 DEF Place
  <2>9. StackTop(d) \in Nat
    BY StacksFit DEF StackFits
  <2>10. CASE d = c
    BY <1>1, <1>2, <1>3, <1>4, <1>6, <2>8, <2>10
  <2>11. CASE d < c
    <3>1. t <= StackTop(d) - (KSTKSIZE + KSTKGAP)
      BY <1>2, <2>11, StackGaps
    <3> QED BY <1>1, <1>4, <2>8, <2>9, <3>1
  <2>12. CASE c < d
    <3>1. StackTop(d) <= t - (KSTKSIZE + KSTKGAP)
      BY <1>2, <2>12, StackGaps
    <3> QED BY <1>1, <1>2, <1>3, <1>4, <2>8, <2>9, <3>1
  <2> QED BY <1>1, <2>10, <2>11, <2>12
<1> QED BY <1>1, <1>3, <1>5, <1>6

\* The directory of an environment, and the two arrays that it may read.
LEMMA UserSees ==
  ASSUME BootInv, stage = "done", NEW v \in DOMAIN kmap
  PROVE  /\ PDX(v) \in EnvTables
         /\ kmap[v].u <=> PDX(v) \in {PDX(UPAGES), PDX(UENVS)}
         /\ ~(kmap[v].u /\ kmap[v].w)
<1>1. PICK q \in 1 .. NCPU + 4 : v \in Vas(q) /\ kmap[v] = Entry(q, v)
  BY RegionReady
<1>2. Covered(q, v) /\ NCPU \in Nat
  BY <1>1, RegionCovered, Numbers
<1>3. kmap[v].u = Regions[q].u /\ kmap[v].w = Regions[q].w
  BY <1>1 DEF Entry
<1>4. (q \in {1, 2} /\ Regions[q].u = TRUE /\ Regions[q].w = FALSE)
      \/ (q \notin {1, 2} /\ Regions[q].u = FALSE /\ Regions[q].w = TRUE)
  <2>1. CASE q \in {1, 2}
    BY <2>1, RegionsHold DEF RegionsAre
  <2>2. CASE q \in {3, 4}
    BY <2>2, RegionsHold DEF RegionsAre
  <2>3. CASE q >= 5
    <3>1. PICK c \in 0 .. NCPU - 1 : q = 5 + c
      <4>1. q - 5 \in 0 .. NCPU - 1 /\ q = 5 + (q - 5)
        BY <1>2, <2>3
      <4> QED BY <4>1
    <3>2. Regions[q] = [va |-> StackTop(c) - KSTKSIZE, n |-> KSTKSIZE, pa |-> StackPage(c),
                        w |-> TRUE, u |-> FALSE]
      BY <3>1, RegionsHold DEF RegionsAre
    <3> QED BY <1>2, <2>3, <3>2
  <2>4. q \in {1, 2, 3, 4} \/ q >= 5
    BY <1>2
  <2> QED BY <2>1, <2>2, <2>3, <2>4
<1> QED BY <1>2, <1>3, <1>4 DEF Covered

\* Every struct Page.
LEMMA ArrayMapped ==
  ASSUME BootInv, stage = "done", NEW p \in 0 .. npages - 1, NEW x, x = (p * STRUCTBYTES) \div PAGEBYTES
  PROVE  MapsTo(UPAGES + x, PagesArray + x)
<1>1. Fits /\ NCPU \in Nat /\ NPT \in Nat /\ UPAGES \in Nat
  BY SizesFit, Numbers, LayoutHolds DEF BootInv, Layout
<1>2. x \in 0 .. NPT - 1 /\ PagesArray \in Nat
  BY <1>1 DEF Fits
<1>3. PICK v \in Nat : v = UPAGES + x
  BY <1>1, <1>2
<1>4. PICK q \in 1 .. NCPU + 4 : q = 1
  BY <1>1
<1>5. Regions[q] = [va |-> UPAGES, n |-> NPT, pa |-> PagesArray, w |-> FALSE, u |-> TRUE]
  BY <1>4, RegionsHold DEF RegionsAre
<1>6. v \in Vas(q)
  <2>1. Regions[q].va = UPAGES /\ Regions[q].n = NPT
    BY <1>5
  <2> QED BY <1>1, <1>2, <1>3, <2>1 DEF Vas
<1>7. v \in DOMAIN kmap /\ kmap[v] = Entry(q, v)
  BY <1>4, <1>6, EntryReady
<1>8. Entry(q, v).pa = PagesArray + v - UPAGES
  BY <1>5 DEF Entry
<1>9. PagesArray + v - UPAGES = PagesArray + x
  BY <1>1, <1>2, <1>3
<1> QED BY <1>3, <1>7, <1>8, <1>9 DEF MapsTo

\* All parts together.
LEMMA Ready ==
  ASSUME BootInv
  PROVE  MemoryReady
<1> SUFFICES ASSUME stage = "done" PROVE MemoryReady
  BY DEF MemoryReady
<1>1. {freelist[i] : i \in DOMAIN freelist} = (0 .. npages - 1) \ Occupied
  BY FreeListReady DEF Members
<1>2. \A i, j \in DOMAIN freelist : freelist[i] = freelist[j] => i = j
  BY DEF BootInv, ListInv, Once
<1>3. \A p \in 0 .. npages - 1 : MapsTo(KERNBASE + p, p)
  BY MemoryMapped
<1>4. \A v \in IOMEMBASE .. VTOP - 1 : MapsTo(v, v)
  BY MemoryMapped
<1>5. \A c \in 0 .. NCPU - 1, k \in 1 .. KSTKSIZE + KSTKGAP :
        LET v == KSTACKTOP - c * (KSTKSIZE + KSTKGAP) - k
        IN IF k <= KSTKSIZE THEN MapsTo(v, StackPage(c) + KSTKSIZE - k) ELSE v \notin DOMAIN kmap
  BY StacksMapped
<1>6. \A v \in DOMAIN kmap : /\ PDX(v) \in EnvTables
                             /\ kmap[v].u <=> PDX(v) \in {PDX(UPAGES), PDX(UENVS)}
                             /\ ~(kmap[v].u /\ kmap[v].w)
  BY UserSees
<1>7. \A p \in 0 .. npages - 1 :
        MapsTo(UPAGES + (p * STRUCTBYTES) \div PAGEBYTES, PagesArray + (p * STRUCTBYTES) \div PAGEBYTES)
  BY ArrayMapped
<1> QED BY <1>1, <1>2, <1>3, <1>4, <1>5, <1>6, <1>7 DEF MemoryReady

\* The invariant is inductive.
LEMMA BootInvariant == BootSpec => []BootInv
<1>1. BootInit => BootInv
  BY InitHolds
<1>2. BootInv /\ [BootNext]_bootvars => BootInv'
  <2> SUFFICES ASSUME BootInv, [BootNext]_bootvars PROVE BootInv'
    OBVIOUS
  <2>1. CASE BootAlloc
    BY <2>1, AllocStep
  <2>2. CASE PageInit
    BY <2>2, InitStep
  <2>3. CASE CheckPageFreeList
    BY <2>3, ReorderStep
  <2>4. CASE CheckPage
    BY <2>4, CheckStep
  <2>5. CASE BootMapRegion
    BY <2>5, MapStep
  <2>6. CASE LoadCr3
    BY <2>6, Cr3Step
  <2>7. CASE CheckInstalled
    BY <2>7, InstalledStep
  <2>8. CASE UNCHANGED bootvars
    <3> USE <2>8 DEF bootvars
    <3>1. MapInv'
      BY MapKept DEF BootInv
    <3>2. EnvsArray' = EnvsArray /\ Unused' = Unused /\ TablePages' = TablePages /\ Reserve' = Reserve
      BY RegionsKept DEF Unused, InUse, TablePages, Reserve
    <3>3. SizeInv' /\ BootTypeOK' /\ NoBootFault'
      BY <3>2 DEF BootInv, SizeInv, BootTypeOK, NoBootFault
    <3>4. ListInv' /\ LowInv' /\ DirInv'
      BY <3>2 DEF BootInv, ListInv, LowInv, DirInv, Members, Once
    <3> QED BY <3>1, <3>3, <3>4 DEF BootInv
  <2> QED BY <2>1, <2>2, <2>3, <2>4, <2>5, <2>6, <2>7, <2>8 DEF BootNext
<1> QED BY <1>1, <1>2, PTL DEF BootSpec

\* The variables of mem_init keep their types.
THEOREM BootTypes == BootSpec => []BootTypeOK
<1>1. BootInv => BootTypeOK
  BY DEF BootInv
<1> QED BY <1>1, BootInvariant, PTL

\* mem_init touches nothing that entry_pgdir does not map, and boot_map_region finds
\* a page for every table (kern/pmap.c:172, 755).
THEOREM BootFaultFree == BootSpec => []NoBootFault
<1>1. BootInv => NoBootFault
  BY DEF BootInv
<1> QED BY <1>1, BootInvariant, PTL

\* When mem_init is done the list of free pages is complete, and the kernel and
\* every environment have their map (kern/pmap.c:304, 228, 287).
THEOREM MemoryAlwaysReady == BootSpec => []MemoryReady
<1>1. BootInv => MemoryReady
  BY Ready
<1> QED BY <1>1, BootInvariant, PTL
=============================================================================
