------------------------------- MODULE Loader -------------------------------
(***************************************************************************)
(* load_icode and region_alloc in kern/env.c: the segments of a program    *)
(* are put into a new address space, one after the other.  Memory is       *)
(* counted in bytes; a byte of a segment is <<segment, offset>>.           *)
(***************************************************************************)
EXTENDS Integers, Sequences

CONSTANTS LPGSIZE,   \* bytes of a page
          LPAGES,    \* pages below UTOP
          NSEG       \* segments at most

Byte0 == <<0, 0>>    \* zero
Junk == <<0, 1>>     \* what a page held before
NoByte == <<0, 2>>   \* not mapped

LVa == 0 .. LPGSIZE * LPAGES - 1
LPage(a) == a \div LPGSIZE

ASSUME LoaderAssumption == LPGSIZE \in Nat \ {0} /\ LPAGES \in Nat /\ NSEG \in Nat

VARIABLES ph,      \* the program headers of type ELF_PROG_LOAD
          n,       \* the next one
          image    \* the memory of the new environment

Last(s) == s.va + s.memsz - 1

\* The last page is the stack's.
Segment == {s \in [va : LVa, memsz : 1 .. LPGSIZE * LPAGES, filesz : 0 .. LPGSIZE * LPAGES] :
              s.filesz <= s.memsz /\ LPage(Last(s)) < LPAGES - 1}

\* ELF files have their segments in the order of their addresses, and "you can
\* assume that no two segments will touch the same virtual page" (env.c:384).
Programs == {segs \in UNION {[1 .. k -> Segment] : k \in 1 .. NSEG} :
               \A i, j \in DOMAIN segs : i < j => LPage(Last(segs[i])) < LPage(segs[j].va)}

LoaderInit == /\ ph \in Programs
              /\ n = 1
              /\ image = [a \in LVa |-> NoByte]

\* Mutant: va + len is rounded down.
RegionEnd_Down(s) == (s.va + s.memsz) - ((s.va + s.memsz) % LPGSIZE) - 1

\* The last byte that region_alloc maps: (va + len) | 0xFFF, so that a segment
\* that ends with a page gets one page more.
RegionEnd(s) == LPage(s.va + s.memsz) * LPGSIZE + LPGSIZE - 1

\* region_alloc maps pages as they come, also where one is mapped already; then
\* the bytes of the file, and zero for the rest.  A store where nothing is mapped
\* goes nowhere.
LoadSegment ==
  /\ n <= Len(ph)
  /\ LET s == ph[n]
         region == LPage(s.va) * LPGSIZE .. RegionEnd(s)
     IN image' = [a \in LVa |->
                    IF a \notin region /\ image[a] = NoByte THEN NoByte
                    ELSE IF a >= s.va /\ a < s.va + s.filesz THEN <<n, a - s.va>>
                    ELSE IF a >= s.va /\ a <= Last(s) THEN Byte0
                    ELSE IF a \in region THEN Junk
                    ELSE image[a]]
  /\ n' = n + 1
  /\ UNCHANGED ph

\* The stack page.
LoadStack ==
  /\ n = Len(ph) + 1
  /\ image' = [a \in LVa |-> IF LPage(a) = LPAGES - 1 THEN Junk ELSE image[a]]
  /\ n' = n + 1
  /\ UNCHANGED ph

LoaderNext == LoadSegment \/ LoadStack

LoaderSpec == LoaderInit /\ [][LoaderNext]_<<ph, n, image>>

-----------------------------------------------------------------------------
\* "The ph->p_filesz bytes from the ELF binary ... should be copied to virtual
\* address ph->p_va. Any remaining memory bytes should be cleared to zero" (env.c:
\* 377): when all are loaded none has undone another, in spite of the extra pages.
LoadExact ==
  n > Len(ph) + 1 =>
    \A i \in DOMAIN ph : \A a \in ph[i].va .. Last(ph[i]) :
      image[a] = IF a < ph[i].va + ph[i].filesz THEN <<i, a - ph[i].va>> ELSE Byte0
=============================================================================
