------------------------------ MODULE UserMem ------------------------------
(***************************************************************************)
(* user_mem_check in kern/pmap.c: may an environment access len bytes at   *)
(* va?  Addresses are counted in bytes and wrap at the top.                *)
(***************************************************************************)
EXTENDS Integers

CONSTANTS PGSIZE,   \* bytes of a page
          USERPAGES, PAGES   \* pages below ULIM, pages of the address space

ULIM == USERPAGES * PGSIZE
TOP == PAGES * PGSIZE

ASSUME SizesAssumption == PGSIZE \in Nat \ {0} /\ USERPAGES \in Nat /\ PAGES \in Nat
                          /\ USERPAGES < PAGES

VARIABLE args   \* of a call: va, len, perm asks for PTE_W, and the page table

Rights == {"none", "read", "write", "kernel"}
\* The kernel's part of every address space is not for users.
Tables == {t \in [0 .. PAGES - 1 -> Rights] : \A p \in 0 .. PAGES - 1 : p >= USERPAGES <=> t[p] = "kernel"}
Args == [va : 0 .. TOP - 1, len : 0 .. TOP - 1, w : BOOLEAN, pt : Tables]

PGNUM(a) == a \div PGSIZE

\* pgdir_walk finds an entry, and it has all bits of perm.
Allowed(a, page) == a.pt[page] = "write" \/ (a.pt[page] = "read" /\ ~a.w)

\* Mutant: the loop ends one page early.
Probed_OneLess(a) == {i \in a.va .. ((a.va + a.len) % TOP) - PGSIZE - 1 : (i - a.va) % PGSIZE = 0}

\* The addresses that the loop looks at: from va in steps of PGSIZE, while they
\* are below va + len, which wraps.
Probed(a) == {i \in a.va .. ((a.va + a.len) % TOP) - 1 : (i - a.va) % PGSIZE = 0}

\* 0, and not -E_FAULT.
UserMemCheck(a) == a.va <= ULIM /\ \A i \in Probed(a) : Allowed(a, PGNUM(i))

Accessible(a) == /\ a.va + a.len <= ULIM
                 /\ \A i \in a.va .. a.va + a.len - 1 : Allowed(a, PGNUM(i))

-----------------------------------------------------------------------------
\* "(1) the address is below ULIM, and (2) the page table gives it permission.
\* These are exactly the tests you should implement here" (pmap.c:682): no access
\* that is right is refused, and none that is wrong is let through when the range
\* starts a page or is within one, as in page_fault_handler, and does not wrap.
CheckExact ==
  LET a == args
      onepage == a.len > 0 => PGNUM(a.va) = PGNUM(a.va + a.len - 1)
      whole == a.va % PGSIZE = 0
  IN /\ Accessible(a) => UserMemCheck(a)
     /\ UserMemCheck(a) /\ (onepage \/ whole) /\ a.va + a.len < TOP => Accessible(a)

\* "You must test every page that contains any of that range" (pmap.c:678).
CheckCovers == UserMemCheck(args) /\ args.len > 0 /\ args.va + args.len <= ULIM => Accessible(args)
=============================================================================
