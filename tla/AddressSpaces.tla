--------------------------- MODULE AddressSpaces ---------------------------
(***************************************************************************)
(* What the paging system calls promise to programs: every environment has *)
(* a map from addresses to pages, which changes one address at a time; a   *)
(* new page is one that nobody maps, and is zero; a page is shared only by *)
(* mapping it, never with more rights than the map it comes from; a store  *)
(* goes to the page that the map names.                                    *)
(***************************************************************************)
CONSTANTS Env, Va, Page, None

VARIABLES space,    \* what each environment maps at each address, or None
          dirty     \* the mapped pages somebody stored to

MappedIn(s) == {p \in Page : \E e \in Env, va \in Va : s[e][va] # None /\ s[e][va].ppn = p}

Init == space = [e \in Env |-> [va \in Va |-> None]] /\ dirty = {}

\* Address va of e changes, to nothing, to a page that nobody maps, or to one
\* that somebody maps with the same rights; it is zero in the second case, and
\* pages that nobody maps any more are forgotten.
Change(e, va) ==
  LET new == space'[e][va]
  IN /\ \A f \in Env, vb \in Va : <<f, vb>> # <<e, va>> => space'[f][vb] = space[f][vb]
     /\ \/ new = None
        \/ new.ppn \in Page \ MappedIn(space)
        \/ \E f \in Env, vb \in Va :
             space[f][vb] # None /\ new.ppn = space[f][vb].ppn /\ (new.w => space[f][vb].w)
     /\ dirty' = dirty \cap MappedIn(space')

\* A program stores to the page it maps at va.
Store(e, va) == /\ space[e][va] # None /\ space[e][va].w
                /\ dirty' = dirty \cup {space[e][va].ppn}
                /\ UNCHANGED space

Next == \E e \in Env, va \in Va : Change(e, va) \/ Store(e, va)

Spec == Init /\ [][Next]_<<space, dirty>>
=============================================================================
