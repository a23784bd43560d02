----------------------------- MODULE MCCowFork -----------------------------
\* Small instances of copy-on-write fork for TLC.  The environments other than
\* the first are interchangeable, and so are they for the abstract memory.
EXTENDS CowFork, TLC

Symmetry == Permutations(Env \ {Root})

\* Two states are the same if they differ in the names of the pages or in what
\* is in the free ones, which page_alloc zeroes: every page in use is seen as
\* what it holds and where it is mapped.
View == <<[e \in Env |-> [va \in Va |->
            IF pte[e][va] = None THEN None
            ELSE LET p == pte[e][va].page
                     same(f) == {vb \in Va : pte[f][vb] # None /\ pte[f][vb].page = p}
                 IN <<mem[p], pte[e][va].w, pte[e][va].cow, [f \in Env |-> same(f)]>>]],
          upcall, pc, child, pn, fault>>
=============================================================================
