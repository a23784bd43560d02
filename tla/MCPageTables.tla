---------------------------- MODULE MCPageTables ----------------------------
\* Small instances of the page tables for TLC: two addresses share a table,
\* the third needs another one.  Environments, CPUs and pages other than page 0
\* are interchangeable.
EXTENDS PageTables, TLC

MCVa == {<<0, 0>>, <<0, 1>>, <<1, 0>>}
Symmetry == Permutations(Env) \cup Permutations(Cpu) \cup Permutations(Page \ {Page0})
=============================================================================
