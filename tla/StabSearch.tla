----------------------------- MODULE StabSearch -----------------------------
(***************************************************************************)
(* stab_binsearch in kern/kdebug.c: a binary search among entries of which *)
(* only those of one type count.  They are in the order of their addresses *)
(* and the others are anywhere between them.                               *)
(***************************************************************************)
EXTENDS Integers

CONSTANTS NSTABS, MAXADDR

ASSUME StabAssumption == NSTABS \in Nat \ {0} /\ MAXADDR \in Nat

VARIABLES stabs,         \* n_value of an entry, or OtherType
          wanted,        \* the address that the caller looks for
          addr, l, r,    \* of the function; m is Match
          left, right,   \* *region_left, *region_right
          any_matches,
          searching

stabvars == <<stabs, wanted, addr, l, r, left, right, any_matches, searching>>

OtherType == -1
Ordered(s) == \A i, j \in DOMAIN s : i < j /\ s[i] # OtherType /\ s[j] # OtherType => s[i] < s[j]

StabTypeOK == /\ stabs \in [0 .. NSTABS - 1 -> 1 .. MAXADDR \cup {OtherType}]
              /\ wanted \in 0 .. MAXADDR /\ addr \in wanted .. MAXADDR + 1
              /\ l \in 0 .. NSTABS /\ r \in -1 .. NSTABS - 1
              /\ left \in -1 .. NSTABS - 1 /\ right \in -1 .. NSTABS - 1
              /\ any_matches \in BOOLEAN /\ searching \in BOOLEAN

StabInit == /\ stabs \in {s \in [0 .. NSTABS - 1 -> 1 .. MAXADDR \cup {OtherType}] : Ordered(s)}
            /\ wanted \in 0 .. MAXADDR /\ addr = wanted
            /\ l = 0 /\ r = NSTABS - 1 /\ left = 0 /\ right = NSTABS - 1
            /\ any_matches = FALSE /\ searching = TRUE

true_m == (l + r) \div 2

\* The entries in [l, true_m] of the type, and the last of them.
Candidates == {m \in l .. true_m : stabs[m] # OtherType}
IsMatch(m) == searching /\ l <= r /\ m \in Candidates /\ \A k \in Candidates : k <= m

NoMatch == /\ searching /\ l <= r /\ Candidates = {}
           /\ l' = true_m + 1
           /\ UNCHANGED <<stabs, wanted, addr, r, left, right, any_matches, searching>>

Below(m) == /\ IsMatch(m) /\ stabs[m] < addr
            /\ left' = m /\ l' = true_m + 1 /\ any_matches' = TRUE
            /\ UNCHANGED <<stabs, wanted, addr, r, right, searching>>

\* Mutant: the region goes as far as the next entry.
Above_Inclusive(m) == /\ IsMatch(m) /\ stabs[m] > addr
                      /\ right' = m /\ r' = m - 1 /\ any_matches' = TRUE
                      /\ UNCHANGED <<stabs, wanted, addr, l, left, searching>>

Above(m) == /\ IsMatch(m) /\ stabs[m] > addr
            /\ right' = m - 1 /\ r' = m - 1 /\ any_matches' = TRUE
            /\ UNCHANGED <<stabs, wanted, addr, l, left, searching>>

\* "exact match for 'addr', but continue loop": with the next address.
Exact(m) == /\ IsMatch(m) /\ stabs[m] = addr
            /\ left' = m /\ l' = m /\ addr' = addr + 1 /\ any_matches' = TRUE
            /\ UNCHANGED <<stabs, wanted, r, right, searching>>

\* The last entry of the type in the region, or its first entry.  Without any
\* match the region is made empty.
Finish ==
  /\ searching /\ l > r
  /\ searching' = FALSE
  /\ IF any_matches
     THEN /\ left' = CHOOSE m \in -1 .. NSTABS - 1 :
                       /\ m <= right
                       /\ m <= left \/ stabs[m] # OtherType
                       /\ \A k \in m + 1 .. right : k > left /\ stabs[k] = OtherType
          /\ UNCHANGED right
     ELSE right' = left - 1 /\ UNCHANGED left
  /\ UNCHANGED <<stabs, wanted, addr, l, r, any_matches>>

StabNext == \/ NoMatch \/ Finish
            \/ \E m \in 0 .. NSTABS - 1 : Below(m) \/ Above(m) \/ Exact(m)

StabSpec == StabInit /\ [][StabNext]_stabvars

-----------------------------------------------------------------------------
OfType == {m \in DOMAIN stabs : stabs[m] # OtherType}
Begun == {m \in OfType : stabs[m] <= wanted}

\* left is the entry that contains the address, and right is just before the next.
Brackets == /\ left \in Begun /\ \A m \in Begun : m <= left
            /\ right \in left .. NSTABS - 1
            /\ \A m \in OfType : m > left => m > right
            /\ right + 1 \in DOMAIN stabs => right + 1 \in OfType

\* "*region_left points to the matching stab that contains 'addr', and
\* *region_right points just before the next stab" (kdebug.c:40), if the address
\* is not the first of its entry with another entry at the very next address; and
\* without any entry of the type the region is empty.
SearchExact ==
  ~searching => /\ OfType = {} => left > right
                /\ Begun # {} /\ ~(\E i, j \in OfType : stabs[i] = wanted /\ stabs[j] = wanted + 1)
                     => Brackets

\* The same for every address, and "If *region_left > *region_right, then 'addr' is
\* not contained in any matching stab" (kdebug.c:41) taken as an equivalence, which
\* the callers rely on.
SearchTotal == ~searching => IF Begun = {} THEN left > right ELSE Brackets
=============================================================================
