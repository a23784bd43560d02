----------------------------- MODULE ForkMemory -----------------------------
(***************************************************************************)
(* What fork promises to programs: every environment has a memory of its   *)
(* own; the memory of a child is the parent's as of one instant, and from  *)
(* then on a store is seen by the environment that made it and by nobody   *)
(* else.                                                                   *)
(***************************************************************************)
CONSTANTS Env, Root, Addr, Value, Zero, None

VARIABLE memory    \* what each environment reads at each address

Init == memory = [e \in Env |-> IF e = Root THEN [a \in Addr |-> Zero] ELSE None]

Store(e, a, v) == /\ memory[e] # None
                  /\ memory' = [memory EXCEPT ![e][a] = v]

Fork(e, f) == /\ memory[e] # None /\ memory[f] = None
              /\ memory' = [memory EXCEPT ![f] = memory[e]]

End(e) == memory' = [memory EXCEPT ![e] = None]

Next == \E e \in Env : \/ \E a \in Addr, v \in Value : Store(e, a, v)
                       \/ \E f \in Env : Fork(e, f)
                       \/ End(e)

Spec == Init /\ [][Next]_memory
=============================================================================
