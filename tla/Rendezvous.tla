----------------------------- MODULE Rendezvous -----------------------------
(***************************************************************************)
(* What ipc_send and ipc_recv promise to programs: a message passes from   *)
(* one sender to one waiting receiver in one step, and the receiver gets   *)
(* all of it: who sent it, the value and the page.                         *)
(***************************************************************************)
CONSTANTS Env, Value, Page, None

VARIABLES offer,     \* the message that each environment is sending, and to whom
          waiting,   \* the environments that wait for a message
          inbox      \* the message that has come and is not yet taken

vars == <<offer, waiting, inbox>>
Offer == [to : Env, value : Value, page : Page \cup {None}]

Init == /\ offer = [e \in Env |-> None]
        /\ waiting = {}
        /\ inbox = [e \in Env |-> None]

\* ipc_send and ipc_recv are called; the message is taken out.
Send(e, o) == /\ offer[e] = None
              /\ offer' = [offer EXCEPT ![e] = o] /\ UNCHANGED <<waiting, inbox>>
Wait(e) == /\ e \notin waiting /\ inbox[e] = None
           /\ waiting' = waiting \cup {e} /\ UNCHANGED <<offer, inbox>>
Take(e) == inbox' = [inbox EXCEPT ![e] = None] /\ UNCHANGED <<offer, waiting>>

Exchange(e, f) ==
  /\ offer[e] # None /\ offer[e].to = f /\ f \in waiting
  /\ offer' = [offer EXCEPT ![e] = None]
  /\ waiting' = waiting \ {f}
  /\ inbox' = [inbox EXCEPT ![f] = [from |-> e, value |-> offer[e].value, page |-> offer[e].page]]

\* A sender gives up, and anybody may be killed.
GiveUp(e) == offer' = [offer EXCEPT ![e] = None] /\ UNCHANGED <<waiting, inbox>>
Die(e) == /\ offer' = [offer EXCEPT ![e] = None]
          /\ waiting' = waiting \ {e}
          /\ inbox' = [inbox EXCEPT ![e] = None]

Next == \E e \in Env : \/ \E o \in Offer : Send(e, o)
                       \/ Wait(e) \/ Take(e) \/ GiveUp(e) \/ Die(e)
                       \/ \E f \in Env : Exchange(e, f)

Spec == Init /\ [][Next]_vars
=============================================================================
