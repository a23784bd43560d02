------------------------------ MODULE IpcProofs ------------------------------
(***************************************************************************)
(* The safety of message passing, for any number of environments, values   *)
(* and pages, and its refinement of Rendezvous.                            *)
(***************************************************************************)
EXTENDS Ipc, TLAPS

\* An environment has arguments of ipc_send exactly while it is in it, and a
\* page goes only to a receiver that wants one.
CallsOK == \A e \in Env : /\ at[e] = "sending" <=> call[e] # None
                          /\ ~Careless /\ at[e] = "sending" /\ call[e].page # None
                               => call[e].to \in WantsPage

IpcInv == /\ TypeOK
          /\ CallsOK
          /\ WaitsIffRecving
          /\ ~Careless => NoPanic

LEMMA InitIpc == Init => IpcInv
<1>. SUFFICES ASSUME Init PROVE IpcInv
  OBVIOUS
<1>1. TypeOK
  BY DEF Init, TypeOK, Place, Got, Nothing
<1>2. CallsOK /\ WaitsIffRecving /\ NoPanic
  BY DEF Init, CallsOK, WaitsIffRecving, NoPanic
<1>. QED
  BY <1>1, <1>2 DEF IpcInv

LEMMA SendStep ==
  ASSUME IpcInv, NEW e \in Env, NEW f \in Env, NEW v \in Value, NEW p \in Page \cup {None},
         IpcSend(e, f, v, p)
  PROVE  IpcInv'
<1>. DEFINE c == [to |-> f, value |-> v, page |-> p]
<1>. c \in Call
  BY DEF Call
<1>1. TypeOK'
  BY DEF IpcInv, TypeOK, IpcSend, Goto, Place
<1>2. CallsOK'
  BY NoneAssumption DEF IpcInv, TypeOK, CallsOK, IpcSend, Goto
<1>3. WaitsIffRecving' /\ (~Careless => NoPanic')
  BY DEF IpcInv, TypeOK, WaitsIffRecving, NoPanic, IpcSend, Goto
<1>. QED
  BY <1>1, <1>2, <1>3 DEF IpcInv

LEMMA DeliverStep ==
  ASSUME IpcInv, NEW e \in Env, Deliver(e)
  PROVE  IpcInv'
<1>. DEFINE f == call[e].to
            p == call[e].page
<1>1. call[e] \in Call /\ f \in Env /\ p \in Page \cup {None} /\ call[e].value \in Value
  BY DEF IpcInv, TypeOK, CallsOK, Deliver, Call
<1>2. CASE p # None /\ f \notin WantsPage
  <2>1. Careless
    BY <1>2 DEF IpcInv, CallsOK, Deliver
  <2>2. TypeOK' /\ CallsOK' /\ WaitsIffRecving'
    BY <1>2 DEF Deliver, IpcInv, TypeOK, CallsOK, WaitsIffRecving
  <2>. QED
    BY <2>1, <2>2, CarelessAssumption DEF IpcInv
<1>3. CASE ~(p # None /\ f \notin WantsPage)
  <2>. USE DEF Perm, Sent, StillRecving, Wakes
  <2>1. f # e
    BY <1>1 DEF IpcInv, TypeOK, Deliver, WaitsIffRecving
  <2>2. TypeOK'
    <3>1. at' \in [Env -> Place] /\ call' \in [Env -> Call \cup {None}]
      BY <1>1, <1>3 DEF IpcInv, TypeOK, Deliver, Place
    <3>2. recving' \in [Env -> BOOLEAN] /\ perm' \in [Env -> BOOLEAN]
      BY <1>1, <1>3 DEF IpcInv, TypeOK, Deliver
    <3>3. from' \in [Env -> Env \cup {None}] /\ value' \in [Env -> Value \cup {None}]
      BY <1>1, <1>3 DEF IpcInv, TypeOK, Deliver
    <3>4. page' \in [Env -> Page \cup {None}]
      BY <1>1, <1>3 DEF IpcInv, TypeOK, Deliver
    <3>. QED
      BY <1>3, <3>1, <3>2, <3>3, <3>4 DEF IpcInv, TypeOK, Deliver
  <2>3. CallsOK'
    BY <1>1, <1>3, <2>1 DEF IpcInv, TypeOK, CallsOK, Deliver, WaitsIffRecving
  <2>4. WaitsIffRecving' /\ (~Careless => NoPanic')
    BY <1>1, <1>3, <2>1 DEF IpcInv, TypeOK, WaitsIffRecving, NoPanic, Deliver
  <2>. QED
    BY <2>2, <2>3, <2>4 DEF IpcInv
<1>. QED
  BY <1>2, <1>3

\* The steps that concern one environment only.
LEMMA OwnStep ==
  ASSUME IpcInv, NEW e \in Env,
         \/ BadEnv(e) \/ NotRecv(e) \/ NoMem(e) \/ IpcRecv(e) \/ Die(e)
         \/ ReadFrom(e) \/ ReadPerm(e) \/ ReadValue(e) \/ Return(e)
         \/ \E p \in Page \cup {None} : Remap(e, p)
  PROVE  IpcInv'
<1>. USE DEF IpcInv, TypeOK, CallsOK, WaitsIffRecving, NoPanic, Goto, Place
<1>1. CASE BadEnv(e)
  BY <1>1 DEF BadEnv, Fail
<1>2. CASE NotRecv(e)
  BY <1>2 DEF NotRecv, vars
<1>3. CASE NoMem(e)
  BY <1>3 DEF NoMem, Fail
<1>4. CASE IpcRecv(e)
  BY <1>4 DEF IpcRecv
<1>5. CASE Die(e)
  BY <1>5 DEF Die, Got, Nothing
<1>6. CASE ReadFrom(e)
  BY <1>6 DEF ReadFrom, Got
<1>7. CASE ReadPerm(e)
  BY <1>7 DEF ReadPerm, Got
<1>8. CASE ReadValue(e)
  BY <1>8 DEF ReadValue, Got
<1>9. CASE Return(e)
  BY <1>9 DEF Return, Got, Nothing
<1>10. CASE \E p \in Page \cup {None} : Remap(e, p)
  BY <1>10 DEF Remap
<1>. QED
  BY <1>1, <1>2, <1>3, <1>4, <1>5, <1>6, <1>7, <1>8, <1>9, <1>10

\* The state of the environments and of the kernel's records agree.
THEOREM IpcInvariant == Spec => []IpcInv
<1>1. IpcInv /\ [Next]_vars => IpcInv'
  <2>. SUFFICES ASSUME IpcInv, [Next]_vars PROVE IpcInv'
    OBVIOUS
  <2>1. CASE Next
    BY <2>1, SendStep, DeliverStep, OwnStep DEF Next, Library, TrySend
  <2>2. CASE UNCHANGED vars
    BY <2>2 DEF vars, IpcInv, TypeOK, CallsOK, WaitsIffRecving, NoPanic
  <2>. QED
    BY <2>1, <2>2
<1>. QED
  BY <1>1, InitIpc, PTL DEF Spec

\* Type correctness of message passing (sys_ipc_try_send, sys_ipc_recv, lib/ipc.c).
THEOREM IpcTypes == Spec => []TypeOK
<1>1. IpcInv => TypeOK
  BY DEF IpcInv
<1>. QED
  BY <1>1, IpcInvariant, PTL

\* An environment sleeps in sys_ipc_recv exactly while env_ipc_recving is set, so
\* that no second message overwrites the one that it reads.
THEOREM SleepsWhileRecving == Spec => []WaitsIffRecving
<1>1. IpcInv => WaitsIffRecving
  BY DEF IpcInv
<1>. QED
  BY <1>1, IpcInvariant, PTL

-----------------------------------------------------------------------------
(* The refinement.                                                         *)

\* A step that changes no message on its way and nobody's place among the
\* senders and the receivers is not seen by Rendezvous.
LEMMA Unseen ==
  ASSUME IpcInv, NEW e \in Env,
         \/ NotRecv(e) \/ ReadFrom(e) \/ ReadPerm(e) \/ ReadValue(e)
         \/ \E p \in Page \cup {None} : Remap(e, p)
  PROVE  UNCHANGED <<offer, waiting, inbox>>
<1>1. CASE NotRecv(e)
  BY <1>1 DEF NotRecv, vars, offer, waiting, inbox, Arriving
<1>2. CASE ReadFrom(e) \/ ReadPerm(e) \/ ReadValue(e)
  <2>1. /\ at' \in [Env -> Place] /\ call' = call
        /\ \A d \in Env \ {e} : at'[d] = at[d]
        /\ at[e] \notin {"sending", "asleep"} /\ at'[e] \notin {"sending", "asleep"}
    BY <1>2 DEF IpcInv, TypeOK, Place, ReadFrom, ReadPerm, ReadValue, Goto
  <2>2. UNCHANGED offer
    BY <2>1 DEF offer
  <2>3. UNCHANGED waiting
    BY <2>1 DEF waiting
  <2>4. ASSUME NEW d \in Env \ {e} PROVE Arriving(d)' = Arriving(d)
    BY <1>2, <2>1 DEF IpcInv, TypeOK, Got, ReadFrom, ReadPerm, ReadValue, Arriving
  <2>5. Arriving(e)' = Arriving(e)
    BY <1>2 DEF IpcInv, TypeOK, Got, ReadFrom, ReadPerm, ReadValue, Arriving, Goto
  <2>6. /\ at[e] \in {"from", "perm", "value", "return"}
        /\ at'[e] \in {"from", "perm", "value", "return"}
    BY <1>2 DEF IpcInv, TypeOK, Place, ReadFrom, ReadPerm, ReadValue, Goto
  <2>7. UNCHANGED inbox
    BY <2>1, <2>4, <2>5, <2>6 DEF inbox
  <2>. QED
    BY <2>2, <2>3, <2>7
<1>3. CASE \E p \in Page \cup {None} : Remap(e, p)
  <2>1. /\ UNCHANGED <<at, call, from, value, perm, got>> /\ at[e] = "user"
        /\ \A d \in Env \ {e} : page'[d] = page[d]
    BY <1>3 DEF IpcInv, TypeOK, Remap
  <2>2. \A d \in Env : at[d] # "user" => Arriving(d)' = Arriving(d)
    BY <2>1 DEF Arriving
  <2>. QED
    BY <2>1, <2>2 DEF offer, waiting, inbox
<1>. QED
  BY <1>1, <1>2, <1>3

\* A message that has come stays what it is while only other environments'
\* records, places and pages change.
LEMMA OthersInbox ==
  ASSUME NEW e \in Env, NEW f \in Env,
         \A d \in Env \ {e, f} :
           /\ at'[d] = at[d] /\ from'[d] = from[d] /\ value'[d] = value[d]
           /\ perm'[d] = perm[d] /\ page'[d] = page[d] /\ got'[d] = got[d]
  PROVE  \A d \in Env \ {e, f} : inbox'[d] = inbox[d]
<1>. SUFFICES ASSUME NEW d \in Env \ {e, f} PROVE inbox'[d] = inbox[d]
  OBVIOUS
<1>1. Arriving(d)' = Arriving(d)
  BY DEF Arriving
<1>. QED
  BY <1>1 DEF inbox

\* An environment at none of the places of ipc_recv has no message.
LEMMA NoInbox ==
  ASSUME NEW e \in Env
  PROVE  at[e] \in {"user", "sending", "asleep", "failed", "dead"} => inbox[e] = None
BY DEF inbox

LEMMA SendImplements ==
  ASSUME IpcInv, NEW e \in Env, NEW f \in Env, NEW v \in Value, NEW p \in Page \cup {None},
         IpcSend(e, f, v, p)
  PROVE  Exchanges!Send(e, [to |-> f, value |-> v, page |-> p])
<1>1. offer[e] = None /\ inbox[e] = None /\ inbox'[e] = None
  BY DEF IpcSend, offer, inbox, Goto, IpcInv, TypeOK
<1>2. offer' = [offer EXCEPT ![e] = [to |-> f, value |-> v, page |-> p]]
  BY DEF IpcSend, offer, Goto, IpcInv, TypeOK
<1>3. waiting' = waiting
  BY DEF IpcSend, waiting, Goto, IpcInv, TypeOK
<1>4. \A d \in Env \ {e, e} : inbox'[d] = inbox[d]
  BY OthersInbox DEF IpcSend, Goto, IpcInv, TypeOK
<1>5. inbox' = inbox
  BY <1>1, <1>4 DEF inbox
<1>. QED
  BY <1>1, <1>2, <1>3, <1>5 DEF Exchanges!Send

LEMMA WaitImplements ==
  ASSUME IpcInv, NEW e \in Env, IpcRecv(e)
  PROVE  Exchanges!Wait(e)
<1>1. e \notin waiting /\ inbox[e] = None /\ inbox'[e] = None
  BY DEF IpcRecv, waiting, inbox, Goto, IpcInv, TypeOK
<1>2. offer' = offer
  BY DEF IpcRecv, offer, Goto, IpcInv, TypeOK
<1>3. waiting' = waiting \cup {e}
  BY DEF IpcRecv, waiting, Goto, IpcInv, TypeOK
<1>4. \A d \in Env \ {e, e} : inbox'[d] = inbox[d]
  BY OthersInbox DEF IpcRecv, Goto, IpcInv, TypeOK
<1>5. inbox' = inbox
  BY <1>1, <1>4 DEF inbox
<1>. QED
  BY <1>1, <1>2, <1>3, <1>5 DEF Exchanges!Wait

LEMMA TakeImplements ==
  ASSUME IpcInv, NEW e \in Env, Return(e)
  PROVE  Exchanges!Take(e)
<1>1. inbox'[e] = None
  BY DEF Return, inbox, Goto, IpcInv, TypeOK
<1>2. offer' = offer /\ waiting' = waiting
  BY DEF Return, offer, waiting, Goto, IpcInv, TypeOK
<1>3. \A d \in Env \ {e, e} : inbox'[d] = inbox[d]
  BY OthersInbox DEF Return, Goto, IpcInv, TypeOK
<1>4. inbox' = [inbox EXCEPT ![e] = None]
  BY <1>1, <1>3 DEF inbox
<1>. QED
  BY <1>2, <1>4 DEF Exchanges!Take

LEMMA FailImplements ==
  ASSUME IpcInv, NEW e \in Env, at[e] = "sending", Fail(e)
  PROVE  Exchanges!GiveUp(e)
<1>1. inbox[e] = None /\ inbox'[e] = None
  BY DEF Fail, inbox, Goto, IpcInv, TypeOK
<1>2. offer' = [offer EXCEPT ![e] = None] /\ waiting' = waiting
  BY DEF Fail, offer, waiting, Goto, IpcInv, TypeOK
<1>3. \A d \in Env \ {e, e} : inbox'[d] = inbox[d]
  BY OthersInbox DEF Fail, Goto, IpcInv, TypeOK
<1>4. inbox' = inbox
  BY <1>1, <1>3 DEF inbox
<1>. QED
  BY <1>2, <1>4 DEF Exchanges!GiveUp

LEMMA DieImplements ==
  ASSUME IpcInv, NEW e \in Env, Die(e)
  PROVE  Exchanges!Die(e)
<1>1. inbox'[e] = None
  BY DEF Die, inbox, Goto, IpcInv, TypeOK
<1>2. offer' = [offer EXCEPT ![e] = None] /\ waiting' = waiting \ {e}
  BY DEF Die, offer, waiting, Goto, IpcInv, TypeOK
<1>3. \A d \in Env \ {e, e} : inbox'[d] = inbox[d]
  BY OthersInbox DEF Die, Goto, IpcInv, TypeOK
<1>4. inbox' = [inbox EXCEPT ![e] = None]
  BY <1>1, <1>3 DEF inbox
<1>. QED
  BY <1>2, <1>4 DEF Exchanges!Die

\* The receiver's record, read together with its page, is the whole message.
LEMMA DeliverImplements ==
  ASSUME IpcInv, NEW e \in Env, Deliver(e)
  PROVE  \/ \E f \in Env : Exchanges!Exchange(e, f)
         \/ UNCHANGED <<offer, waiting, inbox>>
<1>. DEFINE p == call[e].page
<1>0. PICK f \in Env : f = call[e].to
  BY DEF IpcInv, TypeOK, CallsOK, Deliver, Call
<1>1. /\ call[e] \in Call /\ f \in Env /\ p \in Page \cup {None}
      /\ at[e] = "sending" /\ at[f] = "asleep" /\ e # f
  BY <1>0 DEF IpcInv, TypeOK, CallsOK, WaitsIffRecving, Deliver, Call
<1>2. CASE p # None /\ f \notin WantsPage
  BY <1>0, <1>2 DEF Deliver, offer, waiting, inbox, Arriving
<1>3. CASE ~(p # None /\ f \notin WantsPage)
  <2>1. /\ page' = [page EXCEPT ![f] = IF p # None THEN p ELSE @]
        /\ perm' = [perm EXCEPT ![f] = p # None]
        /\ from' = [from EXCEPT ![f] = e]
        /\ value' = [value EXCEPT ![f] = call[e].value]
        /\ at' = [at EXCEPT ![f] = "from", ![e] = "user"]
        /\ call' = [call EXCEPT ![e] = None]
        /\ UNCHANGED got
    BY <1>0, <1>3 DEF Deliver, Perm, Sent, Wakes
  <2>2. at'[f] = "from" /\ at'[e] = "user" /\ \A d \in Env \ {e, f} : at'[d] = at[d]
    BY <1>1, <2>1 DEF IpcInv, TypeOK
  <2>3. offer' = [offer EXCEPT ![e] = None]
    BY <1>1, <2>1, <2>2 DEF offer, IpcInv, TypeOK
  <2>4. waiting' = waiting \ {f} /\ f \in waiting
    BY <1>1, <2>2 DEF waiting
  <2>5. \A d \in Env \ {e, f} : inbox'[d] = inbox[d]
    BY <1>1, <2>1, <2>2, OthersInbox DEF IpcInv, TypeOK
  <2>6. inbox[e] = None /\ inbox'[e] = None
    BY <1>1, <2>2 DEF inbox
  <2>7. Arriving(f)' = [from |-> e, value |-> call[e].value, page |-> p]
    BY <1>1, <2>1, <2>2 DEF Arriving, IpcInv, TypeOK
  <2>8. inbox'[f] = [from |-> e, value |-> call[e].value, page |-> p]
    BY <1>1, <2>2, <2>7 DEF inbox
  <2>9. inbox' = [inbox EXCEPT ![f] = [from |-> e, value |-> call[e].value, page |-> p]]
    BY <1>1, <2>5, <2>6, <2>8 DEF inbox
  <2>10. offer[e] = call[e] /\ offer[e] # None
    BY <1>0, <1>1, NoneAssumption DEF offer
  <2>11. Exchanges!Exchange(e, f)
    BY <1>0, <2>3, <2>4, <2>9, <2>10 DEF Exchanges!Exchange
  <2>. QED
    BY <1>1, <2>11
<1>. QED
  BY <1>2, <1>3

\* Each message is received once, whole, by the environment it was sent to.
THEOREM MessagesWhole == Spec => ImplementsRendezvous
<1>1. Init => Exchanges!Init
  BY DEF Init, Exchanges!Init, offer, waiting, inbox
<1>2. IpcInv /\ [Next]_vars => [Exchanges!Next]_<<offer, waiting, inbox>>
  <2>. SUFFICES ASSUME IpcInv, [Next]_vars
                PROVE  Exchanges!Next \/ UNCHANGED <<offer, waiting, inbox>>
    OBVIOUS
  <2>1. CASE UNCHANGED vars
    BY <2>1 DEF vars, offer, waiting, inbox, Arriving
  <2>2. ASSUME NEW e \in Env, NEW f \in Env, NEW v \in Value, NEW p \in Page \cup {None},
               IpcSend(e, f, v, p)
        PROVE  Exchanges!Next
    <3>1. [to |-> f, value |-> v, page |-> p] \in Exchanges!Offer
      BY DEF Exchanges!Offer
    <3>. QED
      BY <2>2, <3>1, SendImplements DEF Exchanges!Next
  <2>3. ASSUME NEW e \in Env, IpcRecv(e) \/ Return(e) \/ Die(e) PROVE Exchanges!Next
    BY <2>3, WaitImplements, TakeImplements, DieImplements DEF Exchanges!Next
  <2>4. ASSUME NEW e \in Env, BadEnv(e) \/ NoMem(e) PROVE Exchanges!Next
    BY <2>4, FailImplements DEF BadEnv, NoMem, Exchanges!Next
  <2>5. ASSUME NEW e \in Env, Deliver(e)
        PROVE  Exchanges!Next \/ UNCHANGED <<offer, waiting, inbox>>
    BY <2>5, DeliverImplements DEF Exchanges!Next
  <2>6. ASSUME NEW e \in Env,
               \/ NotRecv(e) \/ ReadFrom(e) \/ ReadPerm(e) \/ ReadValue(e)
               \/ \E p \in Page \cup {None} : Remap(e, p)
        PROVE  UNCHANGED <<offer, waiting, inbox>>
    BY <2>6, Unseen
  <2>. QED
    BY <2>1, <2>2, <2>3, <2>4, <2>5, <2>6 DEF Next, Library, TrySend
<1>. QED
  BY <1>1, <1>2, IpcInvariant, PTL DEF Spec, ImplementsRendezvous, Exchanges!Spec, Exchanges!vars
=============================================================================
