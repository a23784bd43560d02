-------------------------------- MODULE Ipc --------------------------------
(***************************************************************************)
(* Message passing: sys_ipc_try_send and sys_ipc_recv in kern/syscall.c,   *)
(* and the library calls that programs use, ipc_send and ipc_recv in       *)
(* lib/ipc.c.                                                              *)
(*                                                                         *)
(* A system call is one step, because of the kernel lock, and so is each   *)
(* access of the library to the environment table, which programs read     *)
(* without any lock.  Any environment may run next.  Programs agree on who *)
(* receives pages, unless Careless.                                        *)
(***************************************************************************)
EXTENDS FiniteSets

CONSTANTS Env, Value, Page, None,
          Sender, Receiver,   \* the environments that call ipc_send and ipc_recv
          WantsPage,   \* the receivers that pass ipc_recv a page address
          Careless     \* a page may be sent to one that does not

ASSUME RolesAssumption == Sender \subseteq Env /\ WantsPage \subseteq Receiver /\ Receiver \subseteq Env
ASSUME CarelessAssumption == Careless \in BOOLEAN

VARIABLES at,       \* where each environment is
          call,     \* the arguments of the ipc_send it is in
          recving,  \* env_ipc_recving
          from,     \* env_ipc_from
          value,    \* env_ipc_value
          perm,     \* env_ipc_perm # 0
          page,     \* the page mapped where it sends pages from and gets them
          got,      \* the locals of ipc_recv: what it has read so far
          panic     \* the kernel has panicked

vars == <<at, call, recving, from, value, perm, page, got, panic>>

Place == {"user", "sending", "asleep",
          "from", "perm", "value",    \* what ipc_recv reads next
          "return",                   \* ipc_recv returns to its caller
          "failed",                   \* ipc_send has called panic
          "dead"}
Call == [to : Env, value : Value, page : Page \cup {None}]
ASSUME NoneAssumption == None \notin Env \cup Value \cup Page \cup Call

Got == [from : Env \cup {None}, perm : BOOLEAN, value : Value \cup {None}]
Nothing == [from |-> None, perm |-> FALSE, value |-> None]

TypeOK == /\ at \in [Env -> Place]
          /\ call \in [Env -> Call \cup {None}]
          /\ recving \in [Env -> BOOLEAN]
          /\ from \in [Env -> Env \cup {None}]
          /\ value \in [Env -> Value \cup {None}]
          /\ perm \in [Env -> BOOLEAN]
          /\ page \in [Env -> Page \cup {None}]
          /\ got \in [Env -> Got]
          /\ panic \in BOOLEAN

Init == /\ at = [e \in Env |-> "user"]
        /\ call = [e \in Env |-> None]
        /\ recving = [e \in Env |-> FALSE]
        /\ from = [e \in Env |-> None] /\ value = [e \in Env |-> None]
        /\ perm = [e \in Env |-> FALSE]
        /\ page \in [Env -> Page \cup {None}]
        /\ got = [e \in Env |-> Nothing]
        /\ panic = FALSE

Goto(e, place) == at' = [at EXCEPT ![e] = place]

-----------------------------------------------------------------------------
(* sys_ipc_try_send and ipc_send                                           *)

\* The program calls ipc_send.  It sends the page it has at its page address,
\* if any: a page that is not mapped is -E_INVAL, and ipc_send panics.
IpcSend(e, f, v, p) ==
  /\ at[e] = "user" /\ e \in Sender
  /\ p # None => p = page[e] /\ (f \in WantsPage \/ Careless)
  /\ call' = [call EXCEPT ![e] = [to |-> f, value |-> v, page |-> p]]
  /\ Goto(e, "sending")
  /\ UNCHANGED <<recving, from, value, perm, page, got, panic>>

\* ipc_send panics on every error but -E_IPC_NOT_RECV (ipc.c:76).
Fail(e) == /\ Goto(e, "failed")
           /\ call' = [call EXCEPT ![e] = None]
           /\ UNCHANGED <<recving, from, value, perm, page, got, panic>>

\* Mutant: ipc_send retries after every error.
BadEnv_Retried(e) == at[e] = "sending" /\ at[call[e].to] = "dead" /\ UNCHANGED vars

\* -E_BAD_ENV
BadEnv(e) == at[e] = "sending" /\ at[call[e].to] = "dead" /\ Fail(e)

\* -E_IPC_NOT_RECV, sys_yield, and again (ipc.c:72-74).
NotRecv(e) == /\ at[e] = "sending" /\ at[call[e].to] # "dead" /\ ~recving[call[e].to]
              /\ UNCHANGED vars

\* page_insert finds no memory for a page table: the receiver waits on.
NoMem(e) == /\ at[e] = "sending" /\ at[call[e].to] # "dead" /\ recving[call[e].to]
            /\ call[e].page # None /\ call[e].to \in WantsPage
            /\ Fail(e)

\* Mutant: the receiver still counts as waiting.
StillRecving_Yes(f) == recving[f]

\* env_ipc_recving of the receiver after the delivery.
StillRecving(f) == FALSE

\* Mutant: a message without a page leaves the perm of the last one.
Perm_Kept(f, p) == p # None \/ perm[f]

\* env_ipc_perm: "set to 'perm' if a page was transferred, 0 otherwise".
Perm(f, p) == p # None

\* Mutant: the status of the receiver is left alone.
Wakes_Never(f) == FALSE

\* The receiver is ENV_RUNNABLE again, and sys_ipc_recv returns 0.
Wakes(f) == TRUE

\* env_ipc_value
Sent(c) == c.value

\* The delivery, when the receiver waits.  A page is mapped at env_ipc_dstva,
\* also when that is ~0, "no page": there the kernel maps device memory, and the
\* KADDR of page_insert panics on an entry beyond the last page of RAM.
Deliver(e) ==
  LET f == call[e].to
      p == call[e].page
  IN /\ at[e] = "sending" /\ recving[f] /\ at[f] # "dead"
     /\ IF p # None /\ f \notin WantsPage
        THEN panic' = TRUE /\ UNCHANGED <<at, call, recving, from, value, perm, page, got>>
        ELSE /\ page' = [page EXCEPT ![f] = IF p # None THEN p ELSE @]
             /\ perm' = [perm EXCEPT ![f] = Perm(f, p)]
             /\ recving' = [recving EXCEPT ![f] = StillRecving(f)]
             /\ from' = [from EXCEPT ![f] = e]
             /\ value' = [value EXCEPT ![f] = Sent(call[e])]
             /\ at' = [at EXCEPT ![f] = IF Wakes(f) THEN "from" ELSE @, ![e] = "user"]
             /\ call' = [call EXCEPT ![e] = None]
             /\ UNCHANGED <<got, panic>>

-----------------------------------------------------------------------------
(* sys_ipc_recv and ipc_recv                                               *)

IpcRecv(e) == /\ at[e] = "user" /\ e \in Receiver
              /\ recving' = [recving EXCEPT ![e] = TRUE]
              /\ Goto(e, "asleep")
              /\ UNCHANGED <<call, from, value, perm, page, got, panic>>

\* ipc.c:32-40, through thisenv.
ReadFrom(e) == /\ at[e] = "from"
               /\ got' = [got EXCEPT ![e].from = from[e]]
               /\ Goto(e, "perm")
               /\ UNCHANGED <<call, recving, from, value, perm, page, panic>>

ReadPerm(e) == /\ at[e] = "perm"
               /\ got' = [got EXCEPT ![e].perm = perm[e]]
               /\ Goto(e, "value")
               /\ UNCHANGED <<call, recving, from, value, perm, page, panic>>

ReadValue(e) == /\ at[e] = "value"
                /\ got' = [got EXCEPT ![e].value = value[e]]
                /\ Goto(e, "return")
                /\ UNCHANGED <<call, recving, from, value, perm, page, panic>>

Return(e) == /\ at[e] = "return"
             /\ got' = [got EXCEPT ![e] = Nothing]
             /\ Goto(e, "user")
             /\ UNCHANGED <<call, recving, from, value, perm, page, panic>>

-----------------------------------------------------------------------------
\* Exit or sys_env_destroy, at any time; the ids of the dead are not reused here
\* (Kernel has that), and env_ipc_recving stays as it is until they are.
Die(e) == /\ at[e] # "dead"
          /\ Goto(e, "dead")
          /\ call' = [call EXCEPT ![e] = None]
          /\ page' = [page EXCEPT ![e] = None]
          /\ got' = [got EXCEPT ![e] = Nothing]
          /\ UNCHANGED <<recving, from, value, perm, panic>>

\* sys_page_alloc or sys_page_unmap at its page address.
Remap(e, p) == /\ at[e] = "user"
               /\ page' = [page EXCEPT ![e] = p]
               /\ UNCHANGED <<at, call, recving, from, value, perm, got, panic>>

TrySend(e) == BadEnv(e) \/ NotRecv(e) \/ NoMem(e) \/ Deliver(e)
Library(e) == TrySend(e) \/ ReadFrom(e) \/ ReadPerm(e) \/ ReadValue(e) \/ Return(e)

Next == /\ ~panic
        /\ \E e \in Env :
             \/ \E f \in Env, v \in Value, p \in Page \cup {None} : IpcSend(e, f, v, p)
             \/ IpcRecv(e) \/ Library(e) \/ Die(e)
             \/ \E p \in Page \cup {None} : Remap(e, p)

Spec == Init /\ [][Next]_vars
Fairness == \A e \in Env : WF_vars(~panic /\ Library(e))

-----------------------------------------------------------------------------
\* The environment waits exactly as long as the kernel says so: "env_ipc_recving
\* is set to 0 to block future sends" (syscall.c:352), so that nothing changes
\* what the receiver is about to read.
WaitsIffRecving == \A e \in Env : at[e] # "dead" => (recving[e] <=> at[e] = "asleep")

\* "If the sender wants to send a page but the receiver isn't asking for one,
\* then no page mapping is transferred, but no error occurs" (syscall.c:360).
NoPanic == ~panic

\* What ipc_recv will return, or has read already, of the message that came.
Arriving(e) ==
  LET had == at[e] = "return" \/ at[e] = "value"
  IN [from |-> IF at[e] = "from" THEN from[e] ELSE got[e].from,
      value |-> IF at[e] = "return" THEN got[e].value ELSE value[e],
      page |-> IF (IF had THEN got[e].perm ELSE perm[e]) THEN page[e] ELSE None]

offer == [e \in Env |-> IF at[e] = "sending" THEN call[e] ELSE None]
waiting == {e \in Env : at[e] = "asleep"}
inbox == [e \in Env |-> IF at[e] \in {"from", "perm", "value", "return"} THEN Arriving(e) ELSE None]

\* Each message is received once, whole, by the environment it was sent to, and
\* ipc_send returns when it has been: "perm_store ... is nonzero iff a page was
\* successfully transferred to 'pg'" (ipc.c:11).  A failed send is not received.
Exchanges == INSTANCE Rendezvous
ImplementsRendezvous == Exchanges!Spec

Sending(e, f) == at[e] = "sending" /\ call[e].to = f

\* A receiver does not sleep on while somebody goes on sending to it.
Served == \A e, f \in Env : e # f =>
            (Sending(e, f) /\ at[f] = "asleep") ~> (at[f] # "asleep" \/ ~Sending(e, f))

\* A sender whose receiver has died stops: retrying has an end (ipc.c:72).
SenderStops == \A e, f \in Env : (Sending(e, f) /\ at[f] = "dead") ~> ~Sending(e, f)
=============================================================================
