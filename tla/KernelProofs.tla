---------------------------- MODULE KernelProofs ----------------------------
(***************************************************************************)
(* The safety of the kernel of Kernel.tla for every number of CPUs, slots  *)
(* and generations, as long as programs keep the three rules that its      *)
(* constants RestatusAny, DestroyTwice and RecvUnaligned would lift.       *)
(***************************************************************************)
EXTENDS Kernel, TLAPS

\* Programs keep the rules that the constants of Kernel would lift.
Disciplined == ~RestatusAny /\ ~DestroyTwice /\ ~RecvUnaligned

-----------------------------------------------------------------------------
(* The free list                                                           *)

\* Putting a new element at the head of a list of a set (env.c:545-546).
LEMMA ListsPush ==
  ASSUME NEW T, NEW S, NEW s \in Seq(T), NEW e \in T, Lists(s, S), e \notin S
  PROVE  Lists(<<e>> \o s, S \cup {e})
<1> DEFINE t == <<e>> \o s
<1>1. /\ t \in Seq(T) /\ Len(t) = Len(s) + 1 /\ t[1] = e
      /\ \A i \in 1 .. Len(s) : t[i + 1] = s[i]
  OBVIOUS
<1>2. DOMAIN t = 1 .. Len(s) + 1 /\ DOMAIN s = 1 .. Len(s) /\ Len(s) \in Nat
  BY <1>1
<1>3. \A i \in DOMAIN t : i # 1 => i - 1 \in DOMAIN s /\ t[i] = s[i - 1]
  BY <1>1, <1>2
<1>4. {t[i] : i \in DOMAIN t} = S \cup {e}
  <2>1. \A i \in DOMAIN t : t[i] \in S \cup {e}
    BY <1>1, <1>3 DEF Lists
  <2>2. ASSUME NEW x \in S \cup {e} PROVE \E i \in DOMAIN t : t[i] = x
    <3>1. CASE x = e
      BY <3>1, <1>1, <1>2
    <3>2. CASE x \in S
      <4>1. PICK i \in DOMAIN s : s[i] = x
        BY <3>2 DEF Lists
      <4>2. i \in 1 .. Len(s) /\ i + 1 \in DOMAIN t
        BY <1>2
      <4>3. t[i + 1] = x
        BY <4>1, <4>2, <1>1
      <4> HIDE DEF t
      <4> QED BY <4>2, <4>3
    <3> QED BY <3>1, <3>2
  <2> QED BY <2>1, <2>2
<1>5. ASSUME NEW i \in DOMAIN t, NEW j \in DOMAIN t, t[i] = t[j] PROVE i = j
  <2>1. \A k \in DOMAIN s : s[k] # e
    BY DEF Lists
  <2>2. (i = 1) <=> (j = 1)
    BY <1>1, <1>3, <1>5, <2>1
  <2>3. CASE i # 1 /\ j # 1
    <3>1. s[i - 1] = s[j - 1] /\ i - 1 \in DOMAIN s /\ j - 1 \in DOMAIN s
      BY <2>3, <1>3, <1>5
    <3>2. i - 1 = j - 1
      BY <3>1 DEF Lists
    <3> QED BY <3>2, <1>2
  <2> QED BY <2>2, <2>3
<1> HIDE DEF t
<1>6. Lists(t, S \cup {e})
  BY <1>4, <1>5 DEF Lists
<1> QED BY <1>6 DEF t

\* Taking the head off a list of a set (env.c:300).
LEMMA ListsPop ==
  ASSUME NEW T, NEW S, NEW s \in Seq(T), Lists(s, S), s # << >>
  PROVE  /\ Tail(s) \in Seq(T)
         /\ Head(s) \in S
         /\ Lists(Tail(s), S \ {Head(s)})
<1> DEFINE t == Tail(s)
<1>1. /\ t \in Seq(T) /\ Len(s) \in Nat /\ Len(s) > 0 /\ Len(t) = Len(s) - 1
      /\ \A i \in 1 .. Len(s) - 1 : t[i] = s[i + 1]
      /\ Head(s) = s[1]
  OBVIOUS
<1>2. DOMAIN t = 1 .. Len(s) - 1 /\ DOMAIN s = 1 .. Len(s)
  BY <1>1
<1>3. Head(s) \in S
  BY <1>1, <1>2 DEF Lists
<1>4. \A i \in DOMAIN t : i + 1 \in DOMAIN s /\ t[i] = s[i + 1] /\ t[i] # s[1]
  BY <1>1, <1>2 DEF Lists
<1>5. {t[i] : i \in DOMAIN t} = S \ {Head(s)}
  <2>1. \A i \in DOMAIN t : t[i] \in S \ {Head(s)}
    BY <1>1, <1>4 DEF Lists
  <2>2. ASSUME NEW x \in S \ {Head(s)} PROVE \E i \in DOMAIN t : t[i] = x
    <3>1. PICK i \in DOMAIN s : s[i] = x
      BY DEF Lists
    <3>2. i # 1 /\ i - 1 \in DOMAIN t /\ t[i - 1] = x
      BY <3>1, <1>1, <1>2
    <3> QED BY <3>2
  <2> QED BY <2>1, <2>2
<1>6. ASSUME NEW i \in DOMAIN t, NEW j \in DOMAIN t, t[i] = t[j] PROVE i = j
  <2>1. i + 1 = j + 1
    BY <1>4, <1>6 DEF Lists
  <2> QED BY <2>1, <1>2
<1> HIDE DEF t
<1>7. Lists(t, S \ {Head(s)})
  BY <1>5, <1>6 DEF Lists
<1> QED BY <1>1, <1>3, <1>7 DEF t

-----------------------------------------------------------------------------
(* The initial state                                                       *)

LEMMA NoneFacts == None \notin Env /\ None \notin Cpu /\ <<0, 0>> \in EnvId
BY NoneAssumption, SizeAssumption, GenAssumption DEF Env, Cpu, EnvId

\* The free list that env_init and the ENV_CREATEs leave.
LEMMA InitFreeList ==
  Init => env_free_list \in Seq(Env) /\ FreeListExact
<1> SUFFICES ASSUME Init PROVE env_free_list \in Seq(Env) /\ FreeListExact
  OBVIOUS
<1> DEFINE n == NENV - NCPU - 1
<1>1. n \in Nat
  BY SizeAssumption
<1>2. env_free_list = [i \in 1 .. n |-> NCPU + i]
  BY DEF Init
<1>3. \A i \in 1 .. n : NCPU + i \in Env
  BY SizeAssumption DEF Env
<1> HIDE DEF n
<1>4. env_free_list \in Seq(Env) /\ DOMAIN env_free_list = 1 .. n
  BY <1>1, <1>2, <1>3
<1>5. \A i \in DOMAIN env_free_list : env_free_list[i] = NCPU + i
  BY <1>2, <1>4
<1>6. \A e \in Env : status[e] = "FREE" <=> e > NCPU
  BY SizeAssumption DEF Init, Env
<1>7. {env_free_list[i] : i \in DOMAIN env_free_list} = {e \in Env : status[e] = "FREE"}
  <2>1. ASSUME NEW i \in DOMAIN env_free_list
        PROVE  env_free_list[i] \in Env /\ env_free_list[i] > NCPU
    BY <1>1, <1>3, <1>4, <1>5, SizeAssumption
  <2>2. ASSUME NEW e \in Env, e > NCPU
        PROVE  \E i \in DOMAIN env_free_list : env_free_list[i] = e
    <3>1. e - NCPU \in 1 .. n /\ NCPU + (e - NCPU) = e
      BY <2>2, SizeAssumption DEF Env, n
    <3> QED BY <3>1, <1>4, <1>5
  <2> QED BY <2>1, <2>2, <1>6
<1>8. \A i, j \in DOMAIN env_free_list : env_free_list[i] = env_free_list[j] => i = j
  BY <1>1, <1>4, <1>5, SizeAssumption
<1> QED BY <1>4, <1>7, <1>8 DEF FreeListExact, Lists

LEMMA InitInv == Init => KernelInv
<1> SUFFICES ASSUME Init PROVE KernelInv
  OBVIOUS
<1> USE SizeAssumption, GenAssumption, NoneFacts
<1>1. 0 \in Cpu /\ NCPU \in Env /\ \A e \in Env : e \in Int
  BY DEF Cpu, Env
<1>2. TypeOK
  <2>1. <<1, NCPU>> \in EnvId
    BY <1>1 DEF EnvId
  <2>2. cr3 \in [Cpu -> EnvId \cup {None}]
    BY <2>1 DEF Init
  <2>3. /\ status \in [Env -> Status] /\ env_type \in [Env -> {"USER", "IDLE"}]
        /\ env_gen \in [Env -> 0 .. MaxGen] /\ ipc_recving \in [Env -> BOOLEAN]
    BY <1>1 DEF Init, Status
  <2>4. env_parent_id \in [Env -> EnvId]
    <3>1. <<0, 0>> \in EnvId
      BY DEF EnvId, Env
    <3> QED BY <3>1 DEF Init
  <2>5. /\ curenv \in [Cpu -> Env \cup {None}] /\ kernel_lock \in Cpu \cup {None}
        /\ pc \in [Cpu -> PC]
    BY <1>1 DEF Init, PC
  <2> QED BY <2>2, <2>3, <2>4, <2>5, InitFreeList DEF TypeOK
<1>3. OneCpuPerEnv
  BY DEF Init, OneCpuPerEnv
<1>4. ActiveIsCurrent
  BY DEF Init, ActiveIsCurrent, Active
<1>5. FreeListExact
  BY InitFreeList
<1>6. ReceiverSleeps /\ NoPanic
  BY DEF Init, ReceiverSleeps, NoPanic
<1>7. LockedKernel
  BY <1>1 DEF Init, LockedKernel
<1>8. OwnAddressSpace
  <2>1. Id(NCPU) = <<1, NCPU>> /\ status[NCPU] # "FREE"
    BY <1>1 DEF Init, Id
  <2> QED BY <1>1, <2>1 DEF Init, OwnAddressSpace
<1>9. LiveIds
  BY DEF Init, LiveIds
<1>10. IdleKept
  <2>1. 0 .. NCPU - 1 \subseteq Env /\ \A e \in 0 .. NCPU - 1 : e <= NCPU /\ e # None
    BY NoneAssumption DEF Env
  <2> QED BY <2>1 DEF Init, IdleKept
<1>11. CurenvInKernel
  BY DEF Init, CurenvInKernel
<1> QED
  BY <1>2, <1>3, <1>4, <1>5, <1>6, <1>7, <1>8, <1>9, <1>10, <1>11 DEF KernelInv

-----------------------------------------------------------------------------
(* What the invariant says of the other CPUs while one has the lock        *)

\* The other CPUs are outside the kernel proper; their current environments
\* are running or dying, so none of them is one the lock holder may take.
LEMMA Elsewhere ==
  ASSUME KernelInv, NEW c \in Cpu, kernel_lock = c
  PROVE  /\ \A d \in Cpu : d # c =>
              /\ pc[d] \in {"boot", "user", "spin", "lcr3"}
              /\ pc[d] = "boot" => curenv[d] = None /\ cr3[d] = None
              /\ pc[d] # "boot" => curenv[d] \in Env /\ Active(curenv[d])
         /\ \A e \in Env : ~Active(e) => \A d \in Cpu : d # c => curenv[d] # e
         /\ \A e \in Env : curenv[c] = e => \A d \in Cpu : d # c => curenv[d] # e
<1>1. ASSUME NEW d \in Cpu, d # c
      PROVE  pc[d] \in {"boot", "user", "spin", "lcr3"}
  BY <1>1, NoneFacts DEF KernelInv, TypeOK, PC, LockedKernel, NoPanic
<1>2. ASSUME NEW d \in Cpu, d # c, pc[d] = "boot"
      PROVE  curenv[d] = None /\ cr3[d] = None
  BY <1>2 DEF KernelInv, CurenvInKernel
<1>3. ASSUME NEW d \in Cpu, d # c, pc[d] # "boot"
      PROVE  curenv[d] \in Env /\ Active(curenv[d])
  BY <1>1, <1>3 DEF KernelInv, TypeOK, ActiveIsCurrent
<1>4. ASSUME NEW e \in Env, ~Active(e), NEW d \in Cpu, d # c PROVE curenv[d] # e
  BY <1>2, <1>3, <1>4, NoneFacts
<1>5. ASSUME NEW e \in Env, curenv[c] = e, NEW d \in Cpu, d # c PROVE curenv[d] # e
  BY <1>5, NoneFacts DEF KernelInv, OneCpuPerEnv
<1> QED BY <1>1, <1>2, <1>3, <1>4, <1>5

-----------------------------------------------------------------------------
(* env_run                                                                 *)

\* EnvRun preserves the invariant when the CPU has the lock, its current
\* environment is no zombie, and e is a runnable environment, its own idle
\* environment or its current one.
LEMMA EnvRunInv ==
  ASSUME KernelInv, NEW c \in Cpu, NEW e \in Env,
         kernel_lock = c,
         curenv[c] # None => status[curenv[c]] \in {"RUNNING", "RUNNABLE", "NOT_RUNNABLE"},
         status[e] \in {"RUNNING", "RUNNABLE"},
         e # curenv[c] => status[e] = "RUNNABLE",
         env_type[e] = "USER" \/ e = c \/ e = curenv[c],
         EnvRun(c, e)
  PROVE  KernelInv'
<1> USE NoneFacts
<1>1. /\ TypeOK /\ OneCpuPerEnv /\ ActiveIsCurrent /\ FreeListExact /\ ReceiverSleeps
      /\ NoPanic /\ LockedKernel /\ OwnAddressSpace /\ LiveIds /\ IdleKept
      /\ CurenvInKernel
  BY DEF KernelInv
<1>2. /\ \A d \in Cpu : d # c =>
           /\ pc[d] \in {"boot", "user", "spin", "lcr3"}
           /\ pc[d] = "boot" => curenv[d] = None /\ cr3[d] = None
           /\ pc[d] # "boot" => curenv[d] \in Env /\ Active(curenv[d])
      /\ \A f \in Env : ~Active(f) => \A d \in Cpu : d # c => curenv[d] # f
      /\ \A f \in Env : curenv[c] = f => \A d \in Cpu : d # c => curenv[d] # f
  BY Elsewhere
<1>3. /\ pc' = [pc EXCEPT ![c] = "lcr3"] /\ kernel_lock' = None
      /\ curenv' = [curenv EXCEPT ![c] = e]
      /\ UNCHANGED <<env_type, env_gen, env_parent_id, ipc_recving, env_free_list, cr3>>
  BY DEF EnvRun, Goto
<1>4. /\ status' \in [Env -> Status]
      /\ status'[e] = "RUNNING"
      /\ \A f \in Env : f # e =>
           status'[f] = IF f = curenv[c] /\ status[f] = "RUNNING"
                        THEN "RUNNABLE" ELSE status[f]
  BY <1>1 DEF EnvRun, TypeOK, Status
<1>5. \A d \in Cpu : d # c => curenv[d] # e
  BY <1>2 DEF Active
<1>6. TypeOK'
  BY <1>1, <1>3, <1>4 DEF TypeOK, PC
<1>7. OneCpuPerEnv'
  BY <1>1, <1>3, <1>5 DEF OneCpuPerEnv, TypeOK
<1>8. ActiveIsCurrent'
  <2>1. ASSUME NEW f \in Env, Active(f)' PROVE \E d \in Cpu : curenv'[d] = f
    <3>1. CASE f = e
      BY <3>1, <1>1, <1>3 DEF TypeOK
    <3>2. CASE f # e
      <4>1. Active(f) /\ f # curenv[c]
        BY <3>2, <2>1, <1>4 DEF Active
      <4>2. PICK d \in Cpu : curenv[d] = f
        BY <4>1, <1>1 DEF ActiveIsCurrent
      <4> QED BY <4>1, <4>2, <1>1, <1>3 DEF TypeOK
    <3> QED BY <3>1, <3>2
  <2>2. ASSUME NEW d \in Cpu, pc'[d] \in {"user", "spin", "lcr3"}
        PROVE  curenv'[d] # None /\ status'[curenv'[d]] \in {"RUNNING", "DYING"}
    <3>1. CASE d = c
      BY <3>1, <1>1, <1>3, <1>4 DEF TypeOK, Active
    <3>2. CASE d # c
      <4>1. curenv'[d] = curenv[d] /\ pc[d] # "boot"
        BY <3>2, <2>2, <1>1, <1>3 DEF TypeOK
      <4>2. curenv[d] \in Env /\ Active(curenv[d]) /\ curenv[d] # e /\ curenv[d] # curenv[c]
        BY <3>2, <4>1, <1>1, <1>2, <1>5 DEF OneCpuPerEnv
      <4> QED BY <4>1, <4>2, <1>4 DEF Active
    <3> QED BY <3>1, <3>2
  <2> QED BY <2>1, <2>2 DEF ActiveIsCurrent, Active
<1>9. \A f \in Env : status'[f] = "FREE" <=> status[f] = "FREE"
  BY <1>4
<1>10. FreeListExact'
  BY <1>1, <1>3, <1>9 DEF FreeListExact, Lists
<1>11. ReceiverSleeps'
  <2>1. ~ipc_recving[e]
    BY <1>1 DEF ReceiverSleeps
  <2> QED BY <2>1, <1>1, <1>3, <1>4 DEF ReceiverSleeps
<1>12. NoPanic'
  BY <1>1, <1>3 DEF NoPanic, TypeOK
<1>13. LockedKernel'
  BY <1>1, <1>2, <1>3 DEF LockedKernel, TypeOK
<1>14. OwnAddressSpace'
  BY <1>1, <1>2, <1>3, <1>9 DEF OwnAddressSpace, TypeOK, Id
<1>15. LiveIds'
  BY <1>1, <1>3, <1>9 DEF LiveIds
<1>16. IdleKept'
  <2>1. \A f \in 0 .. NCPU - 1 : f \in Env /\ status'[f] \in {"RUNNABLE", "RUNNING"}
    <3>1. ASSUME NEW f \in 0 .. NCPU - 1
          PROVE  f \in Env /\ status[f] \in {"RUNNABLE", "RUNNING"}
      BY <1>1, SizeAssumption DEF IdleKept, Env
    <3> QED BY <3>1, <1>4
  <2>2. ASSUME NEW f \in 0 .. NCPU - 1, NEW d \in Cpu, curenv'[d] = f PROVE d = f
    <3>1. f \in Env /\ env_type[f] = "IDLE" /\ \A b \in Cpu : curenv[b] = f => b = f
      <4>1. f \in Env /\ f < NCPU
        BY <2>1, SizeAssumption
      <4> QED BY <4>1, <1>1 DEF IdleKept
    <3>2. CASE d # c
      BY <3>1, <3>2, <2>2, <1>1, <1>3 DEF TypeOK
    <3>3. CASE d = c
      <4>1. e = f
        BY <3>3, <2>2, <1>1, <1>3 DEF TypeOK
      <4> QED BY <4>1, <3>1, <3>3
    <3> QED BY <3>2, <3>3
  <2> QED BY <2>1, <2>2, <1>1, <1>3 DEF IdleKept
<1>17. CurenvInKernel'
  BY <1>1, <1>2, <1>3 DEF CurenvInKernel, TypeOK
<1> QED
  BY <1>6, <1>7, <1>8, <1>10, <1>11, <1>12, <1>13, <1>14, <1>15, <1>16, <1>17 DEF KernelInv

-----------------------------------------------------------------------------
(* Steps of a CPU that has the lock and keeps it                           *)

\* What such a step must do to the statuses, ids and directories for the
\* relations between CPUs and environments to survive it.
LEMMA LockedStep ==
  ASSUME KernelInv, NEW c \in Cpu, kernel_lock = c, UNCHANGED kernel_lock,
         NEW label \in {"return", "sched", "monitor"},
         pc' = [pc EXCEPT ![c] = label],
         NEW x \in {None, curenv[c]},
         curenv' = [curenv EXCEPT ![c] = x],
         TypeOK',
         \A d \in Cpu : d # c /\ curenv[d] # None => status'[curenv[d]] \in {"RUNNING", "DYING"},
         \A e \in Env : status'[e] \in {"RUNNING", "DYING"} =>
                          Active(e) /\ (e = curenv[c] => x = e),
         label = "return" => x # None,
         x # None => status'[x] \in {"RUNNING", "RUNNABLE", "NOT_RUNNABLE"},
         \A e \in Env : status[e] # "FREE" => env_gen'[e] = env_gen[e],
         cr3' \in {cr3, [cr3 EXCEPT ![c] = None]},
         cr3'[c] # None => \E e \in Env : cr3'[c] = <<env_gen'[e], e>> /\ status'[e] # "FREE"
  PROVE  /\ OneCpuPerEnv' /\ ActiveIsCurrent' /\ NoPanic' /\ LockedKernel'
         /\ OwnAddressSpace' /\ CurenvInKernel'
<1> USE NoneFacts
<1>1. /\ TypeOK /\ OneCpuPerEnv /\ ActiveIsCurrent /\ NoPanic /\ LockedKernel
      /\ OwnAddressSpace /\ CurenvInKernel
  BY DEF KernelInv
<1>2. \A d \in Cpu : d # c =>
           /\ pc[d] \in {"boot", "user", "spin", "lcr3"}
           /\ pc[d] = "boot" => curenv[d] = None /\ cr3[d] = None
           /\ pc[d] # "boot" => curenv[d] \in Env /\ Active(curenv[d])
  BY Elsewhere
<1>3. /\ pc'[c] = label /\ curenv'[c] = x
      /\ \A d \in Cpu : d # c => pc'[d] = pc[d] /\ curenv'[d] = curenv[d] /\ cr3'[d] = cr3[d]
  BY <1>1 DEF TypeOK
<1>4. OneCpuPerEnv'
  BY <1>1, <1>3 DEF OneCpuPerEnv
<1>5. ActiveIsCurrent'
  <2>1. ASSUME NEW e \in Env, status'[e] \in {"RUNNING", "DYING"}
        PROVE  \E d \in Cpu : curenv'[d] = e
    <3>1. PICK d \in Cpu : curenv[d] = e
      BY <2>1, <1>1 DEF ActiveIsCurrent
    <3> QED BY <3>1, <2>1, <1>3
  <2>2. ASSUME NEW d \in Cpu, pc'[d] \in {"user", "spin", "lcr3"}
        PROVE  curenv'[d] # None /\ status'[curenv'[d]] \in {"RUNNING", "DYING"}
    <3>1. d # c /\ pc[d] # "boot"
      BY <2>2, <1>3
    <3> QED BY <3>1, <1>2, <1>3
  <2> QED BY <2>1, <2>2 DEF ActiveIsCurrent, Active
<1>6. NoPanic'
  BY <1>1, <1>3 DEF NoPanic
<1>7. LockedKernel'
  BY <1>1, <1>2, <1>3 DEF LockedKernel
<1>8. OwnAddressSpace'
  <2>1. ASSUME NEW d \in Cpu, d # c, pc[d] \in {"user", "spin"}
        PROVE  /\ curenv[d] \in Env /\ status[curenv[d]] # "FREE" /\ status'[curenv[d]] # "FREE"
               /\ cr3'[d] = <<env_gen'[curenv[d]], curenv[d]>>
    <3>1. curenv[d] \in Env /\ Active(curenv[d])
      BY <2>1, <1>2
    <3>2. cr3[d] = <<env_gen[curenv[d]], curenv[d]>>
      BY <2>1, <1>1 DEF OwnAddressSpace, Id
    <3> QED BY <3>1, <3>2, <2>1, <1>3 DEF Active
  <2>2. ASSUME NEW d \in Cpu, pc'[d] \in {"user", "spin", "trap"}
        PROVE  cr3'[d] = <<env_gen'[curenv'[d]], curenv'[d]>>
    <3>1. d # c /\ pc[d] \in {"user", "spin"}
      BY <2>2, <1>2, <1>3
    <3> QED BY <3>1, <2>1, <1>3
  <2>3. ASSUME NEW d \in Cpu, pc'[d] # "lcr3", cr3'[d] # None
        PROVE  \E e \in Env : cr3'[d] = <<env_gen'[e], e>> /\ status'[e] # "FREE"
    <3>1. CASE d = c
      BY <3>1, <2>3
    <3>2. CASE d # c
      <4>1. pc[d] \in {"user", "spin"}
        BY <3>2, <2>3, <1>2, <1>3
      <4> QED BY <4>1, <3>2, <2>1
    <3> QED BY <3>1, <3>2
  <2> QED BY <2>2, <2>3 DEF OwnAddressSpace, Id
<1>9. CurenvInKernel'
  <2>1. ASSUME NEW d \in Cpu
        PROVE  /\ pc'[d] = "boot" => curenv'[d] = None /\ cr3'[d] = None
               /\ pc'[d] # "trap"
               /\ pc'[d] = "return" => curenv'[d] # None
               /\ pc'[d] \in {"return", "sched", "monitor"} /\ curenv'[d] # None =>
                    status'[curenv'[d]] \in {"RUNNING", "RUNNABLE", "NOT_RUNNABLE"}
    <3>1. CASE d = c
      BY <3>1, <1>3
    <3>2. CASE d # c
      BY <3>2, <1>2, <1>3
    <3> QED BY <3>1, <3>2
  <2> QED BY <2>1 DEF CurenvInKernel
<1> QED BY <1>4, <1>5, <1>6, <1>7, <1>8, <1>9

\* A handler that only decides where to go next.
LEMMA PcStep ==
  ASSUME KernelInv, NEW c \in Cpu, pc[c] \in {"trap", "return", "sched"},
         NEW label \in {"return", "sched", "monitor"},
         Goto(c, label), UNCHANGED <<envVars, curenv, cr3, kernel_lock>>,
         label = "return" => curenv[c] # None,
         curenv[c] # None => status[curenv[c]] \in {"RUNNING", "RUNNABLE", "NOT_RUNNABLE"}
  PROVE  KernelInv'
<1> USE NoneFacts
<1>1. /\ TypeOK /\ FreeListExact /\ ReceiverSleeps /\ LockedKernel /\ OwnAddressSpace
      /\ LiveIds /\ IdleKept
  BY DEF KernelInv
<1>2. kernel_lock = c
  BY <1>1 DEF LockedKernel
<1>3. TypeOK'
  BY <1>1 DEF TypeOK, PC, Goto, envVars
<1>4. \A d \in Cpu : d # c /\ curenv[d] # None => status[curenv[d]] \in {"RUNNING", "DYING"}
  BY <1>2, Elsewhere DEF Active
<1>5. cr3[c] # None => \E e \in Env : cr3[c] = <<env_gen[e], e>> /\ status[e] # "FREE"
  BY <1>1 DEF OwnAddressSpace, Id
<1>6. curenv' = [curenv EXCEPT ![c] = curenv[c]]
  BY <1>1 DEF TypeOK
<1>7. /\ OneCpuPerEnv' /\ ActiveIsCurrent' /\ NoPanic' /\ LockedKernel'
      /\ OwnAddressSpace' /\ CurenvInKernel'
  <2>1. pc' = [pc EXCEPT ![c] = label]
    BY DEF Goto
  <2>2. UNCHANGED <<status, env_gen, cr3, kernel_lock>>
    BY DEF envVars
  <2>3. \A e \in Env : status'[e] \in {"RUNNING", "DYING"} => Active(e)
    BY <2>2 DEF Active
  <2>4. \A d \in Cpu : d # c /\ curenv[d] # None =>
                         status'[curenv[d]] \in {"RUNNING", "DYING"}
    BY <1>4, <2>2
  <2>5. cr3'[c] # None => \E e \in Env : cr3'[c] = <<env_gen'[e], e>> /\ status'[e] # "FREE"
    BY <1>5, <2>2
  <2>6. curenv[c] # None =>
          status'[curenv[c]] \in {"RUNNING", "RUNNABLE", "NOT_RUNNABLE"}
    BY <2>2
  <2>7. /\ \A e \in Env : status[e] # "FREE" => env_gen'[e] = env_gen[e]
        /\ cr3' \in {cr3, [cr3 EXCEPT ![c] = None]}
        /\ UNCHANGED kernel_lock
    BY <2>2
  <2>8. curenv[c] \in {None, curenv[c]}
    OBVIOUS
  <2>9. \A e \in Env : status'[e] \in {"RUNNING", "DYING"} =>
                         Active(e) /\ (e = curenv[c] => curenv[c] = e)
    BY <2>3
  <2> QED
    BY <1>2, <1>3, <1>6, <2>1, <2>4, <2>5, <2>6, <2>7, <2>8, <2>9, LockedStep
<1>8. FreeListExact' /\ ReceiverSleeps' /\ LiveIds' /\ IdleKept'
  BY <1>1, <1>6 DEF FreeListExact, Lists, ReceiverSleeps, LiveIds, IdleKept, envVars
<1> QED BY <1>3, <1>7, <1>8 DEF KernelInv

\* The facts a trap handler starts from.
LEMMA InTrap ==
  ASSUME KernelInv, NEW c \in Cpu, pc[c] = "trap"
  PROVE  /\ kernel_lock = c /\ curenv[c] \in Env /\ Active(curenv[c])
         /\ cr3[c] = <<env_gen[curenv[c]], curenv[c]>>
         /\ ~ipc_recving[curenv[c]]
         /\ env_gen[curenv[c]] # 0
<1>1. kernel_lock = c /\ curenv[c] \in Env /\ Active(curenv[c])
  BY DEF KernelInv, TypeOK, LockedKernel, CurenvInKernel
<1>2. cr3[c] = <<env_gen[curenv[c]], curenv[c]>>
  BY DEF KernelInv, OwnAddressSpace, Id
<1>3. ~ipc_recving[curenv[c]] /\ env_gen[curenv[c]] # 0
  BY <1>1 DEF KernelInv, ReceiverSleeps, LiveIds, Active
<1> QED BY <1>1, <1>2, <1>3

\* env_free, of the current environment or of one that is nobody's.
LEMMA FreeStep ==
  ASSUME KernelInv, NEW c \in Cpu, pc[c] = "trap", NEW e \in Env,
         status[e] # "FREE", env_type[e] = "USER",
         e # curenv[c] => ~Active(e) /\ status[curenv[c]] = "RUNNING",
         EnvFree(c, e),
         curenv' = [curenv EXCEPT ![c] = IF @ = e THEN None ELSE @],
         Goto(c, IF e = curenv[c] THEN "sched" ELSE "return"),
         UNCHANGED kernel_lock
  PROVE  KernelInv'
<1> USE NoneFacts
<1>1. /\ TypeOK /\ FreeListExact /\ ReceiverSleeps /\ LiveIds /\ IdleKept /\ OneCpuPerEnv
  BY DEF KernelInv
<1>2. /\ kernel_lock = c /\ curenv[c] \in Env /\ Active(curenv[c])
      /\ cr3[c] = <<env_gen[curenv[c]], curenv[c]>>
  BY InTrap
<1>3. /\ status' = [status EXCEPT ![e] = "FREE"]
      /\ env_free_list' = <<e>> \o env_free_list
      /\ cr3' = IF e = curenv[c] THEN [cr3 EXCEPT ![c] = None] ELSE cr3
      /\ UNCHANGED <<env_type, env_gen, env_parent_id, ipc_recving>>
  BY DEF EnvFree
<1>4. \A d \in Cpu : d # c => curenv[d] # e
  BY <1>2, Elsewhere
<1> DEFINE x == IF curenv[c] = e THEN None ELSE curenv[c]
           label == IF e = curenv[c] THEN "sched" ELSE "return"
<1>5. /\ curenv' = [curenv EXCEPT ![c] = x] /\ x \in {None, curenv[c]}
      /\ pc' = [pc EXCEPT ![c] = label] /\ label \in {"return", "sched", "monitor"}
      /\ x # None => x # e /\ x = curenv[c]
      /\ label = "return" => x # None
  BY <1>1, <1>2 DEF TypeOK, Goto
<1>6. TypeOK'
  <2>1. env_free_list' \in Seq(Env)
    BY <1>1, <1>3 DEF TypeOK
  <2> QED BY <2>1, <1>1, <1>3, <1>5 DEF TypeOK, Status, PC
<1>7. FreeListExact'
  <2>1. e \notin {f \in Env : status[f] = "FREE"}
    OBVIOUS
  <2>2. Lists(<<e>> \o env_free_list, {f \in Env : status[f] = "FREE"} \cup {e})
    BY <2>1, <1>1, ListsPush DEF FreeListExact, TypeOK
  <2>3. {f \in Env : status'[f] = "FREE"} = {f \in Env : status[f] = "FREE"} \cup {e}
    BY <1>1, <1>3 DEF TypeOK
  <2> QED BY <2>2, <2>3, <1>3 DEF FreeListExact, Lists
<1>8. ReceiverSleeps' /\ LiveIds'
  BY <1>1, <1>3 DEF ReceiverSleeps, LiveIds, TypeOK
<1>9. IdleKept'
  <2>1. \A f \in 0 .. NCPU - 1 : f \in Env /\ f # e
    <3>1. \A f \in 0 .. NCPU - 1 : f \in Env /\ f < NCPU
      BY SizeAssumption DEF Env
    <3> QED BY <3>1, <1>1 DEF IdleKept
  <2>2. \A f \in 0 .. NCPU - 1 : \A d \in Cpu : curenv'[d] = f => curenv[d] = f
    BY <2>1, <1>1, <1>5 DEF TypeOK
  <2> QED BY <2>1, <2>2, <1>1, <1>3 DEF IdleKept, TypeOK
<1>10. /\ OneCpuPerEnv' /\ ActiveIsCurrent' /\ NoPanic' /\ LockedKernel'
       /\ OwnAddressSpace' /\ CurenvInKernel'
  <2> HIDE DEF x, label
  <2>1. \A d \in Cpu : d # c /\ curenv[d] # None =>
                         status'[curenv[d]] \in {"RUNNING", "DYING"}
    BY <1>1, <1>2, <1>3, <1>4, Elsewhere DEF TypeOK, Active
  <2>2. \A f \in Env : status'[f] \in {"RUNNING", "DYING"} =>
                         Active(f) /\ (f = curenv[c] => x = f)
    BY <1>1, <1>3 DEF TypeOK, Active, x
  <2>3. x # None => status'[x] \in {"RUNNING", "RUNNABLE", "NOT_RUNNABLE"}
    BY <1>1, <1>2, <1>3, <1>5 DEF TypeOK
  <2>4. /\ \A f \in Env : status[f] # "FREE" => env_gen'[f] = env_gen[f]
        /\ cr3' \in {cr3, [cr3 EXCEPT ![c] = None]}
    BY <1>3
  <2>5. cr3'[c] # None => \E f \in Env : cr3'[c] = <<env_gen'[f], f>> /\ status'[f] # "FREE"
    BY <1>1, <1>2, <1>3 DEF TypeOK, Active
  <2>6. CASE e = curenv[c]
    <3>1. x = None /\ label = "sched"
      BY <2>6 DEF x, label
    <3> QED
      BY <1>2, <1>5, <1>6, <2>1, <2>2, <2>4, <2>5, <3>1, LockedStep
  <2>7. CASE e # curenv[c]
    <3>1. x = curenv[c] /\ label = "return"
      BY <2>7 DEF x, label
    <3> QED
      BY <1>2, <1>5, <1>6, <2>1, <2>2, <2>3, <2>4, <2>5, <3>1, LockedStep
  <2> QED BY <2>6, <2>7
<1> QED BY <1>6, <1>7, <1>8, <1>9, <1>10 DEF KernelInv

\* A handler that changes statuses and reception flags of environments that
\* are not free, without creating a running one or a zombie elsewhere.
LEMMA StatusStep ==
  ASSUME KernelInv, NEW c \in Cpu, pc[c] = "trap",
         status[curenv[c]] = "RUNNING",
         NEW e \in Env, env_type[e] = "USER", status[e] # "FREE",
         NEW s \in Status \ {"FREE", "RUNNING"},
         status' = [status EXCEPT ![e] = s],
         s = "DYING" => e # curenv[c] /\ status[e] = "RUNNING",
         s # "DYING" => e = curenv[c] \/ ~Active(e),
         NEW r \in BOOLEAN, r => s = "NOT_RUNNABLE",
         ipc_recving' = [ipc_recving EXCEPT ![e] = r],
         NEW label \in {"return", "sched"},
         Goto(c, label),
         UNCHANGED <<env_type, env_gen, env_parent_id, env_free_list, curenv, cr3, kernel_lock>>
  PROVE  KernelInv'
<1> USE NoneFacts
<1>1. /\ TypeOK /\ FreeListExact /\ ReceiverSleeps /\ LiveIds /\ IdleKept
  BY DEF KernelInv
<1>2. /\ kernel_lock = c /\ curenv[c] \in Env /\ Active(curenv[c])
      /\ cr3[c] = <<env_gen[curenv[c]], curenv[c]>>
  BY InTrap
<1>3. curenv' = [curenv EXCEPT ![c] = curenv[c]] /\ pc' = [pc EXCEPT ![c] = label]
  BY <1>1 DEF TypeOK, Goto
<1>4. TypeOK'
  BY <1>1, <1>3 DEF TypeOK, Status, PC
<1>5. \A f \in Env : status'[f] = "FREE" <=> status[f] = "FREE"
  BY <1>1 DEF TypeOK
<1>6. FreeListExact'
  BY <1>1, <1>5 DEF FreeListExact, Lists
<1>7. ReceiverSleeps' /\ LiveIds'
  BY <1>1, <1>5 DEF ReceiverSleeps, LiveIds, TypeOK
<1>8. IdleKept'
  <2>1. \A f \in 0 .. NCPU - 1 : f # e
    <3>1. \A f \in 0 .. NCPU - 1 : f \in Env /\ f < NCPU
      BY SizeAssumption DEF Env
    <3> QED BY <3>1, <1>1 DEF IdleKept
  <2> QED BY <2>1, <1>1 DEF IdleKept, TypeOK
<1>9. /\ OneCpuPerEnv' /\ ActiveIsCurrent' /\ NoPanic' /\ LockedKernel'
      /\ OwnAddressSpace' /\ CurenvInKernel'
  <2>1. \A d \in Cpu : d # c /\ curenv[d] # None =>
                         status'[curenv[d]] \in {"RUNNING", "DYING"}
    <3>1. ASSUME NEW d \in Cpu, d # c, curenv[d] # None
          PROVE  curenv[d] \in Env /\ Active(curenv[d]) /\ curenv[d] # curenv[c]
      BY <3>1, <1>1, <1>2, Elsewhere DEF TypeOK
    <3>2. \A f \in Env : Active(f) /\ f # curenv[c] => status'[f] \in {"RUNNING", "DYING"}
      BY <1>1 DEF TypeOK, Active, Status
    <3> QED BY <3>1, <3>2
  <2>2. \A f \in Env : status'[f] \in {"RUNNING", "DYING"} =>
                         Active(f) /\ (f = curenv[c] => curenv[c] = f)
    BY <1>1 DEF TypeOK, Active
  <2>3. curenv[c] # None =>
          status'[curenv[c]] \in {"RUNNING", "RUNNABLE", "NOT_RUNNABLE"}
    BY <1>1, <1>2 DEF TypeOK, Status
  <2>4. /\ \A f \in Env : status[f] # "FREE" => env_gen'[f] = env_gen[f]
        /\ cr3' \in {cr3, [cr3 EXCEPT ![c] = None]}
        /\ curenv[c] \in {None, curenv[c]} /\ curenv[c] # None
        /\ label \in {"return", "sched", "monitor"}
        /\ UNCHANGED kernel_lock
    BY <1>2
  <2>5. cr3'[c] # None => \E f \in Env : cr3'[c] = <<env_gen'[f], f>> /\ status'[f] # "FREE"
    BY <1>2, <1>5 DEF Active
  <2> QED
    BY <1>2, <1>3, <1>4, <2>1, <2>2, <2>3, <2>4, <2>5, LockedStep
<1> QED BY <1>4, <1>6, <1>7, <1>8, <1>9 DEF KernelInv

-----------------------------------------------------------------------------
(* Steps without the lock                                                  *)

LEMMA TrapFromUserInv ==
  ASSUME KernelInv, NEW c \in Cpu, TrapFromUser(c)
  PROVE  KernelInv'
<1> USE NoneFacts
<1>1. /\ TypeOK /\ OneCpuPerEnv /\ ActiveIsCurrent /\ FreeListExact /\ ReceiverSleeps
      /\ NoPanic /\ LockedKernel /\ OwnAddressSpace /\ LiveIds /\ IdleKept
      /\ CurenvInKernel
  BY DEF KernelInv
<1>2. /\ pc[c] = "user" /\ pc' = [pc EXCEPT ![c] = "spin"]
      /\ UNCHANGED <<status, env_type, env_gen, env_parent_id, ipc_recving, env_free_list,
                     curenv, cr3, kernel_lock>>
  BY <1>1 DEF TrapFromUser, ActiveIsCurrent, Goto, envVars
<1>3. TypeOK' /\ OneCpuPerEnv' /\ FreeListExact' /\ ReceiverSleeps' /\ LiveIds' /\ IdleKept'
  BY <1>1, <1>2 DEF TypeOK, PC, OneCpuPerEnv, FreeListExact, Lists, ReceiverSleeps,
                    LiveIds, IdleKept
<1>4. ActiveIsCurrent' /\ NoPanic' /\ LockedKernel' /\ CurenvInKernel'
  BY <1>1, <1>2 DEF TypeOK, ActiveIsCurrent, Active, NoPanic, LockedKernel, CurenvInKernel
<1>5. OwnAddressSpace'
  BY <1>1, <1>2 DEF TypeOK, OwnAddressSpace, Id
<1> QED BY <1>3, <1>4, <1>5 DEF KernelInv

LEMMA LockKernelInv ==
  ASSUME KernelInv, NEW c \in Cpu, LockKernel(c)
  PROVE  KernelInv'
<1> USE NoneFacts
<1>1. /\ TypeOK /\ OneCpuPerEnv /\ ActiveIsCurrent /\ FreeListExact /\ ReceiverSleeps
      /\ NoPanic /\ LockedKernel /\ OwnAddressSpace /\ LiveIds /\ IdleKept
      /\ CurenvInKernel
  BY DEF KernelInv
<1>2. kernel_lock = None
  BY <1>1 DEF LockKernel, LockedKernel
<1>3. /\ pc[c] \in {"spin", "boot"} /\ kernel_lock' = c
      /\ pc' = [pc EXCEPT ![c] = IF pc[c] = "spin" THEN "trap" ELSE "sched"]
      /\ UNCHANGED <<status, env_type, env_gen, env_parent_id, ipc_recving, env_free_list,
                     curenv, cr3>>
  <2>1. kernel_lock # c
    BY <1>2
  <2>2. CASE pc[c] = "spin"
    BY <2>1, <2>2 DEF LockKernel, Goto, envVars
  <2>3. CASE pc[c] = "boot"
    BY <2>1, <2>3 DEF LockKernel, Goto, envVars
  <2> QED BY <2>2, <2>3 DEF LockKernel
<1>4. TypeOK' /\ OneCpuPerEnv' /\ FreeListExact' /\ ReceiverSleeps' /\ LiveIds' /\ IdleKept'
  BY <1>1, <1>3 DEF TypeOK, PC, OneCpuPerEnv, FreeListExact, Lists, ReceiverSleeps,
                    LiveIds, IdleKept
<1>5. ActiveIsCurrent' /\ NoPanic' /\ CurenvInKernel'
  BY <1>1, <1>3 DEF TypeOK, ActiveIsCurrent, Active, NoPanic, CurenvInKernel
<1>6. LockedKernel'
  <2>1. \A d \in Cpu : pc[d] \notin {"trap", "return", "sched", "monitor"}
    BY <1>1, <1>2 DEF LockedKernel
  <2> QED BY <2>1, <1>1, <1>3 DEF TypeOK, LockedKernel
<1>7. OwnAddressSpace'
  BY <1>1, <1>3 DEF TypeOK, OwnAddressSpace, Id
<1> QED BY <1>4, <1>5, <1>6, <1>7 DEF KernelInv

LEMMA LoadCr3Inv ==
  ASSUME KernelInv, NEW c \in Cpu, LoadCr3(c)
  PROVE  KernelInv'
<1> USE NoneFacts
<1>1. /\ TypeOK /\ OneCpuPerEnv /\ ActiveIsCurrent /\ FreeListExact /\ ReceiverSleeps
      /\ NoPanic /\ LockedKernel /\ OwnAddressSpace /\ LiveIds /\ IdleKept
      /\ CurenvInKernel
  BY DEF KernelInv
<1>2. curenv[c] \in Env /\ Active(curenv[c]) /\ status[curenv[c]] # "FREE"
  BY <1>1 DEF LoadCr3, ActiveIsCurrent, TypeOK, Active
<1>3. /\ pc[c] = "lcr3" /\ pc' = [pc EXCEPT ![c] = "user"]
      /\ cr3' = [cr3 EXCEPT ![c] = <<env_gen[curenv[c]], curenv[c]>>]
      /\ UNCHANGED <<status, env_type, env_gen, env_parent_id, ipc_recving, env_free_list,
                     curenv, kernel_lock>>
  BY <1>2 DEF LoadCr3, Goto, envVars, Id
<1>4. <<env_gen[curenv[c]], curenv[c]>> \in EnvId
  BY <1>1, <1>2 DEF TypeOK, EnvId
<1>5. TypeOK'
  BY <1>1, <1>3, <1>4 DEF TypeOK, PC
<1>6. OneCpuPerEnv' /\ FreeListExact' /\ ReceiverSleeps' /\ LiveIds' /\ IdleKept'
  BY <1>1, <1>3 DEF OneCpuPerEnv, FreeListExact, Lists, ReceiverSleeps, LiveIds, IdleKept
<1>7. ActiveIsCurrent' /\ NoPanic' /\ LockedKernel' /\ CurenvInKernel'
  BY <1>1, <1>3 DEF TypeOK, ActiveIsCurrent, Active, NoPanic, LockedKernel, CurenvInKernel
<1>8. OwnAddressSpace'
  <2>1. ASSUME NEW d \in Cpu, pc'[d] \in {"user", "spin", "trap"}
        PROVE  cr3'[d] = <<env_gen'[curenv'[d]], curenv'[d]>>
    BY <2>1, <1>1, <1>3 DEF TypeOK, OwnAddressSpace, Id
  <2>2. ASSUME NEW d \in Cpu, pc'[d] # "lcr3", cr3'[d] # None
        PROVE  \E e \in Env : cr3'[d] = <<env_gen'[e], e>> /\ status'[e] # "FREE"
    <3>1. CASE d = c
      BY <3>1, <1>1, <1>2, <1>3 DEF TypeOK
    <3>2. CASE d # c
      BY <3>2, <2>2, <1>1, <1>3 DEF TypeOK, OwnAddressSpace, Id
    <3> QED BY <3>1, <3>2
  <2> QED BY <2>1, <2>2 DEF OwnAddressSpace, Id
<1> QED BY <1>5, <1>6, <1>7, <1>8 DEF KernelInv

-----------------------------------------------------------------------------
(* The scheduler                                                           *)

LEMMA SchedInv ==
  ASSUME KernelInv, NEW c \in Cpu, Sched(c)
  PROVE  KernelInv'
<1> USE NoneFacts
<1>1. TypeOK /\ IdleKept /\ CurenvInKernel /\ LockedKernel /\ ActiveIsCurrent
  BY DEF KernelInv
<1>2. /\ pc[c] = "sched" /\ kernel_lock = c
      /\ curenv[c] # None => status[curenv[c]] \in {"RUNNING", "RUNNABLE", "NOT_RUNNABLE"}
  BY <1>1 DEF Sched, SchedNext, SchedCurenv, SchedMonitor, SchedIdle, LockedKernel,
              CurenvInKernel
<1>3. CASE SchedNext(c)
  <2>1. PICK e \in Env : Found(c, e) /\ EnvRun(c, e)
    BY <1>3 DEF SchedNext
  <2>2. status[e] = "RUNNABLE" /\ env_type[e] = "USER"
    BY <2>1 DEF Found, Ready
  <2> QED BY <2>1, <2>2, <1>2, EnvRunInv
<1>4. CASE SchedCurenv(c)
  <2>1. curenv[c] \in Env /\ status[curenv[c]] = "RUNNABLE" /\ EnvRun(c, curenv[c])
    BY <1>1, <1>4 DEF SchedCurenv, StayOnCurenv, LastId, TypeOK
  <2> QED BY <2>1, <1>2, EnvRunInv
<1>5. CASE SchedMonitor(c)
  BY <1>2, <1>5, PcStep DEF SchedMonitor
<1>6. CASE SchedIdle(c)
  <2>1. c \in Env /\ status[c] \in {"RUNNABLE", "RUNNING"} /\ c \in 0 .. NCPU - 1
    BY <1>1, SizeAssumption DEF IdleKept, Cpu, Env
  <2>2. EnvRun(c, c)
    BY <2>1, <1>6 DEF SchedIdle
  <2>3. c # curenv[c] => status[c] = "RUNNABLE"
    <3>1. ASSUME status[c] = "RUNNING" PROVE curenv[c] = c
      <4>1. PICK d \in Cpu : curenv[d] = c
        BY <2>1, <3>1, <1>1 DEF ActiveIsCurrent, Active
      <4> QED BY <4>1, <2>1, <1>1 DEF IdleKept
    <3> QED BY <3>1, <2>1
  <2> QED BY <2>1, <2>2, <2>3, <1>2, EnvRunInv
<1> QED BY <1>3, <1>4, <1>5, <1>6 DEF Sched

-----------------------------------------------------------------------------
(* Trap handlers                                                           *)

LEMMA ReapZombieInv ==
  ASSUME KernelInv, NEW c \in Cpu, ReapZombie(c)
  PROVE  KernelInv'
<1> USE NoneFacts
<1>1. TypeOK /\ IdleKept
  BY DEF KernelInv
<1>2. pc[c] = "trap" /\ curenv[c] \in Env /\ status[curenv[c]] = "DYING"
  BY InTrap DEF ReapZombie
<1>3. env_type[curenv[c]] = "USER"
  <2>1. curenv[c] \notin 0 .. NCPU - 1
    BY <1>1, <1>2 DEF IdleKept
  <2>2. curenv[c] >= NCPU
    BY <2>1, <1>2, SizeAssumption DEF Env
  <2> QED BY <2>2, <1>1, <1>2, SizeAssumption DEF IdleKept, Env
<1>4. /\ EnvFree(c, curenv[c]) /\ UNCHANGED kernel_lock
      /\ curenv' = [curenv EXCEPT ![c] = IF @ = curenv[c] THEN None ELSE @]
      /\ Goto(c, IF curenv[c] = curenv[c] THEN "sched" ELSE "return")
  BY <1>1 DEF ReapZombie, TypeOK
<1> QED BY <1>2, <1>3, <1>4, FreeStep

\* What a user environment's trap that is dispatched starts from.
LEMMA InUserTrap ==
  ASSUME KernelInv, NEW c \in Cpu, UserTrap(c)
  PROVE  /\ pc[c] = "trap" /\ kernel_lock = c
         /\ curenv[c] \in Env /\ status[curenv[c]] = "RUNNING"
         /\ env_type[curenv[c]] = "USER" /\ ~ipc_recving[curenv[c]]
<1>1. pc[c] = "trap"
  BY DEF UserTrap, Dispatching
<1> QED BY <1>1, InTrap DEF UserTrap, Dispatching, Active

\* env_destroy, of the current environment or of one that is no zombie yet.
LEMMA EnvDestroyInv ==
  ASSUME KernelInv, NEW c \in Cpu, UserTrap(c), NEW e \in Env,
         status[e] \notin {"FREE", "DYING"}, env_type[e] = "USER", EnvDestroy(c, e)
  PROVE  KernelInv'
<1> USE NoneFacts
<1>1. TypeOK
  BY DEF KernelInv
<1>2. /\ pc[c] = "trap" /\ curenv[c] \in Env /\ status[curenv[c]] = "RUNNING"
  BY InUserTrap
<1>3. CASE status[e] = "RUNNING" /\ curenv[c] # e
  <2>1. /\ status' = [status EXCEPT ![e] = "DYING"]
        /\ curenv' = curenv /\ Goto(c, "return")
        /\ UNCHANGED <<env_type, env_gen, env_parent_id, env_free_list, cr3, kernel_lock>>
        /\ UNCHANGED ipc_recving
    BY <1>1, <1>3 DEF EnvDestroy, TypeOK
  <2>2. ~ipc_recving[e]
    BY <1>3 DEF KernelInv, ReceiverSleeps
  <2>3. ipc_recving' = [ipc_recving EXCEPT ![e] = FALSE]
    BY <2>1, <2>2, <1>1 DEF TypeOK
  <2> QED BY <2>1, <2>3, <1>2, <1>3, StatusStep DEF Status
<1>4. CASE ~(status[e] = "RUNNING" /\ curenv[c] # e)
  <2>1. EnvFree(c, e)
    BY <1>4 DEF EnvDestroy
  <2>2. e # curenv[c] => ~Active(e)
    BY <1>4 DEF Active
  <2> QED BY <2>1, <2>2, <1>2, FreeStep DEF EnvDestroy
<1> QED BY <1>3, <1>4

\* Only user environments are the caller's or its children: the parent id of
\* an idle environment is 0, which is nobody's id.
LEMMA ResolveUser ==
  ASSUME KernelInv, NEW c \in Cpu, UserTrap(c),
         NEW id \in EnvId, NEW e \in Env, Resolve(c, id, e, TRUE)
  PROVE  status[e] # "FREE" /\ env_type[e] = "USER"
<1>1. TypeOK /\ IdleKept /\ LiveIds
  BY DEF KernelInv
<1>2. /\ curenv[c] \in Env /\ status[curenv[c]] = "RUNNING"
      /\ env_type[curenv[c]] = "USER" /\ env_gen[curenv[c]] # 0
  BY InUserTrap, <1>1 DEF LiveIds
<1>3. CASE e = curenv[c]
  BY <1>2, <1>3
<1>4. CASE e # curenv[c]
  <2>1. status[e] # "FREE" /\ env_parent_id[e] = <<env_gen[curenv[c]], curenv[c]>>
    BY <1>4 DEF Resolve, Id
  <2>2. env_parent_id[e] # <<0, 0>>
    BY <2>1, <1>2
  <2>3. e \notin 0 .. NCPU - 1
    BY <2>2, <1>1 DEF IdleKept
  <2>4. ~(e < NCPU)
    BY <2>3, SizeAssumption DEF Env
  <2> QED BY <2>1, <2>4, <1>1 DEF IdleKept
<1> QED BY <1>3, <1>4

LEMMA SysExoforkInv ==
  ASSUME KernelInv, NEW c \in Cpu, SysExofork(c)
  PROVE  KernelInv'
<1> USE NoneFacts
<1> DEFINE e == Head(env_free_list)
<1>1. /\ TypeOK /\ FreeListExact /\ ReceiverSleeps /\ LiveIds /\ IdleKept
  BY DEF KernelInv
<1>2. /\ pc[c] = "trap" /\ kernel_lock = c /\ curenv[c] \in Env
      /\ status[curenv[c]] = "RUNNING" /\ env_type[curenv[c]] = "USER"
      /\ cr3[c] = <<env_gen[curenv[c]], curenv[c]>>
  BY InUserTrap, InTrap DEF SysExofork
<1>3. /\ Tail(env_free_list) \in Seq(Env)
      /\ e \in {f \in Env : status[f] = "FREE"}
      /\ Lists(Tail(env_free_list), {f \in Env : status[f] = "FREE"} \ {e})
  BY <1>1, ListsPop DEF SysExofork, FreeListExact, TypeOK
<1> HIDE DEF e
<1>4. e \in Env /\ status[e] = "FREE" /\ e # curenv[c]
  BY <1>2, <1>3
<1>5. /\ env_gen' = [env_gen EXCEPT ![e] = NextGen(@)]
      /\ env_parent_id' = [env_parent_id EXCEPT ![e] = <<env_gen[curenv[c]], curenv[c]>>]
      /\ env_type' = [env_type EXCEPT ![e] = "USER"]
      /\ ipc_recving' = [ipc_recving EXCEPT ![e] = FALSE]
      /\ env_free_list' = Tail(env_free_list)
      /\ status' = [status EXCEPT ![e] = "NOT_RUNNABLE"]
      /\ pc' = [pc EXCEPT ![c] = "return"]
      /\ UNCHANGED <<curenv, cr3, kernel_lock>>
  BY DEF SysExofork, EnvAlloc, Id, Goto, e
<1>6. NextGen(env_gen[e]) \in 0 .. MaxGen /\ NextGen(env_gen[e]) # 0
  BY <1>1, <1>4, GenAssumption DEF TypeOK, NextGen
<1>7. TypeOK'
  <2>1. <<env_gen[curenv[c]], curenv[c]>> \in EnvId
    BY <1>1, <1>2 DEF TypeOK, EnvId
  <2> QED BY <2>1, <1>1, <1>3, <1>4, <1>5, <1>6 DEF TypeOK, Status, PC
<1>8. FreeListExact'
  <2>1. {f \in Env : status'[f] = "FREE"} = {f \in Env : status[f] = "FREE"} \ {e}
    BY <1>1, <1>5 DEF TypeOK
  <2> QED BY <2>1, <1>3, <1>5 DEF FreeListExact, Lists
<1>9. ReceiverSleeps' /\ LiveIds'
  BY <1>1, <1>4, <1>5, <1>6 DEF TypeOK, ReceiverSleeps, LiveIds
<1>10. IdleKept'
  <2>1. \A f \in 0 .. NCPU - 1 : f # e /\ f \in Env
    BY <1>1, <1>4, SizeAssumption DEF IdleKept, Env
  <2>2. ~(e < NCPU)
    BY <2>1, <1>4, SizeAssumption DEF Env
  <2> QED BY <2>1, <2>2, <1>1, <1>5 DEF IdleKept, TypeOK
<1>11. /\ OneCpuPerEnv' /\ ActiveIsCurrent' /\ NoPanic' /\ LockedKernel'
       /\ OwnAddressSpace' /\ CurenvInKernel'
  <2>1. \A d \in Cpu : d # c /\ curenv[d] # None =>
                         status'[curenv[d]] \in {"RUNNING", "DYING"}
    BY <1>1, <1>2, <1>4, <1>5, Elsewhere DEF TypeOK, Active
  <2>2. \A f \in Env : status'[f] \in {"RUNNING", "DYING"} =>
                         Active(f) /\ (f = curenv[c] => curenv[c] = f)
    BY <1>1, <1>5 DEF TypeOK, Active
  <2>3. curenv[c] # None =>
          status'[curenv[c]] \in {"RUNNING", "RUNNABLE", "NOT_RUNNABLE"}
    BY <1>1, <1>2, <1>4, <1>5 DEF TypeOK
  <2>4. /\ \A f \in Env : status[f] # "FREE" => env_gen'[f] = env_gen[f]
        /\ cr3' \in {cr3, [cr3 EXCEPT ![c] = None]}
        /\ curenv[c] \in {None, curenv[c]} /\ curenv[c] # None
        /\ curenv' = [curenv EXCEPT ![c] = curenv[c]]
        /\ UNCHANGED kernel_lock
    BY <1>1, <1>2, <1>4, <1>5 DEF TypeOK
  <2>5. cr3'[c] # None => \E f \in Env : cr3'[c] = <<env_gen'[f], f>> /\ status'[f] # "FREE"
    BY <1>1, <1>2, <1>4, <1>5 DEF TypeOK
  <2> QED BY <1>2, <1>5, <1>7, <2>1, <2>2, <2>3, <2>4, <2>5, LockedStep
<1> QED BY <1>7, <1>8, <1>9, <1>10, <1>11 DEF KernelInv

LEMMA SysEnvDestroyInv ==
  ASSUME KernelInv, Disciplined, NEW c \in Cpu, NEW e \in Env,
         MayDestroy(e), SysEnvDestroy(c, e)
  PROVE  KernelInv'
<1>1. UserTrap(c) /\ status[e] # "DYING" /\ EnvDestroy(c, e)
  BY DEF SysEnvDestroy, MayDestroy, Disciplined
<1>2. status[e] # "FREE" /\ env_type[e] = "USER"
  BY <1>1, ResolveUser DEF SysEnvDestroy
<1> QED BY <1>1, <1>2, EnvDestroyInv

LEMMA SysEnvSetStatusInv ==
  ASSUME KernelInv, Disciplined, NEW c \in Cpu, NEW e \in Env,
         NEW s \in {"RUNNABLE", "NOT_RUNNABLE"}, MayRestatus(c, e), SysEnvSetStatus(c, e, s)
  PROVE  KernelInv'
<1>1. e = curenv[c] \/ (status[e] \in {"RUNNABLE", "NOT_RUNNABLE"} /\ ~ipc_recving[e])
  BY DEF MayRestatus, Disciplined
<1>2. UserTrap(c) /\ status' = [status EXCEPT ![e] = s]
  BY DEF SysEnvSetStatus
<1>3. /\ pc[c] = "trap" /\ curenv[c] \in Env /\ status[curenv[c]] = "RUNNING"
      /\ ~ipc_recving[curenv[c]]
  BY <1>2, InUserTrap
<1>4. status[e] # "FREE" /\ env_type[e] = "USER" /\ ~ipc_recving[e]
  BY <1>1, <1>2, <1>3, ResolveUser DEF SysEnvSetStatus
<1>5. ipc_recving' = [ipc_recving EXCEPT ![e] = FALSE]
  BY <1>4 DEF SysEnvSetStatus, KernelInv, TypeOK
<1>6. s \in Status \ {"FREE", "RUNNING"} /\ s # "DYING"
  BY DEF Status
<1>7. e = curenv[c] \/ ~Active(e)
  BY <1>1 DEF Active
<1>8. /\ Goto(c, "return")
      /\ UNCHANGED <<env_type, env_gen, env_parent_id, env_free_list, curenv, cr3, kernel_lock>>
  BY DEF SysEnvSetStatus
<1> QED BY <1>2, <1>3, <1>4, <1>5, <1>6, <1>7, <1>8, StatusStep

LEMMA SysIpcTrySendInv ==
  ASSUME KernelInv, NEW c \in Cpu, SysIpcTrySend(c)
  PROVE  KernelInv'
<1>1. PICK id \in EnvId, e \in Env :
        /\ Resolve(c, id, e, FALSE) /\ ipc_recving[e]
        /\ status' = [status EXCEPT ![e] = "RUNNABLE"]
        /\ ipc_recving' = [ipc_recving EXCEPT ![e] = FALSE]
  BY DEF SysIpcTrySend
<1>2. UserTrap(c)
  BY DEF SysIpcTrySend
<1>3. /\ pc[c] = "trap" /\ curenv[c] \in Env /\ status[curenv[c]] = "RUNNING"
      /\ ~ipc_recving[curenv[c]]
  BY <1>2, InUserTrap
<1>4. status[e] = "NOT_RUNNABLE" /\ ~Active(e)
  BY <1>1, <1>3 DEF Resolve, KernelInv, ReceiverSleeps, Active
<1>5. env_type[e] = "USER"
  <2>1. e \notin 0 .. NCPU - 1
    BY <1>4 DEF KernelInv, IdleKept
  <2>2. ~(e < NCPU)
    BY <2>1, SizeAssumption DEF Env
  <2> QED BY <2>2 DEF KernelInv, IdleKept
<1>6. /\ Goto(c, "return")
      /\ UNCHANGED <<env_type, env_gen, env_parent_id, env_free_list, curenv, cr3, kernel_lock>>
  BY DEF SysIpcTrySend
<1> QED BY <1>1, <1>3, <1>4, <1>5, <1>6, StatusStep DEF Status

LEMMA SysIpcRecvInv ==
  ASSUME KernelInv, Disciplined, NEW c \in Cpu, NEW aligned \in BOOLEAN,
         MayReceive(aligned), SysIpcRecv(c, aligned)
  PROVE  KernelInv'
<1>1. UserTrap(c)
  BY DEF SysIpcRecv
<1>2. /\ pc[c] = "trap" /\ curenv[c] \in Env /\ status[curenv[c]] = "RUNNING"
      /\ env_type[curenv[c]] = "USER"
  BY <1>1, InUserTrap
<1>3. /\ status' = [status EXCEPT ![curenv[c]] = "NOT_RUNNABLE"]
      /\ ipc_recving' = [ipc_recving EXCEPT ![curenv[c]] = TRUE]
      /\ Goto(c, "sched")
      /\ UNCHANGED <<env_type, env_gen, env_parent_id, env_free_list, curenv, cr3, kernel_lock>>
  BY <1>2 DEF SysIpcRecv, MayReceive, Disciplined, KernelInv, TypeOK
<1> QED BY <1>2, <1>3, StatusStep DEF Status

-----------------------------------------------------------------------------
(* The theorems                                                            *)

LEMMA TrapInv ==
  ASSUME KernelInv, Disciplined, NEW c \in Cpu, Trap(c)
  PROVE  KernelInv'
<1> USE NoneFacts
<1>1. TypeOK /\ CurenvInKernel /\ LockedKernel
  BY DEF KernelInv
<1>2. ASSUME Dispatching(c)
      PROVE  pc[c] = "trap" /\ curenv[c] \in Env /\ status[curenv[c]] = "RUNNING"
  BY <1>2, InTrap DEF Dispatching, Active
<1>3. CASE ReapZombie(c)
  BY <1>3, ReapZombieInv
<1>4. CASE Yield(c)
  BY <1>2, <1>4, PcStep DEF Yield
<1>5. CASE ReturnUnchanged(c)
  BY <1>2, <1>5, PcStep DEF ReturnUnchanged
<1>6. CASE PageFaultUpcall(c)
  <2>1. /\ kernel_lock = c /\ curenv[c] \in Env /\ status[curenv[c]] = "RUNNING"
        /\ EnvRun(c, curenv[c])
    BY <1>6, InUserTrap DEF PageFaultUpcall
  <2> QED BY <2>1, EnvRunInv
<1>7. CASE FaultDestroy(c)
  <2>1. /\ UserTrap(c) /\ curenv[c] \in Env /\ status[curenv[c]] = "RUNNING"
        /\ env_type[curenv[c]] = "USER" /\ EnvDestroy(c, curenv[c])
    BY <1>7, InUserTrap DEF FaultDestroy
  <2> QED BY <2>1, EnvDestroyInv
<1>8. CASE Syscall(c)
  BY <1>8, SysExoforkInv, SysEnvDestroyInv, SysEnvSetStatusInv, SysIpcTrySendInv,
     SysIpcRecvInv DEF Syscall
<1>9. CASE ReturnToCurenv(c)
  <2>1. /\ kernel_lock = c /\ curenv[c] \in Env /\ status[curenv[c]] = "RUNNING"
        /\ EnvRun(c, curenv[c])
    BY <1>1, <1>9 DEF ReturnToCurenv, LockedKernel, TypeOK
  <2> QED BY <2>1, EnvRunInv
<1>10. CASE ReturnToSched(c)
  BY <1>1, <1>10, PcStep DEF ReturnToSched, CurenvInKernel
<1> QED BY <1>3, <1>4, <1>5, <1>6, <1>7, <1>8, <1>9, <1>10 DEF Trap

LEMMA StepInv ==
  ASSUME KernelInv, Disciplined, [Next]_vars
  PROVE  KernelInv'
<1>1. CASE Next
  <2>1. PICK c \in Cpu : CpuStep(c)
    BY <1>1 DEF Next
  <2> QED
    BY <2>1, TrapFromUserInv, LockKernelInv, LoadCr3Inv, SchedInv, TrapInv DEF CpuStep
<1>2. CASE UNCHANGED vars
  BY <1>2 DEF vars, KernelInv, TypeOK, OneCpuPerEnv, ActiveIsCurrent, Active, FreeListExact,
     Lists, ReceiverSleeps, NoPanic, LockedKernel, OwnAddressSpace, Id, LiveIds, IdleKept,
     CurenvInKernel
<1> QED BY <1>1, <1>2

\* The inductive invariant holds in every state the kernel reaches, with any
\* number of CPUs, slots and generations, for programs that keep the rules.
THEOREM KernelInvariant ==
  ASSUME Disciplined
  PROVE  Spec => []KernelInv
<1>1. KernelInv /\ [Next]_vars => KernelInv'
  BY StepInv
<1> QED BY <1>1, InitInv, PTL DEF Spec

\* The variables keep their types.
THEOREM TypeCorrect ==
  ASSUME Disciplined
  PROVE  Spec => []TypeOK
<1>1. KernelInv => TypeOK
  BY DEF KernelInv
<1> QED BY <1>1, KernelInvariant, PTL

\* No environment is ever the current one of two CPUs (sched.c:25-27).
THEOREM Scheduling ==
  ASSUME Disciplined
  PROVE  Spec => []OneCpuPerEnv
<1>1. KernelInv => OneCpuPerEnv
  BY DEF KernelInv
<1> QED BY <1>1, KernelInvariant, PTL

\* The free list is the FREE slots, each once (env.c:300, 544-546).
THEOREM FreeListCorrect ==
  ASSUME Disciplined
  PROVE  Spec => []FreeListExact
<1>1. KernelInv => FreeListExact
  BY DEF KernelInv
<1> QED BY <1>1, KernelInvariant, PTL

\* Running environments and zombies are each on a CPU, and user code runs for no
\* other (sched.c:42, env.c:560, trap.c:341).
THEOREM ActiveOnTheirCpu ==
  ASSUME Disciplined
  PROVE  Spec => []ActiveIsCurrent
<1>1. KernelInv => ActiveIsCurrent
  BY DEF KernelInv
<1> QED BY <1>1, KernelInvariant, PTL

\* A receiver that waits for a message sleeps until it has one (syscall.c:461-472).
THEOREM ReceiversSleep ==
  ASSUME Disciplined
  PROVE  Spec => []ReceiverSleeps
<1>1. KernelInv => ReceiverSleeps
  BY DEF KernelInv
<1> QED BY <1>1, KernelInvariant, PTL

\* None of the kernel's panics on these paths is reachable (trap.c:336,
\* spinlock.c:66 and 104, sched.c:78, PADDR at env.c:644, syscall.c:573).
THEOREM PanicFree ==
  ASSUME Disciplined
  PROVE  Spec => []NoPanic
<1>1. KernelInv => NoPanic
  BY DEF KernelInv
<1> QED BY <1>1, KernelInvariant, PTL

\* User code runs on its own page directory, and outside env_run's window no
\* CPU is on a directory that was freed (env.c:506-510, 642-644).
THEOREM AddressSpaces ==
  ASSUME Disciplined
  PROVE  Spec => []OwnAddressSpace
<1>1. KernelInv => OwnAddressSpace
  BY DEF KernelInv
<1> QED BY <1>1, KernelInvariant, PTL

-----------------------------------------------------------------------------
(* What a step does to the environments                                    *)

\* What CPU c runs next: its running environment, or a runnable one, and the
\* one it leaves is no zombie.
Chosen(c, e) ==
  /\ status[e] \in {"RUNNING", "RUNNABLE"}
  /\ e # curenv[c] => status[e] = "RUNNABLE"
  /\ curenv[c] # None => status[curenv[c]] \in {"RUNNING", "RUNNABLE", "NOT_RUNNABLE"}

\* Every way of entering env_run enters it with such an e.
LEMMA RunsRunnable ==
  ASSUME KernelInv, NEW c \in Cpu,
         \/ SchedNext(c) \/ SchedCurenv(c) \/ SchedIdle(c)
         \/ PageFaultUpcall(c) \/ ReturnToCurenv(c)
  PROVE  kernel_lock = c /\ \E e \in Env : EnvRun(c, e) /\ Chosen(c, e)
<1>1. TypeOK /\ LockedKernel /\ IdleKept /\ CurenvInKernel /\ ActiveIsCurrent
  BY DEF KernelInv
<1> USE NoneFacts
<1>2. pc[c] \in {"return", "sched"} =>
        /\ kernel_lock = c
        /\ curenv[c] # None => status[curenv[c]] \in {"RUNNING", "RUNNABLE", "NOT_RUNNABLE"}
  BY <1>1 DEF LockedKernel, CurenvInKernel
<1>3. CASE SchedNext(c)
  BY <1>2, <1>3 DEF SchedNext, Found, Ready, Chosen
<1>4. CASE SchedCurenv(c)
  <2>1. curenv[c] \in Env /\ status[curenv[c]] = "RUNNABLE" /\ EnvRun(c, curenv[c])
    BY <1>1, <1>4 DEF SchedCurenv, StayOnCurenv, LastId, TypeOK
  <2> QED BY <2>1, <1>2, <1>4 DEF SchedCurenv, Chosen
<1>5. CASE SchedIdle(c)
  <2>1. c \in Env /\ status[c] \in {"RUNNABLE", "RUNNING"} /\ c \in 0 .. NCPU - 1
    BY <1>1, SizeAssumption DEF IdleKept, Cpu, Env
  <2>2. EnvRun(c, c) /\ pc[c] = "sched"
    BY <2>1, <1>5 DEF SchedIdle
  <2>3. ASSUME status[c] = "RUNNING" PROVE curenv[c] = c
    <3>1. PICK d \in Cpu : curenv[d] = c
      BY <2>1, <2>3, <1>1 DEF ActiveIsCurrent, Active
    <3> QED BY <3>1, <2>1, <1>1 DEF IdleKept
  <2> QED BY <2>1, <2>2, <2>3, <1>2 DEF Chosen
<1>6. CASE PageFaultUpcall(c)
  BY <1>6, InUserTrap DEF PageFaultUpcall, Chosen
<1>7. CASE ReturnToCurenv(c)
  BY <1>1, <1>2, <1>7 DEF ReturnToCurenv, Chosen, TypeOK
<1> QED BY <1>3, <1>4, <1>5, <1>6, <1>7

\* The steps of a CPU, sorted by what they do to the environments.
LEMMA StepKinds ==
  ASSUME KernelInv, NEW c \in Cpu, CpuStep(c)
  PROVE  \/ kernel_lock = c /\ \E e \in Env : EnvRun(c, e) /\ Chosen(c, e)
         \/ ReapZombie(c) \/ FaultDestroy(c) \/ Syscall(c)
         \/ UNCHANGED <<status, ipc_recving, curenv>>
<1>1. CASE SchedNext(c) \/ SchedCurenv(c) \/ SchedIdle(c) \/ PageFaultUpcall(c) \/ ReturnToCurenv(c)
  BY <1>1, RunsRunnable
<1>2. CASE TrapFromUser(c) \/ LockKernel(c) \/ LoadCr3(c) \/ SchedMonitor(c) \/ Yield(c)
           \/ ReturnUnchanged(c) \/ ReturnToSched(c)
  BY <1>2 DEF TrapFromUser, LockKernel, LoadCr3, SchedMonitor, Yield, ReturnUnchanged, ReturnToSched, envVars
<1> QED BY <1>1, <1>2 DEF CpuStep, Sched, Trap

-----------------------------------------------------------------------------
(* The life cycle of an environment                                        *)

\* What is seen of an environment and of a CPU depends on these only.
LEMMA LifeKept ==
  ASSUME UNCHANGED <<status, ipc_recving, curenv>>
  PROVE  UNCHANGED Life!vars
BY DEF Life!vars, LifeOf, Executing, Active

\* The life of e alone changes.
LEMMA LifeMoves ==
  ASSUME NEW e \in Env, NEW l, LifeOf(e)' = l,
         \A f \in Env : f # e => LifeOf(f)' = LifeOf(f)
  PROVE  Life!Move(e, l)
BY DEF Life!Move

\* CPU c, in a user trap, executes its current environment, which runs.
LEMMA Executes ==
  ASSUME KernelInv, NEW c \in Cpu, UserTrap(c)
  PROVE  Life!Executes(c) /\ Executing(c) = curenv[c]
<1>1. curenv[c] \in Env /\ status[curenv[c]] = "RUNNING"
  BY InUserTrap
<1>2. Executing(c) = curenv[c] /\ Executing(c) # None
  BY <1>1, NoneFacts DEF Executing, Active
<1>3. LifeOf(curenv[c]) = "running"
  BY <1>1 DEF LifeOf
<1> QED BY <1>1, <1>2, <1>3 DEF Life!Executes

\* A call on CPU c that moves an environment of no CPU to a status that is no
\* CPU's, or marks one it leaves on its CPU, changes no CPU.
LEMMA CpusKept ==
  ASSUME NEW e \in Env, UNCHANGED curenv,
         \A f \in Env : f # e => status'[f] = status[f],
         Active(e)' <=> Active(e),
         curenv \in [Cpu -> Env \cup {None}]
  PROVE  UNCHANGED [d \in Cpu |-> Executing(d)]
<1>1. ASSUME NEW d \in Cpu PROVE Executing(d)' = Executing(d)
  BY DEF Executing, Active
<1> QED BY <1>1

\* CPU c, which has the lock, leaves its environment; no other CPU has it.
LEMMA CpuLeaves ==
  ASSUME KernelInv, NEW c \in Cpu, kernel_lock = c, curenv[c] \in Env,
         \A f \in Env : f # curenv[c] => status'[f] = status[f],
         ~Active(curenv[c])' \/ curenv'[c] = None,
         \A d \in Cpu : d # c => curenv'[d] = curenv[d],
         curenv'[c] \in {curenv[c], None}
  PROVE  Life!Leave(c)
<1>1. Executing(c)' = None
  BY DEF Executing, Active
<1>2. ASSUME NEW d \in Cpu, d # c PROVE Executing(d)' = Executing(d)
  <2>1. curenv'[d] = curenv[d] /\ curenv[d] # curenv[c]
    BY <1>2, Elsewhere
  <2>2. curenv[d] \in Env \cup {None}
    BY DEF KernelInv, TypeOK
  <2> QED BY <2>1, <2>2 DEF Executing, Active
<1> QED BY <1>1, <1>2 DEF Life!Leave

\* env_run: the environment is dispatched, unless it is the one that runs.
LEMMA EnvRunLife ==
  ASSUME KernelInv, NEW c \in Cpu, NEW e \in Env, kernel_lock = c,
         EnvRun(c, e), Chosen(c, e)
  PROVE  Life!Dispatch(c, e) \/ UNCHANGED Life!vars
<1> USE NoneFacts
<1>1. /\ status \in [Env -> Status] /\ curenv \in [Cpu -> Env \cup {None}]
      /\ ipc_recving' = ipc_recving /\ curenv' = [curenv EXCEPT ![c] = e]
      /\ status' = [f \in Env |-> IF f = e THEN "RUNNING"
                                  ELSE IF f = curenv[c] /\ status[f] = "RUNNING" THEN "RUNNABLE"
                                  ELSE status[f]]
  BY DEF KernelInv, TypeOK, EnvRun
<1>2. CASE e = curenv[c] /\ status[e] = "RUNNING"
  <2>1. status' = status
    BY <1>1, <1>2
  <2>2. curenv' = curenv
    BY <1>1, <1>2
  <2> QED BY <2>1, <2>2, <1>1, LifeKept
<1>3. CASE status[e] = "RUNNABLE"
  <2>1. LifeOf(e) = "ready" /\ LifeOf(e)' = "running"
    BY <1>1, <1>3 DEF LifeOf
  <2>2. Executing(c) # None => Life!Executes(c)
    <3>1. ASSUME Executing(c) # None
          PROVE  Executing(c) \in Env /\ LifeOf(Executing(c)) = "running"
      BY <1>1, <3>1 DEF Executing, Active, Chosen, LifeOf
    <3> QED BY <3>1 DEF Life!Executes
  <2>3. ASSUME NEW f \in Env, f # e, f = Executing(c) PROVE LifeOf(f)' = "ready"
    <3>1. f = curenv[c] /\ status[f] = "RUNNING"
      BY <2>3 DEF Executing, Active, Chosen
    <3> QED BY <3>1, <2>3, <1>1 DEF LifeOf
  <2>4. ASSUME NEW f \in Env, f # e, f # Executing(c) PROVE LifeOf(f)' = LifeOf(f)
    <3>1. status'[f] = status[f]
      BY <2>4, <1>1 DEF Executing, Active
    <3> QED BY <3>1, <1>1 DEF LifeOf
  <2>5. Executing(c)' = e
    BY <1>1 DEF Executing, Active
  <2>6. ASSUME NEW d \in Cpu, d # c PROVE Executing(d)' = Executing(d)
    <3>1. /\ curenv'[d] = curenv[d] /\ curenv[d] \in Env \cup {None}
          /\ curenv[d] # None => curenv[d] # curenv[c] /\ curenv[d] # e
      BY <2>6, <1>1, <1>3, Elsewhere DEF Active
    <3>2. curenv[d] # None => status'[curenv[d]] = status[curenv[d]]
      BY <3>1, <1>1
    <3> QED BY <3>1, <3>2 DEF Executing, Active
  <2> QED BY <2>1, <2>2, <2>3, <2>4, <2>5, <2>6 DEF Life!Dispatch
<1> QED BY <1>2, <1>3 DEF Chosen

\* env_free of a zombie, by the CPU it is on.
LEMMA ReapLife ==
  ASSUME KernelInv, NEW c \in Cpu, ReapZombie(c)
  PROVE  Life!Reap(c)
<1> USE NoneFacts
<1>1. /\ kernel_lock = c /\ curenv[c] \in Env /\ status[curenv[c]] = "DYING"
      /\ status \in [Env -> Status] /\ curenv \in [Cpu -> Env \cup {None}]
      /\ status' = [status EXCEPT ![curenv[c]] = "FREE"]
      /\ ipc_recving' = ipc_recving /\ curenv' = [curenv EXCEPT ![c] = None]
  BY InTrap DEF ReapZombie, EnvFree, KernelInv, TypeOK
<1>2. Executing(c) = curenv[c] /\ Executing(c) # None /\ LifeOf(curenv[c]) = "dying"
  BY <1>1 DEF Executing, Active, LifeOf
<1>3. Life!Move(curenv[c], "none")
  BY <1>1, LifeMoves DEF LifeOf
<1>4. Life!Leave(c)
  BY <1>1, CpuLeaves
<1> QED BY <1>1, <1>2, <1>3, <1>4 DEF Life!Reap

\* env_destroy: the environment ends itself, or kills another one.
LEMMA DestroyLife ==
  ASSUME KernelInv, NEW c \in Cpu, UserTrap(c), NEW e \in Env,
         status[e] \notin {"FREE", "DYING"}, EnvDestroy(c, e)
  PROVE  Life!End(c) \/ Life!Kill(c, e)
<1> USE NoneFacts
<1>1. /\ kernel_lock = c /\ curenv[c] \in Env /\ status[curenv[c]] = "RUNNING"
      /\ status \in [Env -> Status] /\ curenv \in [Cpu -> Env \cup {None}]
      /\ ipc_recving' = ipc_recving
      /\ curenv' = [curenv EXCEPT ![c] = IF e = curenv[c] THEN None ELSE curenv[c]]
  BY InUserTrap DEF EnvDestroy, EnvFree, KernelInv, TypeOK
<1>2. Life!Executes(c) /\ Executing(c) = curenv[c]
  BY Executes
<1>3. CASE e = curenv[c]
  <2>1. status' = [status EXCEPT ![e] = "FREE"] /\ curenv' = [curenv EXCEPT ![c] = None]
    BY <1>1, <1>3 DEF EnvDestroy, EnvFree
  <2>2. Life!Move(e, "none")
    BY <2>1, <1>1, LifeMoves DEF LifeOf
  <2>3. Life!Leave(c)
    BY <2>1, <1>1, <1>3, CpuLeaves
  <2> QED BY <2>2, <2>3, <1>1, <1>2, <1>3 DEF Life!End, Life!LeaveFor
<1>4. CASE e # curenv[c] /\ status[e] = "RUNNING"
  <2>1. status' = [status EXCEPT ![e] = "DYING"] /\ curenv' = curenv
    BY <1>1, <1>4 DEF EnvDestroy
  <2>2. Life!Move(e, "dying") /\ LifeOf(e) = "running"
    BY <2>1, <1>1, <1>4, LifeMoves DEF LifeOf
  <2>3. UNCHANGED [d \in Cpu |-> Executing(d)]
    BY <2>1, <1>1, <1>4, CpusKept DEF Active
  <2> QED BY <2>2, <2>3, <1>1, <1>2, <1>4 DEF Life!Kill
<1>5. CASE e # curenv[c] /\ status[e] # "RUNNING"
  <2>1. status' = [status EXCEPT ![e] = "FREE"] /\ curenv' = curenv
    BY <1>1, <1>5 DEF EnvDestroy, EnvFree
  <2>2. Life!Move(e, "none") /\ LifeOf(e) \in {"stopped", "receiving", "ready"}
    <3>1. status[e] \in {"RUNNABLE", "NOT_RUNNABLE"} /\ ipc_recving \in [Env -> BOOLEAN]
      BY <1>1, <1>5 DEF KernelInv, TypeOK, Status
    <3> QED BY <3>1, <2>1, <1>1, LifeMoves DEF LifeOf
  <2>3. UNCHANGED [d \in Cpu |-> Executing(d)]
    BY <2>1, <1>1, <1>5, CpusKept DEF Active
  <2> QED BY <2>2, <2>3, <1>1, <1>2, <1>5 DEF Life!Kill
<1> QED BY <1>3, <1>4, <1>5

\* The system calls that neither end an environment nor start to.
LEMMA CallLife ==
  ASSUME KernelInv, Disciplined, NEW c \in Cpu,
         \/ SysExofork(c) \/ SysIpcTrySend(c)
         \/ \E e \in Env, s \in {"RUNNABLE", "NOT_RUNNABLE"} :
               MayRestatus(c, e) /\ SysEnvSetStatus(c, e, s)
         \/ \E aligned \in BOOLEAN : MayReceive(aligned) /\ SysIpcRecv(c, aligned)
  PROVE  Life!Next
<1> USE NoneFacts
<1>1. UserTrap(c)
  BY DEF SysExofork, SysEnvSetStatus, SysIpcTrySend, SysIpcRecv
<1>2. /\ kernel_lock = c /\ curenv[c] \in Env /\ status[curenv[c]] = "RUNNING"
      /\ ~ipc_recving[curenv[c]]
      /\ status \in [Env -> Status] /\ curenv \in [Cpu -> Env \cup {None}]
      /\ ipc_recving \in [Env -> BOOLEAN]
  BY <1>1, InUserTrap DEF KernelInv, TypeOK
<1>3. Life!Executes(c) /\ Executing(c) = curenv[c]
  BY <1>1, Executes
<1>4. CASE SysExofork(c)
  <2> DEFINE e == Head(env_free_list)
  <2>1. e \in {f \in Env : status[f] = "FREE"}
    BY <1>4, ListsPop DEF SysExofork, KernelInv, FreeListExact, TypeOK
  <2> HIDE DEF e
  <2>2. /\ status' = [status EXCEPT ![e] = "NOT_RUNNABLE"] /\ curenv' = curenv
        /\ ipc_recving' = [ipc_recving EXCEPT ![e] = FALSE]
    BY <1>4 DEF SysExofork, EnvAlloc, e
  <2>3. Life!Move(e, "stopped") /\ LifeOf(e) = "none"
    BY <2>1, <2>2, <1>2, LifeMoves DEF LifeOf
  <2>4. UNCHANGED [d \in Cpu |-> Executing(d)]
    BY <2>1, <2>2, <1>2, CpusKept DEF Active
  <2>5. Life!Create(c, e)
    BY <2>1, <2>3, <2>4, <1>3 DEF Life!Create
  <2> QED BY <2>1, <2>5 DEF Life!Next
<1>5. ASSUME NEW e \in Env, NEW s \in {"RUNNABLE", "NOT_RUNNABLE"},
             MayRestatus(c, e), SysEnvSetStatus(c, e, s)
      PROVE  Life!Next
  <2>1. /\ e = curenv[c] \/ (status[e] \in {"RUNNABLE", "NOT_RUNNABLE"} /\ ~ipc_recving[e])
        /\ status' = [status EXCEPT ![e] = s]
    BY <1>5 DEF SysEnvSetStatus, MayRestatus, Disciplined
  <2>2. ipc_recving' = ipc_recving /\ curenv' = curenv
    BY <1>5 DEF SysEnvSetStatus
  <2>3. Life!Move(e, "stopped") \/ Life!Move(e, "ready")
    <3>1. LifeOf(e)' \in {"stopped", "ready"}
      BY <2>1, <2>2, <1>2 DEF LifeOf
    <3>2. \A f \in Env : f # e => LifeOf(f)' = LifeOf(f)
      BY <2>1, <2>2, <1>2 DEF LifeOf
    <3> QED BY <3>1, <3>2, LifeMoves
  <2>4. CASE e = curenv[c]
    <3>1. Life!Leave(c)
      BY <2>1, <2>2, <2>4, <1>2, CpuLeaves DEF Active
    <3>2. Life!StopItself(c)
      BY <3>1, <2>3, <2>4, <1>2, <1>3 DEF Life!StopItself, Life!LeaveFor
    <3> QED BY <3>2 DEF Life!Next
  <2>5. CASE status[e] \in {"RUNNABLE", "NOT_RUNNABLE"} /\ ~ipc_recving[e]
    <3>1. LifeOf(e) \in {"stopped", "ready"}
      BY <2>5 DEF LifeOf
    <3>2. UNCHANGED [d \in Cpu |-> Executing(d)]
      BY <2>1, <2>2, <2>5, <1>2, CpusKept DEF Active
    <3>3. Life!Restatus(c, e)
      BY <3>1, <3>2, <2>3, <1>3 DEF Life!Restatus
    <3> QED BY <3>3 DEF Life!Next
  <2> QED BY <2>1, <2>4, <2>5
<1>6. CASE SysIpcTrySend(c)
  <2>1. PICK id \in EnvId, e \in Env :
          /\ Resolve(c, id, e, FALSE) /\ ipc_recving[e]
          /\ status' = [status EXCEPT ![e] = "RUNNABLE"]
          /\ ipc_recving' = [ipc_recving EXCEPT ![e] = FALSE]
    BY <1>6 DEF SysIpcTrySend
  <2>2. status[e] = "NOT_RUNNABLE" /\ curenv' = curenv
    BY <2>1, <1>2, <1>6 DEF Resolve, KernelInv, ReceiverSleeps, SysIpcTrySend
  <2>3. Life!Move(e, "ready") /\ LifeOf(e) = "receiving"
    BY <2>1, <2>2, <1>2, LifeMoves DEF LifeOf
  <2>4. UNCHANGED [d \in Cpu |-> Executing(d)]
    BY <2>1, <2>2, <1>2, CpusKept DEF Active
  <2>5. Life!Deliver(c, e)
    BY <2>3, <2>4, <1>3 DEF Life!Deliver
  <2> QED BY <2>5 DEF Life!Next
<1>7. ASSUME NEW aligned \in BOOLEAN, MayReceive(aligned), SysIpcRecv(c, aligned)
      PROVE  Life!Next
  <2>1. /\ status' = [status EXCEPT ![curenv[c]] = "NOT_RUNNABLE"] /\ curenv' = curenv
        /\ ipc_recving' = [ipc_recving EXCEPT ![curenv[c]] = TRUE]
    BY <1>2, <1>7 DEF SysIpcRecv, MayReceive, Disciplined
  <2>2. Life!Move(curenv[c], "receiving")
    BY <2>1, <1>2, LifeMoves DEF LifeOf
  <2>3. Life!Leave(c)
    BY <2>1, <1>2, CpuLeaves DEF Active
  <2>4. Life!Receive(c)
    BY <2>2, <2>3, <1>2, <1>3 DEF Life!Receive, Life!LeaveFor
  <2> QED BY <2>4 DEF Life!Next
<1> QED BY <1>4, <1>5, <1>6, <1>7

\* Every step of the kernel is a step of the life cycle, or not seen in it.
LEMMA LifeStep ==
  ASSUME KernelInv, Disciplined, [Next]_vars
  PROVE  [Life!Next]_(Life!vars)
<1>1. CASE UNCHANGED vars
  BY <1>1, LifeKept DEF vars
<1>2. CASE Next
  <2>1. PICK c \in Cpu : CpuStep(c)
    BY <1>2 DEF Next
  <2>2. CASE UNCHANGED <<status, ipc_recving, curenv>>
    BY <2>2, LifeKept
  <2>3. CASE kernel_lock = c /\ \E e \in Env : EnvRun(c, e) /\ Chosen(c, e)
    BY <2>3, EnvRunLife DEF Life!Next
  <2>4. CASE ReapZombie(c)
    BY <2>4, ReapLife DEF Life!Next
  <2>5. CASE FaultDestroy(c)
    <3>1. /\ UserTrap(c) /\ curenv[c] \in Env /\ status[curenv[c]] = "RUNNING"
          /\ EnvDestroy(c, curenv[c])
      BY <2>5, InUserTrap DEF FaultDestroy
    <3> QED BY <3>1, DestroyLife DEF Life!Next
  <2>6. ASSUME NEW e \in Env, MayDestroy(e), SysEnvDestroy(c, e) PROVE Life!Next
    <3>1. UserTrap(c) /\ status[e] # "DYING" /\ EnvDestroy(c, e)
      BY <2>6 DEF SysEnvDestroy, MayDestroy, Disciplined
    <3>2. status[e] # "FREE"
      BY <2>6, <3>1, ResolveUser DEF SysEnvDestroy
    <3> QED BY <3>1, <3>2, DestroyLife DEF Life!Next
  <2>7. CASE Syscall(c)
    BY <2>6, <2>7, CallLife DEF Syscall
  <2> QED BY <2>1, <2>2, <2>3, <2>4, <2>5, <2>7, StepKinds
<1> QED BY <1>1, <1>2

\* What programs see of the kernel, on any number of CPUs, is one atomic step
\* of the life cycle after the other: environments are created, dispatched, woken
\* and killed as LifeCycle says (env.c:243-320 and 555-647, sched.c:12-79,
\* trap.c:330-370, syscall.c:53-143 and 380-580).
THEOREM LivesAsPromised ==
  ASSUME Disciplined
  PROVE  Spec => ImplementsLifeCycle
<1>1. Init => Life!Init
  <2> SUFFICES ASSUME Init PROVE Life!Init
    OBVIOUS
  <2>1. \A e \in Env : LifeOf(e) \in {"none", "ready"}
    BY DEF Init, LifeOf
  <2>2. \A c \in Cpu : Executing(c) = None
    BY DEF Init, Executing
  <2> QED BY <2>1, <2>2 DEF Life!Init
<1>2. KernelInv /\ [Next]_vars => [Life!Next]_(Life!vars)
  BY LifeStep
<1> QED BY <1>1, <1>2, KernelInvariant, PTL DEF Spec, ImplementsLifeCycle, Life!Spec

\* At every moment an environment that runs or dies is on one CPU, and a CPU
\* executes no other (sched.c:25-27, env.c:557-563).
THEOREM OnOnePlace ==
  ASSUME Disciplined
  PROVE  Spec => []Life!OnePlace
<1>1. ASSUME KernelInv PROVE Life!OnePlace
  <2>1. TypeOK /\ ActiveIsCurrent /\ OneCpuPerEnv
    BY <1>1 DEF KernelInv
  <2>2. \A e \in Env : (LifeOf(e) \in {"running", "dying"}) <=> Active(e)
    BY <2>1 DEF LifeOf, Active, TypeOK, Status
  <2>3. ASSUME NEW e \in Env, Active(e) PROVE \E c \in Cpu : Executing(c) = e
    BY <2>1, <2>3, NoneFacts DEF ActiveIsCurrent, Executing
  <2>4. ASSUME NEW e \in Env, NEW c \in Cpu, NEW d \in Cpu,
               Executing(c) = e, Executing(d) = e
        PROVE  c = d /\ Active(e)
    BY <2>1, <2>4, NoneFacts DEF OneCpuPerEnv, Executing
  <2> QED BY <2>2, <2>3, <2>4 DEF Life!OnePlace
<1> QED BY <1>1, KernelInvariant, PTL

=============================================================================
