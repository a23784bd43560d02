------------------------ MODULE ExceptionStackProofs ------------------------
(***************************************************************************)
(* The upcall of a page fault, for every size of the exception stack, and  *)
(* however deep faults nest: frames stay on the exception stack; they are  *)
(* what the kernel wrote until their handler has returned; and the code    *)
(* that was interrupted goes on with the registers and words it had.       *)
(*                                                                         *)
(* The invariant Nested says of every fault that has not returned how far  *)
(* its upcall is, in terms of the words at the stack pointer and above,    *)
(* and that whatever runs now has left the words in use before it alone.   *)
(* Returning from a fault then restores the invariant of the fault below.  *)
(***************************************************************************)
EXTENDS ExceptionStack, TLAPS

\* A frame whose lowest word is on the exception stack is on it as a whole,
\* although the kernel checks only where it begins (trap.c:473).
LEMMA WholeFrame ==
  ASSUME NEW esp, FrameAllowed(NewFrame(esp))
  PROVE  NewFrame(esp) .. NewFrame(esp) + FRAME - 1 \subseteq Stack
<1>1. CASE esp \in Stack
  <2>1. NewFrame(esp) = esp - 8 /\ esp - 8 \in Stack
    BY <1>1, PageAssumption DEF FrameAllowed, NewFrame, FRAME, Stack
  <2>. QED
    BY <1>1, <2>1, PageAssumption DEF FRAME, Stack
<1>2. CASE esp \notin Stack
  <2>1. NewFrame(esp) = PAGE - 7
    BY <1>2 DEF NewFrame, FRAME
  <2>. QED
    BY <2>1, PageAssumption DEF FRAME, Stack
<1>. QED
  BY <1>1, <1>2

\* The kernel never writes a frame where nothing is mapped, however deep faults
\* nest (trap.c:444-484).
THEOREM FramesFit == Spec => []NoPanic
<1>1. Init => NoPanic
  BY DEF Init, NoPanic
<1>2. NoPanic /\ [Next]_vars => NoPanic'
  <2>. SUFFICES ASSUME NoPanic, [Next]_vars, status' # status PROVE NoPanic'
    BY DEF NoPanic
  <2>1. PageFault => NoPanic'
    <3>. SUFFICES ASSUME PageFault PROVE NoPanic'
      OBVIOUS
    <3>1. CASE ~upcall \/ ~FrameAllowed(NewFrame(reg.esp))
      BY <3>1 DEF PageFault, NoPanic
    <3>2. CASE FrameAllowed(NewFrame(reg.esp)) /\ upcall
      <4>1. NewFrame(reg.esp) .. NewFrame(reg.esp) + FRAME - 1 \subseteq Stack
        BY <3>2, WholeFrame
      <4>2. UNCHANGED status
        BY <3>2, <4>1 DEF PageFault
      <4>. QED
        BY <4>2
    <3>. QED
      BY <3>1, <3>2
  <2>2. CASE UserFault \/ HandlerFault \/ StoreFault
    BY <2>1, <2>2 DEF UserFault, HandlerFault, StoreFault
  <2>3. CASE PushLocal \/ PushArg \/ Call
    BY <2>1, <2>3 DEF PushLocal, PushArg, Call, Push
  <2>. QED
    BY <2>2, <2>3 DEF Next, Handler, Upcall, UserStep, SetPgfaultHandler, UnmapStack,
       SubLocals, HandlerReturn, Skip, LoadEip, LoadEsp, StoreEip, SetEsp, Popal, Popf,
       PopEsp, Ret, Step, vars
<1>. QED
  BY <1>1, <1>2, PTL DEF Spec

-----------------------------------------------------------------------------
(* Nested faults                                                           *)

\* The state of the code at nesting depth d: what it was interrupted in, or for
\* the innermost what it is.
RegAt(d) == IF d = depth THEN reg ELSE saved[d + 1].reg
XsAt(d) == IF d = depth THEN xs ELSE saved[d + 1].xs
NsAt(d) == IF d = depth THEN ns ELSE saved[d + 1].ns

\* What the kernel has pushed of the registers, and all of its frame.
Pushed(X, f) == /\ X[f.utf + 2] = f.reg.eax /\ X[f.utf + 3] = f.reg.ebx
                /\ X[f.utf + 4] = <<f.reg.eip, 0>> /\ X[f.utf + 5] = f.reg.eflags
Above(X, f, n) == X[f.utf + 6] = <<"ptr", f.reg.esp - n>>
Framed(d, X, f) == /\ X[f.utf] = <<"va", d - 1>> /\ X[f.utf + 1] = <<"err", d - 1>>
                   /\ Pushed(X, f) /\ Above(X, f, 0)

\* The address that ret goes to, below what was in use when f was interrupted.
Landing(X, N, f) ==
  IF f.reg.esp \in Stack THEN X[f.reg.esp - 1] = <<f.reg.eip, 0>>
                         ELSE N[f.reg.esp - 1] = <<f.reg.eip, 0>>

\* Where a frame is.  The program, the handler and the upcall's store can fault.
Placed(d, f) ==
  /\ f.utf \in Stack /\ f.utf + 6 < PAGE
  /\ IF d = 1 THEN f.reg.eip = "user" /\ f.reg.esp \in UserEsp
              ELSE /\ f.reg.eip \in {"handler", "store"}
                   /\ f.reg.esp \in Stack /\ f.utf = f.reg.esp - 8

\* How far the upcall, or the handler it calls, is with the frame of f.
Unwinding(d, r, X, N, f) ==
  \/ r.eip = "pusharg" /\ r.esp = f.utf /\ Framed(d, X, f)
  \/ /\ r.eip = "call" /\ r.esp = f.utf - 1 /\ r.esp \in Stack
     /\ Framed(d, X, f) /\ X[f.utf - 1] = <<"ptr", f.utf>>
  \/ /\ r.eip = "handler" /\ r.esp <= f.utf - 2 /\ r.esp \in Stack
     /\ Framed(d, X, f) /\ X[f.utf - 1] = <<"ptr", f.utf>> /\ X[f.utf - 2] = <<"skip", 0>>
  \/ r.eip = "skip" /\ r.esp = f.utf - 1 /\ Pushed(X, f) /\ Above(X, f, 0)
  \/ r.eip = "loadeip" /\ r.esp = f.utf + 2 /\ Pushed(X, f) /\ Above(X, f, 0)
  \/ /\ r.eip = "loadesp" /\ r.esp = f.utf + 2 /\ Pushed(X, f) /\ Above(X, f, 0)
     /\ r.eax = <<f.reg.eip, 0>>
  \/ /\ r.eip = "store" /\ r.esp = f.utf + 2 /\ Pushed(X, f) /\ Above(X, f, 0)
     /\ r.eax = <<f.reg.eip, 0>> /\ r.ebx = <<"ptr", f.reg.esp - 1>>
  \/ /\ r.eip = "setesp" /\ r.esp = f.utf + 2 /\ Pushed(X, f)
     /\ r.ebx = <<"ptr", f.reg.esp - 1>> /\ Landing(X, N, f)
  \/ /\ r.eip = "popal" /\ r.esp = f.utf + 2 /\ Pushed(X, f)
     /\ Above(X, f, 1) /\ Landing(X, N, f)
  \/ /\ r.eip = "popf" /\ r.esp = f.utf + 4 /\ X[f.utf + 5] = f.reg.eflags
     /\ r.eax = f.reg.eax /\ r.ebx = f.reg.ebx
     /\ Above(X, f, 1) /\ Landing(X, N, f)
  \/ /\ r.eip = "popesp" /\ r.esp = f.utf + 6
     /\ r.eax = f.reg.eax /\ r.ebx = f.reg.ebx /\ r.eflags = f.reg.eflags
     /\ Above(X, f, 1) /\ Landing(X, N, f)
  \/ /\ r.eip = "ret" /\ r.esp = f.reg.esp - 1
     /\ r.eax = f.reg.eax /\ r.ebx = f.reg.ebx /\ r.eflags = f.reg.eflags
     /\ Landing(X, N, f)

\* What was in use when f was interrupted, and is above the code that runs now.
Keeps(r, X, N, f) ==
  /\ f.reg.esp \in Stack => /\ r.esp < f.reg.esp
                            /\ \A i \in Stack : i >= f.reg.esp => X[i] = f.xs[i]
  /\ \A i \in UserStack : i >= f.reg.esp => N[i] = f.ns[i]

Level(d, r, X, N) == /\ Placed(d, saved[d])
                     /\ Unwinding(d, r, X, N, saved[d])
                     /\ \A e \in 1 .. d : Keeps(r, X, N, saved[e])

Nested == /\ depth = 0 => reg.eip = "user" /\ reg.esp \in UserEsp
          /\ \A d \in 1 .. depth : Level(d, RegAt(d), XsAt(d), NsAt(d))

Inv == TypeOK /\ Nested

-----------------------------------------------------------------------------
\* Negative addresses are not on the exception stack.
LEMMA StacksApart ==
  \A a \in UserStack : a \in Int /\ a < -1 /\ a \notin Stack
BY StackAssumption, PageAssumption DEF Stack

\* Who runs: the program at depth 0, or what handles the last fault.
LEMMA Innermost ==
  ASSUME Inv
  PROVE  /\ depth \in Nat
         /\ reg.eip = "user" <=> depth = 0
         /\ reg.eip = "user" => reg.esp \in UserEsp
         /\ depth # 0 => depth \in 1 .. depth /\ Level(depth, reg, xs, ns)
                         /\ saved[depth] \in Interrupted
<1>1. depth \in Nat
  BY DEF Inv, TypeOK, depth
<1>2. CASE depth = 0
  BY <1>2 DEF Inv, Nested
<1>3. CASE depth # 0
  <2>1. depth \in 1 .. depth
    BY <1>1, <1>3
  <2>2. Level(depth, RegAt(depth), XsAt(depth), NsAt(depth))
    BY <2>1 DEF Inv, Nested
  <2>3. Level(depth, reg, xs, ns)
    BY <2>2 DEF RegAt, XsAt, NsAt
  <2>4. reg.eip # "user"
    BY <2>3 DEF Level, Unwinding
  <2>5. saved[depth] \in Interrupted
    BY <2>1 DEF Inv, TypeOK, depth
  <2> QED BY <1>1, <1>3, <2>1, <2>3, <2>4, <2>5
<1> QED BY <1>2, <1>3

\* A step that saves nothing changes the innermost code only.
LEMMA SameNesting ==
  ASSUME Inv, saved' = saved, TypeOK', depth # 0,
         Level(depth, reg', xs', ns')
  PROVE  Inv'
<1>1. depth' = depth /\ depth \in Nat
  BY Innermost DEF depth
<1>2. ASSUME NEW d \in 1 .. depth
      PROVE  Level(d, RegAt(d), XsAt(d), NsAt(d))'
  <2>1. CASE d = depth
    <3>1. RegAt(d)' = reg' /\ XsAt(d)' = xs' /\ NsAt(d)' = ns'
      BY <1>1, <2>1 DEF RegAt, XsAt, NsAt
    <3> QED BY <3>1, <2>1 DEF Level
  <2>2. CASE d # depth
    <3>1. RegAt(d)' = RegAt(d) /\ XsAt(d)' = XsAt(d) /\ NsAt(d)' = NsAt(d)
      BY <1>1, <2>2 DEF RegAt, XsAt, NsAt
    <3>2. Level(d, RegAt(d), XsAt(d), NsAt(d))
      BY DEF Inv, Nested
    <3> QED BY <3>1, <3>2 DEF Level
  <2> QED BY <2>1, <2>2
<1> QED BY <1>1, <1>2 DEF Inv, Nested

\* What one frame's place says of the addresses around it.
LEMMA PlaceFacts ==
  ASSUME Inv, depth # 0
  PROVE  /\ saved[depth].utf \in Int /\ saved[depth].reg.esp \in Int /\ reg.esp \in Int
         /\ \A i \in 0 .. 6 : saved[depth].utf + i \in Stack
         /\ saved[depth].reg.esp \in Stack =>
              saved[depth].utf + 7 = saved[depth].reg.esp - 1 /\ saved[depth].utf + 7 \in Stack
         /\ saved[depth].reg.esp \notin Stack => depth = 1 /\ saved[depth].reg.esp - 1 \in UserStack
         /\ saved[depth].reg.esp - 1 \in UserStack => depth = 1 /\ saved[depth].reg.esp \notin Stack
<1> DEFINE f == saved[depth]
<1>1. Placed(depth, f) /\ f \in Interrupted
  BY Innermost DEF Level
<1>2. f.utf \in Stack /\ f.reg.esp \in Int /\ reg.esp \in Int
  BY <1>1 DEF Inv, TypeOK, Interrupted, Registers
<1>3. \A i \in 0 .. 6 : f.utf + i \in Stack
  BY <1>1, <1>2, PageAssumption DEF Placed, Stack
<1>4. f.reg.esp \in Stack => f.utf + 7 = f.reg.esp - 1 /\ f.utf + 7 \in Stack
  <2>1. SUFFICES ASSUME f.reg.esp \in Stack PROVE f.utf = f.reg.esp - 8
    BY <1>2, PageAssumption DEF Stack
  <2>2. depth # 1
    BY <1>1, <2>1, StacksApart DEF Placed, UserEsp
  <2> QED BY <1>1, <2>2 DEF Placed
<1>5. f.reg.esp \notin Stack => depth = 1 /\ f.reg.esp - 1 \in UserStack
  BY <1>1 DEF Placed, UserEsp
<1>6. f.reg.esp - 1 \in UserStack => f.reg.esp \notin Stack
  BY <1>2, StacksApart, PageAssumption DEF Stack
<1> QED BY <1>2, <1>3, <1>4, <1>5, <1>6 DEF Stack

\* The stack grows downwards, from fault to fault too.
LEMMA Descends ==
  ASSUME Inv, depth # 0, NEW e \in 1 .. depth, e # depth, saved[e].reg.esp \in Stack
  PROVE  saved[depth].reg.esp < saved[e].reg.esp
<1>1. depth \in Nat /\ depth - 1 \in 1 .. depth /\ e \in 1 .. depth - 1
  BY Innermost
<1>2. Level(depth - 1, RegAt(depth - 1), XsAt(depth - 1), NsAt(depth - 1))
  BY <1>1 DEF Inv, Nested
<1>3. RegAt(depth - 1) = saved[depth].reg
  <2>1. depth - 1 # depth /\ (depth - 1) + 1 = depth
    BY <1>1
  <2> QED BY <2>1 DEF RegAt
<1> QED BY <1>1, <1>2, <1>3 DEF Level, Keeps

\* What a step may write without touching what interrupted code uses.
LEMMA KeepsAll ==
  ASSUME Inv, depth # 0, NEW r, NEW X, NEW N,
         saved[depth].reg.esp \in Stack => r.esp \in Int /\ r.esp < saved[depth].reg.esp,
         saved[depth].reg.esp \in Stack =>
           \A i \in Stack : i >= saved[depth].reg.esp => X[i] = xs[i],
         \A i \in UserStack : depth # 1 \/ i >= saved[depth].reg.esp => N[i] = ns[i]
  PROVE  \A e \in 1 .. depth : Keeps(r, X, N, saved[e])
<1> SUFFICES ASSUME NEW e \in 1 .. depth PROVE Keeps(r, X, N, saved[e])
  OBVIOUS
<1>1. depth \in Nat /\ Keeps(reg, xs, ns, saved[e]) /\ saved[e] \in Interrupted
  BY Innermost DEF Level, Inv, TypeOK, depth
<1>2. saved[e].reg.esp \in Int /\ saved[depth].reg.esp \in Int
  BY <1>1, PlaceFacts DEF Interrupted, Registers
<1>3. \A i \in UserStack : i >= saved[e].reg.esp => N[i] = ns[i]
  <2>1. depth = 1 => e = depth
    OBVIOUS
  <2> QED BY <2>1
<1>4. ASSUME saved[e].reg.esp \in Stack
      PROVE  /\ r.esp < saved[e].reg.esp
             /\ \A i \in Stack : i >= saved[e].reg.esp => X[i] = xs[i]
  <2>1. saved[depth].reg.esp \in Stack
    <3>1. CASE e = depth
      BY <3>1, <1>4
    <3>2. CASE e # depth
      BY <3>2, <1>1, PlaceFacts
    <3> QED BY <3>1, <3>2
  <2>2. saved[depth].reg.esp <= saved[e].reg.esp
    BY <1>2, <1>4, Descends
  <2> QED BY <1>2, <2>1, <2>2 DEF Stack
<1> QED BY <1>1, <1>3, <1>4 DEF Keeps

\* A step of the innermost code that saves nothing keeps the invariant if what
\* it writes is below what was interrupted, and its place is one of the upcall.
LEMMA StepsOn ==
  ASSUME Inv, depth # 0, saved' = saved, TypeOK',
         Unwinding(depth, reg', xs', ns', saved[depth]),
         saved[depth].reg.esp \in Stack => reg'.esp < saved[depth].reg.esp,
         saved[depth].reg.esp \in Stack =>
           \A i \in Stack : i >= saved[depth].reg.esp => xs'[i] = xs[i],
         \A i \in UserStack : depth # 1 \/ i >= saved[depth].reg.esp => ns'[i] = ns[i]
  PROVE  Inv'
<1>1. reg'.esp \in Int
  BY DEF TypeOK, Registers
<1>2. \A e \in 1 .. depth : Keeps(reg', xs', ns', saved[e])
  BY <1>1, KeepsAll
<1>3. Placed(depth, saved[depth])
  BY Innermost DEF Level
<1>4. Level(depth, reg', xs', ns')
  BY <1>2, <1>3 DEF Level
<1> QED BY <1>4, SameNesting

\* A page fault that ends the environment, or the kernel, changes its status only.
LEMMA FaultEnds ==
  ASSUME Inv, UNCHANGED <<reg, xs, saved, ns, xpage, upcall>>,
         status' \in {"running", "destroyed", "panic"}
  PROVE  Inv'
<1>1. TypeOK'
  BY DEF Inv, TypeOK
<1>2. CASE depth = 0
  <2>1. depth' = 0
    BY <1>2 DEF depth
  <2> QED BY <1>1, <1>2, <2>1, Innermost DEF Inv, Nested
<1>3. CASE depth # 0
  <2>1. Level(depth, reg', xs', ns')
    BY <1>3, Innermost
  <2> QED BY <1>1, <1>3, <2>1, SameNesting
<1> QED BY <1>2, <1>3

\* The words of a new frame.
FrameOf(u, X) ==
  /\ X \in [Stack -> Word]
  /\ X[u] = <<"va", depth>> /\ X[u + 1] = <<"err", depth>>
  /\ X[u + 2] = reg.eax /\ X[u + 3] = reg.ebx /\ X[u + 4] = <<reg.eip, 0>>
  /\ X[u + 5] = reg.eflags /\ X[u + 6] = <<"ptr", reg.esp>>
  /\ \A i \in Stack : i < u \/ i > u + 6 => X[i] = xs[i]

\* page_fault_handler pushes a frame below what is in use, or ends it all.
LEMMA FaultPushes ==
  ASSUME Inv, PageFault
  PROVE  \/ UNCHANGED <<reg, xs, saved, ns, xpage, upcall>> /\ status' \in {"destroyed", "panic"}
         \/ \E u \in Stack :
              /\ u = NewFrame(reg.esp) /\ u + 6 \in Stack /\ u + 6 < PAGE /\ FrameOf(u, xs')
              /\ saved' = Append(saved, [reg |-> reg, xs |-> xs, ns |-> ns, utf |-> u])
              /\ reg' = [reg EXCEPT !.eip = "pusharg", !.esp = u]
              /\ UNCHANGED <<status, ns, xpage, upcall>>
<1> DEFINE u == NewFrame(reg.esp)
           frame == <<<<"va", depth>>, <<"err", depth>>, reg.eax, reg.ebx,
                      <<reg.eip, 0>>, reg.eflags, <<"ptr", reg.esp>>>>
<1>1. CASE ~upcall \/ ~FrameAllowed(u) \/ ~(u .. u + FRAME - 1 \subseteq Stack)
  BY <1>1 DEF PageFault
<1>2. CASE upcall /\ FrameAllowed(u) /\ u .. u + FRAME - 1 \subseteq Stack
  <2>1. /\ xs' = [i \in Stack |-> IF i \in u .. u + FRAME - 1 THEN frame[i - u + 1] ELSE xs[i]]
        /\ saved' = Append(saved, [reg |-> reg, xs |-> xs, ns |-> ns, utf |-> u])
        /\ reg' = [reg EXCEPT !.eip = "pusharg", !.esp = u]
        /\ UNCHANGED <<status, ns, xpage, upcall>>
    BY <1>2 DEF PageFault
  <2>2. u \in Stack /\ u \in Int /\ \A i \in 0 .. 6 : u + i \in Stack
    BY <1>2, PageAssumption DEF FrameAllowed, FRAME, Stack
  <2>3. /\ reg.eax \in Word /\ reg.ebx \in Word /\ <<reg.eip, 0>> \in Word
        /\ reg.eflags \in Word /\ <<"ptr", reg.esp>> \in Word
        /\ <<"va", depth>> \in Word /\ <<"err", depth>> \in Word /\ xs \in [Stack -> Word]
    BY Innermost DEF Inv, TypeOK, Registers, Word
  <2>4. /\ frame[1] = <<"va", depth>> /\ frame[2] = <<"err", depth>> /\ frame[3] = reg.eax
        /\ frame[4] = reg.ebx /\ frame[5] = <<reg.eip, 0>> /\ frame[6] = reg.eflags
        /\ frame[7] = <<"ptr", reg.esp>>
    OBVIOUS
  <2> HIDE DEF u, frame
  <2>5. \A i \in Stack : i \in u .. u + FRAME - 1 => i - u + 1 \in {1, 2, 3, 4, 5, 6, 7}
    BY <2>2 DEF FRAME, Stack
  <2>6. xs' \in [Stack -> Word]
    <3>1. \A k \in {1, 2, 3, 4, 5, 6, 7} : frame[k] \in Word
      BY <2>3, <2>4
    <3> QED BY <2>1, <2>3, <2>5, <3>1
  <2>7. \A k \in 0 .. 6 : xs'[u + k] = frame[k + 1]
    <3>1. SUFFICES ASSUME NEW k \in 0 .. 6 PROVE xs'[u + k] = frame[k + 1]
      OBVIOUS
    <3>2. u + k \in Stack /\ u + k \in u .. u + FRAME - 1 /\ (u + k) - u + 1 = k + 1
      BY <2>2 DEF FRAME
    <3> QED BY <2>1, <3>2
  <2>8. /\ xs'[u + 0] = frame[1] /\ xs'[u + 1] = frame[2] /\ xs'[u + 2] = frame[3]
        /\ xs'[u + 3] = frame[4] /\ xs'[u + 4] = frame[5] /\ xs'[u + 5] = frame[6]
        /\ xs'[u + 6] = frame[7]
    BY <2>7
  <2>9. \A i \in Stack : i < u \/ i > u + 6 => xs'[i] = xs[i]
    <3>1. \A i \in Stack : i < u \/ i > u + 6 => i \notin u .. u + FRAME - 1
      BY <2>2, PageAssumption DEF FRAME, Stack
    <3> QED BY <2>1, <3>1
  <2>10. FrameOf(u, xs')
    BY <2>2, <2>4, <2>6, <2>8, <2>9 DEF FrameOf
  <2>11. u = NewFrame(reg.esp)
    BY DEF u
  <2>12. u + 6 \in Stack /\ u + 6 < PAGE
    BY <2>2, PageAssumption DEF Stack
  <2> QED BY <2>1, <2>2, <2>10, <2>11, <2>12
<1> QED BY <1>1, <1>2

\* A page fault of the program, the handler or the upcall's store nests.
LEMMA PageFaultNests ==
  ASSUME Inv, PageFault, reg.eip \in {"user", "handler", "store"}
  PROVE  Inv'
<1>1. CASE UNCHANGED <<reg, xs, saved, ns, xpage, upcall>> /\ status' \in {"destroyed", "panic"}
  BY <1>1, FaultEnds
<1>2. ASSUME NEW u \in Stack,
             u = NewFrame(reg.esp), u + 6 \in Stack, u + 6 < PAGE, FrameOf(u, xs'),
             saved' = Append(saved, [reg |-> reg, xs |-> xs, ns |-> ns, utf |-> u]),
             reg' = [reg EXCEPT !.eip = "pusharg", !.esp = u],
             UNCHANGED <<status, ns, xpage, upcall>>
      PROVE  Inv'
  <2> DEFINE new == [reg |-> reg, xs |-> xs, ns |-> ns, utf |-> u]
  <2>1. /\ reg \in Registers /\ xs \in [Stack -> Word] /\ ns \in [UserStack -> Word]
        /\ saved \in Seq(Interrupted) /\ depth \in Nat /\ u \in Int /\ reg.esp \in Int
    BY Innermost, PageAssumption DEF Inv, TypeOK, Registers, Stack
  <2>2. new \in Interrupted
    BY <2>1 DEF Interrupted
  <2>3. /\ new.reg = reg /\ new.xs = xs /\ new.ns = ns /\ new.utf = u
    OBVIOUS
  <2>4. PICK n : n = new
    OBVIOUS
  <2>5. /\ n \in Interrupted /\ n.reg = reg /\ n.xs = xs /\ n.ns = ns /\ n.utf = u
        /\ saved' = Append(saved, n)
    BY <1>2, <2>2, <2>3, <2>4
  <2> HIDE DEF new
  <2>6. /\ saved' \in Seq(Interrupted) /\ depth' = depth + 1 /\ saved'[depth + 1] = n
        /\ \A d \in 1 .. depth : saved'[d] = saved[d]
    BY <2>1, <2>5 DEF depth
  <2>7. reg' \in Registers /\ reg'.eip = "pusharg" /\ reg'.esp = u
    BY <1>2, <2>1 DEF Registers, Label
  <2>8. TypeOK'
    BY <1>2, <2>6, <2>7 DEF Inv, TypeOK, FrameOf
  <2>9. Placed(depth + 1, n)
    <3>1. CASE reg.eip = "user"
      <4>1. depth = 0 /\ reg.esp \in UserEsp
        BY <3>1, Innermost
      <4> QED BY <1>2, <2>5, <3>1, <4>1 DEF Placed
    <3>2. CASE reg.eip # "user"
      <4>1. depth # 0 /\ Level(depth, reg, xs, ns) /\ reg.eip \in {"handler", "store"}
        BY <1>2, <3>2, Innermost
      <4>2. reg.esp \in Stack
        <5>1. Unwinding(depth, reg, xs, ns, saved[depth])
          BY <4>1 DEF Level
        <5>2. saved[depth].utf + 2 \in Stack
          BY <4>1, PlaceFacts
        <5> QED BY <4>1, <5>1, <5>2 DEF Unwinding
      <4>3. u = reg.esp - 8
        BY <1>2, <2>1, <4>2 DEF NewFrame, FRAME
      <4>4. depth + 1 # 1
        BY <2>1, <4>1
      <4> QED BY <1>2, <2>5, <4>1, <4>2, <4>3, <4>4 DEF Placed
    <3> QED BY <3>1, <3>2
  <2>10. Unwinding(depth + 1, reg', xs', ns', n)
    <3>1. (depth + 1) - 1 = depth /\ reg.esp - 0 = reg.esp
      BY <2>1
    <3>2. Framed(depth + 1, xs', n)
      BY <1>2, <2>5, <3>1 DEF FrameOf, Framed, Pushed, Above
    <3> QED BY <2>5, <2>7, <3>2 DEF Unwinding
  <2>11. reg.esp \in Stack => u + 6 < reg.esp /\ depth # 0
    <3>1. reg.esp \in Stack => depth # 0
      BY Innermost, StacksApart DEF UserEsp
    <3>2. reg.esp \in Stack => u = reg.esp - 8
      BY <1>2, <2>1 DEF NewFrame, FRAME
    <3> QED BY <2>1, <3>1, <3>2
  <2>12. Keeps(reg', xs', ns', n)
    <3>1. \A i \in Stack : i \in Int
      BY PageAssumption DEF Stack
    <3> QED BY <1>2, <2>1, <2>5, <2>7, <2>11, <3>1 DEF Keeps, FrameOf
  <2>13. ASSUME NEW e \in 1 .. depth
         PROVE  Keeps(reg', xs', ns', saved[e])
    <3>1. depth # 0 /\ Level(depth, reg, xs, ns) /\ Keeps(reg, xs, ns, saved[e])
      BY <2>1, Innermost DEF Level
    <3>2. saved[e] \in Interrupted
      BY DEF Inv, TypeOK, depth
    <3>3. saved[e].reg.esp \in Stack => reg.esp < saved[e].reg.esp
      BY <3>1 DEF Keeps
    <3>4. saved[e].reg.esp \in Stack => u + 6 < saved[e].reg.esp
      <4>1. CASE reg.esp \in Stack
        <5>1. saved[e].reg.esp \in Int
          BY <3>2 DEF Interrupted, Registers
        <5> QED BY <2>1, <2>11, <3>3, <4>1, <5>1
      <4>2. CASE reg.esp \notin Stack
        \* Only the program runs below the exception stack.
        <5>1. Unwinding(depth, reg, xs, ns, saved[depth])
          BY <3>1 DEF Level
        <5>2. saved[depth].utf + 2 \in Stack
          BY <3>1, PlaceFacts
        <5>3. reg.eip # "user"
          BY <3>1, Innermost
        <5> QED BY <1>2, <4>2, <5>1, <5>2, <5>3 DEF Unwinding
      <4> QED BY <4>1, <4>2
    <3>5. \A i \in Stack : i \in Int
      BY PageAssumption DEF Stack
    <3>6. saved[e].reg.esp \in Stack =>
            /\ u < saved[e].reg.esp
            /\ \A i \in Stack : i >= saved[e].reg.esp => xs'[i] = xs[i]
      <4>1. SUFFICES ASSUME saved[e].reg.esp \in Stack
            PROVE  /\ u < saved[e].reg.esp
                   /\ \A i \in Stack : i >= saved[e].reg.esp => xs'[i] = xs[i]
        OBVIOUS
      <4>2. saved[e].reg.esp \in Int /\ u + 6 < saved[e].reg.esp
        BY <3>4, <3>5, <4>1
      <4>3. \A i \in Stack : i >= saved[e].reg.esp => i > u + 6
        BY <2>1, <3>5, <4>2
      <4>4. \A i \in Stack : i > u + 6 => xs'[i] = xs[i]
        BY <1>2 DEF FrameOf
      <4>5. u < saved[e].reg.esp
        BY <2>1, <4>2
      <4> QED BY <4>3, <4>4, <4>5
    <3> QED BY <1>2, <2>7, <3>1, <3>6 DEF Keeps
  <2>14. ASSUME NEW d \in 1 .. depth
         PROVE  Level(d, RegAt(d), XsAt(d), NsAt(d))'
    <3>1. Level(d, RegAt(d), XsAt(d), NsAt(d))
      BY DEF Inv, Nested
    <3>2. RegAt(d)' = RegAt(d) /\ XsAt(d)' = XsAt(d) /\ NsAt(d)' = NsAt(d)
      <4>1. d # depth + 1 /\ (d # depth => d + 1 \in 1 .. depth)
        BY <2>1
      <4> QED BY <2>5, <2>6, <4>1 DEF RegAt, XsAt, NsAt
    <3>3. \A e \in 1 .. d : saved'[e] = saved[e]
      BY <2>1, <2>6
    <3>4. d \in 1 .. d
      BY <2>1
    <3> QED BY <3>1, <3>2, <3>3, <3>4 DEF Level
  <2>15. ASSUME NEW m \in Nat, m = depth + 1
         PROVE  Level(m, RegAt(m), XsAt(m), NsAt(m))'
    <3>1. depth' = m
      BY <2>6, <2>15
    <3>2. RegAt(m)' = reg' /\ XsAt(m)' = xs' /\ NsAt(m)' = ns'
      BY <3>1 DEF RegAt, XsAt, NsAt
    <3>3. \A e \in 1 .. m : e \in 1 .. depth \/ e = m
      BY <2>1, <2>15
    <3>4. saved'[m] = n
      BY <2>6, <2>15
    <3>5. \A e \in 1 .. m : Keeps(reg', xs', ns', saved'[e])
      BY <2>6, <2>12, <2>13, <3>3, <3>4
    <3>6. Placed(m, saved'[m]) /\ Unwinding(m, reg', xs', ns', saved'[m])
      BY <2>9, <2>10, <2>15, <3>4
    <3> QED BY <3>2, <3>5, <3>6 DEF Level
  <2>16. ASSUME NEW d \in 1 .. depth'
         PROVE  Level(d, RegAt(d), XsAt(d), NsAt(d))'
    <3>1. d \in 1 .. depth \/ (d \in Nat /\ d = depth + 1)
      BY <2>1, <2>6
    <3> QED BY <2>14, <2>15, <3>1
  <2>17. depth' # 0
    BY <2>1, <2>6
  <2> QED BY <2>8, <2>16, <2>17 DEF Inv, Nested
<1> QED BY <1>1, <1>2, FaultPushes

\* The kernel destroys an environment whose frame would begin below the page.
LEMMA FullStack ==
  ASSUME Inv, PageFault, reg.esp = 0
  PROVE  Inv'
<1>1. ~FrameAllowed(NewFrame(reg.esp))
  BY PageAssumption DEF FrameAllowed, NewFrame, FRAME, Stack
<1>2. UNCHANGED <<reg, xs, saved, ns, xpage, upcall>> /\ status' = "destroyed"
  BY <1>1 DEF PageFault
<1> QED BY <1>2, FaultEnds

\* What the code that handles a fault knows of its frame.
Sited(f) == f.utf \in Int /\ f.utf \in Stack /\ \A i \in 0 .. 6 : f.utf + i \in Stack
Here(f) ==
  /\ f \in Interrupted /\ f.utf \in Int /\ f.reg.esp \in Int /\ f.utf \in Stack
  /\ \A i \in 0 .. 6 : f.utf + i \in Stack
  /\ f.reg.esp \in Stack => f.utf + 7 = f.reg.esp - 1 /\ f.utf + 7 \in Stack
  /\ f.reg.esp \notin Stack => depth = 1 /\ f.reg.esp - 1 \in UserStack
  /\ f.reg.esp - 1 \in UserStack => depth = 1 /\ f.reg.esp \notin Stack
  /\ Unwinding(depth, reg, xs, ns, f)

\* Whoever is not the program is in the upcall, or the handler it calls.
LEMMA InUpcall ==
  ASSUME Inv, reg.eip # "user"
  PROVE  /\ depth # 0 /\ depth \in Nat /\ Here(saved[depth])
         /\ reg \in Registers /\ reg.esp \in Int /\ xs \in [Stack -> Word]
         /\ Stack \subseteq Int /\ ns \in [UserStack -> Word]
<1>1. depth # 0 /\ depth \in Nat /\ saved[depth] \in Interrupted
  BY Innermost
<1>2. saved[depth].utf \in Stack /\ Unwinding(depth, reg, xs, ns, saved[depth])
  BY <1>1, Innermost DEF Level, Placed
<1>3. Stack \subseteq Int
  BY PageAssumption DEF Stack
<1>4. Here(saved[depth])
  BY <1>1, <1>2, PlaceFacts DEF Here
<1> QED BY <1>1, <1>3, <1>4 DEF Inv, TypeOK, Registers

\* A push onto the exception stack.
LEMMA Pushes ==
  ASSUME Inv, NEW w \in Word, NEW q \in Registers, q.esp = reg.esp,
         reg.esp - 1 \in Stack, Push(w, q)
  PROVE  /\ TypeOK' /\ saved' = saved /\ ns' = ns
         /\ reg'.eip = q.eip /\ reg'.esp = reg.esp - 1 /\ xs'[reg.esp - 1] = w
         /\ \A i \in Stack : i >= reg.esp => xs'[i] = xs[i]
<1>1. PICK p \in Stack : p = reg.esp - 1
  OBVIOUS
<1>2. /\ xs' = [xs EXCEPT ![p] = w] /\ reg' = [q EXCEPT !.esp = p]
      /\ UNCHANGED <<ns, xpage, upcall, status, saved>>
  BY <1>1 DEF Push
<1>3. p \in Int /\ Stack \subseteq Int /\ xs \in [Stack -> Word] /\ reg.esp \in Int
  BY PageAssumption DEF Stack, Inv, TypeOK, Registers
<1>4. reg' \in Registers /\ reg'.eip = q.eip /\ reg'.esp = p
  BY <1>2, <1>3 DEF Registers
<1>5. xs' \in [Stack -> Word] /\ xs'[p] = w /\ \A i \in Stack : i # p => xs'[i] = xs[i]
  BY <1>1, <1>2, <1>3
<1>6. \A i \in Stack : i >= reg.esp => i # p
  BY <1>1, <1>3
<1>7. TypeOK'
  BY <1>2, <1>4, <1>5 DEF Inv, TypeOK
<1> QED BY <1>1, <1>2, <1>4, <1>5, <1>6, <1>7

\* A frame stays while its words do.
LEMMA FramedSame ==
  ASSUME NEW d, NEW f, Sited(f), NEW X, NEW Y, Framed(d, X, f),
         \A i \in Stack : i >= f.utf => Y[i] = X[i]
  PROVE  Framed(d, Y, f)
<1>1. f.utf \in Int /\ \A i \in 0 .. 6 : f.utf + i \in Stack /\ f.utf + i >= f.utf
  BY DEF Sited
<1>2. \A i \in 0 .. 6 : Y[f.utf + i] = X[f.utf + i]
  BY <1>1
<1>3. Y[f.utf] = X[f.utf]
  BY DEF Sited
<1>4. /\ Y[f.utf + 1] = X[f.utf + 1] /\ Y[f.utf + 2] = X[f.utf + 2] /\ Y[f.utf + 3] = X[f.utf + 3]
      /\ Y[f.utf + 4] = X[f.utf + 4] /\ Y[f.utf + 5] = X[f.utf + 5] /\ Y[f.utf + 6] = X[f.utf + 6]
  BY <1>2
<1> QED BY <1>3, <1>4 DEF Framed, Pushed, Above

\* Pushes are below the frame.
LEMMA PushesOn ==
  ASSUME Inv, reg.eip # "user", NEW w \in Word, NEW q \in Registers, q.esp = reg.esp,
         reg.esp - 1 \in Stack, Push(w, q), reg.esp <= saved[depth].utf,
         Unwinding(depth, reg', xs', ns', saved[depth])
  PROVE  Inv'
<1> DEFINE f == saved[depth]
<1>1. depth # 0 /\ Here(f) /\ reg.esp \in Int /\ Stack \subseteq Int
  BY InUpcall
<1>2. /\ TypeOK' /\ saved' = saved /\ ns' = ns /\ reg'.esp = reg.esp - 1
      /\ \A i \in Stack : i >= reg.esp => xs'[i] = xs[i]
  BY Pushes
<1>3. f.reg.esp \in Stack => /\ reg'.esp < f.reg.esp
                             /\ \A i \in Stack : i >= f.reg.esp => xs'[i] = xs[i]
  <2>1. SUFFICES ASSUME f.reg.esp \in Stack
        PROVE  /\ reg'.esp < f.reg.esp
               /\ \A i \in Stack : i >= f.reg.esp => xs'[i] = xs[i]
    OBVIOUS
  <2>2. f.utf \in Int /\ f.reg.esp \in Int /\ f.utf + 7 = f.reg.esp - 1
    BY <1>1, <2>1 DEF Here
  <2> QED BY <1>1, <1>2, <2>2
<1> QED BY <1>1, <1>2, <1>3, StepsOn

\* pushl %esp
LEMMA PushArgInv == ASSUME Inv, PushArg PROVE Inv'
<1> DEFINE f == saved[depth]
<1>1. /\ reg.eip = "pusharg" /\ Here(f) /\ reg \in Registers /\ reg.esp \in Int
      /\ Push(<<"ptr", reg.esp>>, [reg EXCEPT !.eip = "call"])
  BY InUpcall DEF PushArg, At
<1>2. reg.esp = f.utf /\ Framed(depth, xs, f) /\ f.utf \in Stack
  BY <1>1 DEF Here, Unwinding
<1>3. CASE reg.esp - 1 \in Stack
  <2>1. PICK q : q = [reg EXCEPT !.eip = "call"]
    OBVIOUS
  <2>2. q \in Registers /\ q.esp = reg.esp /\ q.eip = "call" /\ Push(<<"ptr", reg.esp>>, q)
    BY <1>1, <2>1 DEF Registers, Label
  <2>3. <<"ptr", reg.esp>> \in Word
    BY <1>1 DEF Word
  <2>4. /\ saved' = saved /\ ns' = ns /\ reg'.eip = "call" /\ reg'.esp = reg.esp - 1
        /\ xs'[reg.esp - 1] = <<"ptr", reg.esp>> /\ \A i \in Stack : i >= reg.esp => xs'[i] = xs[i]
    BY <1>3, <2>2, <2>3, Pushes
  <2>5. Framed(depth, xs', f)
    BY <1>1, <1>2, <2>4, FramedSame DEF Here, Sited
  <2>6. Unwinding(depth, reg', xs', ns', f)
    BY <1>2, <1>3, <2>4, <2>5 DEF Unwinding
  <2>7. reg.esp <= f.utf
    BY <1>1, <1>2
  <2> QED BY <1>1, <1>3, <2>2, <2>3, <2>6, <2>7, PushesOn
<1>4. CASE reg.esp - 1 \notin Stack
  <2>1. reg.esp = 0
    BY <1>1, <1>2, <1>4, PageAssumption DEF Stack
  <2>2. PageFault
    BY <1>1, <1>4 DEF Push
  <2> QED BY <2>1, <2>2, FullStack
<1> QED BY <1>3, <1>4

\* call *%eax
LEMMA CallInv == ASSUME Inv, Call PROVE Inv'
<1> DEFINE f == saved[depth]
<1>1. /\ reg.eip = "call" /\ Here(f) /\ reg \in Registers /\ reg.esp \in Int /\ depth \in Nat
      /\ Push(<<"skip", 0>>, Running(depth, reg.esp, "handler")) /\ Stack \subseteq Int
  BY InUpcall DEF Call, At
<1>2. /\ reg.esp = f.utf - 1 /\ Framed(depth, xs, f) /\ f.utf \in Int
      /\ xs[f.utf - 1] = <<"ptr", f.utf>> /\ reg.esp \in Stack
  BY <1>1 DEF Here, Unwinding
<1>3. CASE reg.esp - 1 \in Stack
  <2>1. PICK q : q = Running(depth, reg.esp, "handler")
    OBVIOUS
  <2>2. q \in Registers /\ q.esp = reg.esp /\ q.eip = "handler" /\ Push(<<"skip", 0>>, q)
    BY <1>1, <2>1 DEF Registers, Label, Running, Word
  <2>3. <<"skip", 0>> \in Word
    BY DEF Word, Label
  <2>4. /\ saved' = saved /\ ns' = ns /\ reg'.eip = "handler" /\ reg'.esp = reg.esp - 1
        /\ xs'[reg.esp - 1] = <<"skip", 0>> /\ \A i \in Stack : i >= reg.esp => xs'[i] = xs[i]
    BY <1>3, <2>2, <2>3, Pushes
  <2>5. \A i \in Stack : i >= f.utf => xs'[i] = xs[i]
    BY <1>1, <1>2, <2>4
  <2>6. Framed(depth, xs', f)
    BY <1>1, <1>2, <2>5, FramedSame DEF Here, Sited
  <2>7. xs'[f.utf - 1] = <<"ptr", f.utf>>
    BY <1>1, <1>2, <2>4
  <2>8. reg'.esp = f.utf - 2 /\ reg'.esp \in Stack /\ xs'[f.utf - 2] = <<"skip", 0>>
    <3>1. reg.esp - 1 = f.utf - 2
      BY <1>2
    <3> QED BY <3>1, <1>3, <2>4
  <2>9. reg'.esp <= f.utf - 2
    BY <1>2, <2>8
  <2>10. Unwinding(depth, reg', xs', ns', f)
    BY <2>4, <2>6, <2>7, <2>8, <2>9 DEF Unwinding
  <2>11. reg.esp <= f.utf
    BY <1>2
  <2> QED BY <1>1, <1>3, <2>2, <2>3, <2>10, <2>11, PushesOn
<1>4. CASE reg.esp - 1 \notin Stack
  <2>1. reg.esp = 0
    BY <1>1, <1>2, <1>4, PageAssumption DEF Stack
  <2>2. PageFault
    BY <1>1, <1>4 DEF Push
  <2> QED BY <2>1, <2>2, FullStack
<1> QED BY <1>3, <1>4

\* The handler pushes a local, or faults when it has no stack left.
LEMMA PushLocalInv == ASSUME Inv, PushLocal PROVE Inv'
<1> DEFINE f == saved[depth]
<1>1. /\ reg.eip = "handler" /\ Here(f) /\ reg \in Registers /\ reg.esp \in Int /\ depth \in Nat
      /\ Push(<<"local", depth>>, reg) /\ Stack \subseteq Int
  BY InUpcall DEF PushLocal, At
<1>2. /\ reg.esp <= f.utf - 2 /\ Framed(depth, xs, f) /\ f.utf \in Int /\ f.utf \in Stack
      /\ xs[f.utf - 1] = <<"ptr", f.utf>> /\ xs[f.utf - 2] = <<"skip", 0>> /\ reg.esp \in Stack
  BY <1>1 DEF Here, Unwinding
<1>3. CASE reg.esp - 1 \in Stack
  <2>1. <<"local", depth>> \in Word
    BY <1>1 DEF Word
  <2>2. /\ saved' = saved /\ ns' = ns /\ reg'.eip = "handler" /\ reg'.esp = reg.esp - 1
        /\ \A i \in Stack : i >= reg.esp => xs'[i] = xs[i]
    BY <1>1, <1>3, <2>1, Pushes
  <2>3. \A i \in Stack : i >= f.utf => xs'[i] = xs[i]
    BY <1>1, <1>2, <2>2
  <2>4. Framed(depth, xs', f)
    BY <1>1, <1>2, <2>3, FramedSame DEF Here, Sited
  <2>5. f.utf - 1 \in Stack /\ f.utf - 2 \in Stack /\ f.utf - 1 >= reg.esp /\ f.utf - 2 >= reg.esp
    BY <1>1, <1>2, PageAssumption DEF Stack
  <2>6. xs'[f.utf - 1] = <<"ptr", f.utf>> /\ xs'[f.utf - 2] = <<"skip", 0>>
    BY <1>2, <2>2, <2>5
  <2>7. reg'.esp <= f.utf - 2 /\ reg'.esp \in Stack
    BY <1>1, <1>2, <1>3, <2>2
  <2>8. Unwinding(depth, reg', xs', ns', f)
    BY <2>2, <2>4, <2>6, <2>7 DEF Unwinding
  <2>9. reg.esp <= f.utf
    BY <1>1, <1>2
  <2> QED BY <1>1, <1>3, <2>1, <2>8, <2>9, PushesOn
<1>4. CASE reg.esp - 1 \notin Stack
  <2>1. PageFault
    BY <1>1, <1>4 DEF Push
  <2> QED BY <1>1, <2>1, PageFaultNests
<1> QED BY <1>3, <1>4

\* A step of the registers alone.
LEMMA Moves ==
  ASSUME Inv, reg.eip # "user", UNCHANGED <<xs, ns, xpage, upcall, status, saved>>,
         reg' \in Registers, Unwinding(depth, reg', xs, ns, saved[depth]),
         saved[depth].reg.esp \in Stack => reg'.esp < saved[depth].reg.esp
  PROVE  Inv'
<1>1. TypeOK'
  BY DEF Inv, TypeOK
<1>2. depth # 0
  BY InUpcall
<1>3. Unwinding(depth, reg', xs', ns', saved[depth])
  OBVIOUS
<1> QED BY <1>1, <1>2, <1>3, StepsOn

\* addl: the stack pointer moves up to the registers that were pushed.
LEMMA SkipInv == ASSUME Inv, Skip PROVE Inv'
<1> DEFINE f == saved[depth]
<1>1. /\ reg.eip = "skip" /\ Here(f) /\ reg \in Registers
      /\ reg' = [reg EXCEPT !.esp = reg.esp + 3, !.eip = "loadeip"]
      /\ UNCHANGED <<xs, ns, xpage, upcall, status, saved>>
  BY InUpcall DEF Skip, At, Step
<1>2. reg.esp = f.utf - 1 /\ Pushed(xs, f) /\ Above(xs, f, 0) /\ f.utf \in Int
  BY <1>1 DEF Here, Unwinding
<1> HIDE DEF f
<1>3. PICK p \in Int : p = f.utf + 2
  BY <1>2
<1>4. reg.esp + 3 = p
  BY <1>2, <1>3
<1>5. reg' \in Registers /\ reg'.esp = p /\ reg'.eip = "loadeip"
  BY <1>1, <1>4 DEF Registers, Label
<1>6. Unwinding(depth, reg', xs, ns, f)
  BY <1>2, <1>3, <1>5 DEF Unwinding
<1>7. f.reg.esp \in Stack => reg'.esp < f.reg.esp
  BY <1>1, <1>2, <1>3, <1>5 DEF Here
<1> QED BY <1>1, <1>5, <1>6, <1>7, Moves DEF f

\* movl 0x20(%esp), %eax
LEMMA LoadEipInv == ASSUME Inv, LoadEip PROVE Inv'
<1> DEFINE f == saved[depth]
<1>1. /\ reg.eip = "loadeip" /\ Here(f) /\ reg \in Registers /\ xs \in [Stack -> Word]
      /\ reg' = [reg EXCEPT !.eax = xs[reg.esp + 2], !.eip = "loadesp"]
      /\ UNCHANGED <<xs, ns, xpage, upcall, status, saved>>
  BY InUpcall DEF LoadEip, At, Step
<1>2. reg.esp = f.utf + 2 /\ Pushed(xs, f) /\ Above(xs, f, 0) /\ f.utf \in Int /\ f.utf + 4 \in Stack
  BY <1>1 DEF Here, Unwinding
<1>3. PICK w \in Word : w = xs[f.utf + 4]
  BY <1>1, <1>2
<1>4. xs[reg.esp + 2] = w /\ w = <<f.reg.eip, 0>>
  <2>1. reg.esp + 2 = f.utf + 4
    BY <1>2
  <2> QED BY <1>2, <1>3, <2>1 DEF Pushed
<1> HIDE DEF f
<1>5. reg' \in Registers /\ reg'.esp = reg.esp /\ reg'.eip = "loadesp" /\ reg'.eax = w
  BY <1>1, <1>4 DEF Registers, Label
<1>6. Unwinding(depth, reg', xs, ns, f)
  BY <1>2, <1>4, <1>5 DEF Unwinding
<1>7. f.reg.esp \in Stack => reg'.esp < f.reg.esp
  BY <1>1, <1>2, <1>5 DEF Here
<1> QED BY <1>1, <1>5, <1>6, <1>7, Moves DEF f

\* movl 0x28(%esp), %ebx; subl $4, %ebx
LEMMA LoadEspInv == ASSUME Inv, LoadEsp PROVE Inv'
<1> DEFINE f == saved[depth]
<1>1. /\ reg.eip = "loadesp" /\ Here(f) /\ reg \in Registers
      /\ reg' = [reg EXCEPT !.ebx = <<xs[reg.esp + 4][1], xs[reg.esp + 4][2] - 1>>, !.eip = "store"]
      /\ UNCHANGED <<xs, ns, xpage, upcall, status, saved>>
  BY InUpcall DEF LoadEsp, At, Step
<1>2. /\ reg.esp = f.utf + 2 /\ Pushed(xs, f) /\ Above(xs, f, 0) /\ reg.eax = <<f.reg.eip, 0>>
      /\ f.utf \in Int /\ f.reg.esp \in Int
  BY <1>1 DEF Here, Unwinding
<1>3. xs[reg.esp + 4] = <<"ptr", f.reg.esp>>
  <2>1. reg.esp + 4 = f.utf + 6 /\ f.reg.esp - 0 = f.reg.esp
    BY <1>2
  <2> QED BY <1>2, <2>1 DEF Above
<1> HIDE DEF f
<1>4. PICK w \in Word : w = <<"ptr", f.reg.esp - 1>>
  <2>1. f.reg.esp - 1 \in Int /\ \A n \in Int : <<"ptr", n>> \in Word
    BY <1>2 DEF Word
  <2> QED BY <2>1
<1>5. <<xs[reg.esp + 4][1], xs[reg.esp + 4][2] - 1>> = w
  BY <1>3, <1>4
<1>6. /\ reg' \in Registers /\ reg'.esp = reg.esp /\ reg'.eip = "store" /\ reg'.ebx = w
      /\ reg'.eax = reg.eax
  BY <1>1, <1>5 DEF Registers, Label
<1>7. Unwinding(depth, reg', xs, ns, f)
  BY <1>2, <1>4, <1>6 DEF Unwinding
<1>8. f.reg.esp \in Stack => reg'.esp < f.reg.esp
  BY <1>1, <1>2, <1>6 DEF Here
<1> QED BY <1>1, <1>6, <1>7, <1>8, Moves DEF f

\* popal
LEMMA PopalInv == ASSUME Inv, Popal PROVE Inv'
<1> DEFINE f == saved[depth]
<1>1. /\ reg.eip = "popal" /\ Here(f) /\ reg \in Registers /\ xs \in [Stack -> Word]
      /\ reg' = [reg EXCEPT !.eax = xs[reg.esp], !.ebx = xs[reg.esp + 1], !.esp = reg.esp + 2,
                            !.eip = "popf"]
      /\ UNCHANGED <<xs, ns, xpage, upcall, status, saved>>
  BY InUpcall DEF Popal, At, Step
<1>2. /\ reg.esp = f.utf + 2 /\ Pushed(xs, f) /\ Above(xs, f, 1) /\ Landing(xs, ns, f)
      /\ f.utf \in Int /\ f \in Interrupted
  BY <1>1 DEF Here, Unwinding
<1>3. PICK p \in Int : p = f.utf + 4
  BY <1>2
<1>4. xs[reg.esp] = f.reg.eax /\ xs[reg.esp + 1] = f.reg.ebx /\ reg.esp + 2 = p
  <2>1. reg.esp = f.utf + 2 /\ reg.esp + 1 = f.utf + 3 /\ reg.esp + 2 = p
    BY <1>2, <1>3
  <2> QED BY <1>2, <2>1 DEF Pushed
<1>5. f.reg.eax \in Word /\ f.reg.ebx \in Word
  BY <1>2 DEF Interrupted, Registers
<1> HIDE DEF f
<1>6. /\ reg' \in Registers /\ reg'.esp = p /\ reg'.eip = "popf"
      /\ reg'.eax = f.reg.eax /\ reg'.ebx = f.reg.ebx
  BY <1>1, <1>4, <1>5 DEF Registers, Label
<1>7. Unwinding(depth, reg', xs, ns, f)
  BY <1>2, <1>3, <1>6 DEF Unwinding, Pushed
<1>8. f.reg.esp \in Stack => reg'.esp < f.reg.esp
  BY <1>1, <1>2, <1>3, <1>6 DEF Here
<1> QED BY <1>1, <1>6, <1>7, <1>8, Moves DEF f

\* addl $4, %esp; popf
LEMMA PopfInv == ASSUME Inv, Popf PROVE Inv'
<1> DEFINE f == saved[depth]
<1>1. /\ reg.eip = "popf" /\ Here(f) /\ reg \in Registers /\ xs \in [Stack -> Word]
      /\ reg' = [reg EXCEPT !.eflags = xs[reg.esp + 1], !.esp = reg.esp + 2, !.eip = "popesp"]
      /\ UNCHANGED <<xs, ns, xpage, upcall, status, saved>>
  BY InUpcall DEF Popf, At, Step
<1>2. /\ reg.esp = f.utf + 4 /\ xs[f.utf + 5] = f.reg.eflags
      /\ reg.eax = f.reg.eax /\ reg.ebx = f.reg.ebx /\ Above(xs, f, 1) /\ Landing(xs, ns, f)
      /\ f.utf \in Int /\ f \in Interrupted
  BY <1>1 DEF Here, Unwinding
<1>3. PICK p \in Int : p = f.utf + 6
  BY <1>2
<1>4. xs[reg.esp + 1] = f.reg.eflags /\ reg.esp + 2 = p
  <2>1. reg.esp + 1 = f.utf + 5 /\ reg.esp + 2 = p
    BY <1>2, <1>3
  <2> QED BY <1>2, <2>1
<1>5. f.reg.eflags \in Word
  BY <1>2 DEF Interrupted, Registers
<1> HIDE DEF f
<1>6. /\ reg' \in Registers /\ reg'.esp = p /\ reg'.eip = "popesp"
      /\ reg'.eax = reg.eax /\ reg'.ebx = reg.ebx /\ reg'.eflags = f.reg.eflags
  BY <1>1, <1>4, <1>5 DEF Registers, Label
<1>7. Unwinding(depth, reg', xs, ns, f)
  BY <1>2, <1>3, <1>6 DEF Unwinding
<1>8. f.reg.esp \in Stack => reg'.esp < f.reg.esp
  BY <1>1, <1>2, <1>3, <1>6 DEF Here
<1> QED BY <1>1, <1>6, <1>7, <1>8, Moves DEF f

\* popl %esp
LEMMA PopEspInv == ASSUME Inv, PopEsp PROVE Inv'
<1> DEFINE f == saved[depth]
<1>1. /\ reg.eip = "popesp" /\ Here(f) /\ reg \in Registers
      /\ reg' = [reg EXCEPT !.esp = xs[reg.esp][2], !.eip = "ret"]
      /\ UNCHANGED <<xs, ns, xpage, upcall, status, saved>>
  BY InUpcall DEF PopEsp, At, Step
<1>2. /\ reg.esp = f.utf + 6 /\ Above(xs, f, 1) /\ Landing(xs, ns, f)
      /\ reg.eax = f.reg.eax /\ reg.ebx = f.reg.ebx /\ reg.eflags = f.reg.eflags
      /\ f.utf \in Int /\ f.reg.esp \in Int
  BY <1>1 DEF Here, Unwinding
<1>3. PICK p \in Int : p = f.reg.esp - 1
  BY <1>2
<1>4. xs[reg.esp][2] = p
  BY <1>2, <1>3 DEF Above
<1> HIDE DEF f
<1>5. /\ reg' \in Registers /\ reg'.esp = p /\ reg'.eip = "ret"
      /\ reg'.eax = reg.eax /\ reg'.ebx = reg.ebx /\ reg'.eflags = reg.eflags
  BY <1>1, <1>4 DEF Registers, Label
<1>6. Unwinding(depth, reg', xs, ns, f)
  BY <1>2, <1>3, <1>5 DEF Unwinding
<1>7. f.reg.esp \in Stack => reg'.esp < f.reg.esp
  BY <1>2, <1>3, <1>5
<1> QED BY <1>1, <1>5, <1>6, <1>7, Moves DEF f

\* The handler's locals.
LEMMA SubLocalsInv == ASSUME Inv, ~Overrun, SubLocals PROVE Inv'
<1> DEFINE f == saved[depth]
<1>1. /\ reg.eip = "handler" /\ Here(f) /\ reg \in Registers
      /\ reg.esp = f.utf - 2
  BY InUpcall DEF SubLocals, At, Entry
<1>2. PICK n \in 1 .. MAXLOCALS :
         f.utf - 2 - n \in Stack /\ reg' = [reg EXCEPT !.esp = f.utf - 2 - n]
  BY DEF SubLocals, Step, Entry
<1>3. UNCHANGED <<xs, ns, xpage, upcall, status, saved>>
  BY DEF SubLocals, Step
<1>4. /\ Framed(depth, xs, f) /\ f.utf \in Int /\ n \in Int /\ n > 0
      /\ xs[f.utf - 1] = <<"ptr", f.utf>> /\ xs[f.utf - 2] = <<"skip", 0>>
  BY <1>1, LocalsAssumption DEF Here, Unwinding
<1>5. PICK p \in Int : p = f.utf - 2 - n
  BY <1>4
<1>6. p \in Stack /\ reg' = [reg EXCEPT !.esp = p] /\ p <= f.utf - 2
  BY <1>2, <1>4, <1>5
<1> HIDE DEF f
<1>7. reg' \in Registers /\ reg'.esp = p /\ reg'.eip = "handler"
  BY <1>1, <1>5, <1>6 DEF Registers
<1>8. Unwinding(depth, reg', xs, ns, f)
  BY <1>4, <1>6, <1>7 DEF Unwinding
<1>9. f.reg.esp \in Stack => reg'.esp < f.reg.esp
  BY <1>1, <1>4, <1>5, <1>6, <1>7 DEF Here
<1> QED BY <1>1, <1>3, <1>7, <1>8, <1>9, Moves DEF f

\* The handler returns to _pgfault_upcall.
LEMMA HandlerReturnInv == ASSUME Inv, HandlerReturn PROVE Inv'
<1> DEFINE f == saved[depth]
<1>1. /\ reg.eip = "handler" /\ Here(f) /\ depth \in Nat /\ reg.esp \in Int
      /\ reg' = Running(depth, f.utf - 2 + 1, xs[f.utf - 2][1])
      /\ UNCHANGED <<xs, ns, xpage, upcall, status, saved>>
  BY InUpcall DEF HandlerReturn, At, Step, Entry
<1>2. Framed(depth, xs, f) /\ f.utf \in Int /\ xs[f.utf - 2] = <<"skip", 0>>
  BY <1>1 DEF Here, Unwinding
<1>3. PICK p \in Int : p = f.utf - 1
  BY <1>2
<1>4. f.utf - 2 + 1 = p /\ xs[f.utf - 2][1] = "skip"
  BY <1>2, <1>3
<1>5. reg' = Running(depth, p, "skip")
  BY <1>1, <1>4
<1> HIDE DEF f
<1>6. reg' \in Registers /\ reg'.esp = p /\ reg'.eip = "skip"
  BY <1>1, <1>5 DEF Registers, Label, Running, Word
<1>7. Unwinding(depth, reg', xs, ns, f)
  BY <1>2, <1>3, <1>6 DEF Unwinding, Framed
<1>8. f.reg.esp \in Stack => reg'.esp < f.reg.esp
  BY <1>1, <1>2, <1>3, <1>6 DEF Here
<1> QED BY <1>1, <1>6, <1>7, <1>8, Moves DEF f

\* movl %eax, (%ebx): below what is in use where the fault was.
LEMMA StoreEipInv == ASSUME Inv, StoreEip PROVE Inv'
<1> DEFINE f == saved[depth]
<1>1. /\ reg.eip = "store" /\ Here(f) /\ reg \in Registers /\ xs \in [Stack -> Word]
      /\ ns \in [UserStack -> Word] /\ reg.eax \in Word /\ depth # 0
      /\ reg' = [reg EXCEPT !.eip = "setesp"]
      /\ xs' = IF reg.ebx[2] \in Stack THEN [xs EXCEPT ![reg.ebx[2]] = reg.eax] ELSE xs
      /\ ns' = IF reg.ebx[2] \in UserStack THEN [ns EXCEPT ![reg.ebx[2]] = reg.eax] ELSE ns
      /\ UNCHANGED <<xpage, upcall, status, saved>>
  BY InUpcall DEF StoreEip, At, Registers
<1>2. /\ reg.esp = f.utf + 2 /\ Pushed(xs, f) /\ reg.eax = <<f.reg.eip, 0>>
      /\ reg.ebx = <<"ptr", f.reg.esp - 1>> /\ f.utf \in Int /\ f.reg.esp \in Int
  BY <1>1 DEF Here, Unwinding
<1> HIDE DEF f
<1>3. PICK p \in Int : p = f.reg.esp - 1
  BY <1>2
<1>4. /\ xs' = IF p \in Stack THEN [xs EXCEPT ![p] = reg.eax] ELSE xs
      /\ ns' = IF p \in UserStack THEN [ns EXCEPT ![p] = reg.eax] ELSE ns
  BY <1>1, <1>2, <1>3
<1>5. reg' \in Registers /\ reg'.esp = reg.esp /\ reg'.eip = "setesp" /\ reg'.ebx = reg.ebx
  BY <1>1 DEF Registers, Label
<1>6. xs' \in [Stack -> Word] /\ ns' \in [UserStack -> Word]
  BY <1>1, <1>4
<1>7. TypeOK'
  BY <1>1, <1>5, <1>6 DEF Inv, TypeOK
<1>8. Pushed(xs', f)
  <2>1. \A i \in 0 .. 6 : f.utf + i \in Stack /\ f.utf + i # p
    <3>1. SUFFICES ASSUME NEW i \in 0 .. 6 PROVE f.utf + i \in Stack /\ f.utf + i # p
      OBVIOUS
    <3>2. f.utf + i \in Stack
      BY <1>1 DEF Here
    <3>3. CASE f.reg.esp \in Stack
      BY <1>1, <1>2, <1>3, <3>2, <3>3 DEF Here
    <3>4. CASE f.reg.esp \notin Stack
      BY <1>1, <1>3, <3>2, <3>4, StacksApart DEF Here
    <3> QED BY <3>3, <3>4
  <2>2. \A i \in 0 .. 6 : xs'[f.utf + i] = xs[f.utf + i]
    BY <1>1, <1>4, <2>1
  <2>3. /\ xs'[f.utf + 2] = xs[f.utf + 2] /\ xs'[f.utf + 3] = xs[f.utf + 3]
        /\ xs'[f.utf + 4] = xs[f.utf + 4] /\ xs'[f.utf + 5] = xs[f.utf + 5]
    BY <2>2
  <2> QED BY <1>2, <2>3 DEF Pushed
<1>9. Landing(xs', ns', f)
  <2>1. CASE f.reg.esp \in Stack
    <3>1. p \in Stack
      BY <1>1, <1>3, <2>1 DEF Here
    <3>2. xs'[p] = reg.eax
      BY <1>1, <1>4, <3>1
    <3> QED BY <1>2, <1>3, <2>1, <3>2 DEF Landing
  <2>2. CASE f.reg.esp \notin Stack
    <3>1. p \in UserStack
      BY <1>1, <1>3, <2>2 DEF Here
    <3>2. ns'[p] = reg.eax
      BY <1>1, <1>4, <3>1
    <3> QED BY <1>2, <1>3, <2>2, <3>2 DEF Landing
  <2> QED BY <2>1, <2>2
<1>10. Unwinding(depth, reg', xs', ns', f)
  BY <1>2, <1>5, <1>8, <1>9 DEF Unwinding
<1>11. f.reg.esp \in Stack => /\ reg'.esp < f.reg.esp
                              /\ \A i \in Stack : i >= f.reg.esp => xs'[i] = xs[i]
  <2>1. SUFFICES ASSUME f.reg.esp \in Stack
        PROVE  /\ reg'.esp < f.reg.esp
               /\ \A i \in Stack : i >= f.reg.esp => xs'[i] = xs[i]
    OBVIOUS
  <2>2. reg'.esp < f.reg.esp
    BY <1>1, <1>2, <1>5, <2>1 DEF Here
  <2>3. \A i \in Stack : i >= f.reg.esp => i # p
    BY <1>2, <1>3, PageAssumption DEF Stack
  <2> QED BY <1>1, <1>4, <2>2, <2>3
<1>12. \A i \in UserStack : depth # 1 \/ i >= f.reg.esp => ns'[i] = ns[i]
  <2>1. CASE p \in UserStack
    <3>1. depth = 1
      BY <1>1, <1>3, <2>1 DEF Here
    <3>2. \A i \in UserStack : i >= f.reg.esp => i # p
      BY <1>2, <1>3, StacksApart
    <3> QED BY <1>1, <1>4, <3>1, <3>2
  <2>2. CASE p \notin UserStack
    BY <1>4, <2>2
  <2> QED BY <2>1, <2>2
<1> QED BY <1>1, <1>7, <1>10, <1>11, <1>12, StepsOn DEF f

\* movl %ebx, 0x28(%esp)
LEMMA SetEspInv == ASSUME Inv, SetEsp PROVE Inv'
<1> DEFINE f == saved[depth]
<1>1. /\ reg.eip = "setesp" /\ Here(f) /\ reg \in Registers /\ xs \in [Stack -> Word]
      /\ reg.ebx \in Word /\ depth # 0 /\ Stack \subseteq Int
      /\ reg' = [reg EXCEPT !.eip = "popal"] /\ xs' = [xs EXCEPT ![reg.esp + 4] = reg.ebx]
      /\ UNCHANGED <<ns, xpage, upcall, status, saved>>
  BY InUpcall DEF SetEsp, At, Registers
<1>2. /\ reg.esp = f.utf + 2 /\ Pushed(xs, f) /\ Landing(xs, ns, f)
      /\ reg.ebx = <<"ptr", f.reg.esp - 1>> /\ f.utf \in Int /\ f.reg.esp \in Int
      /\ f.utf + 6 \in Stack
  BY <1>1 DEF Here, Unwinding
<1> HIDE DEF f
<1>3. PICK p \in Stack : p = f.utf + 6
  BY <1>2
<1>4. reg.esp + 4 = p
  BY <1>2, <1>3
<1>5. xs' \in [Stack -> Word] /\ xs'[p] = reg.ebx /\ \A i \in Stack : i # p => xs'[i] = xs[i]
  BY <1>1, <1>3, <1>4
<1>6. reg' \in Registers /\ reg'.esp = reg.esp /\ reg'.eip = "popal"
  BY <1>1 DEF Registers, Label
<1>7. TypeOK'
  BY <1>1, <1>5, <1>6 DEF Inv, TypeOK
<1>8. Pushed(xs', f)
  <2>1. \A i \in 2 .. 5 : f.utf + i \in Stack /\ f.utf + i # p
    BY <1>1, <1>2, <1>3 DEF Here
  <2>2. \A i \in 2 .. 5 : xs'[f.utf + i] = xs[f.utf + i]
    BY <1>5, <2>1
  <2>3. /\ xs'[f.utf + 2] = xs[f.utf + 2] /\ xs'[f.utf + 3] = xs[f.utf + 3]
        /\ xs'[f.utf + 4] = xs[f.utf + 4] /\ xs'[f.utf + 5] = xs[f.utf + 5]
    BY <2>2
  <2> QED BY <1>2, <2>3 DEF Pushed
<1>9. Landing(xs', ns', f)
  <2>1. CASE f.reg.esp \in Stack
    <3>1. f.reg.esp - 1 \in Stack /\ f.reg.esp - 1 # p
      BY <1>1, <1>2, <1>3, <2>1 DEF Here
    <3>2. xs'[f.reg.esp - 1] = xs[f.reg.esp - 1]
      BY <1>5, <3>1
    <3> QED BY <1>2, <2>1, <3>2 DEF Landing
  <2>2. CASE f.reg.esp \notin Stack
    BY <1>1, <1>2, <2>2 DEF Landing
  <2> QED BY <2>1, <2>2
<1>10. Above(xs', f, 1)
  BY <1>2, <1>3, <1>5 DEF Above
<1>11. Unwinding(depth, reg', xs', ns', f)
  BY <1>2, <1>6, <1>8, <1>9, <1>10 DEF Unwinding
<1>12. f.reg.esp \in Stack => /\ reg'.esp < f.reg.esp
                              /\ \A i \in Stack : i >= f.reg.esp => xs'[i] = xs[i]
  <2>1. SUFFICES ASSUME f.reg.esp \in Stack
        PROVE  /\ reg'.esp < f.reg.esp
               /\ \A i \in Stack : i >= f.reg.esp => xs'[i] = xs[i]
    OBVIOUS
  <2>2. f.utf + 7 = f.reg.esp - 1
    BY <1>1, <2>1 DEF Here
  <2>3. reg'.esp < f.reg.esp
    BY <1>2, <1>6, <2>2
  <2>4. \A i \in Stack : i >= f.reg.esp => i # p
    BY <1>1, <1>2, <1>3, <2>2
  <2> QED BY <1>5, <2>3, <2>4
<1> QED BY <1>1, <1>7, <1>11, <1>12, StepsOn DEF f

\* What ret goes back to: the registers, and the words in use, of whom the fault
\* interrupted.
LEMMA RetFacts ==
  ASSUME Inv, Ret
  PROVE  /\ depth # 0 /\ depth \in Nat
         /\ saved' = SubSeq(saved, 1, depth - 1) /\ UNCHANGED <<xs, ns, xpage, upcall, status>>
         /\ reg' = saved[depth].reg /\ saved[depth].reg \in Registers
<1> DEFINE f == saved[depth]
<1>1. /\ reg.eip = "ret" /\ Here(f) /\ reg \in Registers /\ depth # 0 /\ depth \in Nat
      /\ saved' = SubSeq(saved, 1, depth - 1) /\ UNCHANGED <<xs, ns, xpage, upcall, status>>
  BY InUpcall DEF Ret, At
<1>2. reg' = [reg EXCEPT !.eip = (IF reg.esp \in Stack THEN xs[reg.esp] ELSE ns[reg.esp])[1],
                         !.esp = reg.esp + 1]
  BY DEF Ret
<1>3. /\ reg.esp = f.reg.esp - 1 /\ reg.eax = f.reg.eax /\ reg.ebx = f.reg.ebx
      /\ reg.eflags = f.reg.eflags /\ Landing(xs, ns, f) /\ f.reg.esp \in Int
      /\ f.reg \in Registers
  BY <1>1 DEF Here, Unwinding, Interrupted
<1>4. (IF reg.esp \in Stack THEN xs[reg.esp] ELSE ns[reg.esp]) = <<f.reg.eip, 0>>
  <2>1. CASE f.reg.esp \in Stack
    <3>1. reg.esp \in Stack
      BY <1>1, <1>3, <2>1 DEF Here
    <3> QED BY <1>3, <2>1, <3>1 DEF Landing
  <2>2. CASE f.reg.esp \notin Stack
    <3>1. reg.esp \notin Stack
      BY <1>1, <1>3, <2>2, StacksApart DEF Here
    <3> QED BY <1>3, <2>2, <3>1 DEF Landing
  <2> QED BY <2>1, <2>2
<1> HIDE DEF f
<1>5. PICK g \in Registers : g = f.reg
  BY <1>3
<1>6. reg' = [reg EXCEPT !.eip = g.eip, !.esp = g.esp]
  <2>1. reg.esp + 1 = g.esp
    BY <1>3, <1>5
  <2>2. PICK w : w = IF reg.esp \in Stack THEN xs[reg.esp] ELSE ns[reg.esp]
    OBVIOUS
  <2>3. w[1] = g.eip
    BY <1>4, <1>5, <2>2
  <2> QED BY <1>2, <2>1, <2>2, <2>3
<1>7. reg' = g
  BY <1>1, <1>3, <1>5, <1>6 DEF Registers
<1> QED BY <1>1, <1>5, <1>7 DEF f

\* Code that was interrupted finds what it needs at its stack pointer and above.
LEMMA Reads ==
  ASSUME NEW d, NEW f, Sited(f), NEW r, r.esp \in Int, Stack \subseteq Int,
         NEW X, NEW Y, NEW N, NEW M, r.eip \in {"handler", "store"},
         Unwinding(d, r, X, N, f), \A i \in Stack : i >= r.esp => Y[i] = X[i]
  PROVE  Unwinding(d, r, Y, M, f)
<1>1. f.utf \in Int /\ f.utf \in Stack /\ \A i \in 0 .. 6 : f.utf + i \in Stack
  BY DEF Sited
<1>2. CASE r.eip = "handler"
  <2>1. /\ r.esp <= f.utf - 2 /\ r.esp \in Stack /\ Framed(d, X, f)
        /\ X[f.utf - 1] = <<"ptr", f.utf>> /\ X[f.utf - 2] = <<"skip", 0>>
    BY <1>2 DEF Unwinding
  <2>2. \A i \in Stack : i >= f.utf => Y[i] = X[i]
    BY <1>1, <2>1
  <2>3. Framed(d, Y, f)
    BY <2>1, <2>2, FramedSame
  <2>4. f.utf - 1 \in Stack /\ f.utf - 2 \in Stack /\ f.utf - 1 >= r.esp /\ f.utf - 2 >= r.esp
    BY <1>1, <2>1, PageAssumption DEF Stack
  <2>5. Y[f.utf - 1] = <<"ptr", f.utf>> /\ Y[f.utf - 2] = <<"skip", 0>>
    BY <2>1, <2>4
  <2> QED BY <1>2, <2>1, <2>3, <2>5 DEF Unwinding
<1>3. CASE r.eip = "store"
  <2>1. /\ r.esp = f.utf + 2 /\ Pushed(X, f) /\ Above(X, f, 0)
        /\ r.eax = <<f.reg.eip, 0>> /\ r.ebx = <<"ptr", f.reg.esp - 1>>
    BY <1>3 DEF Unwinding
  <2>2. \A i \in 2 .. 6 : Y[f.utf + i] = X[f.utf + i]
    <3>1. \A i \in 2 .. 6 : f.utf + i \in Stack /\ f.utf + i >= r.esp
      BY <1>1, <2>1
    <3> QED BY <3>1
  <2>3. /\ Y[f.utf + 2] = X[f.utf + 2] /\ Y[f.utf + 3] = X[f.utf + 3]
        /\ Y[f.utf + 4] = X[f.utf + 4] /\ Y[f.utf + 5] = X[f.utf + 5] /\ Y[f.utf + 6] = X[f.utf + 6]
    BY <2>2
  <2>4. Pushed(Y, f) /\ Above(Y, f, 0)
    BY <2>1, <2>3 DEF Pushed, Above
  <2> QED BY <1>3, <2>1, <2>4 DEF Unwinding
<1> QED BY <1>2, <1>3

\* ret
LEMMA RetInv == ASSUME Inv, Ret PROVE Inv'
<1>1. /\ depth # 0 /\ depth \in Nat
      /\ saved' = SubSeq(saved, 1, depth - 1) /\ UNCHANGED <<xs, ns, xpage, upcall, status>>
      /\ reg' = saved[depth].reg /\ saved[depth].reg \in Registers
  BY RetFacts
<1>2. PICK m \in Nat : m = depth - 1 /\ depth = m + 1
  BY <1>1
<1>3. saved \in Seq(Interrupted) /\ Len(saved) = depth
  BY DEF Inv, TypeOK, depth
<1>4. /\ saved' \in Seq(Interrupted) /\ depth' = m /\ \A d \in 1 .. m : saved'[d] = saved[d]
  <2>1. saved' = SubSeq(saved, 1, m) /\ m <= Len(saved)
    BY <1>1, <1>2, <1>3
  <2>2. Len(saved') = m /\ saved' \in Seq(Interrupted) /\ \A d \in 1 .. m : saved'[d] = saved[d]
    BY <1>2, <1>3, <2>1
  <2> QED BY <2>2 DEF depth
<1>5. TypeOK'
  BY <1>1, <1>4 DEF Inv, TypeOK
<1>6. Placed(depth, saved[depth]) /\ \A e \in 1 .. depth : Keeps(reg, xs, ns, saved[e])
  BY <1>1, Innermost DEF Level
<1>7. CASE m = 0
  <2>1. reg'.eip = "user" /\ reg'.esp \in UserEsp
    BY <1>1, <1>2, <1>6, <1>7 DEF Placed
  <2>2. 1 .. depth' = {}
    BY <1>4, <1>7
  <2> QED BY <1>5, <2>1, <2>2 DEF Inv, Nested
<1>8. CASE m # 0
  <2>1. m \in 1 .. depth /\ m # depth /\ depth # 1
    BY <1>2, <1>8
  <2>2. RegAt(m) = reg' /\ XsAt(m) = saved[depth].xs /\ NsAt(m) = saved[depth].ns
    BY <1>1, <1>2, <2>1 DEF RegAt, XsAt, NsAt
  <2>3. Level(m, reg', saved[depth].xs, saved[depth].ns)
    BY <2>1, <2>2 DEF Inv, Nested
  <2>4. reg'.eip \in {"handler", "store"} /\ reg'.esp \in Stack /\ reg'.esp \in Int
    BY <1>1, <1>6, <2>1 DEF Placed, Registers
  <2>5. Keeps(reg, xs, ns, saved[depth])
    <3>1. depth \in 1 .. depth
      BY <1>1
    <3> QED BY <1>6, <3>1
  <2>6. \A i \in Stack : i >= reg'.esp => xs'[i] = saved[depth].xs[i]
    BY <1>1, <2>4, <2>5 DEF Keeps
  <2>7. Sited(saved[m])
    <3>1. saved[m].utf \in Stack /\ saved[m].utf + 6 < PAGE
      BY <2>3 DEF Level, Placed
    <3> QED BY <3>1, PageAssumption DEF Sited, Stack
  <2>8. Unwinding(m, reg', xs', ns', saved[m])
    <3>1. Unwinding(m, reg', saved[depth].xs, saved[depth].ns, saved[m])
      BY <2>3 DEF Level
    <3>2. Stack \subseteq Int
      BY PageAssumption DEF Stack
    <3>3. PICK f, r, X, Y : f = saved[m] /\ r = reg' /\ X = saved[depth].xs /\ Y = xs'
      OBVIOUS
    <3>4. PICK N, M : N = saved[depth].ns /\ M = ns'
      OBVIOUS
    <3>5. r.esp \in Int /\ r.eip \in {"handler", "store"} /\ \A i \in Stack : i >= r.esp => Y[i] = X[i]
      BY <2>4, <2>6, <3>3
    <3>6. Sited(f) /\ Unwinding(m, r, X, N, f)
      BY <2>7, <3>1, <3>3, <3>4
    <3>7. Unwinding(m, r, Y, M, f)
      BY <3>2, <3>5, <3>6, Reads
    <3> QED BY <3>3, <3>4, <3>7
  <2>9. ASSUME NEW e \in 1 .. m
        PROVE  Keeps(reg', xs', ns', saved[e])
    <3>1. e \in 1 .. depth
      BY <1>2
    <3>2. Keeps(reg, xs, ns, saved[e])
      BY <1>6, <3>1
    <3>3. Keeps(reg', saved[depth].xs, saved[depth].ns, saved[e])
      BY <2>3 DEF Level
    <3>4. xs' = xs /\ ns' = ns
      BY <1>1
    <3> QED BY <3>2, <3>3, <3>4 DEF Keeps
  <2>10. ASSUME NEW d \in 1 .. depth'
         PROVE  Level(d, RegAt(d), XsAt(d), NsAt(d))'
    <3>1. CASE d = m
      <4>1. RegAt(d)' = reg' /\ XsAt(d)' = xs' /\ NsAt(d)' = ns'
        BY <1>4, <3>1 DEF RegAt, XsAt, NsAt
      <4>2. Placed(m, saved[m])
        BY <2>3 DEF Level
      <4>3. saved'[m] = saved[m]
        BY <1>4, <2>1, <3>1
      <4>4. \A e \in 1 .. m : saved'[e] = saved[e]
        BY <1>4
      <4> QED BY <2>8, <2>9, <3>1, <4>1, <4>2, <4>3, <4>4 DEF Level
    <3>2. CASE d # m
      <4>1. d \in 1 .. m /\ d + 1 \in 1 .. m /\ d \in 1 .. depth /\ d # depth
        BY <1>2, <1>4, <3>2
      <4>2. RegAt(d)' = RegAt(d) /\ XsAt(d)' = XsAt(d) /\ NsAt(d)' = NsAt(d)
        BY <1>4, <3>2, <4>1 DEF RegAt, XsAt, NsAt
      <4>3. Level(d, RegAt(d), XsAt(d), NsAt(d))
        BY <4>1 DEF Inv, Nested
      <4>4. saved'[d] = saved[d] /\ \A e \in 1 .. d : saved'[e] = saved[e]
        <5>1. \A e \in 1 .. d : e \in 1 .. m
          BY <1>2, <4>1
        <5> QED BY <1>4, <4>1, <5>1
      <4> QED BY <4>2, <4>3, <4>4 DEF Level
    <3> QED BY <3>1, <3>2
  <2>11. depth' # 0
    BY <1>4, <1>8
  <2> QED BY <1>5, <2>10, <2>11 DEF Inv, Nested
<1> QED BY <1>7, <1>8

\* The program's own steps.
LEMMA ProgramInv ==
  ASSUME Inv, UserStep \/ SetPgfaultHandler \/ UnmapStack
  PROVE  Inv'
<1>1. reg.eip = "user" /\ depth = 0 /\ reg.esp \in UserEsp /\ reg \in Registers
  BY Innermost DEF Inv, TypeOK, UserStep, SetPgfaultHandler, UnmapStack, At
<1>2. UNCHANGED <<xs, ns, status, saved>> /\ upcall' \in BOOLEAN /\ xpage' \in BOOLEAN
  BY DEF Inv, TypeOK, UserStep, SetPgfaultHandler, UnmapStack
<1>3. /\ reg' \in Registers /\ reg'.eip = "user" /\ reg'.esp \in UserEsp
  <2>1. CASE UserStep
    <3>1. PICK esp \in UserEsp : reg' = [reg EXCEPT !.esp = esp]
      BY <2>1 DEF UserStep
    <3>2. esp \in Int
      BY StacksApart DEF UserEsp
    <3> QED BY <1>1, <3>1, <3>2 DEF Registers
  <2>2. CASE SetPgfaultHandler \/ UnmapStack
    BY <1>1, <2>2 DEF SetPgfaultHandler, UnmapStack
  <2> QED BY <2>1, <2>2
<1>4. depth' = 0 /\ 1 .. depth' = {}
  BY <1>1, <1>2 DEF depth
<1>5. TypeOK'
  BY <1>2, <1>3 DEF Inv, TypeOK
<1> QED BY <1>3, <1>4, <1>5 DEF Inv, Nested

\* Page faults: of the program, the handler, and the upcall's store.
LEMMA FaultInv ==
  ASSUME Inv, UserFault \/ HandlerFault \/ StoreFault
  PROVE  Inv'
<1>1. PageFault /\ reg.eip \in {"user", "handler", "store"}
  BY DEF UserFault, HandlerFault, StoreFault, At
<1> QED BY <1>1, PageFaultNests

\* The program starts with no fault.
LEMMA InitInv == Init => Inv
<1> SUFFICES ASSUME Init PROVE Inv
  OBVIOUS
<1>1. PICK esp \in UserEsp : reg = Running(0, esp, "user")
  BY DEF Init
<1>2. esp \in Int
  BY StacksApart DEF UserEsp
<1>3. reg \in Registers /\ reg.eip = "user" /\ reg.esp = esp
  BY <1>1, <1>2 DEF Running, Registers, Word, Label
<1>4. xs \in [Stack -> Word]
  BY DEF Init, Word
<1>5. ns \in [UserStack -> Word]
  BY StacksApart DEF Init, Word
<1>6. saved \in Seq(Interrupted) /\ depth = 0 /\ 1 .. depth = {}
  BY DEF Init, depth
<1>7. TypeOK
  BY <1>3, <1>4, <1>5, <1>6 DEF Init, TypeOK
<1> QED BY <1>3, <1>6, <1>7 DEF Inv, Nested

\* Every step keeps the invariant,
LEMMA StepInv == ~Overrun /\ Inv /\ [Next]_vars => Inv'
<1> SUFFICES ASSUME ~Overrun, Inv, [Next]_vars PROVE Inv'
  OBVIOUS
<1>1. CASE UserStep \/ SetPgfaultHandler \/ UnmapStack
  BY <1>1, ProgramInv
<1>2. CASE UserFault \/ HandlerFault \/ StoreFault
  BY <1>2, FaultInv
<1>3. CASE PushLocal \/ SubLocals \/ HandlerReturn
  BY <1>3, PushLocalInv, SubLocalsInv, HandlerReturnInv
<1>4. CASE PushArg \/ Call \/ Skip
  BY <1>4, PushArgInv, CallInv, SkipInv
<1>5. CASE LoadEip \/ LoadEsp \/ StoreEip \/ SetEsp
  BY <1>5, LoadEipInv, LoadEspInv, StoreEipInv, SetEspInv
<1>6. CASE Popal \/ Popf \/ PopEsp \/ Ret
  BY <1>6, PopalInv, PopfInv, PopEspInv, RetInv
<1>7. CASE UNCHANGED vars
  BY <1>7, FaultEnds DEF vars, Inv, TypeOK
<1> QED BY <1>1, <1>2, <1>3, <1>4, <1>5, <1>6, <1>7 DEF Next, Handler, Upcall

\* which always holds.
LEMMA AlwaysInv == ~Overrun => (Spec => []Inv)
<1> SUFFICES ASSUME ~Overrun PROVE Spec => []Inv
  OBVIOUS
<1>1. Inv /\ [Next]_vars => Inv'
  BY StepInv
<1> QED BY InitInv, <1>1, PTL DEF Spec

\* Every register, word and frame keeps its type.
THEOREM ExceptionStackTypes == ~Overrun => (Spec => []TypeOK)
<1> SUFFICES ASSUME ~Overrun PROVE Spec => []TypeOK
  OBVIOUS
<1>1. Spec => []Inv
  BY AlwaysInv
<1>2. Inv => TypeOK
  BY DEF Inv
<1> QED BY <1>1, <1>2, PTL

\* Above the code that runs, memory is what it was when code was interrupted.
LEMMA FrameNow ==
  ASSUME Inv, NEW d \in 1 .. depth, RegAt(d).eip \in {"call", "handler"}
  PROVE  /\ xs[saved[d].utf - 1] = <<"ptr", saved[d].utf>> /\ Framed(d, xs, saved[d])
         /\ saved[d].utf \in Int /\ saved[d].reg.esp \in Int
<1>1. depth \in Nat /\ depth # 0
  BY Innermost
<1>2. PICK f, r, X, N : f = saved[d] /\ r = RegAt(d) /\ X = XsAt(d) /\ N = NsAt(d)
  OBVIOUS
<1>3. Level(d, r, X, N) /\ r.eip \in {"call", "handler"}
  BY <1>2 DEF Inv, Nested
<1>4. f.utf \in Stack /\ f.utf + 6 < PAGE /\ Stack \subseteq Int /\ Unwinding(d, r, X, N, f)
  BY <1>2, <1>3, PageAssumption DEF Level, Placed, Stack
<1>5. f \in Interrupted
  BY <1>2 DEF Inv, TypeOK, depth
<1>6. f.utf \in Int /\ f.reg.esp \in Int
  BY <1>4, <1>5 DEF Interrupted, Registers
<1>7. /\ X[f.utf - 1] = <<"ptr", f.utf>> /\ Framed(d, X, f)
      /\ r.esp <= f.utf - 1 /\ r.esp \in Stack
  <2>1. CASE r.eip = "call"
    BY <1>4, <1>6, <2>1 DEF Unwinding
  <2>2. CASE r.eip = "handler"
    <3>1. /\ X[f.utf - 1] = <<"ptr", f.utf>> /\ Framed(d, X, f)
          /\ r.esp <= f.utf - 2 /\ r.esp \in Stack
      BY <1>4, <2>2 DEF Unwinding
    <3>2. r.esp \in Int
      BY <1>4, <3>1
    <3> QED BY <1>6, <3>1, <3>2
  <2> QED BY <1>3, <2>1, <2>2
<1>8. \A i \in Stack : i >= r.esp => xs[i] = X[i]
  <2>1. CASE d = depth
    BY <1>2, <2>1 DEF XsAt
  <2>2. CASE d # depth
    <3>1. d + 1 \in 1 .. depth /\ r = saved[d + 1].reg /\ X = saved[d + 1].xs
      BY <1>1, <1>2, <2>2 DEF RegAt, XsAt
    <3>2. Keeps(reg, xs, ns, saved[d + 1])
      BY <1>1, <3>1, Innermost DEF Level
    <3> QED BY <1>7, <3>1, <3>2 DEF Keeps
  <2> QED BY <2>1, <2>2
<1>9. Sited(f)
  BY <1>4, <1>6, PageAssumption DEF Sited, Stack
<1>10. \A i \in Stack : i >= f.utf => xs[i] = X[i]
  <2>1. r.esp \in Int
    BY <1>4, <1>7
  <2>2. \A i \in Stack : i >= f.utf => i >= r.esp
    BY <1>4, <1>6, <1>7, <2>1
  <2> QED BY <1>8, <2>2
<1>11. Framed(d, xs, f)
  BY <1>7, <1>9, <1>10, FramedSame
<1>12. f.utf - 1 \in Stack /\ f.utf - 1 >= r.esp
  BY <1>4, <1>6, <1>7, PageAssumption DEF Stack
<1> QED BY <1>2, <1>6, <1>7, <1>8, <1>11, <1>12

\* Frames stay as the kernel wrote them until their handler has returned, however
\* deep the faults of programs and handlers nest (trap.c:444-495, pfentry.S).
THEOREM FramesUntouched == ~Overrun => (Spec => []FramesIntact)
<1> SUFFICES ASSUME ~Overrun PROVE Spec => []FramesIntact
  OBVIOUS
<1>1. Spec => []Inv
  BY AlwaysInv
<1>2. Inv => FramesIntact
  <2> SUFFICES ASSUME Inv PROVE FramesIntact
    OBVIOUS
  <2>1. ASSUME NEW d \in 1 .. depth, NEW f, f = saved[d],
               (IF d = depth THEN reg ELSE saved[d + 1].reg).eip \in {"call", "handler"}
        PROVE  /\ xs[f.utf + (-1)] = <<"ptr", f.utf>>
               /\ xs[f.utf + 0] = <<"va", d - 1>> /\ xs[f.utf + 1] = <<"err", d - 1>>
               /\ xs[f.utf + 2] = f.reg.eax /\ xs[f.utf + 3] = f.reg.ebx
               /\ xs[f.utf + 4] = <<f.reg.eip, 0>> /\ xs[f.utf + 5] = f.reg.eflags
               /\ xs[f.utf + 6] = <<"ptr", f.reg.esp>>
    <3>1. /\ xs[f.utf - 1] = <<"ptr", f.utf>> /\ Framed(d, xs, f)
          /\ f.utf \in Int /\ f.reg.esp \in Int
      BY <2>1, FrameNow DEF RegAt
    <3>2. f.utf + (-1) = f.utf - 1 /\ f.utf + 0 = f.utf /\ f.reg.esp - 0 = f.reg.esp
      BY <3>1
    <3> QED BY <3>1, <3>2 DEF Framed, Pushed, Above
  <2> QED BY <2>1 DEF FramesIntact
<1> QED BY <1>1, <1>2, PTL

\* The frame of a nested fault is below what is left of the one before it, as
\* long as esp stays on the page: trap.c:415-416 holds then.
THEOREM FramesBelow == ~Overrun => (Spec => []FramesDescend)
<1> SUFFICES ASSUME ~Overrun PROVE Spec => []FramesDescend
  OBVIOUS
<1>1. Spec => []Inv
  BY AlwaysInv
<1>2. Inv => FramesDescend
  <2> SUFFICES ASSUME Inv, NEW d \in 1 .. depth - 1
               PROVE  saved[d + 1].utf + FRAME <= saved[d].utf + 2
    BY DEF FramesDescend
  <2>1. /\ depth \in Nat /\ d \in 1 .. depth /\ d + 1 \in 1 .. depth
        /\ d # depth /\ d + 1 # 1 /\ d \in Nat
    BY Innermost
  <2>2. PICK f, g, X, N : f = saved[d] /\ g = saved[d + 1] /\ X = XsAt(d) /\ N = NsAt(d)
    OBVIOUS
  <2>3. Level(d, g.reg, X, N)
    BY <2>1, <2>2 DEF Inv, Nested, RegAt
  <2>4. Placed(d + 1, g)
    BY <2>1, <2>2 DEF Inv, Nested, Level
  <2>5. g.reg.eip \in {"handler", "store"} /\ g.utf = g.reg.esp - 8 /\ g.reg.esp \in Int
    BY <2>1, <2>4, PageAssumption DEF Placed, Stack
  <2>6. f.utf \in Int /\ Unwinding(d, g.reg, X, N, f)
    BY <2>2, <2>3, PageAssumption DEF Level, Placed, Stack
  <2>7. g.reg.esp <= f.utf + 2
    BY <2>5, <2>6 DEF Unwinding
  <2>8. g.utf + 7 <= f.utf + 2
    BY <2>5, <2>6, <2>7
  <2> QED BY <2>2, <2>8 DEF FRAME
<1> QED BY <1>1, <1>2, PTL

\* A page fault is invisible to the code it interrupts: when its upcall returns
\* the registers and the words in use are what they were (pfentry.S).
THEOREM FaultsInvisible == ~Overrun => (Spec => Transparent)
<1> SUFFICES ASSUME ~Overrun PROVE Spec => Transparent
  OBVIOUS
<1> DEFINE Back == At("ret") => LET was == saved[depth]
                  IN /\ reg' = was.reg
                     /\ \A i \in Stack : was.reg.esp \in Stack /\ i >= was.reg.esp
                                           => xs'[i] = was.xs[i]
                     /\ \A i \in UserStack : i >= was.reg.esp => ns'[i] = was.ns[i]
<1>1. Spec => []Inv
  BY AlwaysInv
<1>2. Inv /\ [Next]_vars => [Back]_vars
  <2> SUFFICES ASSUME Inv, Next, At("ret") PROVE Back
    OBVIOUS
  <2>1. Ret
    BY DEF Next, Handler, Upcall, UserStep, UserFault, SetPgfaultHandler, UnmapStack,
       PushLocal, SubLocals, HandlerFault, HandlerReturn, PushArg, Call, Skip, LoadEip,
       LoadEsp, StoreEip, StoreFault, SetEsp, Popal, Popf, PopEsp, At
  <2>2. depth # 0 /\ reg' = saved[depth].reg /\ xs' = xs /\ ns' = ns
    BY <2>1, RetFacts
  <2>3. Keeps(reg, xs, ns, saved[depth])
    BY <2>2, Innermost DEF Level
  <2> QED BY <2>2, <2>3 DEF Keeps
<1> QED BY <1>1, <1>2, PTL DEF Spec, Transparent
=============================================================================
