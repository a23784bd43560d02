--------------------------- MODULE ExceptionStack ---------------------------
(***************************************************************************)
(* The user page-fault upcall: page_fault_handler in kern/trap.c, which    *)
(* pushes a frame on the exception stack, the C handler, which may fault   *)
(* itself, and _pgfault_upcall in lib/pfentry.S, which returns to the      *)
(* instruction that faulted, on the stack that it was on.                  *)
(*                                                                         *)
(* One environment.  Memory is counted in words.  The exception stack is   *)
(* the words 0 .. PAGE-1, the words just below it are not mapped, and the  *)
(* normal stack has negative addresses.  A word is a pair: what it is, and *)
(* a number, for a register the nesting depth of the code that holds it.   *)
(***************************************************************************)
EXTENDS Integers, Sequences

CONSTANTS PAGE,        \* words of the exception stack
          UserStack,   \* addresses of the normal stack
          MAXLOCALS,   \* words that the C handler allocates at most
          Overrun      \* "sub" may take esp below the page before a store does

FRAME == 7   \* fault_va, err, eax, ebx, eip, eflags, esp: PushRegs as two words
Stack == 0 .. PAGE - 1

ASSUME PageAssumption == PAGE \in Nat /\ PAGE >= FRAME
ASSUME StackAssumption == UserStack \subseteq {n \in Int : n < -1}
ASSUME LocalsAssumption == MAXLOCALS \in Nat /\ Overrun \in BOOLEAN

VARIABLES reg,      \* eax, ebx, eflags, esp, eip
          xs, ns,   \* the words of the exception stack and of the normal stack
          xpage,    \* the page of the exception stack is mapped writable
          upcall,   \* env_pgfault_upcall is set, and so is _pgfault_handler
          status,   \* of the environment
          saved     \* history: for every fault not yet returned from, the
                    \* registers and stacks, and where its frame is

vars == <<reg, xs, ns, xpage, upcall, status, saved>>

Label == {"user", "handler",
          \* _pgfault_upcall, by what the next instruction does
          "pusharg", "call", "skip", "loadeip", "loadesp", "store", "setesp",
          "popal", "popf", "popesp", "ret"}
Word == (Label \cup {"eax", "ebx", "eflags", "local", "ptr", "va", "err", "free"}) \X Int
Registers == [eax : Word, ebx : Word, eflags : Word, esp : Int, eip : Label]
Interrupted == [reg : Registers, xs : [Stack -> Word], ns : [UserStack -> Word], utf : Stack]

TypeOK == /\ reg \in Registers
          /\ xs \in [Stack -> Word]
          /\ ns \in [UserStack -> Word]
          /\ xpage \in BOOLEAN /\ upcall \in BOOLEAN
          /\ status \in {"running", "destroyed", "panic"}
          /\ saved \in Seq(Interrupted)

depth == Len(saved)

\* What the registers hold while C code at nesting depth d runs, user code at 0.
Running(d, esp, eip) == [eax |-> <<"eax", d>>, ebx |-> <<"ebx", d>>,
                         eflags |-> <<"eflags", d>>, esp |-> esp, eip |-> eip]

\* A word below esp is mapped.
UserEsp == {a \in UserStack : a - 1 \in UserStack}

Init == /\ \E esp \in UserEsp : reg = Running(0, esp, "user")
        /\ xs = [i \in Stack |-> <<"free", 0>>]
        /\ ns = [i \in UserStack |-> <<"local", i>>]
        /\ xpage = FALSE /\ upcall = FALSE
        /\ status = "running"
        /\ saved = <<>>

-----------------------------------------------------------------------------
(* page_fault_handler                                                      *)

\* Mutant: no scratch word above a nested frame.
NewFrame_NoScratch(esp) == IF esp \in Stack THEN esp - FRAME ELSE PAGE - FRAME

\* Mutant: a fault on the exception stack is not told from any other.
NewFrame_AlwaysTop(esp) == PAGE - FRAME

\* Where the frame of a fault at esp goes (trap.c:457-484).
NewFrame(esp) == IF esp \in Stack THEN esp - 1 - FRAME ELSE PAGE - FRAME

\* Mutant: the new frame is not checked.
FrameAllowed_PageOnly(utf) == xpage

\* Both calls of user_mem_assert (trap.c:449, 473); the second checks the first
\* byte of the frame, which is in the page or in the gap below it.
FrameAllowed(utf) == xpage /\ utf \in Stack

\* The page fault of the instruction at eip; the kernel faults if the frame it
\* writes is not in mapped memory.
PageFault ==
  LET utf == NewFrame(reg.esp)
      frame == <<<<"va", depth>>, <<"err", depth>>, reg.eax, reg.ebx,
                 <<reg.eip, 0>>, reg.eflags, <<"ptr", reg.esp>>>>
      words == utf .. utf + FRAME - 1
  IN /\ IF ~upcall \/ ~FrameAllowed(utf)
        THEN status' = "destroyed" /\ UNCHANGED <<reg, xs, saved>>
        ELSE IF ~(words \subseteq Stack)
        THEN status' = "panic" /\ UNCHANGED <<reg, xs, saved>>
        ELSE /\ xs' = [i \in Stack |-> IF i \in words THEN frame[i - utf + 1] ELSE xs[i]]
             /\ saved' = Append(saved, [reg |-> reg, xs |-> xs, ns |-> ns, utf |-> utf])
             /\ reg' = [reg EXCEPT !.eip = "pusharg", !.esp = utf]
             /\ UNCHANGED status
     /\ UNCHANGED <<ns, xpage, upcall>>

At(label) == status = "running" /\ reg.eip = label

-----------------------------------------------------------------------------
(* The program                                                             *)

\* Its stack grows and shrinks.
UserStep == /\ At("user")
            /\ \E esp \in UserEsp : reg' = [reg EXCEPT !.esp = esp]
            /\ UNCHANGED <<xs, ns, xpage, upcall, status, saved>>

UserFault == At("user") /\ PageFault

\* The first set_pgfault_handler.  Without memory sys_page_alloc returns the
\* positive E_NO_MEM, which passes for success.
SetPgfaultHandler == /\ At("user") /\ ~upcall
                     /\ xpage' \in {xpage, TRUE}
                     /\ upcall' = TRUE
                     /\ UNCHANGED <<reg, xs, ns, status, saved>>

\* sys_page_unmap of its exception stack.
UnmapStack == /\ At("user") /\ xpage
              /\ xpage' = FALSE
              /\ UNCHANGED <<reg, xs, ns, upcall, status, saved>>

-----------------------------------------------------------------------------
(* The C handler.  It runs at depth >= 1 with its argument and its return  *)
(* address above its locals, and may fault with any number of locals.      *)

Step(newreg) == reg' = newreg /\ UNCHANGED <<xs, ns, xpage, upcall, status, saved>>

Push(word, newreg) ==
  IF reg.esp - 1 \in Stack
  THEN /\ xs' = [xs EXCEPT ![reg.esp - 1] = word]
       /\ reg' = [newreg EXCEPT !.esp = reg.esp - 1]
       /\ UNCHANGED <<ns, xpage, upcall, status, saved>>
  ELSE PageFault

\* Where esp is when the handler has no locals: at its return address.
Entry == saved[depth].utf - 2

PushLocal == /\ At("handler") /\ reg.esp \in Stack /\ Entry - reg.esp < MAXLOCALS
             /\ Push(<<"local", depth>>, reg)

SubLocals == /\ At("handler") /\ reg.esp = Entry
             /\ \E n \in 1 .. MAXLOCALS :
                  /\ Entry - n \in Stack \/ Overrun
                  /\ Step([reg EXCEPT !.esp = Entry - n])

HandlerFault == At("handler") /\ PageFault

HandlerReturn == /\ At("handler") /\ Entry \in Stack
                 /\ Step(Running(depth, Entry + 1, xs[Entry][1]))

-----------------------------------------------------------------------------
(* _pgfault_upcall, an instruction at a time, but for arithmetic that      *)
(* belongs to the next or the last access.                                 *)

\* pushl %esp
PushArg == At("pusharg") /\ Push(<<"ptr", reg.esp>>, [reg EXCEPT !.eip = "call"])

\* call *%eax
Call == At("call") /\ Push(<<"skip", 0>>, Running(depth, reg.esp, "handler"))

\* addl $4, %esp; addl $8, %esp: the argument, fault_va and err
Skip == At("skip") /\ Step([reg EXCEPT !.esp = @ + 3, !.eip = "loadeip"])

\* movl 0x20(%esp), %eax; the frame is eax, ebx, eip, eflags, esp from here.
LoadEip == At("loadeip") /\ Step([reg EXCEPT !.eax = xs[reg.esp + 2], !.eip = "loadesp"])

\* movl 0x28(%esp), %ebx; subl $4, %ebx
LoadEsp ==
  /\ At("loadesp")
  /\ LET esp == xs[reg.esp + 4]
     IN Step([reg EXCEPT !.ebx = <<esp[1], esp[2] - 1>>, !.eip = "store"])

\* movl %eax, (%ebx)
StoreEip ==
  /\ At("store")
  /\ LET a == reg.ebx[2]
     IN /\ xs' = IF a \in Stack THEN [xs EXCEPT ![a] = reg.eax] ELSE xs
        /\ ns' = IF a \in UserStack THEN [ns EXCEPT ![a] = reg.eax] ELSE ns
  /\ reg' = [reg EXCEPT !.eip = "setesp"]
  /\ UNCHANGED <<xpage, upcall, status, saved>>

\* The normal stack may be copy-on-write.
StoreFault == At("store") /\ reg.ebx[2] \notin Stack /\ PageFault

\* movl %ebx, 0x28(%esp)
SetEsp == /\ At("setesp")
          /\ xs' = [xs EXCEPT ![reg.esp + 4] = reg.ebx]
          /\ reg' = [reg EXCEPT !.eip = "popal"]
          /\ UNCHANGED <<ns, xpage, upcall, status, saved>>

\* popal
Popal == /\ At("popal")
         /\ Step([reg EXCEPT !.eax = xs[reg.esp], !.ebx = xs[reg.esp + 1],
                             !.esp = @ + 2, !.eip = "popf"])

\* addl $4, %esp; popf
Popf == /\ At("popf")
        /\ Step([reg EXCEPT !.eflags = xs[reg.esp + 1], !.esp = @ + 2, !.eip = "popesp"])

\* popl %esp
PopEsp == At("popesp") /\ Step([reg EXCEPT !.esp = xs[reg.esp][2], !.eip = "ret"])

\* ret
Ret == /\ At("ret")
       /\ LET word == IF reg.esp \in Stack THEN xs[reg.esp] ELSE ns[reg.esp]
          IN reg' = [reg EXCEPT !.eip = word[1], !.esp = @ + 1]
       /\ saved' = SubSeq(saved, 1, depth - 1)
       /\ UNCHANGED <<xs, ns, xpage, upcall, status>>

Handler == PushLocal \/ SubLocals \/ HandlerFault \/ HandlerReturn
Upcall == \/ PushArg \/ Call \/ Skip \/ LoadEip \/ LoadEsp \/ StoreEip \/ StoreFault
          \/ SetEsp \/ Popal \/ Popf \/ PopEsp \/ Ret
Next == UserStep \/ UserFault \/ SetPgfaultHandler \/ UnmapStack \/ Handler \/ Upcall

Spec == Init /\ [][Next]_vars

-----------------------------------------------------------------------------
\* A page fault is invisible to the code it interrupts, be it the program, the
\* handler or the upcall itself: it goes on where it was, with the registers it
\* had, and every word in use on both stacks, those at esp and above, is as it
\* was.  "The page fault upcall might cause another page fault, in which case we
\* branch to the page fault upcall recursively" (trap.c:402).
Transparent ==
  [][At("ret") => LET was == saved[depth]
                  IN /\ reg' = was.reg
                     /\ \A i \in Stack : was.reg.esp \in Stack /\ i >= was.reg.esp
                                           => xs'[i] = was.xs[i]
                     /\ \A i \in UserStack : i >= was.reg.esp => ns'[i] = was.ns[i]]_vars

\* Until its handler has returned, a frame is what the kernel wrote, whatever
\* nests below it, and the argument on the stack points at it.
FramesIntact ==
  \A d \in 1 .. depth :
    LET f == saved[d]
        now == IF d = depth THEN reg ELSE saved[d + 1].reg
        at(i) == xs[f.utf + i]
    IN now.eip \in {"call", "handler"} =>
       /\ at(-1) = <<"ptr", f.utf>>
       /\ at(0) = <<"va", d - 1>> /\ at(1) = <<"err", d - 1>>
       /\ at(2) = f.reg.eax /\ at(3) = f.reg.ebx /\ at(4) = <<f.reg.eip, 0>>
       /\ at(5) = f.reg.eflags /\ at(6) = <<"ptr", f.reg.esp>>

\* The kernel never faults on a frame it writes: however deep the faults nest,
\* the one that does not fit ends the environment (trap.c:414).
NoPanic == status # "panic"

\* "The exception stack overflows, then destroy the environment that caused the
\* fault" (trap.c:415-416): every frame is below those in use.
FramesDescend == \A d \in 1 .. depth - 1 : saved[d + 1].utf + FRAME <= saved[d].utf + 2
=============================================================================
