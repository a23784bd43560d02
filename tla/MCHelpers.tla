----------------------------- MODULE MCHelpers -----------------------------
\* Small instances of six parts that do not interact, for TLC: each initial
\* state is one of the console, of mem_init, of the loader, of a search among
\* stabs, of the page-fault upcall, or a call of user_mem_check.  The other parts
\* rest meanwhile.
EXTENDS Console, UserMem, Loader, BootMemory, StabSearch, ExceptionStack

VARIABLE part

loadervars == <<ph, n, image>>
helpervars == <<args, consvars, loadervars, bootvars, stabvars>>

NoConsole == /\ line = <<>> /\ shift = {} /\ buf = <<>> /\ rpos = 0 /\ wpos = 0 /\ pc = "poll"
             /\ held = {} /\ caps = FALSE /\ typed = <<>>
NoLoader == ph = <<>> /\ n = 0 /\ image = <<>>
NoCall == args = [va |-> 0, len |-> 0, w |-> FALSE, pt |-> CHOOSE t \in Tables : TRUE]
NoBoot == /\ stage = "alloc" /\ npages = 0 /\ kend = 0 /\ nextfree = 0 /\ freelist = <<>>
          /\ kdir = <<>> /\ kmap = <<>> /\ region = 1
NoSearch == /\ stabs = <<>> /\ wanted = 0 /\ addr = 0 /\ l = 0 /\ r = 0 /\ left = 0 /\ right = 0
            /\ any_matches = FALSE /\ searching = TRUE
NoUpcall == /\ reg = Running(0, 0, "user") /\ xs = <<>> /\ ns = <<>> /\ xpage = FALSE /\ upcall = FALSE
            /\ status = "running" /\ saved = <<>>

HelpersInit ==
  \/ /\ NoUpcall
     /\ \/ part = "console" /\ ConsoleInit /\ NoLoader /\ NoCall /\ NoBoot /\ NoSearch
        \/ part = "loader" /\ LoaderInit /\ NoConsole /\ NoCall /\ NoBoot /\ NoSearch
        \/ part = "user_mem_check" /\ args \in Args /\ NoConsole /\ NoLoader /\ NoBoot /\ NoSearch
        \/ part = "mem_init" /\ BootInit /\ NoConsole /\ NoLoader /\ NoCall /\ NoSearch
        \/ part = "stab_binsearch" /\ StabInit /\ NoConsole /\ NoLoader /\ NoCall /\ NoBoot
  \/ part = "upcall" /\ Init /\ NoConsole /\ NoLoader /\ NoCall /\ NoBoot /\ NoSearch

HelpersNext ==
  /\ UNCHANGED part
  /\ \/ /\ UNCHANGED <<args, vars>>
        /\ \/ part = "console" /\ ConsoleNext /\ UNCHANGED <<loadervars, bootvars, stabvars>>
           \/ part = "loader" /\ LoaderNext /\ UNCHANGED <<consvars, bootvars, stabvars>>
           \/ part = "mem_init" /\ BootNext /\ UNCHANGED <<consvars, loadervars, stabvars>>
           \/ part = "stab_binsearch" /\ StabNext /\ UNCHANGED <<consvars, loadervars, bootvars>>
     \/ part = "upcall" /\ Next /\ UNCHANGED helpervars

HelpersSpec == HelpersInit /\ [][HelpersNext]_<<part, helpervars, vars>>

-----------------------------------------------------------------------------
NormalStack == {-6, -5, -4, -3}

\* Two states of the upcall are the same if they differ only in words below the
\* stack pointers, which whatever runs writes before it reads them.
Used(words, esp) == [i \in DOMAIN words |-> IF i >= esp THEN words[i] ELSE <<"free", 0>>]
XsUsed(words, esp) == Used(words, IF esp \in Stack THEN esp ELSE PAGE)
UserEspNow == IF depth = 0 THEN reg.esp ELSE saved[1].reg.esp - 1
UpcallView == <<reg, xpage, upcall, status, XsUsed(xs, reg.esp), Used(ns, UserEspNow),
                [d \in 1 .. depth |-> [saved[d] EXCEPT !.xs = XsUsed(@, saved[d].reg.esp),
                                                       !.ns = Used(@, saved[1].reg.esp - 1)]]>>
View == <<part, helpervars, UpcallView>>
=============================================================================
