------------------------------ MODULE Console ------------------------------
(***************************************************************************)
(* Keyboard input, kern/console.c: the scan codes in the controller,       *)
(* kbd_proc_data, which decodes them, and the ring that cons_intr fills    *)
(* and cons_getc empties.  Only cons_getc reads the keyboard, with the     *)
(* kernel lock held, so the keyboard alone runs at the same time.          *)
(*                                                                         *)
(* A key is its code and whether an E0 byte goes before it, so that the    *)
(* left and the right control key are <<"ctl", FALSE>>, <<"ctl", TRUE>>.   *)
(***************************************************************************)
EXTENDS Integers, Sequences

CONSTANTS CONSBUFSIZE,   \* entries of the ring
          PENDING,       \* bytes that the controller holds
          TYPEAHEAD      \* characters typed and not yet read

Letter == {<<"a", FALSE>>}
Modifier == {<<"ctl", FALSE>>, <<"ctl", TRUE>>, <<"shift", FALSE>>}
Caps == <<"caps", FALSE>>
Key == Letter \cup Modifier \cup {Caps}
Bit == {"CTL", "SHIFT", "CAPSLOCK", "E0ESC"}

ASSUME BufferAssumption == CONSBUFSIZE \in Nat \ {0} /\ PENDING \in Nat /\ TYPEAHEAD \in Nat

VARIABLES line,         \* the bytes in the keyboard controller
          shift,        \* shift of kbd_proc_data, as the set of its bits
          buf, rpos, wpos,   \* cons
          pc,           \* in cons_getc: "poll" or "grab"
          held, caps,   \* the keyboard: modifiers that are down, caps lock
          typed         \* history: the characters not read yet, as they were typed

consvars == <<line, shift, buf, rpos, wpos, pc, held, caps, typed>>

E0 == [code |-> "E0", up |-> FALSE]
Byte == {E0} \cup [code : {"a", "ctl", "shift", "caps"}, up : BOOLEAN]
Char == Letter \X {"lower", "upper", "control"}

\* What the one who presses a letter expects: control wins over shift, and caps
\* lock exchanges the two cases.
Meant(k) == <<k, IF \E m \in held : m[1] = "ctl" THEN "control"
                 ELSE IF (\E m \in held : m[1] # "ctl") # caps THEN "upper" ELSE "lower">>

ConsoleTypeOK == /\ line \in Seq(Byte)
                 /\ shift \subseteq Bit
                 /\ buf \in [0 .. CONSBUFSIZE - 1 -> Char \cup {<<>>}]
                 /\ rpos \in 0 .. CONSBUFSIZE - 1 /\ wpos \in 0 .. CONSBUFSIZE - 1
                 /\ pc \in {"poll", "grab"}
                 /\ held \subseteq Modifier /\ caps \in BOOLEAN /\ typed \in Seq(Char)

ConsoleInit == /\ line = <<>> /\ shift = {}
               /\ buf = [i \in 0 .. CONSBUFSIZE - 1 |-> <<>>]
               /\ rpos = 0 /\ wpos = 0 /\ pc = "poll"
               /\ held = {} /\ caps = FALSE /\ typed = <<>>

-----------------------------------------------------------------------------
(* kbd_proc_data                                                           *)

\* shiftcode and togglecode; the entries of the right control key are at the
\* codes with the bit 0x80, which an E0 byte stands for.
ShiftCode(k) == CASE k[1] = "ctl" -> {"CTL"} [] k[1] = "shift" -> {"SHIFT"} [] OTHER -> {}
ToggleCode(k) == IF k = Caps THEN {"CAPSLOCK"} ELSE {}

\* charcode[shift & (CTL | SHIFT)] of a letter, and CAPSLOCK.
CharCode(bits, k) ==
  <<k, IF "CTL" \in bits THEN "control"
       ELSE IF ("SHIFT" \in bits) # ("CAPSLOCK" \in bits) THEN "upper" ELSE "lower">>

\* shift after a key is released.
Released(bits, k) == bits \ (ShiftCode(k) \cup {"E0ESC"})

\* shift after a key is pressed.
Pressed(bits, k) ==
  LET down == (bits \ {"E0ESC"}) \cup ShiftCode(k)
  IN (down \cup ToggleCode(k)) \ (down \cap ToggleCode(k))

\* A byte is read: shift, and the character when there is one.
KbdProcData(bits, byte) ==
  LET k == <<byte.code, "E0ESC" \in bits>>
      down == Pressed(bits, k)
  IN CASE byte = E0 -> [bits |-> bits \cup {"E0ESC"}, out |-> <<>>]
       [] byte # E0 /\ byte.up -> [bits |-> Released(bits, k), out |-> <<>>]
       [] OTHER -> [bits |-> down, out |-> IF k \in Letter THEN <<CharCode(down, k)>> ELSE <<>>]

-----------------------------------------------------------------------------
(* The ring                                                                *)

\* Mutant: the index is not wrapped.
Wrapped_Late(i) == IF i > CONSBUFSIZE THEN 0 ELSE i

\* An index of the ring after it was advanced to i.
Wrapped(i) == IF i = CONSBUFSIZE THEN 0 ELSE i

\* The loop of cons_intr for one byte; a character goes into the ring, whether
\* that is full or not.
ConsIntr ==
  /\ pc = "poll" /\ line # <<>>
  /\ LET d == KbdProcData(shift, Head(line))
     IN /\ shift' = d.bits
        /\ IF d.out # <<>> THEN buf' = [buf EXCEPT ![wpos] = d.out[1]] /\ wpos' = Wrapped(wpos + 1)
           ELSE UNCHANGED <<buf, wpos>>
  /\ line' = Tail(line)
  /\ UNCHANGED <<rpos, pc, held, caps, typed>>

\* The controller has nothing more.
Polled == pc = "poll" /\ line = <<>> /\ pc' = "grab"
          /\ UNCHANGED <<line, shift, buf, rpos, wpos, held, caps, typed>>

\* The rest of cons_getc, and getchar's loop around it.
ConsGetc ==
  /\ pc = "grab" /\ pc' = "poll"
  /\ IF rpos # wpos THEN rpos' = Wrapped(rpos + 1) /\ typed' = Tail(typed)
     ELSE UNCHANGED <<rpos, typed>>
  /\ UNCHANGED <<line, shift, buf, wpos, held, caps>>

-----------------------------------------------------------------------------
(* The keyboard                                                            *)

Sends(k, up) ==
  LET bytes == (IF k[2] THEN <<E0>> ELSE <<>>) \o <<[code |-> k[1], up |-> up]>>
  IN Len(line) + Len(bytes) <= PENDING /\ line' = line \o bytes

\* The characters in the ring.
InRing == [i \in 1 .. (wpos - rpos + CONSBUFSIZE) % CONSBUFSIZE |->
             buf[(rpos + i - 1) % CONSBUFSIZE]]

\* shift and the characters after kbd_proc_data has read these bytes.
Decoding(bits, bytes) ==
  LET d[i \in 0 .. Len(bytes)] ==
        IF i = 0 THEN [bits |-> bits, out |-> <<>>]
        ELSE LET now == KbdProcData(d[i - 1].bits, bytes[i])
             IN [bits |-> now.bits, out |-> d[i - 1].out \o now.out]
  IN d[Len(bytes)]

\* The characters still in the controller.
Decoded == Decoding(shift, line).out

\* Of every modifier one key is down at most.  Keys repeat.
Press(k) == /\ Sends(k, FALSE)
            /\ k \in Letter => Len(typed) < TYPEAHEAD
            /\ \A m \in held : m[1] = k[1] => m = k
            /\ held' = IF k \in Modifier THEN held \cup {k} ELSE held
            /\ caps' = IF k = Caps THEN ~caps ELSE caps
            /\ typed' = IF k \in Letter THEN Append(typed, Meant(k)) ELSE typed
            /\ UNCHANGED <<shift, buf, rpos, wpos, pc>>

Release(k) == /\ k \in Modifier => k \in held
              /\ Sends(k, TRUE)
              /\ held' = held \ {k}
              /\ UNCHANGED <<shift, buf, rpos, wpos, pc, caps, typed>>

ConsoleNext == \/ ConsIntr \/ Polled \/ ConsGetc
               \/ \E k \in Key : Press(k) \/ Release(k)

ConsoleSpec == ConsoleInit /\ [][ConsoleNext]_consvars

-----------------------------------------------------------------------------
\* "return the next input character from the console" (console.c:409): however
\* keys and polls interleave, the ring and the controller hold the characters of
\* the letters typed, in their order, with the modifiers of that moment.
TypedInOrder == InRing \o Decoded = typed
=============================================================================
