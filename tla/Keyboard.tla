----------------------------- MODULE Keyboard ------------------------------
(***************************************************************************)
(* The PS/2 keyboard driver (kernel/drivers/keyboard.c): the interrupt     *)
(* handler decodes scancodes and fills a ring buffer that thread code      *)
(* empties.  The handler runs through an interrupt gate, so it is one      *)
(* step; the reader can be interrupted between any two accesses to the     *)
(* buffer, and between its test for a key and the hlt instruction.         *)
(*                                                                         *)
(* Keys are represented by names; two printing keys stand for all: "A" for *)
(* the letters and "1" for the others.  "UP" stands for the four arrow     *)
(* keys, "RCTRL" for the other keys that send the prefix 0xE0, "F1" for    *)
(* the keys without a character.                                           *)
(***************************************************************************)
EXTENDS Naturals, Sequences

CONSTANTS Size,    \* KEYBOARD_BUFFER_SIZE
          Keys,    \* the keys of the keyboard
          MaxRead  \* largest count passed to keyboard_read

AllKeys == {"A", "1", "F1", "LSHIFT", "RSHIFT", "LCTRL", "LALT", "CAPS", "UP", "RCTRL"}

ASSUME KeyboardAssumption == /\ Size \in Nat \ {0, 1}
                             /\ Keys \subseteq AllKeys
                             /\ MaxRead \in Nat

None == "none"
Chars == {"a", "A", "^A", "1", "!", "KEY_UP"}
Slots == 0..(Size - 1)
Shifts == {"LSHIFT", "RSHIFT"}
Extended == {"UP", "RCTRL"}

\* A byte from port 0x60: the prefix, or a code with or without the release
\* bit.  The right Ctrl key sends the code of the left one.
Prefix == [code |-> "E0", release |-> FALSE]
Code(key) == IF key = "RCTRL" THEN "LCTRL" ELSE key
Bytes(key, release) ==
    (IF key \in Extended THEN <<Prefix>> ELSE <<>>)
      \o <<[code |-> Code(key), release |-> release]>>

VARIABLES
    key_buffer, buffer_head, buffer_tail,  \* the ring
    mods,     \* shift, ctrl, alt, caps and ext: the driver's flags
    wire,     \* bytes the keyboard has sent and no interrupt has fetched
    held,     \* the keys that are down
    pc,       \* where the reader is
    left,     \* keyboard_read: characters still wanted; keyboard_getchar: 1
    blocking, \* the reader is in keyboard_getchar
    char,     \* the reader's local c in buffer_get
    ret       \* the character the reader got last

ring == <<key_buffer, buffer_head, buffer_tail>>
reader == <<left, blocking, char, ret>>
vars == <<ring, mods, wire, held, pc, reader>>

-----------------------------------------------------------------------------
(***************************************************************************)
(* The ring buffer.                                                        *)
(***************************************************************************)

\* An operator commented "Fault" is a faulty variant of the operator that
\* follows it; nothing else uses it.

\* Fault: the test for a full ring is missing.
PutNoFullTest(c) ==
    /\ key_buffer' = [key_buffer EXCEPT ![buffer_head] = c]
    /\ buffer_head' = (buffer_head + 1) % Size

\* buffer_put.
BufferPut(c) ==
    LET next == (buffer_head + 1) % Size
    IN IF next # buffer_tail
       THEN /\ key_buffer' = [key_buffer EXCEPT ![buffer_head] = c]
            /\ buffer_head' = next
       ELSE UNCHANGED <<key_buffer, buffer_head>>

\* keyboard_available.
Available == buffer_head # buffer_tail

-----------------------------------------------------------------------------
(***************************************************************************)
(* The interrupt handler.                                                  *)
(***************************************************************************)

\* The two translation tables.
Plain(code) == CASE code = "A" -> "a" [] code = "1" -> "1" [] OTHER -> None
Shifted(code) == CASE code = "A" -> "A" [] code = "1" -> "!" [] OTHER -> None

CapsSwap(c) == CASE c = "a" -> "A" [] c = "A" -> "a" [] OTHER -> c

\* The character of a code press under the flags m.
Translate(m, code) ==
    LET c == IF m.shift THEN Shifted(code) ELSE Plain(code)
        d == IF m.caps THEN CapsSwap(c) ELSE c
    IN IF m.ctrl /\ d = "a" THEN "^A" ELSE d

PutIfChar(c) == IF c = None THEN UNCHANGED <<key_buffer, buffer_head>>
                ELSE BufferPut(c)

\* Fault: the prefix flag survives the release of an extended key.
ReleaseKeepsExt(b) ==
    /\ mods' = IF mods.ext THEN mods
               ELSE [mods EXCEPT !.shift = @ /\ b.code \notin Shifts,
                                 !.ctrl = @ /\ b.code # "LCTRL",
                                 !.alt = @ /\ b.code # "LALT"]
    /\ UNCHANGED <<key_buffer, buffer_head>>

\* Bit 7 set: a key was released; after the prefix it is none of ours.
Release(b) ==
    /\ mods' = IF mods.ext THEN [mods EXCEPT !.ext = FALSE]
               ELSE [mods EXCEPT !.shift = @ /\ b.code \notin Shifts,
                                 !.ctrl = @ /\ b.code # "LCTRL",
                                 !.alt = @ /\ b.code # "LALT"]
    /\ UNCHANGED <<key_buffer, buffer_head>>

\* A code after the prefix.
PressExtended(b) ==
    /\ mods' = [mods EXCEPT !.ext = FALSE]
    /\ PutIfChar(IF b.code = "UP" THEN "KEY_UP" ELSE None)

\* A code without prefix: a modifier, or a key that may have a character.
Press(b) ==
    /\ mods' = [mods EXCEPT !.shift = @ \/ b.code \in Shifts,
                            !.ctrl = @ \/ b.code = "LCTRL",
                            !.alt = @ \/ b.code = "LALT",
                            !.caps = IF b.code = "CAPS" THEN ~@ ELSE @]
    /\ PutIfChar(IF b.code \in {"LCTRL", "LALT", "CAPS"} \cup Shifts THEN None
                 ELSE Translate(mods, b.code))

\* keyboard_handler.
KeyboardHandler(b) ==
    \/ /\ b = Prefix
       /\ mods' = [mods EXCEPT !.ext = TRUE]
       /\ UNCHANGED <<key_buffer, buffer_head>>
    \/ b.release /\ Release(b)
    \/ b # Prefix /\ ~b.release /\ mods.ext /\ PressExtended(b)
    \/ b # Prefix /\ ~b.release /\ ~mods.ext /\ Press(b)

\* Fault: the reader is left halted.
WakeNobody == pc' = pc

\* An interrupt ends a hlt; the reader then tests for a key again.
WakeReader == pc' = IF pc = "halted" THEN "check" ELSE pc

\* IRQ1.
KeyboardInterrupt ==
    /\ wire # <<>>
    /\ wire' = Tail(wire)
    /\ KeyboardHandler(Head(wire))
    /\ WakeReader
    /\ UNCHANGED <<buffer_tail, held, reader>>

\* IRQ0, which matters here only for a halted CPU.
TimerInterrupt ==
    /\ pc = "halted"
    /\ WakeReader
    /\ UNCHANGED <<ring, mods, wire, held, reader>>

-----------------------------------------------------------------------------
(***************************************************************************)
(* The user.  A key that is held repeats its press.                        *)
(***************************************************************************)

PressKey(key) ==
    /\ wire = <<>>
    /\ wire' = Bytes(key, FALSE)
    /\ held' = held \cup {key}
    /\ UNCHANGED <<ring, mods, pc, reader>>

ReleaseKey(key) ==
    /\ wire = <<>> /\ key \in held
    /\ wire' = Bytes(key, TRUE)
    /\ held' = held \ {key}
    /\ UNCHANGED <<ring, mods, pc, reader>>

-----------------------------------------------------------------------------
(***************************************************************************)
(* The reader.                                                             *)
(***************************************************************************)

\* Entry of keyboard_getchar and of keyboard_read.
CallGetchar ==
    /\ pc = "idle"
    /\ pc' = "check" /\ blocking' = TRUE /\ left' = 1
    /\ UNCHANGED <<ring, mods, wire, held, char, ret>>

CallRead(n) ==
    /\ pc = "idle"
    /\ pc' = "check" /\ blocking' = FALSE /\ left' = n
    /\ UNCHANGED <<ring, mods, wire, held, char, ret>>

\* The loop conditions of both: keyboard_getchar goes on to hlt when there is
\* no key, keyboard_read returns.
Check ==
    /\ pc = "check"
    /\ pc' = IF left > 0 /\ Available THEN "get"
             ELSE IF blocking THEN "hlt" ELSE "idle"
    /\ UNCHANGED <<ring, mods, wire, held, reader>>

Halt ==
    /\ pc = "hlt"
    /\ pc' = "halted"
    /\ UNCHANGED <<ring, mods, wire, held, reader>>

\* buffer_get up to the load of the character: it returns 0 if it finds the
\* buffer empty.
GetLoad ==
    /\ pc = "get"
    /\ IF Available
       THEN char' = key_buffer[buffer_tail] /\ pc' = "advance"
       ELSE char' = None /\ pc' = "idle"
    /\ UNCHANGED <<ring, mods, wire, held, left, blocking, ret>>

\* The rest of buffer_get, and of its caller's loop body.
GetAdvance ==
    /\ pc = "advance"
    /\ buffer_tail' = (buffer_tail + 1) % Size
    /\ ret' = char /\ left' = left - 1
    /\ pc' = IF blocking THEN "idle" ELSE "check"
    /\ UNCHANGED <<key_buffer, buffer_head, mods, wire, held, blocking, char>>

ReaderStep == Check \/ Halt \/ GetLoad \/ GetAdvance

-----------------------------------------------------------------------------
\* keyboard_init.
Init ==
    /\ key_buffer = [i \in Slots |-> None] /\ buffer_head = 0 /\ buffer_tail = 0
    /\ mods = [shift |-> FALSE, ctrl |-> FALSE, alt |-> FALSE, caps |-> FALSE, ext |-> FALSE]
    /\ wire = <<>> /\ held = {}
    /\ pc = "idle" /\ left = 0 /\ blocking = FALSE /\ char = None /\ ret = None

Next ==
    \/ KeyboardInterrupt
    \/ TimerInterrupt
    \/ \E key \in Keys : PressKey(key)
    \/ \E key \in Keys : ReleaseKey(key)
    \/ CallGetchar
    \/ \E n \in 0..MaxRead : CallRead(n)
    \/ ReaderStep

Spec == Init /\ [][Next]_vars

\* The CPU executes the reader's code, and IRQ0 keeps coming at 100 Hz.
FairSpec == Spec /\ WF_vars(ReaderStep) /\ WF_vars(TimerInterrupt)

-----------------------------------------------------------------------------
(***************************************************************************)
(* Properties.                                                             *)
(***************************************************************************)

\* Both indexes stay inside the ring, and only characters get into it.
TypeOK ==
    /\ key_buffer \in [Slots -> Chars \cup {None}]
    /\ buffer_head \in Slots /\ buffer_tail \in Slots
    /\ mods \in [shift: BOOLEAN, ctrl: BOOLEAN, alt: BOOLEAN, caps: BOOLEAN, ext: BOOLEAN]
    /\ wire \in Seq([code: AllKeys \cup {"E0"}, release: BOOLEAN]) /\ held \subseteq Keys
    /\ pc \in {"idle", "check", "hlt", "halted", "get", "advance"}
    /\ left \in 0..MaxRead \cup {1} /\ blocking \in BOOLEAN
    /\ char \in Chars \cup {None} /\ ret \in Chars \cup {None}

Count == (buffer_head + Size - buffer_tail) % Size

Contents == [i \in 1..Count |-> key_buffer[(buffer_tail + i - 1) % Size]]

\* The ring with its unsynchronised reader and writer implements the bounded
\* FIFO of capacity Size-1: whatever the interleaving, buffer_get delivers the
\* characters buffer_put accepted, in order, each once.
Fifo == INSTANCE KeyFifo WITH Capacity <- Size - 1, queue <- Contents, last <- ret
ImplementsFifo == Fifo!Spec

\* keyboard_getchar and keyboard_read never take the "empty" exit of
\* buffer_get: what keyboard_available said before an interrupt still holds.
GetFindsChar == pc \in {"get", "advance"} => Available

\* Between two key events the driver's flags say which modifiers are down, and
\* no prefix is left over to spoil the next key.
ModifiersTrack ==
    wire = <<>> => /\ mods.shift <=> (held \cap Shifts # {})
                   /\ mods.ctrl <=> ("LCTRL" \in held)
                   /\ mods.alt <=> ("LALT" \in held)
                   /\ ~mods.ext

\* "Ctrl+A = 1, etc.": a letter typed while Ctrl is down is put as a control
\* character.
CtrlGivesControl ==
    [][ wire = Bytes("A", FALSE) /\ mods.ctrl /\ buffer_head' # buffer_head
          => key_buffer'[buffer_head] = "^A" ]_vars

\* A reader in keyboard_getchar gets a character once there is one, although a
\* key may arrive after its test and before its hlt.
GetcharReturns == (blocking /\ pc # "idle" /\ Available) ~> pc = "idle"
=============================================================================
