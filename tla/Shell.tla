------------------------------- MODULE Shell --------------------------------
(***************************************************************************)
(* The shell's command line: shell_run and shell_readline                  *)
(* (kernel/shell/shell.c), the ring of remembered commands                 *)
(* (kernel/shell/history.c), and the cursor of the console                 *)
(* (kernel/kernel.c) on which the line is shown.                           *)
(***************************************************************************)
EXTENDS Integers, Sequences

CONSTANTS Entries,  \* HISTORY_MAX_ENTRIES
          MaxLen,   \* longest line: SHELL_MAX_LINE - 1 = HISTORY_MAX_LINE - 1
          Chars,    \* printing characters
          Prompt,   \* columns the prompt takes
          Columns   \* columns of the screen

ASSUME ShellAssumption == /\ Entries \in Nat \ {0} /\ MaxLen \in Nat
                          /\ Prompt \in Nat /\ Columns \in Nat /\ Prompt < Columns
                          /\ "null" \notin Chars

Line == UNION {[1..n -> Chars] : n \in 0..MaxLen}
Index == 0..(Entries - 1)
NoEntry == <<"null">>

VARIABLES
    history_entries, history_count, history_start, nav_pos,  \* history.c
    buf, saved, saved_valid,  \* locals of shell_readline
    cursor                    \* row, counted from the prompt's, and column

ring == <<history_entries, history_count, history_start>>
vars == <<ring, nav_pos, buf, saved, saved_valid, cursor>>

-----------------------------------------------------------------------------
(***************************************************************************)
(* history.c.  An operator commented "Fault" is a faulty variant of the    *)
(* operator that follows it; nothing else uses it.                         *)
(***************************************************************************)

\* Fault: the start of a full ring stays where it is.
HistoryAddKeepsStart(l) ==
    LET insert == IF history_count < Entries THEN (history_start + history_count) % Entries
                  ELSE history_start
    IN /\ history_entries' = [history_entries EXCEPT ![insert] = l]
       /\ history_count' = IF history_count < Entries THEN history_count + 1 ELSE history_count
       /\ UNCHANGED history_start

\* history_add: an empty line, or the newest command again, is not added; a
\* full ring loses its oldest entry.
HistoryAdd(l) ==
    LET last == (history_start + history_count - 1) % Entries
        repeated == history_count > 0 /\ history_entries[last] = l
    IN IF l = <<>> \/ repeated THEN UNCHANGED ring
       ELSE IF history_count < Entries
       THEN /\ history_entries' =
                 [history_entries EXCEPT ![(history_start + history_count) % Entries] = l]
            /\ history_count' = history_count + 1
            /\ UNCHANGED history_start
       ELSE /\ history_entries' = [history_entries EXCEPT ![history_start] = l]
            /\ history_start' = (history_start + 1) % Entries
            /\ UNCHANGED history_count

Entry(pos) == history_entries[(history_start + history_count - 1 - pos) % Entries]

\* history_prev and history_next: the position they move to ...
PrevPos == IF nav_pos < history_count - 1 THEN nav_pos + 1 ELSE nav_pos
NextPos == IF nav_pos > 0 THEN nav_pos - 1 ELSE -1

\* ... and the entry they return.
Recalled(pos) == IF history_count = 0 \/ pos = -1 THEN NoEntry ELSE Entry(pos)

-----------------------------------------------------------------------------
(***************************************************************************)
(* console_putchar: a character that fills the row moves the cursor to the *)
(* next one; a backspace stays in its row.                                 *)
(***************************************************************************)

\* The cursor after n characters.
PutChars(at, n) ==
    LET c == at[2] + n IN <<at[1] + c \div Columns, c % Columns>>

\* Fault: a backspace does not move the cursor.
PutNoBackspace(at, n) == at

\* The cursor after n backspaces.
PutBackspaces(at, n) == <<at[1], IF at[2] >= n THEN at[2] - n ELSE 0>>

-----------------------------------------------------------------------------
(***************************************************************************)
(* shell_readline, one action per key.                                     *)
(***************************************************************************)

\* The line that an arrow key saves.
Saved == IF saved_valid THEN saved ELSE buf

\* replace_input(text), after history_prev or history_next went to pos.
Recall(pos) ==
    LET text == IF Recalled(pos) = NoEntry THEN Saved ELSE Recalled(pos)
    IN /\ nav_pos' = pos
       /\ saved' = Saved /\ saved_valid' = TRUE
       /\ buf' = text
       /\ cursor' = PutChars(PutBackspaces(cursor, Len(buf)), Len(text))
       /\ UNCHANGED ring

KeyUp == Recall(IF history_count = 0 THEN nav_pos ELSE PrevPos)

KeyDown == Recall(IF history_count = 0 THEN nav_pos ELSE NextPos)

Backspace ==
    /\ IF buf = <<>> THEN UNCHANGED <<buf, cursor>>
       ELSE /\ buf' = SubSeq(buf, 1, Len(buf) - 1)
            /\ cursor' = PutBackspaces(cursor, 1)
    /\ saved_valid' = FALSE
    /\ UNCHANGED <<ring, nav_pos, saved>>

Type(c) ==
    /\ IF Len(buf) = MaxLen THEN UNCHANGED <<buf, cursor>>
       ELSE /\ buf' = Append(buf, c)
            /\ cursor' = PutChars(cursor, 1)
    /\ saved_valid' = FALSE
    /\ UNCHANGED <<ring, nav_pos, saved>>

\* Return: shell_readline ends, shell_run remembers and executes the command
\* and starts over with a prompt in column 0.
KeyReturn ==
    /\ HistoryAdd(buf)
    /\ nav_pos' = -1
    /\ buf' = <<>> /\ saved' = <<>> /\ saved_valid' = FALSE
    /\ cursor' = PutChars(<<0, 0>>, Prompt)

-----------------------------------------------------------------------------
\* history_init, and the first call of shell_readline.
Init ==
    /\ history_entries = [i \in Index |-> <<>>]
    /\ history_count = 0 /\ history_start = 0 /\ nav_pos = -1
    /\ buf = <<>> /\ saved = <<>> /\ saved_valid = FALSE
    /\ cursor = <<0, Prompt>>

Next ==
    \/ KeyUp
    \/ KeyDown
    \/ Backspace
    \/ \E c \in Chars : Type(c)
    \/ KeyReturn

Spec == Init /\ [][Next]_vars

-----------------------------------------------------------------------------
(***************************************************************************)
(* Properties.                                                             *)
(***************************************************************************)

\* The navigation position names an entry of the history or none, and the line
\* never outgrows its buffer.
TypeOK ==
    /\ history_entries \in [Index -> Line]
    /\ history_count \in 0..Entries /\ history_start \in Index
    /\ nav_pos \in -1..(history_count - 1)
    /\ buf \in Line /\ saved \in Line /\ saved_valid \in BOOLEAN
    /\ cursor \in Nat \X (0..(Columns - 1))

Remembered ==
    [i \in 1..history_count |-> history_entries[(history_start + i - 1) % Entries]]

\* The ring, its index arithmetic and the saved line implement the command
\* line of LineEditor: the newest Entries commands in order, none twice in a
\* row, and the line typed shown again on the way back.
Editor == INSTANCE LineEditor
            WITH Lines <- Line, Capacity <- Entries, line <- buf, draft <- Saved,
                 past <- Remembered, pos <- nav_pos + 1
ImplementsEditor == Editor!Spec

\* "Backspace to delete characters": the cursor is where the line ends, so that
\* backspaces erase the characters of the line and no others.
CursorFollowsLine == cursor[1] * Columns + cursor[2] = Prompt + Len(buf)
=============================================================================
