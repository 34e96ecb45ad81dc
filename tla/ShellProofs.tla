---------------------------- MODULE ShellProofs ----------------------------
(***************************************************************************)
(* Theorems about Shell, for every size of the history, length of lines,   *)
(* prompt and screen, and about Command, for every set of lines, number of *)
(* words and length of rows.                                               *)
(***************************************************************************)
EXTENDS Shell, Command, SequenceTheorems, WellFoundedInduction, TLAPS

USE ShellAssumption

-----------------------------------------------------------------------------
(***************************************************************************)
(* Types.                                                                  *)
(***************************************************************************)

\* A line is a sequence of characters that fits the buffer.
LEMMA LineSeq == \A l : l \in Line <=> l \in Seq(Chars) /\ Len(l) <= MaxLen
<1> SUFFICES ASSUME NEW l PROVE l \in Line <=> l \in Seq(Chars) /\ Len(l) <= MaxLen
  OBVIOUS
<1>1. ASSUME l \in Line PROVE l \in Seq(Chars) /\ Len(l) <= MaxLen
  <2>1. PICK n \in 0..MaxLen : l \in [1..n -> Chars]
    BY <1>1 DEF Line
  <2> QED
    BY <2>1
<1>2. ASSUME l \in Seq(Chars), Len(l) <= MaxLen PROVE l \in Line
  <2>1. Len(l) \in 0..MaxLen /\ l \in [1..Len(l) -> Chars]
    BY <1>2, LenProperties
  <2> QED
    BY <2>1 DEF Line
<1> QED
  BY <1>1, <1>2

LEMMA EmptyLine == <<>> \in Line /\ Len(<<>>) = 0
<1> DEFINE e == <<>>
<1>1. e \in Seq(Chars) /\ Len(e) <= MaxLen
  BY EmptySeq
<1> HIDE DEF e
<1>2. e \in Line
  BY <1>1, LineSeq
<1> QED
  BY <1>2 DEF e

LEMMA NullIsNoLine == NoEntry \notin Line
<1> SUFFICES ASSUME NoEntry \in Line PROVE FALSE
  OBVIOUS
<1>1. NoEntry \in Seq(Chars) /\ Len(NoEntry) = 1 /\ NoEntry[1] = "null"
  BY LineSeq DEF NoEntry
<1> QED
  BY <1>1, ElementOfSeq

\* Indexes wrap around once.
LEMMA Wrap ==
    ASSUME NEW n \in Nat \ {0}, NEW x \in 0..(2 * n - 1)
    PROVE  x % n = IF x < n THEN x ELSE x - n
BY Z3

LEMMA RingWrap == \A x \in 0..(2 * Entries - 1) : x % Entries = IF x < Entries THEN x ELSE x - Entries
BY Wrap

\* The slots the ring computes, without the remainder.
LEMMA SlotAfter ==
    ASSUME NEW a \in Index, NEW n \in 0..Entries
    PROVE  (a + n) % Entries = IF a + n < Entries THEN a + n ELSE a + n - Entries
<1> DEFINE x == a + n
<1>1. x \in 0..(2 * Entries - 1)
  BY DEF Index
<1>2. x % Entries = IF x < Entries THEN x ELSE x - Entries
  BY <1>1, Wrap
<1> QED
  BY <1>2 DEF Index

LEMMA SlotAt ==
    ASSUME NEW a \in Index, NEW i \in 1..Entries
    PROVE  (a + i - 1) % Entries = IF a + i - 1 < Entries THEN a + i - 1 ELSE a + i - 1 - Entries
<1> DEFINE x == a + i - 1
<1>1. x \in 0..(2 * Entries - 1)
  BY DEF Index
<1>2. x % Entries = IF x < Entries THEN x ELSE x - Entries
  BY <1>1, Wrap
<1> QED
  BY <1>2 DEF Index

\* Division with remainder.
LEMMA Division ==
    ASSUME NEW n \in Nat \ {0}, NEW x \in Nat
    PROVE  /\ x \div n \in Nat /\ x % n \in 0..(n - 1)
           /\ (x \div n) * n + (x % n) = x
BY Z3

LEMMA PutCharsType ==
    ASSUME NEW at \in Nat \X (0..(Columns - 1)), NEW n \in Nat
    PROVE  PutChars(at, n) \in Nat \X (0..(Columns - 1))
BY Division DEF PutChars

LEMMA PutBackspacesType ==
    ASSUME NEW at \in Nat \X (0..(Columns - 1)), NEW n \in Nat
    PROVE  PutBackspaces(at, n) \in Nat \X (0..(Columns - 1))
BY DEF PutBackspaces

\* What an arrow key shows is a line: it names an entry that is remembered.
LEMMA RecallText ==
    ASSUME TypeOK, NEW pos \in -1..(history_count - 1)
    PROVE  LET text == IF Recalled(pos) = NoEntry THEN Saved ELSE Recalled(pos)
           IN /\ text \in Line /\ Saved \in Line
              /\ pos = -1 => text = Saved
              /\ pos # -1 => text = Entry(pos) /\ history_count > 0
<1>1. Saved \in Line
  BY DEF Saved, TypeOK
<1>2. CASE pos = -1
  BY <1>1, <1>2 DEF Recalled
<1>3. CASE pos # -1
  <2>1. history_start + history_count - 1 - pos \in 0..(2 * Entries - 1)
    BY <1>3 DEF TypeOK, Index
  <2>2. (history_start + history_count - 1 - pos) % Entries \in Index
    BY <2>1, RingWrap DEF Index
  <2>3. Entry(pos) \in Line
    BY <2>2 DEF Entry, TypeOK
  <2>4. Recalled(pos) = Entry(pos) /\ history_count > 0
    BY <1>3 DEF Recalled, TypeOK
  <2> QED
    BY <1>1, <1>3, <2>3, <2>4, NullIsNoLine
<1> QED
  BY <1>2, <1>3

LEMMA InitType == Init => TypeOK
<1> SUFFICES ASSUME Init PROVE TypeOK
  OBVIOUS
<1>1. history_entries \in [Index -> Line] /\ buf \in Line /\ saved \in Line
  BY EmptyLine DEF Init
<1>2. cursor \in Nat \X (0..(Columns - 1))
  BY DEF Init
<1>3. history_count \in 0..Entries /\ history_start \in Index /\ nav_pos \in -1..(history_count - 1)
  BY DEF Init, Index
<1> QED
  BY <1>1, <1>2, <1>3 DEF Init, TypeOK

\* Where the arrow keys go.
LEMMA Targets ==
    ASSUME TypeOK
    PROVE  /\ (IF history_count = 0 THEN nav_pos ELSE PrevPos) \in -1..(history_count - 1)
           /\ (IF history_count = 0 THEN nav_pos ELSE NextPos) \in -1..(history_count - 1)
BY DEF TypeOK, PrevPos, NextPos

LEMMA RecallType ==
    ASSUME TypeOK, NEW pos \in -1..(history_count - 1), Recall(pos)
    PROVE  TypeOK'
<1> DEFINE text == IF Recalled(pos) = NoEntry THEN Saved ELSE Recalled(pos)
<1>1. text \in Line /\ Saved \in Line
  BY RecallText
<1>2. /\ nav_pos' = pos /\ saved' = Saved /\ saved_valid' = TRUE /\ buf' = text
      /\ cursor' = PutChars(PutBackspaces(cursor, Len(buf)), Len(text))
      /\ history_entries' = history_entries /\ history_count' = history_count
      /\ history_start' = history_start
  BY DEF Recall, ring
<1> HIDE DEF text
<1>3. Len(buf) \in Nat /\ Len(text) \in Nat
  BY <1>1, LineSeq, LenProperties DEF TypeOK
<1>4. PutBackspaces(cursor, Len(buf)) \in Nat \X (0..(Columns - 1))
  BY <1>3, PutBackspacesType DEF TypeOK
<1>5. cursor' \in Nat \X (0..(Columns - 1))
  BY <1>2, <1>3, <1>4, PutCharsType
<1> QED
  BY <1>1, <1>2, <1>5 DEF TypeOK

\* A command that is remembered goes to a slot of the ring.
LEMMA AddType ==
    ASSUME TypeOK, NEW l \in Line, HistoryAdd(l)
    PROVE  /\ history_entries' \in [Index -> Line]
           /\ history_count' \in 0..Entries /\ history_start' \in Index
<1>1. CASE UNCHANGED ring
  BY <1>1 DEF TypeOK, ring
<1>2. CASE /\ history_count < Entries
           /\ history_entries' =
                [history_entries EXCEPT ![(history_start + history_count) % Entries] = l]
           /\ history_count' = history_count + 1 /\ history_start' = history_start
  BY <1>2 DEF TypeOK, Index
<1>3. CASE /\ history_entries' = [history_entries EXCEPT ![history_start] = l]
           /\ history_start' = (history_start + 1) % Entries
           /\ history_count' = history_count
  <2>1. (history_start + 1) % Entries \in Index
    BY RingWrap DEF TypeOK, Index
  <2> QED
    BY <1>3, <2>1 DEF TypeOK
<1> QED
  BY <1>1, <1>2, <1>3 DEF HistoryAdd, TypeOK

\* Typing and erasing keep a line a line.
LEMMA EditLine ==
    ASSUME NEW l \in Line
    PROVE  /\ l # <<>> => /\ SubSeq(l, 1, Len(l) - 1) \in Line
                          /\ Len(l) > 0 /\ Len(SubSeq(l, 1, Len(l) - 1)) = Len(l) - 1
           /\ Len(l) # MaxLen => \A c \in Chars : /\ Append(l, c) \in Line
                                                  /\ Len(Append(l, c)) = Len(l) + 1
           /\ Len(l) \in 0..MaxLen
<1>1. l \in Seq(Chars) /\ Len(l) <= MaxLen /\ Len(l) \in Nat
  BY LineSeq, LenProperties
<1>2. ASSUME l # <<>>
      PROVE  /\ SubSeq(l, 1, Len(l) - 1) \in Line
             /\ Len(l) > 0 /\ Len(SubSeq(l, 1, Len(l) - 1)) = Len(l) - 1
  <2>1. Len(l) > 0
    BY <1>1, <1>2, EmptySeq
  <2>2. \A i \in 1..(Len(l) - 1) : l[i] \in Chars
    BY <1>1, ElementOfSeq
  <2> DEFINE n == Len(l) - 1
             s == SubSeq(l, 1, n)
  <2>3. n \in Nat /\ n = Len(l) - 1 /\ \A i \in 1..n : l[i] \in Chars
    BY <1>1, <2>1, <2>2
  <2> HIDE DEF n
  <2>4. s \in Seq(Chars) /\ Len(s) = IF 1 <= n THEN n - 1 + 1 ELSE 0
    BY <2>3, SubSeqProperties
  <2> HIDE DEF s
  <2>5. Len(s) = n
    BY <2>3, <2>4
  <2>6. s \in Line /\ Len(s) = n
    BY <1>1, <2>3, <2>4, <2>5, LineSeq
  <2> QED
    BY <2>1, <2>3, <2>6 DEF s, n
<1>3. ASSUME Len(l) # MaxLen, NEW c \in Chars
      PROVE  Append(l, c) \in Line /\ Len(Append(l, c)) = Len(l) + 1
  <2> DEFINE s == Append(l, c)
  <2>1. s \in Seq(Chars) /\ Len(s) = Len(l) + 1
    BY <1>1
  <2> HIDE DEF s
  <2>2. s \in Line
    BY <1>1, <1>3, <2>1, LineSeq
  <2> QED
    BY <2>1, <2>2 DEF s
<1> QED
  BY <1>1, <1>2, <1>3

LEMMA NextType == TypeOK /\ [Next]_vars => TypeOK'
<1> SUFFICES ASSUME TypeOK, [Next]_vars PROVE TypeOK'
  OBVIOUS
<1>1. CASE KeyUp \/ KeyDown
  BY <1>1, Targets, RecallType DEF KeyUp, KeyDown
<1>2. CASE Backspace
  <2>1. UNCHANGED <<history_entries, history_count, history_start, nav_pos, saved>>
        /\ saved_valid' = FALSE
    BY <1>2 DEF Backspace, ring
  <2>2. buf' \in Line /\ cursor' \in Nat \X (0..(Columns - 1))
    <3>1. buf \in Line /\ cursor \in Nat \X (0..(Columns - 1))
      BY DEF TypeOK
    <3>2. PutBackspaces(cursor, 1) \in Nat \X (0..(Columns - 1))
      BY <3>1, PutBackspacesType
    <3>3. buf # <<>> => SubSeq(buf, 1, Len(buf) - 1) \in Line
      BY <3>1, EditLine
    <3> QED
      BY <1>2, <3>1, <3>2, <3>3 DEF Backspace
  <2> QED
    BY <2>1, <2>2 DEF TypeOK
<1>3. ASSUME NEW c \in Chars, Type(c) PROVE TypeOK'
  <2>1. UNCHANGED <<history_entries, history_count, history_start, nav_pos, saved>>
        /\ saved_valid' = FALSE
    BY <1>3 DEF Type, ring
  <2>2. buf' \in Line /\ cursor' \in Nat \X (0..(Columns - 1))
    <3>1. buf \in Line /\ cursor \in Nat \X (0..(Columns - 1))
      BY DEF TypeOK
    <3>2. PutChars(cursor, 1) \in Nat \X (0..(Columns - 1))
      BY <3>1, PutCharsType
    <3>3. Len(buf) # MaxLen => Append(buf, c) \in Line
      BY <3>1, EditLine
    <3> QED
      BY <1>3, <3>1, <3>2, <3>3 DEF Type
  <2> QED
    BY <2>1, <2>2 DEF TypeOK
<1>4. CASE KeyReturn
  <2>1. /\ history_entries' \in [Index -> Line]
        /\ history_count' \in 0..Entries /\ history_start' \in Index
    BY <1>4, AddType DEF KeyReturn, TypeOK
  <2>2. buf' \in Line /\ saved' \in Line /\ saved_valid' \in BOOLEAN
    BY <1>4, EmptyLine DEF KeyReturn
  <2>n. nav_pos' \in -1..(history_count' - 1)
    <3>1. \A n \in Nat : -1 \in -1..(n - 1)
      OBVIOUS
    <3>2. history_count' \in Nat /\ nav_pos' = -1
      BY <1>4, <2>1 DEF KeyReturn
    <3> QED
      BY <3>1, <3>2
  <2>3. cursor' \in Nat \X (0..(Columns - 1))
    BY <1>4, PutCharsType DEF KeyReturn
  <2> QED
    BY <2>1, <2>2, <2>n, <2>3 DEF TypeOK
<1>5. CASE UNCHANGED vars
  BY <1>5 DEF vars, ring, TypeOK
<1> QED
  BY <1>1, <1>2, <1>3, <1>4, <1>5 DEF Next

\* Whatever keys are pressed, the line never outgrows its buffer, and the
\* position in the history names an entry that is remembered, or none: the
\* arrow keys never show an unused or an overwritten slot.
THEOREM TypeCorrect == Spec => []TypeOK
BY InitType, NextType, PTL DEF Spec

-----------------------------------------------------------------------------
(***************************************************************************)
(* The cursor.  It follows the line as long as the line ends in the row of *)
(* the prompt, which is what a backspace can undo; then it is known        *)
(* exactly, and a recalled line may even run over into the next rows.      *)
(***************************************************************************)

Place(at) == at[1] * Columns + at[2]

\* Characters move the cursor by their number, over the ends of rows.
LEMMA PutCharsPlace ==
    ASSUME NEW at \in Nat \X (0..(Columns - 1)), NEW n \in Nat
    PROVE  Place(PutChars(at, n)) = Place(at) + n
<1> DEFINE c == at[2] + n
           q == c \div Columns
<1>1. at[1] \in Nat /\ at[2] \in Nat /\ c \in Nat /\ c = at[2] + n
  OBVIOUS
<1>2. PutChars(at, n) = <<at[1] + q, c % Columns>>
  BY DEF PutChars
<1> HIDE DEF c
<1>c. c \in Nat /\ Columns \in Nat \ {0}
  BY <1>1
<1>3. q \in Nat /\ c % Columns \in 0..(Columns - 1) /\ q * Columns + (c % Columns) = c
  BY <1>c, Division
<1> HIDE DEF q
<1>4. (at[1] + q) * Columns = at[1] * Columns + q * Columns
  BY <1>1, <1>3, Z3
<1>5. Place(PutChars(at, n)) = (at[1] + q) * Columns + (c % Columns)
  BY <1>2 DEF Place
<1>6. at[1] * Columns \in Nat /\ q * Columns \in Nat
  BY <1>1, <1>3, Z3
<1> QED
  BY <1>1, <1>3, <1>4, <1>5, <1>6 DEF Place

\* A place in the first row is the column.
LEMMA FirstRow ==
    ASSUME NEW at \in Nat \X (0..(Columns - 1)), Place(at) < Columns
    PROVE  at[1] = 0 /\ at[2] = Place(at)
<1>1. at[1] \in Nat /\ at[2] \in Nat
  OBVIOUS
<1>2. at[1] > 0 => at[1] * Columns >= Columns
  BY <1>1, Z3
<1>3. at[1] * Columns \in Nat
  BY <1>1, Z3
<1>4. at[1] = 0
  BY <1>1, <1>2, <1>3 DEF Place
<1> QED
  BY <1>1, <1>4 DEF Place

\* Backspaces within the first row.
LEMMA PutBackspacesPlace ==
    ASSUME NEW at \in Nat \X (0..(Columns - 1)), NEW n \in Nat,
           Place(at) < Columns, n <= Place(at)
    PROVE  Place(PutBackspaces(at, n)) = Place(at) - n
<1>1. at[1] = 0 /\ at[2] = Place(at)
  BY FirstRow
<1>2. PutBackspaces(at, n) = <<0, at[2] - n>>
  BY <1>1 DEF PutBackspaces
<1> QED
  BY <1>1, <1>2 DEF Place

CursorStep == CursorFollowsLine /\ Prompt + Len(buf) < Columns => CursorFollowsLine'

LEMMA RecallCursor ==
    ASSUME TypeOK, CursorFollowsLine, Prompt + Len(buf) < Columns,
           NEW pos \in -1..(history_count - 1), Recall(pos)
    PROVE  CursorFollowsLine'
<1> DEFINE text == IF Recalled(pos) = NoEntry THEN Saved ELSE Recalled(pos)
           back == PutBackspaces(cursor, Len(buf))
<1>1. buf' = text /\ cursor' = PutChars(back, Len(text)) /\ text \in Line
  BY RecallText DEF Recall
<1> HIDE DEF text
<1>2. Len(buf) \in Nat /\ Len(text) \in Nat
  BY <1>1, EditLine DEF TypeOK
<1>3. cursor \in Nat \X (0..(Columns - 1)) /\ Place(cursor) = Prompt + Len(buf)
  BY DEF TypeOK, CursorFollowsLine, Place
<1>4. back \in Nat \X (0..(Columns - 1))
  BY <1>2, <1>3, PutBackspacesType
<1>5. Place(back) = Prompt
  BY <1>2, <1>3, PutBackspacesPlace
<1> HIDE DEF back
<1>6. Place(cursor') = Prompt + Len(buf')
  BY <1>1, <1>2, <1>4, <1>5, PutCharsPlace
<1> QED
  BY <1>6 DEF CursorFollowsLine, Place

LEMMA NextCursor ==
    ASSUME TypeOK, CursorFollowsLine, Prompt + Len(buf) < Columns, [Next]_vars
    PROVE  CursorFollowsLine'
<1>0. /\ cursor \in Nat \X (0..(Columns - 1)) /\ Place(cursor) = Prompt + Len(buf)
      /\ Len(buf) \in Nat /\ buf \in Line
  BY EditLine DEF TypeOK, CursorFollowsLine, Place
<1>1. CASE KeyUp \/ KeyDown
  BY <1>1, Targets, RecallCursor DEF KeyUp, KeyDown
<1>2. CASE Backspace
  <2>1. CASE buf = <<>>
    BY <1>2, <2>1 DEF Backspace, CursorFollowsLine
  <2>2. CASE buf # <<>>
    <3>1. Len(buf') = Len(buf) - 1 /\ cursor' = PutBackspaces(cursor, 1) /\ Len(buf) > 0
      BY <1>0, <1>2, <2>2, EditLine DEF Backspace
    <3>2. Place(cursor') = Prompt + Len(buf')
      BY <1>0, <3>1, PutBackspacesPlace
    <3> QED
      BY <3>2 DEF CursorFollowsLine, Place
  <2> QED
    BY <2>1, <2>2
<1>3. ASSUME NEW c \in Chars, Type(c) PROVE CursorFollowsLine'
  <2>1. CASE Len(buf) = MaxLen
    BY <1>3, <2>1 DEF Type, CursorFollowsLine
  <2>2. CASE Len(buf) # MaxLen
    <3>1. Len(buf') = Len(buf) + 1 /\ cursor' = PutChars(cursor, 1)
      BY <1>0, <1>3, <2>2, EditLine DEF Type
    <3>2. Place(cursor') = Prompt + Len(buf')
      BY <1>0, <3>1, PutCharsPlace
    <3> QED
      BY <3>2 DEF CursorFollowsLine, Place
  <2> QED
    BY <2>1, <2>2
<1>4. CASE KeyReturn
  <2>1. Len(buf') = 0 /\ cursor' = PutChars(<<0, 0>>, Prompt)
    BY <1>4, EmptyLine DEF KeyReturn
  <2>2. <<0, 0>> \in Nat \X (0..(Columns - 1)) /\ Place(<<0, 0>>) = 0
    BY DEF Place
  <2>3. Place(PutChars(<<0, 0>>, Prompt)) = Prompt
    BY <2>2, PutCharsPlace
  <2> QED
    BY <2>1, <2>3 DEF CursorFollowsLine, Place
<1>5. CASE UNCHANGED vars
  BY <1>5 DEF vars, CursorFollowsLine
<1> QED
  BY <1>1, <1>2, <1>3, <1>4, <1>5 DEF Next

\* On any screen, a key pressed while the cursor is where the line ends and the
\* line ends in the prompt's row leaves the cursor where the new line ends, even
\* if that is rows further down; only editing such a longer line loses it.
THEOREM CursorStepCorrect == Spec => [][CursorStep]_vars
<1>1. TypeOK /\ [Next]_vars => [CursorStep]_vars
  BY NextCursor DEF CursorStep
<1> QED
  BY <1>1, TypeCorrect, PTL DEF Spec

\* Where the longest line fits the row after the prompt, the cursor is always
\* where the line ends, whatever is typed, erased and recalled.
THEOREM CursorCorrect ==
    ASSUME Prompt + MaxLen < Columns
    PROVE  Spec => []CursorFollowsLine
<1>1. Init => CursorFollowsLine
  BY EmptyLine DEF Init, CursorFollowsLine
<1>2. TypeOK /\ CursorFollowsLine /\ [Next]_vars => CursorFollowsLine'
  <2> SUFFICES ASSUME TypeOK, CursorFollowsLine, [Next]_vars PROVE CursorFollowsLine'
    OBVIOUS
  <2>1. Prompt + Len(buf) < Columns
    BY EditLine DEF TypeOK
  <2> QED
    BY <2>1, NextCursor
<1> QED
  BY <1>1, <1>2, TypeCorrect, PTL DEF Spec

-----------------------------------------------------------------------------
(***************************************************************************)
(* The ring, the saved line and their flags implement LineEditor.          *)
(***************************************************************************)

\* The n entries from start on, in the order of the ring.
View(e, start, n) == [i \in 1..n |-> e[(start + i - 1) % Entries]]

LEMMA RememberedView == Remembered = View(history_entries, history_start, history_count)
BY DEF Remembered, View

LEMMA RememberedViewNext ==
    Remembered' = View(history_entries', history_start', history_count')
BY DEF Remembered, View

LEMMA ViewSeq ==
    ASSUME NEW e \in [Index -> Line], NEW start \in Index, NEW n \in 0..Entries
    PROVE  /\ View(e, start, n) \in Seq(Line) /\ Len(View(e, start, n)) = n
           /\ \A i \in 1..n : /\ (start + i - 1) % Entries \in Index
                             /\ View(e, start, n)[i] = e[(start + i - 1) % Entries]
<1>1. \A i \in 1..n : (start + i - 1) % Entries \in Index
  <2> TAKE i \in 1..n
  <2>1. start + i - 1 \in 0..(2 * Entries - 1)
    BY DEF Index
  <2> QED
    BY <2>1, RingWrap DEF Index
<1>2. \A i \in 1..n : View(e, start, n)[i] = e[(start + i - 1) % Entries]
  BY DEF View
<1>3. \A i \in 1..n : View(e, start, n)[i] \in Line
  BY <1>1, <1>2
<1>4. View(e, start, n) \in [1..n -> Line]
  BY <1>3 DEF View
<1> QED
  BY <1>1, <1>2, <1>4

\* Two sequences with the same elements in the same places.
LEMMA SameSeq ==
    ASSUME NEW S, NEW s \in Seq(S), NEW t \in Seq(S), NEW n \in Nat,
           Len(s) = n, Len(t) = n, \A i \in 1..n : s[i] = t[i]
    PROVE  s = t
BY SeqEqual

\* A ring that is not full takes the line at its end.
LEMMA ViewAppend ==
    ASSUME NEW e \in [Index -> Line], NEW start \in Index, NEW n \in 0..(Entries - 1),
           NEW l \in Line, NEW d \in [Index -> Line], d[(start + n) % Entries] = l,
           \A j \in Index : j # (start + n) % Entries => d[j] = e[j]
    PROVE  View(d, start, n + 1) = Append(View(e, start, n), l)
<1> DEFINE s == View(d, start, n + 1)
           v == View(e, start, n)
           t == Append(v, l)
<1>1. n \in 0..Entries /\ n + 1 \in 0..Entries /\ n + 1 \in Nat
  OBVIOUS
<1>2. /\ s \in Seq(Line) /\ Len(s) = n + 1
      /\ \A i \in 1..(n + 1) : s[i] = d[(start + i - 1) % Entries]
  BY <1>1, ViewSeq
<1>3. /\ v \in Seq(Line) /\ Len(v) = n
      /\ \A i \in 1..n : /\ (start + i - 1) % Entries \in Index
                        /\ v[i] = e[(start + i - 1) % Entries]
  BY <1>1, ViewSeq
<1> HIDE DEF s, v
<1>4. /\ t \in Seq(Line) /\ Len(t) = n + 1 /\ t[n + 1] = l
      /\ \A i \in 1..n : t[i] = v[i]
  BY <1>3
<1> HIDE DEF t
<1>5. \A i \in 1..n : (start + i - 1) % Entries # (start + n) % Entries
  <2> TAKE i \in 1..n
  <2> DEFINE x == (start + i - 1) % Entries
             y == (start + n) % Entries
  <2>2. x = IF start + i - 1 < Entries THEN start + i - 1 ELSE start + i - 1 - Entries
    BY SlotAt
  <2>3. y = IF start + n < Entries THEN start + n ELSE start + n - Entries
    BY SlotAfter
  <2> HIDE DEF x, y
  <2>4. x # y
    BY <2>2, <2>3 DEF Index
  <2> QED
    BY <2>4 DEF x, y
<1>6. \A i \in 1..n : s[i] = t[i]
  BY <1>2, <1>3, <1>4, <1>5
<1>7. s[n + 1] = t[n + 1]
  <2>1. start + (n + 1) - 1 = start + n
    BY DEF Index
  <2>2. s[n + 1] = d[(start + (n + 1) - 1) % Entries]
    BY <1>2
  <2> QED
    BY <1>4, <2>1, <2>2
<1>8. \A i \in 1..(n + 1) : s[i] = t[i]
  BY <1>6, <1>7
<1>9. s = t
  BY <1>1, <1>2, <1>4, <1>8, SameSeq
<1> QED
  BY <1>9 DEF s, t, v

\* A full ring loses its oldest line.
LEMMA ViewShift ==
    ASSUME NEW e \in [Index -> Line], NEW start \in Index,
           NEW l \in Line, NEW d \in [Index -> Line], d[start] = l,
           \A j \in Index : j # start => d[j] = e[j]
    PROVE  View(d, (start + 1) % Entries, Entries) = Tail(Append(View(e, start, Entries), l))
<1> DEFINE from == (start + 1) % Entries
           s == View(d, from, Entries)
           v == View(e, start, Entries)
           a == Append(v, l)
           t == Tail(a)
<1>f. from = IF start + 1 < Entries THEN start + 1 ELSE start + 1 - Entries
  BY SlotAfter
<1> HIDE DEF from
<1>1. from \in Index /\ Entries \in 0..Entries
  BY <1>f DEF Index
<1>2. /\ s \in Seq(Line) /\ Len(s) = Entries
      /\ \A i \in 1..Entries : s[i] = d[(from + i - 1) % Entries]
  BY <1>1, ViewSeq
<1>3. /\ v \in Seq(Line) /\ Len(v) = Entries
      /\ \A i \in 1..Entries : /\ (start + i - 1) % Entries \in Index
                              /\ v[i] = e[(start + i - 1) % Entries]
  BY <1>1, ViewSeq
<1> HIDE DEF s, v
<1>4. /\ a \in Seq(Line) /\ Len(a) = Entries + 1 /\ a[Entries + 1] = l
      /\ \A i \in 1..Entries : a[i] = v[i]
  BY <1>3
<1> HIDE DEF a
<1>5. a # <<>>
  BY <1>4
<1>6. /\ t \in Seq(Line) /\ Len(t) = Entries /\ \A i \in 1..Entries : t[i] = a[i + 1]
  BY <1>4, <1>5, HeadTailProperties
<1> HIDE DEF t
<1>7. \A i \in 1..(Entries - 1) : s[i] = t[i]
  <2> TAKE i \in 1..(Entries - 1)
  <2>2. (from + i - 1) % Entries = (start + i) % Entries /\ (start + i) % Entries # start
    <3> DEFINE x == (from + i - 1) % Entries
               y == (start + i) % Entries
    <3>1. x = IF from + i - 1 < Entries THEN from + i - 1 ELSE from + i - 1 - Entries
      BY <1>1, SlotAt
    <3>2. y = IF start + i < Entries THEN start + i ELSE start + i - Entries
      BY SlotAfter
    <3> HIDE DEF x, y
    <3>3. x = y /\ y # start
      BY <1>f, <3>1, <3>2 DEF Index
    <3> QED
      BY <3>3 DEF x, y
  <2>3. i + 1 \in 1..Entries /\ start + (i + 1) - 1 = start + i
    BY DEF Index
  <2>4. t[i] = e[(start + i) % Entries] /\ (start + i) % Entries \in Index
    BY <1>3, <1>4, <1>6, <2>3
  <2>5. s[i] = d[(from + i - 1) % Entries]
    BY <1>2
  <2> QED
    BY <2>2, <2>4, <2>5
<1>8. s[Entries] = t[Entries]
  <2>2. (from + Entries - 1) % Entries = start
    <3> DEFINE x == (from + Entries - 1) % Entries
    <3>1. x = IF from + Entries - 1 < Entries THEN from + Entries - 1
              ELSE from + Entries - 1 - Entries
      BY <1>1, SlotAt
    <3> HIDE DEF x
    <3>2. x = start
      BY <1>f, <3>1 DEF Index
    <3> QED
      BY <3>2 DEF x
  <2>3. s[Entries] = d[(from + Entries - 1) % Entries] /\ t[Entries] = a[Entries + 1]
    BY <1>2, <1>6
  <2> QED
    BY <1>4, <2>2, <2>3
<1>9. \A i \in 1..Entries : s[i] = t[i]
  BY <1>7, <1>8
<1>10. s = t
  BY <1>2, <1>6, <1>9, SameSeq
<1> QED
  BY <1>10 DEF s, t, a, v, from

\* What the history remembers, as a sequence.
LEMMA PastFacts ==
    ASSUME TypeOK
    PROVE  /\ Remembered \in Seq(Line) /\ Len(Remembered) = history_count
           /\ \A i \in 1..history_count :
                Remembered[i] = history_entries[(history_start + i - 1) % Entries]
<1> DEFINE v == View(history_entries, history_start, history_count)
<1>0. /\ history_entries \in [Index -> Line] /\ history_start \in Index
      /\ history_count \in 0..Entries
  BY DEF TypeOK
<1>1. /\ v \in Seq(Line) /\ Len(v) = history_count
      /\ \A i \in 1..history_count :
           v[i] = history_entries[(history_start + i - 1) % Entries]
  BY <1>0, ViewSeq
<1>2. Remembered = v
  BY RememberedView
<1> HIDE DEF v
<1> QED
  BY <1>1, <1>2

\* An arrow key shows the line so many steps back, the draft at none.
LEMMA RecallIs ==
    ASSUME TypeOK, NEW pos \in -1..(history_count - 1), Recall(pos)
    PROVE  Editor!Recall(pos + 1)
<1> DEFINE text == IF Recalled(pos) = NoEntry THEN Saved ELSE Recalled(pos)
<1>1. /\ pos = -1 => text = Saved
      /\ pos # -1 => text = Entry(pos) /\ history_count > 0
  BY RecallText
<1>2. nav_pos' = pos /\ saved' = Saved /\ saved_valid' = TRUE /\ buf' = text
  BY DEF Recall
<1> HIDE DEF text
<1>3. UNCHANGED <<history_entries, history_count, history_start>>
  BY DEF Recall, ring
<1>4. Remembered' = Remembered
  BY <1>3, RememberedView, RememberedViewNext
<1>5. Saved' = Saved
  BY <1>2 DEF Saved
<1>6. (nav_pos + 1)' = pos + 1
  BY <1>2
<1>7. buf' = Editor!At(pos + 1)
  <2>1. CASE pos = -1
    BY <1>1, <1>2, <2>1 DEF Editor!At
  <2>2. CASE pos # -1
    <3>1. pos \in 0..(history_count - 1) /\ history_count \in 1..Entries /\ history_start \in Index
      BY <2>2 DEF TypeOK
    <3> DEFINE k == Len(Remembered) + 1 - (pos + 1)
    <3>2. Len(Remembered) = history_count
      BY PastFacts
    <3>3. k = history_count - pos /\ k \in 1..history_count
      BY <3>1, <3>2
    <3>4. pos + 1 # 0 /\ Editor!At(pos + 1) = Remembered[k]
      BY <3>1 DEF Editor!At
    <3> HIDE DEF k
    <3>5. Remembered[k] = history_entries[(history_start + k - 1) % Entries]
      BY <3>3, PastFacts
    <3>6. history_start + k - 1 = history_start + history_count - 1 - pos
      BY <3>1, <3>3 DEF Index
    <3> QED
      BY <1>1, <1>2, <2>2, <3>4, <3>5, <3>6 DEF Entry
  <2> QED
    BY <2>1, <2>2
<1> QED
  BY <1>4, <1>5, <1>6, <1>7 DEF Editor!Recall

\* history_add remembers as LineEditor does.
LEMMA AddIs ==
    ASSUME TypeOK, NEW l \in Line, HistoryAdd(l)
    PROVE  Remembered' = IF l = <<>> THEN Remembered ELSE Editor!Remember(l)
<1> DEFINE last == (history_start + history_count - 1) % Entries
           all == Append(Remembered, l)
<1>0. /\ Remembered \in Seq(Line) /\ Len(Remembered) = history_count
      /\ history_count \in 0..Entries
  BY PastFacts DEF TypeOK
<1>1. (Remembered # <<>> /\ Remembered[Len(Remembered)] = l)
         <=> (history_count > 0 /\ history_entries[last] = l)
  <2>1. Remembered # <<>> <=> history_count > 0
    BY <1>0, EmptySeq
  <2>2. history_count > 0 => Remembered[history_count] = history_entries[last]
    BY <1>0, PastFacts
  <2> QED
    BY <1>0, <2>1, <2>2
<1>2. Editor!Remember(l) = IF Remembered # <<>> /\ Remembered[Len(Remembered)] = l THEN Remembered
                           ELSE IF Len(Remembered) < Entries THEN all ELSE Tail(all)
  BY DEF Editor!Remember
<1>3. CASE l = <<>> \/ (history_count > 0 /\ history_entries[last] = l)
  <2>1. UNCHANGED <<history_entries, history_count, history_start>>
    BY <1>3 DEF HistoryAdd, ring
  <2>2. Remembered' = Remembered
    BY <2>1, RememberedView, RememberedViewNext
  <2> QED
    BY <1>1, <1>2, <1>3, <2>2
<1>4. CASE /\ ~(l = <<>> \/ (history_count > 0 /\ history_entries[last] = l))
           /\ history_count < Entries
  <2>1. /\ history_entries' =
             [history_entries EXCEPT ![(history_start + history_count) % Entries] = l]
        /\ history_count' = history_count + 1
        /\ history_start' = history_start
    BY <1>4 DEF HistoryAdd
  <2>2. (history_start + history_count) % Entries \in Index
    <3> DEFINE x == (history_start + history_count) % Entries
    <3>1. history_start \in Index /\ history_count \in 0..Entries
      BY DEF TypeOK
    <3>2. x = IF history_start + history_count < Entries THEN history_start + history_count
              ELSE history_start + history_count - Entries
      BY <3>1, SlotAfter
    <3> HIDE DEF x
    <3>3. x \in Index
      BY <3>1, <3>2 DEF Index
    <3> QED
      BY <3>3 DEF x
  <2>3. /\ history_entries' \in [Index -> Line]
        /\ history_entries'[(history_start + history_count) % Entries] = l
        /\ \A j \in Index : j # (history_start + history_count) % Entries
                             => history_entries'[j] = history_entries[j]
    BY <2>1, <2>2 DEF TypeOK
  <2>4. history_count \in 0..(Entries - 1) /\ history_start \in Index
        /\ history_entries \in [Index -> Line]
    BY <1>4 DEF TypeOK
  <2>5. View(history_entries', history_start, history_count + 1)
          = Append(View(history_entries, history_start, history_count), l)
    BY <2>3, <2>4, ViewAppend
  <2>6. Remembered' = all
    BY <2>1, <2>5, RememberedView, RememberedViewNext
  <2> QED
    BY <1>0, <1>1, <1>2, <1>4, <2>6
<1>5. CASE /\ ~(l = <<>> \/ (history_count > 0 /\ history_entries[last] = l))
           /\ ~(history_count < Entries)
  <2>1. /\ history_entries' = [history_entries EXCEPT ![history_start] = l]
        /\ history_start' = (history_start + 1) % Entries
        /\ history_count' = history_count
    BY <1>5 DEF HistoryAdd
  <2>2. /\ history_entries' \in [Index -> Line] /\ history_entries'[history_start] = l
        /\ \A j \in Index : j # history_start => history_entries'[j] = history_entries[j]
    BY <2>1 DEF TypeOK
  <2>3. history_count = Entries /\ history_start \in Index
        /\ history_entries \in [Index -> Line]
    BY <1>5 DEF TypeOK
  <2>4. View(history_entries', (history_start + 1) % Entries, Entries)
          = Tail(Append(View(history_entries, history_start, Entries), l))
    BY <2>2, <2>3, ViewShift
  <2>5. Remembered' = Tail(all)
    BY <2>1, <2>3, <2>4, RememberedView, RememberedViewNext
  <2> QED
    BY <1>0, <1>1, <1>2, <1>5, <2>3, <2>5
<1> QED
  BY <1>3, <1>4, <1>5

\* Every key does to the line, the draft and the history what the same key of
\* LineEditor does, for every capacity: the ring's index arithmetic loses,
\* repeats and reorders no command, and the arrow keys always lead back to the
\* line that was being typed.
THEOREM EditorCorrect == Spec => ImplementsEditor
<1>1. Init => Editor!Init
  <2> SUFFICES ASSUME Init PROVE Editor!Init
    OBVIOUS
  <2>1. Remembered \in Seq(Line) /\ Len(Remembered) = 0
    BY InitType, PastFacts DEF Init
  <2>2. Remembered = <<>>
    BY <2>1, EmptySeq
  <2> QED
    BY <2>2 DEF Init, Editor!Init, Saved
<1>2. TypeOK /\ [Next]_vars
        => [Editor!Up \/ Editor!Down \/ Editor!Edit \/ Editor!Enter]_<<buf, Saved, Remembered, nav_pos + 1>>
  <2> SUFFICES ASSUME TypeOK, [Next]_vars
               PROVE  \/ Editor!Up \/ Editor!Down \/ Editor!Edit \/ Editor!Enter
                      \/ UNCHANGED <<buf, Saved, Remembered, nav_pos + 1>>
    OBVIOUS
  <2>0. Len(Remembered) = history_count /\ history_count \in Nat
        /\ nav_pos \in -1..(history_count - 1)
    BY PastFacts DEF TypeOK
  <2>1. CASE KeyUp
    <3> DEFINE pos == IF history_count = 0 THEN nav_pos ELSE PrevPos
    <3>1. Editor!Recall(pos + 1)
      BY <2>1, Targets, RecallIs DEF KeyUp
    <3>2. pos + 1 = IF nav_pos + 1 < Len(Remembered) THEN nav_pos + 1 + 1 ELSE nav_pos + 1
      BY <2>0 DEF PrevPos
    <3> QED
      BY <3>1, <3>2 DEF Editor!Up
  <2>2. CASE KeyDown
    <3> DEFINE pos == IF history_count = 0 THEN nav_pos ELSE NextPos
    <3>1. Editor!Recall(pos + 1)
      BY <2>2, Targets, RecallIs DEF KeyDown
    <3>2. pos + 1 = IF nav_pos + 1 > 0 THEN nav_pos + 1 - 1 ELSE 0
      BY <2>0 DEF NextPos
    <3> HIDE DEF pos
    <3>3. Editor!Down
      BY <2>0, <3>1, <3>2 DEF Editor!Down, Editor!Recall, Editor!At
    <3> QED
      BY <3>3
  <2>3. CASE Backspace \/ \E c \in Chars : Type(c)
    <3>1. UNCHANGED <<history_entries, history_count, history_start, nav_pos>>
          /\ saved_valid' = FALSE
      BY <2>3 DEF Backspace, Type, ring
    <3>2. buf' \in Line
      BY <2>3, EditLine DEF Backspace, Type, TypeOK
    <3>3. Remembered' = Remembered
      BY <3>1, RememberedView, RememberedViewNext
    <3>4. Saved' = buf'
      BY <3>1 DEF Saved
    <3> QED
      BY <3>1, <3>2, <3>3, <3>4 DEF Editor!Edit
  <2>4. CASE KeyReturn
    <3>1. Remembered' = IF buf = <<>> THEN Remembered ELSE Editor!Remember(buf)
      BY <2>4, AddIs DEF KeyReturn, TypeOK
    <3>2. (nav_pos + 1)' = 0 /\ buf' = <<>> /\ Saved' = <<>>
      BY <2>4 DEF KeyReturn, Saved
    <3> QED
      BY <3>1, <3>2 DEF Editor!Enter
  <2>5. CASE UNCHANGED vars
    <3>1. UNCHANGED <<history_entries, history_count, history_start, nav_pos, buf, saved, saved_valid>>
      BY <2>5 DEF vars, ring
    <3>2. Remembered' = Remembered
      BY <3>1, RememberedView, RememberedViewNext
    <3> QED
      BY <3>1, <3>2 DEF Saved
  <2> QED
    BY <2>1, <2>2, <2>3, <2>4, <2>5 DEF Next
<1> QED
  BY <1>1, <1>2, TypeCorrect, PTL DEF Spec, ImplementsEditor, Editor!Spec, Editor!vars

-----------------------------------------------------------------------------
(***************************************************************************)
(* The command a line is cut into: theorems about Command, for every set   *)
(* of lines, number of words and length of rows.                           *)
(***************************************************************************)

HIDE ShellAssumption

\* The least of a set of naturals.
LEMMA LeastNatural ==
    ASSUME NEW T \in SUBSET Nat, T # {}
    PROVE  \E x \in T : \A y \in T : x <= y
<1>1. PICK x \in T : \A y \in T : ~ (<<y, x>> \in OpToRel(<, Nat))
  BY NatLessThanWellFounded, WFMin
<1>2. \A y \in T : ~(y < x)
  BY <1>1 DEF OpToRel
<1> QED
  BY <1>2

LEMMA MinIs ==
    ASSUME NEW T \in SUBSET Nat, T # {}
    PROVE  Min(T) \in T /\ \A y \in T : Min(T) <= y
<1>1. \E x \in T : \A y \in T : x <= y
  BY LeastNatural
<1> QED
  BY <1>1, Zenon DEF Min

\* A position that Find returns is the first of those asked for.
LEMMA FindIs ==
    ASSUME Len(line) \in Nat, NEW P, P \subseteq 1..Len(line), NEW i \in Nat
    PROVE  /\ Find(P, i) \in 1..(Len(line) + 1)
           /\ Find(P, i) = Len(line) + 1 \/ (Find(P, i) \in P /\ Find(P, i) >= i)
           /\ \A j \in P : j >= i => Find(P, i) <= j
<1> DEFINE T == {j \in P : j >= i} \cup {Len(line) + 1}
<1>1. T \in SUBSET Nat /\ T # {} /\ T \subseteq 1..(Len(line) + 1)
  <2>1. Len(line) + 1 \in T /\ Len(line) + 1 \in 1..(Len(line) + 1)
    OBVIOUS
  <2>2. \A j \in P : j \in Nat /\ j \in 1..(Len(line) + 1)
    OBVIOUS
  <2>3. T \subseteq P \cup {Len(line) + 1}
    OBVIOUS
  <2> HIDE DEF T
  <2> QED
    BY <2>1, <2>2, <2>3
<1>2. Find(P, i) = Min(T)
  BY DEF Find
<1> HIDE DEF T
<1>3. Min(T) \in T /\ \A y \in T : Min(T) <= y
  BY <1>1, MinIs
<1> QED
  BY <1>1, <1>2, <1>3 DEF T

-----------------------------------------------------------------------------
(***************************************************************************)
(* Words.                                                                  *)
(***************************************************************************)

\* The line has been cut at spaces before the position reached, only.
CutLine ==
    /\ typed \in Seq(STRING) /\ Nul \notin Range(typed)
    /\ DOMAIN line = 1..Len(typed) /\ line \in Seq(STRING \cup {Nul}) /\ Len(line) = Len(typed)
    /\ p \in 1..(Len(typed) + 2)
    /\ \A j \in 1..Len(typed) :
          line[j] # typed[j] => line[j] = Nul /\ typed[j] = Space /\ j < p
    /\ p = 1 \/ p = Len(typed) + 2 \/ typed[p - 1] = Space

\* A word from s to before e, with its zero.
WordAt(s, e) ==
    /\ e \in (s + 1)..(Len(typed) + 1) /\ e < p
    /\ \A j \in s..(e - 1) : typed[j] # Space
    /\ e = Len(typed) + 1 \/ (typed[e] = Space /\ line[e] = Nul)

\* argv holds the words that start before the position reached.
WordsInv ==
    /\ CutLine
    /\ argv \in Seq(1..Len(typed)) /\ Len(argv) <= MaxArgs
    /\ \A i \in 1..Len(argv) : argv[i] \in WordStarts /\ \E e : WordAt(argv[i], e)
    /\ \A i \in 1..(Len(argv) - 1) : argv[i] < argv[i + 1]
    /\ \A s \in WordStarts : s < p => \E i \in 1..Len(argv) : argv[i] = s
    /\ pc # "split" => Len(argv) = MaxArgs \/ \A s \in WordStarts : s < p

LEMMA WordStartIs ==
    ASSUME typed \in Seq(STRING)
    PROVE  \A s : s \in WordStarts <=> /\ s \in 1..Len(typed) /\ typed[s] # Space
                                       /\ s = 1 \/ typed[s - 1] = Space
BY DEF WordStarts

LEMMA InitWords ==
    ASSUME CInit
    PROVE  WordsInv
<1>1. typed \in Lines /\ line = typed /\ p = 1 /\ argv = <<>> /\ pc = "split"
  BY DEF CInit
<1>2. typed \in Seq(STRING) /\ Nul \notin Range(typed) /\ MaxArgs \in Nat
  BY <1>1, CommandAssumption
<1>3. CutLine
  <2>1. Len(typed) \in Nat /\ DOMAIN typed = 1..Len(typed)
    BY <1>2
  <2>2. typed \in Seq(STRING \cup {Nul})
    BY <1>2
  <2>3. 1 \in 1..(Len(typed) + 2)
    BY <2>1
  <2> QED
    BY <1>1, <1>2, <2>1, <2>2, <2>3 DEF CutLine
<1>4. argv \in Seq(1..Len(typed)) /\ Len(argv) = 0
  BY <1>1
<1>5. \A s \in WordStarts : ~(s < p)
  BY <1>1, <1>2, WordStartIs
<1> QED
  BY <1>1, <1>2, <1>3, <1>4, <1>5 DEF WordsInv

\* What the search for the next word finds: a start and an end.
LEMMA WordFound ==
    ASSUME CutLine, NEW s, s = Find(DOMAIN line \ Spaces, p), s <= Len(line),
           NEW e, e = Find(Spaces, s)
    PROVE  /\ s \in p..Len(typed) /\ s \in WordStarts /\ e \in (s + 1)..(Len(typed) + 1)
           /\ \A j \in p..(s - 1) : typed[j] = Space
           /\ \A j \in s..(e - 1) : typed[j] # Space
           /\ e = Len(typed) + 1 \/ typed[e] = Space
<1>1. /\ typed \in Seq(STRING) /\ DOMAIN line = 1..Len(typed) /\ Len(line) = Len(typed)
      /\ Len(typed) \in Nat /\ p \in Nat /\ p >= 1
      /\ \A j \in 1..Len(typed) : j >= p => line[j] = typed[j]
      /\ p = 1 \/ p = Len(typed) + 2 \/ typed[p - 1] = Space
  <2>1. typed \in Seq(STRING) /\ p \in 1..(Len(typed) + 2) /\ Len(typed) \in Nat
    BY DEF CutLine
  <2>2. \A j \in 1..Len(typed) : j >= p => line[j] = typed[j]
    BY <2>1 DEF CutLine
  <2> QED
    BY <2>1, <2>2 DEF CutLine
<1> DEFINE P == DOMAIN line \ Spaces
<1>2. \A j \in 1..Len(typed) : (j \in Spaces <=> line[j] = Space) /\ (j \in P <=> line[j] # Space)
  BY <1>1 DEF Spaces, IsSpace
<1>3. P \subseteq 1..Len(line) /\ Spaces \subseteq 1..Len(line)
  BY <1>1 DEF Spaces
<1> HIDE DEF P
<1>4. s = Find(P, p)
  BY DEF P
<1>5. s \in P /\ s >= p /\ \A j \in P : j >= p => s <= j
  <2>1. Find(P, p) = Len(line) + 1 \/ (Find(P, p) \in P /\ Find(P, p) >= p)
    BY <1>1, <1>3, FindIs
  <2>2. \A j \in P : j >= p => Find(P, p) <= j
    BY <1>1, <1>3, FindIs
  <2>3. s # Len(line) + 1
    BY <1>1
  <2> QED
    BY <1>4, <2>1, <2>2, <2>3
<1>6. s \in 1..Len(typed) /\ s \in Nat /\ s \in p..Len(typed) /\ typed[s] # Space
  <2>1. s \in 1..Len(typed)
    BY <1>1, <1>3, <1>5
  <2> QED
    BY <1>1, <1>2, <1>5, <2>1
<1>7. ASSUME NEW j \in p..(s - 1) PROVE typed[j] = Space
  <2>1. j \in 1..Len(typed) /\ j >= p /\ ~(s <= j)
    BY <1>1, <1>6
  <2>2. j \notin P
    BY <1>5, <2>1
  <2> QED
    BY <1>1, <1>2, <2>1, <2>2
<1>8. s = 1 \/ typed[s - 1] = Space
  <2>1. CASE s = p
    BY <1>1, <1>6, <2>1
  <2>2. CASE s # p
    <3>1. s - 1 \in p..(s - 1)
      BY <1>1, <1>6, <2>2
    <3> QED
      BY <1>7, <3>1
  <2> QED
    BY <2>1, <2>2
<1>9. s \in WordStarts
  BY <1>1, <1>6, <1>8, WordStartIs
<1>10. /\ e \in 1..(Len(typed) + 1)
       /\ e = Len(typed) + 1 \/ (e \in Spaces /\ e >= s)
       /\ \A j \in Spaces : j >= s => e <= j
  <2> DEFINE f == Find(Spaces, s)
  <2>1. /\ f \in 1..(Len(line) + 1)
        /\ f = Len(line) + 1 \/ (f \in Spaces /\ f >= s)
        /\ \A j \in Spaces : j >= s => f <= j
    BY <1>1, <1>3, <1>6, FindIs
  <2> HIDE DEF f
  <2>2. e = f
    BY DEF f
  <2> QED
    BY <1>1, <2>1, <2>2
<1>11. e # s
  BY <1>1, <1>2, <1>3, <1>6, <1>10
<1>12. e \in (s + 1)..(Len(typed) + 1)
  BY <1>1, <1>6, <1>10, <1>11
<1>13. ASSUME NEW j \in s..(e - 1) PROVE typed[j] # Space
  <2>1. j \in 1..Len(typed) /\ j >= s /\ j >= p /\ ~(e <= j)
    BY <1>1, <1>6, <1>12
  <2> QED
    BY <1>1, <1>2, <1>10, <2>1
<1>14. e = Len(typed) + 1 \/ typed[e] = Space
  <2>1. SUFFICES ASSUME e # Len(typed) + 1 PROVE typed[e] = Space
    OBVIOUS
  <2>2. e \in Spaces /\ e \in 1..Len(typed) /\ e >= p
    BY <1>1, <1>6, <1>10, <1>12, <2>1
  <2> QED
    BY <1>1, <1>2, <2>2
<1> QED
  BY <1>6, <1>7, <1>9, <1>12, <1>13, <1>14

\* Behind the last word there are only spaces.
LEMMA NoWordLeft ==
    ASSUME CutLine, ~(Find(DOMAIN line \ Spaces, p) <= Len(line))
    PROVE  \A s \in WordStarts : s < p
<1> SUFFICES ASSUME NEW s \in WordStarts, ~(s < p) PROVE FALSE
  OBVIOUS
<1>1. /\ typed \in Seq(STRING) /\ DOMAIN line = 1..Len(typed) /\ Len(line) = Len(typed)
      /\ Len(typed) \in Nat /\ p \in Nat
  BY DEF CutLine
<1>2. s \in 1..Len(typed) /\ typed[s] # Space /\ s >= p
  BY <1>1, WordStartIs
<1>3. line[s] = typed[s]
  BY <1>2 DEF CutLine
<1> DEFINE P == DOMAIN line \ Spaces
<1>4. s \in P /\ P \subseteq 1..Len(line)
  BY <1>1, <1>2, <1>3 DEF Spaces, IsSpace
<1>5. ~(Find(P, p) <= Len(line))
  OBVIOUS
<1> HIDE DEF P
<1>6. Find(P, p) <= s /\ Find(P, p) \in Nat
  <2>1. Find(P, p) \in 1..(Len(line) + 1)
    BY <1>1, <1>4, FindIs
  <2>2. \A j \in P : j >= p => Find(P, p) <= j
    BY <1>1, <1>4, FindIs
  <2> QED
    BY <1>1, <1>2, <1>4, <2>1, <2>2
<1> QED
  BY <1>1, <1>2, <1>5, <1>6

\* Cutting a word off leaves the words before it as they were.
LEMMA CutStep ==
    ASSUME CutLine, NEW s \in p..Len(typed), NEW e \in (s + 1)..(Len(typed) + 1),
           e = Len(typed) + 1 \/ typed[e] = Space,
           line' = Cut(e), p' = e + 1, typed' = typed
    PROVE  /\ CutLine'
           /\ \A j \in 1..Len(typed) : j < p => line'[j] = line[j]
           /\ e # Len(typed) + 1 => line'[e] = Nul
<1>1. /\ typed \in Seq(STRING) /\ DOMAIN line = 1..Len(typed) /\ Len(line) = Len(typed)
      /\ Len(typed) \in Nat /\ p \in Nat /\ p >= 1 /\ line \in Seq(STRING \cup {Nul})
      /\ \A j \in 1..Len(typed) :
            line[j] # typed[j] => line[j] = Nul /\ typed[j] = Space /\ j < p
  BY DEF CutLine
<1>2. /\ line' \in Seq(STRING \cup {Nul}) /\ DOMAIN line' = 1..Len(typed)
      /\ Len(line') = Len(typed)
      /\ \A j \in 1..Len(typed) : line'[j] = IF j = e THEN Nul ELSE line[j]
  <2>1. CASE e <= Len(line)
    <3>1. line' = [line EXCEPT ![e] = Nul]
      BY <2>1 DEF Cut
    <3>2. line' \in Seq(STRING \cup {Nul}) /\ Len(line') = Len(line)
      <4>1. e \in 1..Len(line) /\ Nul \in STRING \cup {Nul}
        BY <1>1, <2>1
      <4> QED
        BY <1>1, <3>1, <4>1, ExceptSeq
    <3> QED
      BY <1>1, <3>1, <3>2
  <2>2. CASE ~(e <= Len(line))
    <3>1. line' = line /\ \A j \in 1..Len(typed) : j # e
      BY <1>1, <2>2 DEF Cut
    <3> QED
      BY <1>1, <3>1
  <2> QED
    BY <2>1, <2>2
<1>3. s \in Int /\ e \in Int /\ e > p /\ e + 1 \in 1..(Len(typed) + 2)
  BY <1>1
<1>4. ASSUME NEW j \in 1..Len(typed), line'[j] # typed[j]
      PROVE  line'[j] = Nul /\ typed[j] = Space /\ j < e + 1
  BY <1>1, <1>2, <1>3, <1>4
<1>5. e + 1 = Len(typed) + 2 \/ typed[(e + 1) - 1] = Space
  BY <1>1, <1>3
<1>6. CutLine'
  <2>1. Nul \notin Range(typed)
    BY DEF CutLine
  <2> QED
    BY <1>1, <1>2, <1>3, <1>4, <1>5, <2>1 DEF CutLine, Nul, Space, Range
<1>7. \A j \in 1..Len(typed) : j < p => line'[j] = line[j]
  BY <1>1, <1>2, <1>3
<1>8. e # Len(typed) + 1 => line'[e] = Nul
  BY <1>1, <1>2, <1>3
<1> QED
  BY <1>6, <1>7, <1>8

LEMMA CutKept ==
    ASSUME UNCHANGED <<typed, line, p>>
    PROVE  (CutLine => CutLine') /\ \A s, e : WordAt(s, e)' <=> WordAt(s, e)
<1>1. typed' = typed /\ line' = line /\ p' = p
  OBVIOUS
<1>2. Range(typed)' = Range(typed) /\ Nul' = Nul /\ Space' = Space
  BY <1>1 DEF Range, Nul, Space
<1>3. CutLine' = CutLine
  BY <1>1, <1>2 DEF CutLine, Nul, Space, Range
<1>4. \A s, e : WordAt(s, e)' <=> WordAt(s, e)
  BY <1>1 DEF WordAt, Nul, Space
<1> QED
  BY <1>3, <1>4

LEMMA BelowLast == \A n \in Nat : \A i \in 1..(n + 1) : i # n + 1 => i \in 1..n
OBVIOUS

LEMMA NextWords ==
    ASSUME WordsInv, NextWord
    PROVE  WordsInv'
<1> DEFINE L == Len(typed)
           find == Find(DOMAIN line \ Spaces, p)
<1>0. PICK n : n = Len(argv)
  OBVIOUS
<1> USE <1>0
<1>1. /\ typed \in Seq(STRING) /\ Len(line) = L /\ L \in Nat /\ n \in Nat /\ n <= MaxArgs
      /\ argv \in Seq(1..L) /\ p \in Nat /\ p >= 1 /\ MaxArgs \in Nat
  BY CommandAssumption DEF WordsInv, CutLine
<1>2. typed' = typed /\ WordStarts' = WordStarts /\ pc = "split"
  BY DEF NextWord, WordStarts
<1>3. CASE ~(n < MaxArgs /\ find <= Len(line))
  <2>1. pc' = "execute" /\ UNCHANGED <<argv, line, p>>
    BY <1>3 DEF NextWord
  <2>2. n = MaxArgs \/ \A s \in WordStarts : s < p
    <3>1. CutLine
      BY DEF WordsInv
    <3> QED
      BY <1>1, <1>3, <3>1, NoWordLeft
  <2>3. CutLine'
    BY <1>2, <2>1, CutKept DEF WordsInv
  <2>4. \A s, e : WordAt(s, e)' <=> WordAt(s, e)
    BY <1>2, <2>1, CutKept
  <2> QED
    BY <1>2, <2>1, <2>2, <2>3, <2>4 DEF WordsInv
<1>4. CASE n < MaxArgs /\ find <= Len(line)
  <2>1. PICK s, e : s = find /\ e = Find(Spaces, s)
    OBVIOUS
  <2>2. /\ argv' = Append(argv, s) /\ line' = Cut(e) /\ p' = e + 1 /\ pc' = pc
    BY <1>4, <2>1 DEF NextWord
  <2>3. /\ s \in p..L /\ s \in WordStarts /\ e \in (s + 1)..(L + 1)
        /\ \A j \in p..(s - 1) : typed[j] = Space
        /\ \A j \in s..(e - 1) : typed[j] # Space
        /\ e = L + 1 \/ typed[e] = Space
    <3>1. CutLine /\ s <= Len(line)
      BY <1>4, <2>1 DEF WordsInv
    <3>2. s = Find(DOMAIN line \ Spaces, p) /\ e = Find(Spaces, s)
      BY <2>1
    <3> HIDE DEF find
    <3> QED
      BY <3>1, <3>2, WordFound
  <2>4. /\ CutLine' /\ \A j \in 1..L : j < p => line'[j] = line[j]
        /\ e # L + 1 => line'[e] = Nul
    <3>1. CutLine
      BY DEF WordsInv
    <3> QED
      BY <1>2, <2>2, <2>3, <3>1, CutStep
  <2>5. s \in Nat /\ s \in 1..L /\ e \in Nat /\ s < e /\ p <= s /\ e <= L + 1
    BY <1>1, <2>3
  <2>6. /\ argv' \in Seq(1..L) /\ Len(argv') = n + 1 /\ argv'[n + 1] = s
        /\ \A i \in 1..n : argv'[i] = argv[i]
    BY <1>1, <2>2, <2>5
  <2>7. ASSUME NEW i \in 1..n PROVE argv[i] \in Nat /\ argv[i] < p /\ \E x : WordAt(argv[i], x)'
    <3>1. PICK x : WordAt(argv[i], x)
      BY DEF WordsInv
    <3>2. argv[i] \in Nat /\ argv[i] < p /\ x \in Nat /\ x < p /\ x <= L + 1 /\ x >= 1
      <4>1. argv[i] \in 1..L
        BY <1>1
      <4>2. x \in (argv[i] + 1)..(L + 1) /\ x < p
        BY <3>1 DEF WordAt
      <4> QED
        BY <1>1, <4>1, <4>2
    <3>3. x < p'
      BY <1>1, <2>2, <2>5, <3>2
    <3>4. x # L + 1 => line'[x] = line[x]
      <4>1. x # L + 1 => x \in 1..L
        <5>1. L \in Nat /\ x \in 1..(L + 1)
          BY <1>1, <3>2
        <5> QED
          BY <5>1, BelowLast
      <4> QED
        BY <2>4, <3>2, <4>1
    <3>5. /\ x \in (argv[i] + 1)..(L + 1)
          /\ \A j \in argv[i]..(x - 1) : typed[j] # Space
          /\ x = L + 1 \/ (typed[x] = Space /\ line[x] = Nul)
      BY <3>1 DEF WordAt
    <3>6. argv'[i] = argv[i]
      BY <2>6
    <3>7. /\ x \in (argv'[i] + 1)..(L + 1)
          /\ \A j \in argv'[i]..(x - 1) : typed[j] # Space
          /\ x = L + 1 \/ (typed[x] = Space /\ line'[x] = Nul)
      BY <3>4, <3>5, <3>6
    <3> QED
      BY <1>2, <3>2, <3>3, <3>7 DEF WordAt, Space, Nul
  <2>8. WordAt(argv[n + 1], e)'
    <3>1. /\ e \in (s + 1)..(L + 1) /\ e < p' /\ argv'[n + 1] = s
          /\ \A j \in s..(e - 1) : typed[j] # Space
          /\ e = L + 1 \/ (typed[e] = Space /\ line'[e] = Nul)
      BY <2>2, <2>3, <2>4, <2>5, <2>6
    <3>2. e \in (argv'[n + 1] + 1)..(L + 1) /\ \A j \in argv'[n + 1]..(e - 1) : typed[j] # Space
      BY <3>1
    <3> QED
      BY <1>2, <3>1, <3>2 DEF WordAt, Space, Nul
  <2>9. ASSUME NEW i \in 1..(n + 1) PROVE argv'[i] \in WordStarts /\ \E x : WordAt(argv[i], x)'
    <3>1. CASE i = n + 1
      BY <2>3, <2>6, <2>8, <3>1
    <3>2. CASE i # n + 1
      <4>1. i \in 1..n
        <5>1. n \in Nat
          BY <1>1
        <5> QED
          BY <3>2, <5>1, BelowLast
      <4>2. argv[i] \in WordStarts
        BY <4>1 DEF WordsInv
      <4> QED
        BY <2>6, <2>7, <4>1, <4>2
    <3> QED
      BY <3>1, <3>2
  <2>10. ASSUME NEW i \in 1..n PROVE argv'[i] < argv'[i + 1]
    <3>1. CASE i = n
      <4>1. argv'[i] = argv[i] /\ argv'[i + 1] = s
        BY <2>6, <3>1
      <4>2. argv[i] \in Nat /\ argv[i] < p
        BY <2>7
      <4>3. p \in Nat /\ s \in Nat /\ p <= s
        BY <1>1, <2>5
      <4>4. argv[i] < s
        BY <4>2, <4>3
      <4> QED
        BY <4>1, <4>4
    <3>2. CASE i # n
      <4>1. i \in 1..(n - 1) /\ i + 1 \in 1..n
        BY <1>1, <3>2
      <4>2. argv[i] < argv[i + 1]
        BY <4>1 DEF WordsInv
      <4> QED
        BY <2>6, <4>1, <4>2
    <3> QED
      BY <3>1, <3>2
  <2>11. ASSUME NEW x \in WordStarts, x < p' PROVE \E i \in 1..(n + 1) : argv'[i] = x
    <3>1. x \in 1..L /\ typed[x] # Space /\ (x = 1 \/ typed[x - 1] = Space)
      BY <1>1, WordStartIs
    <3>2. x \in Nat /\ x >= 1 /\ x <= e
      BY <1>1, <2>2, <2>5, <2>11, <3>1
    <3>3. CASE x < p
      <4>1. PICK i \in 1..n : argv[i] = x
        BY <3>3 DEF WordsInv
      <4>2. i \in 1..(n + 1) /\ argv'[i] = x
        BY <1>1, <2>6, <4>1
      <4> QED
        BY <4>2
    <3>4. CASE x = s
      <4>1. n + 1 \in 1..(n + 1)
        BY <1>1
      <4> QED
        BY <2>6, <3>4, <4>1
    <3>5. ASSUME ~(x < p), x # s PROVE FALSE
      <4>1. x \in p..(s - 1) \/ x \in (s + 1)..(e - 1) \/ x = e
        BY <1>1, <2>5, <3>2, <3>5
      <4>2. x \notin p..(s - 1)
        BY <2>3, <3>1
      <4>3. x \notin (s + 1)..(e - 1)
        <5>1. SUFFICES ASSUME x \in (s + 1)..(e - 1) PROVE FALSE
          OBVIOUS
        <5>2. x - 1 \in s..(e - 1) /\ x # 1
          BY <1>1, <2>5, <3>2, <5>1
        <5> QED
          BY <2>3, <3>1, <5>2
      <4>4. x # e
        BY <1>1, <2>3, <3>1
      <4> QED
        BY <4>1, <4>2, <4>3, <4>4
    <3> QED
      BY <3>3, <3>4, <3>5
  <2>12. n + 1 <= MaxArgs /\ (n + 1) - 1 = n
    BY <1>1, <1>4
  <2>13. pc' = "split"
    BY <1>2, <2>2
  <2>14. Len(argv') = n + 1 /\ argv' \in Seq(1..L)
    BY <2>6
  <2> QED
    BY <1>2, <2>4, <2>9, <2>10, <2>11, <2>12, <2>13, <2>14 DEF WordsInv
<1> QED
  BY <1>3, <1>4

\* The other steps leave the line and its words alone.
LEMMA WordsKept ==
    ASSUME WordsInv, UNCHANGED <<typed, line, p, argv>>, pc' = "split" => pc = "split",
           pc # "split" \/ pc' = "split"
    PROVE  WordsInv'
<1>1. CutLine' /\ \A s, e : WordAt(s, e)' <=> WordAt(s, e)
  BY CutKept DEF WordsInv
<1>2. WordStarts' = WordStarts
  BY DEF WordStarts
<1> QED
  BY <1>1, <1>2 DEF WordsInv

LEMMA NextWordsInv ==
    ASSUME WordsInv, [CNext]_cvars
    PROVE  WordsInv'
<1>1. CASE NextWord
  BY <1>1, NextWords
<1>2. CASE HexdumpStart \/ HexdumpRow \/ Stop \/ PrintOnly
  <2>1. UNCHANGED <<typed, line, p, argv>> /\ pc # "split" /\ pc' # "split"
    BY <1>2 DEF HexdumpStart, HexdumpRow, Stop, PrintOnly
  <2> QED
    BY <2>1, WordsKept
<1>3. CASE Finished \/ UNCHANGED cvars
  <2>1. UNCHANGED <<typed, line, p, argv>> /\ pc' = pc
    BY <1>3 DEF Finished, cvars
  <2> QED
    BY <2>1, WordsKept
<1> QED
  BY <1>1, <1>2, <1>3 DEF CNext

\* A word as it is read back from the line that was cut up.
LEMMA WordReads ==
    ASSUME CutLine, NEW i, argv[i] \in 1..Len(typed), NEW e, WordAt(argv[i], e)
    PROVE  /\ Len(Word(i)) = e - argv[i] /\ Word(i) = SubSeq(typed, argv[i], e - 1)
           /\ Space \notin Range(Word(i))
<1> DEFINE L == Len(typed)
           S == STRING \cup {Nul}
<1>0. PICK a : a = argv[i]
  OBVIOUS
<1>1. /\ typed \in Seq(S) /\ typed \in Seq(STRING) /\ line \in Seq(S) /\ Len(line) = L /\ L \in Nat
      /\ DOMAIN line = 1..L /\ a \in 1..L /\ a \in Nat
  BY <1>0 DEF CutLine
<1>2. /\ e \in (a + 1)..(L + 1) /\ e < p
      /\ \A j \in a..(e - 1) : typed[j] # Space
      /\ e = L + 1 \/ (typed[e] = Space /\ line[e] = Nul)
  BY <1>0 DEF WordAt
<1>3. e \in Nat /\ e > a /\ e <= L + 1
  BY <1>1, <1>2
<1>4. ASSUME NEW j \in a..(e - 1) PROVE line[j] = typed[j] /\ line[j] # Nul /\ j \in 1..L
  <2>1. j \in 1..L
    BY <1>1, <1>3
  <2>2. typed[j] # Nul
    <3>1. typed[j] \in Range(typed)
      BY <1>1, <2>1 DEF Range
    <3> QED
      BY <3>1 DEF CutLine
  <2>3. line[j] = typed[j]
    BY <1>2, <2>1 DEF CutLine
  <2> QED
    BY <2>1, <2>2, <2>3
<1>5. Find(Zeros, a) = e
  <2> DEFINE f == Find(Zeros, a)
  <2>1. Zeros \subseteq 1..Len(line) /\ \A j \in 1..L : j \in Zeros <=> line[j] = Nul
    BY <1>1 DEF Zeros
  <2>2. /\ f \in 1..(Len(line) + 1)
        /\ f = Len(line) + 1 \/ (f \in Zeros /\ f >= a)
        /\ \A j \in Zeros : j >= a => f <= j
    BY <1>1, <2>1, FindIs
  <2> HIDE DEF f
  <2>3. f <= e
    <3>1. CASE e = L + 1
      BY <1>1, <2>2, <3>1
    <3>2. CASE e # L + 1
      <4>1. e \in 1..L /\ e >= a
        BY <1>1, <1>3, <3>2
      <4> QED
        BY <1>2, <2>1, <2>2, <3>2, <4>1
    <3> QED
      BY <3>1, <3>2
  <2>4. ~(f < e)
    <3>1. SUFFICES ASSUME f < e PROVE FALSE
      OBVIOUS
    <3>2. f # Len(line) + 1
      BY <1>1, <1>3, <2>2, <3>1
    <3>3. f \in Zeros /\ f \in a..(e - 1) /\ f \in 1..L
      BY <1>1, <1>3, <2>1, <2>2, <3>1, <3>2
    <3> QED
      BY <1>4, <2>1, <3>3
  <2>5. f = e
    BY <1>1, <1>3, <2>2, <2>3, <2>4
  <2> QED
    BY <2>5 DEF f
<1> DEFINE w == SubSeq(line, a, e - 1)
           v == SubSeq(typed, a, e - 1)
<1>6. Word(i) = w
  BY <1>0, <1>5 DEF Word
<1>7. e - 1 \in Nat /\ a \in 1..L /\ a <= e - 1 /\ e - 1 <= L /\ e - 1 - a + 1 = e - a /\ e - a \in Nat
  BY <1>1, <1>3
<1>8. /\ w \in Seq(S) /\ Len(w) = e - a /\ \A j \in 1..(e - a) : w[j] = line[a + j - 1]
  BY <1>1, <1>7, SubSeqProperties
<1>9. /\ v \in Seq(S) /\ Len(v) = e - a /\ \A j \in 1..(e - a) : v[j] = typed[a + j - 1]
  BY <1>1, <1>7, SubSeqProperties
<1>10. \A j \in 1..(e - a) : a + j - 1 \in a..(e - 1)
  BY <1>1, <1>3
<1> HIDE DEF w, v
<1>11. w = v
  <2>1. \A j \in 1..(e - a) : w[j] = v[j]
    BY <1>4, <1>8, <1>9, <1>10
  <2> QED
    BY <1>8, <1>9, <2>1, SeqEqual
<1>12. Space \notin Range(w)
  <2>1. \A j \in 1..(e - a) : w[j] # Space
    BY <1>2, <1>4, <1>8, <1>10
  <2>2. DOMAIN w = 1..(e - a)
    BY <1>8
  <2> QED
    BY <2>1, <2>2 DEF Range
<1> QED
  BY <1>0, <1>6, <1>8, <1>11, <1>12 DEF v

LEMMA WordsHold ==
    ASSUME WordsInv
    PROVE  WordsFound
<1> SUFFICES ASSUME pc # "split" PROVE WordsFound
  BY DEF WordsFound
<1>1. /\ CutLine /\ argv \in Seq(1..Len(typed)) /\ Len(argv) \in Nat /\ Len(argv) <= MaxArgs
      /\ MaxArgs \in Nat /\ p \in Nat /\ Len(typed) \in Nat /\ typed \in Seq(STRING)
  BY CommandAssumption DEF WordsInv, CutLine
<1>2. DOMAIN argv = 1..Len(argv) /\ \A i \in 1..Len(argv) : argv[i] \in 1..Len(typed)
  BY <1>1
<1>3. Range(argv) \subseteq WordStarts
  BY <1>2 DEF Range, WordsInv
<1>4. \A i \in 1..(Len(argv) - 1) : argv[i] < argv[i + 1]
  BY DEF WordsInv
<1>5. ASSUME NEW s \in WordStarts \ Range(argv)
      PROVE  Len(argv) = MaxArgs /\ s > argv[MaxArgs]
  <2>1. \A i \in 1..Len(argv) : argv[i] # s
    BY <1>2 DEF Range
  <2>2. ~(s < p)
    BY <2>1 DEF WordsInv
  <2>3. Len(argv) = MaxArgs
    BY <2>2 DEF WordsInv
  <2>4. MaxArgs \in 1..Len(argv)
    BY <1>1, <2>3, CommandAssumption
  <2>5. PICK e : WordAt(argv[MaxArgs], e)
    BY <2>4 DEF WordsInv
  <2>6. argv[MaxArgs] \in Nat /\ argv[MaxArgs] < p
    <3>1. argv[MaxArgs] \in 1..Len(typed)
      BY <1>2, <2>4
    <3>2. e \in (argv[MaxArgs] + 1)..(Len(typed) + 1) /\ e < p
      BY <2>5 DEF WordAt
    <3> QED
      BY <1>1, <3>1, <3>2
  <2>7. s \in Nat
    BY <1>1, WordStartIs
  <2> QED
    BY <1>1, <2>2, <2>3, <2>6, <2>7
<1>6. ASSUME NEW i \in DOMAIN argv
      PROVE  LET end == argv[i] + Len(Word(i))
             IN /\ Word(i) = SubSeq(typed, argv[i], end - 1)
                /\ Space \notin Range(Word(i))
                /\ end = Len(typed) + 1 \/ typed[end] = Space
  <2>1. PICK e : WordAt(argv[i], e)
    BY <1>2 DEF WordsInv
  <2>2. /\ Len(Word(i)) = e - argv[i] /\ Word(i) = SubSeq(typed, argv[i], e - 1)
        /\ Space \notin Range(Word(i))
    <3>1. argv[i] \in 1..Len(typed)
      BY <1>2
    <3> QED
      BY <1>1, <2>1, <3>1, WordReads
  <2>3. e \in (argv[i] + 1)..(Len(typed) + 1) /\ (e = Len(typed) + 1 \/ typed[e] = Space)
    BY <2>1 DEF WordAt
  <2>4. argv[i] + (e - argv[i]) = e
    BY <1>1, <1>2, <2>3
  <2>5. argv[i] + Len(Word(i)) = e
    BY <2>2, <2>4
  <2> QED
    BY <2>2, <2>3, <2>5
<1> QED
  BY <1>3, <1>4, <1>5, <1>6 DEF WordsFound

\* Cutting the line in place, shell_execute finds its words in order, as many
\* as argv holds, and each reads as it was typed; for lines of any length.
THEOREM WordsCorrect ==
    CSpec => []WordsFound
<1>1. WordsInv => WordsFound
  BY WordsHold
<1>2. WordsInv /\ [CNext]_cvars => WordsInv'
  BY NextWordsInv
<1>3. CInit => WordsInv
  BY InitWords
<1> QED
  BY <1>1, <1>2, <1>3, PTL DEF CSpec

-----------------------------------------------------------------------------
(***************************************************************************)
(* Numbers.                                                                *)
(***************************************************************************)

Within(S, step) == step \in [S -> S]

Iterates(f, n, S, e, step) ==
    f \in [0..n -> S] /\ \A i \in 0..n : f[i] = IF i = 0 THEN e ELSE step[f[i - 1]]

\* What comes of going on from e with the function step.
LEMMA IterExists ==
    ASSUME NEW S, NEW e \in S, NEW step, Within(S, step)
    PROVE  \A n \in Nat : \E f : Iterates(f, n, S, e, step)
<1> DEFINE Ok(f, n) == Iterates(f, n, S, e, step)
           T == {n \in Nat : ~ \E f : Ok(f, n)}
<1>0. step \in [S -> S]
  BY DEF Within
<1> SUFFICES ASSUME T # {} PROVE FALSE
  OBVIOUS
<1>1. PICK m \in T : \A y \in T : m <= y
  BY LeastNatural
<1>2. m \in Nat /\ ~ \E f : Ok(f, m)
  BY <1>1
<1>3. CASE m = 0
  <2> DEFINE g == [i \in 0..0 |-> e]
  <2>1. g \in [0..0 -> S] /\ \A i \in 0..0 : i = 0 /\ g[i] = e
    OBVIOUS
  <2> HIDE DEF g
  <2>2. Ok(g, 0)
    BY <2>1 DEF Iterates
  <2> QED
    BY <1>2, <1>3, <2>2
<1>4. CASE m # 0
  <2>1. m - 1 \in Nat /\ ~(m <= m - 1)
    BY <1>2, <1>4
  <2>2. PICK f : Ok(f, m - 1)
    BY <1>1, <2>1
  <2>3. m - 1 \in 0..(m - 1) /\ \A i \in 0..m : i # m => i \in 0..(m - 1)
    BY <2>1, <1>2
  <2>4. PICK z \in S : z = step[f[m - 1]]
    BY <1>0, <2>2, <2>3 DEF Iterates
  <2> DEFINE g == [i \in 0..m |-> IF i = m THEN z ELSE f[i]]
  <2>5. g \in [0..m -> S]
    BY <2>2, <2>3, <2>4 DEF Iterates
  <2>6. ASSUME NEW i \in 0..m PROVE g[i] = IF i = 0 THEN e ELSE step[g[i - 1]]
    <3>1. i # 0 => i - 1 \in 0..m /\ i - 1 # m
      BY <1>2
    <3>2. (i # 0 => g[i - 1] = f[i - 1]) /\ g[i] = IF i = m THEN z ELSE f[i]
      BY <3>1
    <3> HIDE DEF g
    <3>3. CASE i = m
      BY <1>4, <2>4, <3>2, <3>3
    <3>4. CASE i # m
      <4>1. f[i] = IF i = 0 THEN e ELSE step[f[i - 1]]
        BY <2>2, <2>3, <3>4 DEF Iterates
      <4> QED
        BY <3>2, <3>4, <4>1
    <3> QED
      BY <3>3, <3>4
  <2> HIDE DEF g
  <2>7. Ok(g, m)
    BY <2>5, <2>6 DEF Iterates
  <2> QED
    BY <1>2, <2>7
<1> QED
  BY <1>3, <1>4

\* W is the last of the powers of 16.
LEMMA Powers ==
    \E power \in [0..HexDigits -> Nat \ {0}] :
       /\ W = power[HexDigits] /\ power[0] = 1
       /\ \A n \in 1..HexDigits : power[n] = 16 * power[n - 1]
<1> DEFINE N == Nat \ {0}
           D == 0..HexDigits
           times == [x \in N |-> 16 * x]
<1>1. HexDigits \in Nat /\ 1 \in N /\ Within(N, times)
  BY CommandAssumption DEF Within
<1>2. PICK f \in [D -> N] : \A i \in D : f[i] = IF i = 0 THEN 1 ELSE times[f[i - 1]]
  <2> HIDE DEF N, times
  <2>1. \E f : Iterates(f, HexDigits, N, 1, times)
    BY <1>1, IterExists
  <2> QED
    BY <2>1 DEF Iterates
<1>3. \A i \in D : i # 0 => i - 1 \in D
  BY <1>1
<1>4. \A i \in D : f[i] = IF i = 0 THEN 1 ELSE 16 * f[i - 1]
  <2>1. \A i \in D : i # 0 => f[i - 1] \in N
    BY <1>3
  <2>2. \A x \in N : times[x] = 16 * x
    OBVIOUS
  <2> HIDE DEF N, D, times
  <2> QED
    BY <1>2, <2>1, <2>2
<1>5. f = [i \in D |-> IF i = 0 THEN 1 ELSE 16 * f[i - 1]]
  BY <1>4
<1> DEFINE power[n \in D] == IF n = 0 THEN 1 ELSE 16 * power[n - 1]
<1>6. \E g : g = [i \in D |-> IF i = 0 THEN 1 ELSE 16 * g[i - 1]]
  BY <1>5
<1>7. power = [i \in D |-> IF i = 0 THEN 1 ELSE 16 * power[i - 1]]
  BY <1>6 DEF power
<1>8. W = power[HexDigits]
  BY DEF W, power
<1> HIDE DEF power
<1>9. \A i \in D : power[i] = IF i = 0 THEN 1 ELSE 16 * power[i - 1]
  BY <1>7
<1>10. \A i \in D : power[i] = f[i]
  <2> DEFINE T == {i \in D : power[i] # f[i]}
  <2> SUFFICES ASSUME T # {} PROVE FALSE
    OBVIOUS
  <2>1. T \in SUBSET Nat
    BY <1>1
  <2>2. PICK m \in T : \A y \in T : m <= y
    BY <2>1, LeastNatural
  <2>3. m # 0 => m - 1 \in D /\ ~(m <= m - 1)
    BY <1>3, <2>2
  <2>4. m # 0 => power[m - 1] = f[m - 1]
    BY <2>2, <2>3
  <2> QED
    BY <1>4, <1>9, <2>2, <2>4
<1>11. power = f
  BY <1>5, <1>7, <1>10
<1>12. 0 \in D /\ \A n \in 1..HexDigits : n \in D /\ n # 0
  BY <1>1
<1> QED
  BY <1>2, <1>4, <1>8, <1>11, <1>12

LEMMA Width == W \in Nat \ {0}
<1>1. PICK power \in [0..HexDigits -> Nat \ {0}] : W = power[HexDigits]
  BY Powers
<1>2. HexDigits \in 0..HexDigits
  BY CommandAssumption
<1> QED
  BY <1>1, <1>2

\* What parse_uint adds up, digit by digit.
Sums(f, s, base, n) ==
    \A i \in 0..n : f[i] = IF i = 0 THEN 0 ELSE (f[i - 1] * base + DigitOf(s[i])) % W

LEMMA SumExists == \A s, base : \A n \in Nat : \E f : Sums(f, s, base, n)
<1> SUFFICES ASSUME NEW s, NEW base PROVE \A n \in Nat : \E f : Sums(f, s, base, n)
  OBVIOUS
<1> DEFINE T == {n \in Nat : ~ \E f : Sums(f, s, base, n)}
<1> SUFFICES ASSUME T # {} PROVE FALSE
  OBVIOUS
<1>1. PICK m \in T : \A y \in T : m <= y
  BY LeastNatural
<1>2. m \in Nat /\ ~ \E f : Sums(f, s, base, m)
  BY <1>1
<1>3. CASE m = 0
  <2> DEFINE g == [i \in {0} |-> 0]
  <2>1. 0..0 = {0} /\ g[0] = 0
    OBVIOUS
  <2> HIDE DEF g
  <2>2. Sums(g, s, base, 0)
    BY <2>1 DEF Sums
  <2> QED
    BY <1>2, <1>3, <2>2
<1>4. CASE m # 0
  <2>1. m - 1 \in Nat /\ ~(m <= m - 1)
    BY <1>2, <1>4
  <2>2. PICK f : Sums(f, s, base, m - 1)
    BY <1>1, <2>1
  <2> DEFINE D == 0..m
             x == (f[m - 1] * base + DigitOf(s[m])) % W
  <2>3. PICK z : z = x
    OBVIOUS
  <2> DEFINE g == [i \in D |-> IF i = m THEN z ELSE f[i]]
  <2>4. ASSUME NEW i \in D
        PROVE  g[i] = IF i = 0 THEN 0 ELSE (g[i - 1] * base + DigitOf(s[i])) % W
    <3>1. i # 0 => i - 1 \in D /\ i - 1 # m
      BY <1>2, <2>4
    <3>2. i # 0 => g[i - 1] = f[i - 1]
      BY <3>1
    <3>3. g[i] = IF i = m THEN z ELSE f[i]
      BY <2>4
    <3> HIDE DEF g
    <3>4. CASE i = m
      BY <1>4, <2>3, <3>2, <3>3, <3>4
    <3>5. CASE i # m
      <4>1. i \in 0..(m - 1)
        BY <1>2, <3>5
      <4>2. f[i] = IF i = 0 THEN 0 ELSE (f[i - 1] * base + DigitOf(s[i])) % W
        BY <2>2, <4>1 DEF Sums
      <4> QED
        BY <3>2, <3>3, <3>5, <4>2
    <3> QED
      BY <3>4, <3>5
  <2> HIDE DEF g
  <2>5. Sums(g, s, base, m)
    BY <2>4 DEF Sums
  <2> QED
    BY <1>2, <2>5
<1> QED
  BY <1>3, <1>4

LEMMA DigitIsInt ==
    ASSUME W \in Nat, NEW c
    PROVE  DigitOf(c) \in Int
<1> DEFINE I(q) == {i \in 1..Len(q) : q[i] = c}
           D == Digits
           L == Lower
           at1 == SelectInSeq(L, LAMBDA d : d = c)
           at2 == SelectInSeq(D, LAMBDA d : d = c)
<1>1. Len(L) \in Nat /\ Len(D) \in Nat
  BY DEF Lower, Digits
<1>2. at1 = (IF I(L) # {} THEN Min(I(L)) ELSE 0) /\ at2 = (IF I(D) # {} THEN Min(I(D)) ELSE 0)
  BY DEF SelectInSeq
<1>3. I(L) \in SUBSET Nat /\ I(D) \in SUBSET Nat
  BY <1>1
<1>4. DigitOf(c) = IF c \in Range(L) THEN 9 + at1
                   ELSE IF c \in Range(D) THEN at2 - 1 ELSE W
  BY DEF DigitOf
<1> HIDE DEF I, at1, at2, L, D
<1>5. at1 \in Nat /\ at2 \in Nat
  <2>1. I(L) # {} => Min(I(L)) \in I(L)
    BY <1>3, MinIs
  <2>2. I(D) # {} => Min(I(D)) \in I(D)
    BY <1>3, MinIs
  <2> QED
    BY <1>2, <1>3, <2>1, <2>2
<1> QED
  BY <1>4, <1>5

\* What has been added up is a number of 64 bits.
LEMMA SumIsNat ==
    ASSUME W \in Nat \ {0}, NEW f, NEW s, NEW base \in Nat, NEW n \in Nat, Sums(f, s, base, n)
    PROVE  f[n] \in Nat
<1> DEFINE T == {i \in 0..n : f[i] \notin Nat}
<1> SUFFICES ASSUME T # {} PROVE FALSE
  <2>1. n \in 0..n
    OBVIOUS
  <2> QED
    BY <2>1
<1>1. T \in SUBSET Nat
  OBVIOUS
<1>2. PICK m \in T : \A y \in T : m <= y
  BY <1>1, LeastNatural
<1>3. m \in 0..n /\ f[m] \notin Nat
  BY <1>2
<1>4. f[m] = IF m = 0 THEN 0 ELSE (f[m - 1] * base + DigitOf(s[m])) % W
  BY <1>3 DEF Sums
<1>5. m # 0
  BY <1>3, <1>4
<1>6. f[m - 1] \in Nat
  <2>1. m - 1 \in 0..n /\ ~(m <= m - 1)
    BY <1>3, <1>5
  <2> QED
    BY <1>2, <2>1
<1>7. f[m - 1] * base + DigitOf(s[m]) \in Int
  <2>1. DigitOf(s[m]) \in Int
    BY DigitIsInt
  <2>2. \A x, y \in Nat : x * y \in Nat
    BY Z3
  <2>3. f[m - 1] * base \in Nat
    BY <1>6, <2>2
  <2> QED
    BY <2>1, <2>3
<1>8. \A x \in Int : x % W \in Nat
  BY Z3
<1> QED
  BY <1>3, <1>4, <1>5, <1>7, <1>8

\* The base that parse_uint chooses for a string, and its digits.
Form(s, base, digits) ==
    LET hex == Len(s) >= 2 /\ s[1] = "0" /\ s[2] \in {"x", "X"}
    IN /\ base = IF hex THEN 16 ELSE 10
       /\ digits = IF hex THEN SubSeq(s, 3, Len(s)) ELSE s

\* If all are digits they are added up.
LEMMA ParsedIs ==
    ASSUME NEW s, s # <<>>, NEW base \in Nat, NEW digits, Form(s, base, digits),
           Len(digits) \in Nat, DOMAIN digits = 1..Len(digits),
           \A i \in 1..Len(digits) : DigitOf(digits[i]) < base
    PROVE  \E v : /\ Sums(v, digits, base, Len(digits))
                  /\ ParseUint(s) = [ok |-> TRUE, value |-> v[Len(digits)]]
<1> DEFINE n == Len(digits)
           value[i \in 0..n] == IF i = 0 THEN 0 ELSE (value[i - 1] * base + DigitOf(digits[i])) % W
<1>1. ParseUint(s) = [ok |-> TRUE, value |-> value[n]]
  BY DEF ParseUint, Form
<1>2. PICK f : Sums(f, digits, base, n)
  BY SumExists
<1> DEFINE g == [i \in 0..n |-> f[i]]
<1>3. ASSUME NEW i \in 0..n
      PROVE  g[i] = IF i = 0 THEN 0 ELSE (g[i - 1] * base + DigitOf(digits[i])) % W
  <2>1. i # 0 => i - 1 \in 0..n
    OBVIOUS
  <2>2. g[i] = f[i] /\ (i # 0 => g[i - 1] = f[i - 1])
    BY <2>1
  <2>3. f[i] = IF i = 0 THEN 0 ELSE (f[i - 1] * base + DigitOf(digits[i])) % W
    BY <1>2 DEF Sums
  <2> HIDE DEF g
  <2> QED
    BY <2>2, <2>3
<1>4. g = [i \in 0..n |-> IF i = 0 THEN 0 ELSE (g[i - 1] * base + DigitOf(digits[i])) % W]
  BY <1>3
<1> HIDE DEF g
<1>5. \E h : h = [i \in 0..n |-> IF i = 0 THEN 0 ELSE (h[i - 1] * base + DigitOf(digits[i])) % W]
  BY <1>4
<1>6. value = [i \in 0..n |-> IF i = 0 THEN 0 ELSE (value[i - 1] * base + DigitOf(digits[i])) % W]
  BY <1>5 DEF value
<1> HIDE DEF value
<1>7. Sums(value, digits, base, n)
  BY <1>6 DEF Sums
<1> QED
  BY <1>1, <1>7

LEMMA ParsedIsNat ==
    ASSUME W \in Nat \ {0}, NEW S, NEW s \in Seq(S)
    PROVE  ParseUint(s).value \in Nat
<1>1. PICK base, digits : base \in Nat /\ Form(s, base, digits)
  <2>1. 10 \in Nat /\ 16 \in Nat
    OBVIOUS
  <2> QED
    BY <2>1 DEF Form
<1>2. Len(digits) \in Nat /\ DOMAIN digits = 1..Len(digits)
  <2>1. SubSeq(s, 3, Len(s)) \in Seq(S)
    <3>1. Len(s) \in Int /\ \A i \in 3..Len(s) : s[i] \in S
      OBVIOUS
    <3> QED
      BY <3>1, SubSeqProperties
  <2>2. digits \in Seq(S)
    BY <1>1, <2>1 DEF Form
  <2> QED
    BY <2>2
<1>3. CASE s # <<>> /\ \A i \in 1..Len(digits) : DigitOf(digits[i]) < base
  <2>1. PICK v : /\ Sums(v, digits, base, Len(digits))
                 /\ ParseUint(s) = [ok |-> TRUE, value |-> v[Len(digits)]]
    BY <1>1, <1>2, <1>3, ParsedIs
  <2>2. v[Len(digits)] \in Nat
    BY <1>1, <1>2, <2>1, SumIsNat
  <2> QED
    BY <2>1, <2>2
<1>4. CASE ~(s # <<>> /\ \A i \in 1..Len(digits) : DigitOf(digits[i]) < base)
  BY <1>1, <1>2, <1>4 DEF ParseUint, Form
<1> QED
  BY <1>3, <1>4

\* A sum that stays below W does not wrap.
Reads(f, s, base, n) ==
    /\ f[0] = 0
    /\ \A i \in 1..n : f[i] = f[i - 1] * base + DigitOf(s[i]) /\ f[i] \in Nat /\ f[i] < W

LEMMA ReadsSum ==
    ASSUME NEW v, NEW f, NEW s, NEW base \in Nat, NEW n \in Nat,
           Sums(v, s, base, n), Reads(f, s, base, n)
    PROVE  v[n] = f[n]
<1> DEFINE T == {i \in 0..n : v[i] # f[i]}
<1> SUFFICES ASSUME T # {} PROVE FALSE
  <2>1. n \in 0..n
    OBVIOUS
  <2> QED
    BY <2>1
<1>1. T \in SUBSET Nat
  OBVIOUS
<1>2. PICK m \in T : \A y \in T : m <= y
  BY <1>1, LeastNatural
<1>3. v[m] = IF m = 0 THEN 0 ELSE (v[m - 1] * base + DigitOf(s[m])) % W
  BY <1>2 DEF Sums
<1>4. m # 0 /\ m \in 1..n
  BY <1>2, <1>3 DEF Reads
<1>5. f[m] = f[m - 1] * base + DigitOf(s[m]) /\ f[m] \in Nat /\ f[m] < W
  BY <1>4 DEF Reads
<1>6. v[m - 1] = f[m - 1]
  <2>1. m - 1 \in 0..n /\ ~(m <= m - 1)
    BY <1>4
  <2> QED
    BY <1>2, <2>1
<1>7. v[m] = f[m] % W
  BY <1>3, <1>4, <1>5, <1>6
<1>8. \A x \in Nat, w \in Nat \ {0} : x < w => x % w = x
  BY Z3
<1>9. v[m] = f[m]
  BY <1>5, <1>7, <1>8, Width
<1> QED
  BY <1>2, <1>9

\* parse_uint reads the digits that the printing functions write.
LEMMA DigitBack == \A d \in 0..15 : DigitOf(Digits[d + 1]) = d
<1> SUFFICES ASSUME NEW d \in 0..15 PROVE DigitOf(Digits[d + 1]) = d
  OBVIOUS
<1> DEFINE c == Digits[d + 1]
           I == {i \in 1..Len(Digits) : Digits[i] = c}
<1>1. Len(Digits) = 16
  BY DEF Digits
<1>2. \A i, j \in 1..16 : Digits[i] = Digits[j] => i = j
  BY DEF Digits
<1>3. DOMAIN Digits = 1..16 /\ DOMAIN Lower = 1..6
  BY DEF Digits, Lower
<1>4. \A i \in 1..16, j \in 1..6 : Digits[i] # Lower[j]
  BY DEF Digits, Lower
<1>5. c \notin Range(Lower) /\ c \in Range(Digits)
  BY <1>3, <1>4 DEF Range
<1>6. SelectInSeq(Digits, LAMBDA x : x = c) = IF I # {} THEN Min(I) ELSE 0
  BY DEF SelectInSeq
<1>7. d + 1 \in I /\ I \in SUBSET Nat /\ \A i \in I : i = d + 1
  BY <1>1, <1>2
<1> HIDE DEF I
<1>8. Min(I) = d + 1
  BY <1>7, MinIs
<1>9. DigitOf(c) = SelectInSeq(Digits, LAMBDA x : x = c) - 1
  BY <1>5 DEF DigitOf
<1> QED
  BY <1>6, <1>7, <1>8, <1>9

\* Shifting a number of HexDigits digits to the right, digit by digit.
LEMMA Shifts ==
    ASSUME NEW num \in Nat, num < W
    PROVE  \E sh \in [0..HexDigits -> Nat] :
              /\ sh[0] = num /\ sh[HexDigits] = 0
              /\ \A i \in 1..HexDigits : sh[i] = sh[i - 1] \div 16
              /\ \A i \in 0..HexDigits : sh[i] < W
              /\ PrintHex(num) =
                   LET all == [i \in 1..HexDigits |-> Digits[(sh[HexDigits - i] % 16) + 1]]
                       first == CHOOSE i \in 1..HexDigits : /\ i = HexDigits \/ all[i] # "0"
                                                            /\ \A j \in 1..(i - 1) : all[j] = "0"
                   IN <<"0", "x">> \o SubSeq(all, first, HexDigits)
<1> DEFINE H == HexDigits
           D == 0..H
           N == Nat
           shift == [x \in N |-> x \div 16]
<1>1. H \in Nat /\ Within(N, shift)
  <2>1. \A x \in Nat : x \div 16 \in Nat
    OBVIOUS
  <2> QED
    BY <2>1, CommandAssumption DEF Within
<1>2. PICK f \in [D -> Nat] : \A i \in D : f[i] = IF i = 0 THEN num ELSE shift[f[i - 1]]
  <2>1. num \in N
    OBVIOUS
  <2> HIDE DEF N, shift
  <2>2. \E f : Iterates(f, H, N, num, shift)
    BY <1>1, <2>1, IterExists
  <2> QED
    BY <2>2 DEF Iterates, N
<1>3. \A i \in D : i # 0 => i - 1 \in D
  BY <1>1
<1>4. \A i \in D : f[i] = IF i = 0 THEN num ELSE f[i - 1] \div 16
  <2>1. \A i \in D : i # 0 => f[i - 1] \in Nat
    BY <1>3
  <2>2. \A x \in Nat : shift[x] = x \div 16
    OBVIOUS
  <2> HIDE DEF D, shift
  <2> QED
    BY <1>2, <2>1, <2>2
<1>5. f = [i \in D |-> IF i = 0 THEN num ELSE f[i - 1] \div 16]
  BY <1>4
<1> DEFINE shifted[i \in D] == IF i = 0 THEN num ELSE shifted[i - 1] \div 16
<1>6. \E g : g = [i \in D |-> IF i = 0 THEN num ELSE g[i - 1] \div 16]
  BY <1>5
<1>7. shifted = [i \in D |-> IF i = 0 THEN num ELSE shifted[i - 1] \div 16]
  BY <1>6 DEF shifted
<1> DEFINE Written(sh) ==
             LET all == [i \in 1..HexDigits |-> Digits[(sh[HexDigits - i] % 16) + 1]]
                 first == CHOOSE i \in 1..HexDigits : /\ i = HexDigits \/ all[i] # "0"
                                                      /\ \A j \in 1..(i - 1) : all[j] = "0"
             IN <<"0", "x">> \o SubSeq(all, first, HexDigits)
<1>8. PrintHex(num) = Written(shifted)
  BY DEF PrintHex, shifted
<1> HIDE DEF shifted
<1>9. \A i \in D : shifted[i] = IF i = 0 THEN num ELSE shifted[i - 1] \div 16
  BY <1>7
<1>10. \A i \in D : shifted[i] = f[i]
  <2> DEFINE T == {i \in D : shifted[i] # f[i]}
  <2> SUFFICES ASSUME T # {} PROVE FALSE
    OBVIOUS
  <2>1. T \in SUBSET Nat
    BY <1>1
  <2>2. PICK m \in T : \A y \in T : m <= y
    BY <2>1, LeastNatural
  <2>3. m # 0 => m - 1 \in D /\ ~(m <= m - 1)
    BY <1>3, <2>2
  <2>4. m # 0 => shifted[m - 1] = f[m - 1]
    BY <2>2, <2>3
  <2> QED
    BY <1>4, <1>9, <2>2, <2>4
<1>11. shifted = f
  BY <1>5, <1>7, <1>10
<1>12. PICK power \in [D -> Nat \ {0}] :
          /\ W = power[H] /\ power[0] = 1 /\ \A n \in 1..H : power[n] = 16 * power[n - 1]
  BY Powers
<1>13. \A i \in D : f[i] < power[H - i] /\ f[i] < W
  <2> DEFINE T == {i \in D : ~(f[i] < power[H - i] /\ f[i] < W)}
  <2> SUFFICES ASSUME T # {} PROVE FALSE
    OBVIOUS
  <2>1. T \in SUBSET Nat
    BY <1>1
  <2>2. PICK m \in T : \A y \in T : m <= y
    BY <2>1, LeastNatural
  <2>3. m # 0
    <3>1. H - 0 = H /\ f[0] = num
      BY <1>1, <1>4
    <3> QED
      BY <1>12, <2>2, <3>1
  <2>4. m - 1 \in D /\ ~(m <= m - 1) /\ H - m \in D /\ H - (m - 1) \in 1..H /\ H - (m - 1) - 1 = H - m
    BY <1>1, <2>2, <2>3
  <2>5. f[m - 1] < power[H - (m - 1)] /\ f[m - 1] < W
    BY <2>2, <2>4
  <2>6. power[H - (m - 1)] = 16 * power[H - m]
    BY <1>12, <2>4
  <2>7. f[m] = f[m - 1] \div 16 /\ f[m - 1] \in Nat /\ power[H - m] \in Nat /\ W \in Nat
    BY <1>4, <1>12, <2>2, <2>3, <2>4, Width
  <2>8. \A x, y \in Nat : x < 16 * y => x \div 16 < y
    OBVIOUS
  <2>9. \A x, y \in Nat : x < y => x \div 16 < y
    OBVIOUS
  <2>10. f[m - 1] < 16 * power[H - m]
    BY <2>5, <2>6
  <2> QED
    BY <2>2, <2>5, <2>7, <2>8, <2>9, <2>10
<1>14. f[H] = 0
  <2>1. H \in D /\ H - H = 0
    BY <1>1
  <2>2. f[H] < 1 /\ f[H] \in Nat
    BY <1>12, <1>13, <2>1
  <2> QED
    BY <2>2
<1>15. 0 \in D /\ \A i \in 1..H : i \in D /\ i # 0
  BY <1>1
<1>16. \A i \in 1..H : f[i] = f[i - 1] \div 16
  BY <1>4, <1>15
<1>17. f[0] = num
  BY <1>4, <1>15
<1>18. PrintHex(num) = Written(f)
  BY <1>8, <1>11
<1> QED
  BY <1>13, <1>14, <1>16, <1>17, <1>18

\* What print_hex writes is read back as the same number.
LEMMA HexBack ==
    ASSUME NEW num \in Nat, num < W
    PROVE  ParseUint(PrintHex(num)) = [ok |-> TRUE, value |-> num]
<1> DEFINE H == HexDigits
<1>1. PICK sh \in [0..H -> Nat] :
              /\ sh[0] = num /\ sh[H] = 0
              /\ \A i \in 1..H : sh[i] = sh[i - 1] \div 16
              /\ \A i \in 0..H : sh[i] < W
              /\ PrintHex(num) =
                   LET all == [i \in 1..H |-> Digits[(sh[H - i] % 16) + 1]]
                       first == CHOOSE i \in 1..H : /\ i = H \/ all[i] # "0"
                                                    /\ \A j \in 1..(i - 1) : all[j] = "0"
                   IN <<"0", "x">> \o SubSeq(all, first, H)
  BY Shifts
<1>2. H \in Nat /\ H >= 1
  BY CommandAssumption
<1> DEFINE all == [i \in 1..H |-> Digits[(sh[H - i] % 16) + 1]]
           P(i) == (i = H \/ all[i] # "0") /\ \A j \in 1..(i - 1) : all[j] = "0"
           first == CHOOSE i \in 1..H : P(i)
           s == <<"0", "x">> \o SubSeq(all, first, H)
<1>3. PrintHex(num) = s
  BY <1>1
<1>4. first \in 1..H /\ \A j \in 1..(first - 1) : all[j] = "0"
  <2> DEFINE T == {i \in 1..H : i = H \/ all[i] # "0"}
  <2>1. H \in T /\ T \in SUBSET Nat
    BY <1>2
  <2>2. PICK m \in T : \A y \in T : m <= y
    BY <2>1, LeastNatural
  <2>3. \A j \in 1..(m - 1) : j \in 1..H /\ j # H /\ ~(m <= j)
    BY <1>2, <2>2
  <2>4. m \in 1..H /\ P(m)
    BY <2>2, <2>3
  <2> HIDE DEF P
  <2>5. first \in 1..H /\ P(first)
    BY <2>4
  <2> QED
    BY <2>5 DEF P
<1>5. \A i \in 1..H : /\ H - i \in 0..H /\ H - (i - 1) \in 1..H /\ H - (i - 1) - 1 = H - i
                      /\ i - 1 \in 0..H /\ H - (i - 1) \in 0..H
  BY <1>2
<1>6. \A i \in 1..H : /\ sh[H - i] \in Nat /\ sh[H - (i - 1)] \in Nat
                      /\ sh[H - (i - 1)] = sh[H - i] \div 16
  BY <1>1, <1>5
<1>7. \A x \in Nat : x = (x \div 16) * 16 + (x % 16) /\ x % 16 \in 0..15
  OBVIOUS
<1>8. ASSUME NEW i \in 1..H
      PROVE  /\ DigitOf(all[i]) = sh[H - i] % 16 /\ sh[H - i] % 16 \in 0..15
             /\ sh[H - i] = sh[H - (i - 1)] * 16 + DigitOf(all[i])
  <2>1. sh[H - i] % 16 \in 0..15
    BY <1>6, <1>7
  <2>2. all[i] = Digits[(sh[H - i] % 16) + 1]
    OBVIOUS
  <2>3. DigitOf(all[i]) = sh[H - i] % 16
    BY <2>1, <2>2, DigitBack
  <2>4. sh[H - i] = (sh[H - i] \div 16) * 16 + (sh[H - i] % 16)
    BY <1>6, <1>7
  <2> QED
    BY <1>6, <2>1, <2>3, <2>4
<1>9. sh[H - (first - 1)] = 0
  <2> DEFINE T == {j \in 0..(first - 1) : sh[H - j] # 0}
  <2> SUFFICES ASSUME T # {} PROVE FALSE
    <3>1. first - 1 \in 0..(first - 1)
      BY <1>4
    <3> QED
      BY <3>1
  <2>0. PICK b : b = first
    OBVIOUS
  <2>1. T \in SUBSET Nat
    OBVIOUS
  <2>2. PICK m \in T : \A y \in T : m <= y
    BY <2>1, LeastNatural
  <2>3. m # 0
    <3>1. H - 0 = H
      BY <1>2
    <3> QED
      BY <1>1, <2>2, <3>1
  <2>4. m \in 1..H /\ m \in 1..(b - 1) /\ m - 1 \in 0..(b - 1) /\ ~(m <= m - 1)
    <3>1. b \in 1..H /\ m \in 0..(b - 1)
      BY <1>4, <2>0, <2>2
    <3> HIDE DEF first, T
    <3> QED
      BY <1>2, <2>3, <3>1
  <2>5. all[m] = "0" /\ sh[H - (m - 1)] = 0
    BY <1>4, <2>0, <2>2, <2>4
  <2>6. DigitOf("0") = 0
    <3>1. Digits[0 + 1] = "0"
      BY DEF Digits
    <3> QED
      BY <3>1, DigitBack
  <2>7. sh[H - m] = 0 * 16 + 0
    BY <1>8, <2>4, <2>5, <2>6
  <2> QED
    BY <2>2, <2>7
<1> DEFINE C == {Digits[i] : i \in 1..16} \cup {"x"}
           n == H - first + 1
           ds == SubSeq(all, first, H)
<1>10. all \in Seq(C) /\ Len(all) = H
  <2>1. \A d \in 0..15 : Digits[d + 1] \in C
    OBVIOUS
  <2>2. \A i \in 1..H : all[i] \in C
    <3> HIDE DEF C
    <3> QED
      BY <1>8, <2>1
  <2>3. all \in [1..H -> C]
    BY <2>2
  <2> HIDE DEF all, C
  <2> QED
    BY <1>2, <2>3
<1>11. PICK b : b = first /\ b \in 1..H /\ sh[H - (b - 1)] = 0
  BY <1>4, <1>9
<1>c. "0" \in C /\ "x" \in C
  <2>1. Digits[1] = "0"
    BY DEF Digits
  <2> QED
    BY <2>1
<1> HIDE DEF first, all, C
<1>12. /\ ds \in Seq(C) /\ Len(ds) = n /\ n \in Nat /\ n >= 1
       /\ \A k \in 1..n : ds[k] = all[b + k - 1]
  <2>1. \A i \in b..H : all[i] \in C
    <3>1. \A i \in b..H : i \in 1..H
      BY <1>2, <1>11
    <3> QED
      BY <1>10, <3>1
  <2>2. n \in Nat /\ n >= 1 /\ b \in Int /\ H \in Int
    BY <1>2, <1>11
  <2> QED
    BY <1>11, <2>1, <2>2, SubSeqProperties
<1> HIDE DEF ds
<1>13. \A k \in 1..n : b + k - 1 \in 1..H /\ b + k - 1 - 1 = b + (k - 1) - 1
  BY <1>2, <1>11
<1> DEFINE f == [k \in 0..n |-> sh[H - (b + k - 1)]]
<1>14. Reads(f, ds, 16, n) /\ f[n] = num
  <2>1. \A k \in 0..n : f[k] = sh[H - (b + k - 1)]
    OBVIOUS
  <2> HIDE DEF f
  <2>2. 0 \in 0..n /\ n \in 0..n /\ b + 0 - 1 = b - 1 /\ H - (b + n - 1) = 0 /\ \A k \in 1..n : k \in 0..n /\ k - 1 \in 0..n
    BY <1>2, <1>11, <1>12
  <2>3. f[0] = 0 /\ f[n] = num
    BY <1>1, <1>11, <2>1, <2>2
  <2>4. ASSUME NEW k \in 1..n
        PROVE  f[k] = f[k - 1] * 16 + DigitOf(ds[k]) /\ f[k] \in Nat /\ f[k] < W
    <3> DEFINE i == b + k - 1
    <3>1. i \in 1..H /\ i - 1 = b + (k - 1) - 1
      BY <1>2, <1>11
    <3>2. f[k] = sh[H - i] /\ f[k - 1] = sh[H - (i - 1)] /\ ds[k] = all[i]
      BY <1>12, <2>1, <2>2, <3>1
    <3> HIDE DEF i
    <3>3. sh[H - i] \in Nat /\ sh[H - i] < W
      BY <1>1, <1>5, <1>6, <3>1
    <3> QED
      BY <1>8, <3>1, <3>2, <3>3
  <2> QED
    BY <2>3, <2>4 DEF Reads
<1> HIDE DEF f
<1>15. /\ s \in Seq(C) /\ Len(s) = n + 2 /\ s[1] = "0" /\ s[2] = "x"
       /\ \A k \in 1..n : s[k + 2] = ds[k]
  <2> DEFINE pre == <<"0", "x">>
  <2>1. pre \in Seq(C) /\ Len(pre) = 2 /\ pre[1] = "0" /\ pre[2] = "x"
    BY <1>c
  <2>2. s = pre \o ds
    BY DEF ds
  <2> HIDE DEF pre, s
  <2>0. pre \in Seq(C) /\ ds \in Seq(C)
    BY <1>12, <2>1
  <2>a. /\ pre \o ds \in Seq(C) /\ Len(pre \o ds) = Len(pre) + Len(ds)
        /\ \A i \in 1..(Len(pre) + Len(ds)) :
              (pre \o ds)[i] = IF i <= Len(pre) THEN pre[i] ELSE ds[i - Len(pre)]
    BY <2>0, ConcatProperties
  <2>3. s \in Seq(C) /\ Len(s) = 2 + n
    BY <1>12, <2>1, <2>2, <2>a
  <2>4. \A i \in 1..(2 + n) : s[i] = IF i <= 2 THEN pre[i] ELSE ds[i - 2]
    BY <1>12, <2>1, <2>2, <2>a
  <2>5. \A k \in 1..n : k + 2 \in 1..(2 + n) /\ ~(k + 2 <= 2) /\ k + 2 - 2 = k
    BY <1>12
  <2>6. 1 \in 1..(2 + n) /\ 2 \in 1..(2 + n) /\ 2 + n = n + 2
    BY <1>12
  <2> QED
    BY <2>1, <2>3, <2>4, <2>5, <2>6
<1> HIDE DEF s
<1>16. SubSeq(s, 3, Len(s)) = ds
  <2> DEFINE r == SubSeq(s, 3, Len(s))
  <2>1. 3 \in Int /\ Len(s) \in Int /\ \A i \in 3..Len(s) : s[i] \in C
    BY <1>12, <1>15
  <2>2. r \in Seq(C) /\ Len(r) = n /\ \A k \in 1..n : r[k] = s[k + 2]
    <3>1. r \in Seq(C) /\ Len(r) = (IF 3 <= Len(s) THEN Len(s) - 3 + 1 ELSE 0)
          /\ \A k \in 1..(Len(s) - 3 + 1) : r[k] = s[3 + k - 1]
      BY <2>1, SubSeqProperties
    <3>2. 3 <= Len(s) /\ Len(s) - 3 + 1 = n /\ \A k \in 1..n : 3 + k - 1 = k + 2
      BY <1>12, <1>15
    <3> HIDE DEF r
    <3> QED
      BY <3>1, <3>2
  <2> HIDE DEF r
  <2>3. r \in Seq(C) /\ ds \in Seq(C) /\ Len(r) = Len(ds)
    BY <1>12, <2>2
  <2>4. \A k \in 1..n : r[k] = ds[k]
    BY <1>15, <2>2
  <2>5. \A k \in 1..Len(r) : r[k] = ds[k]
    BY <2>2, <2>4
  <2>6. r = ds
    BY <2>3, <2>5, SeqEqual
  <2> QED
    BY <2>6 DEF r
<1>17. s # <<>> /\ Len(s) >= 2
  BY <1>12, <1>15
<1>18. DOMAIN ds = 1..n /\ \A i \in 1..n : DigitOf(ds[i]) < 16
  <2>1. \A i \in 1..H : DigitOf(all[i]) \in 0..15
    BY <1>8
  <2>2. \A i \in 1..n : DigitOf(ds[i]) \in 0..15
    BY <1>12, <1>13, <2>1
  <2> QED
    BY <1>12, <2>2
<1>19. PICK v : Sums(v, ds, 16, n) /\ ParseUint(s) = [ok |-> TRUE, value |-> v[n]]
  <2>1. Form(s, 16, ds)
    BY <1>15, <1>16, <1>17 DEF Form
  <2>2. 16 \in Nat /\ Len(ds) = n /\ Len(ds) \in Nat
    BY <1>12
  <2> HIDE DEF n
  <2>3. \E v : Sums(v, ds, 16, Len(ds)) /\ ParseUint(s) = [ok |-> TRUE, value |-> v[Len(ds)]]
    BY <1>17, <1>18, <2>1, <2>2, ParsedIs
  <2> QED
    BY <2>2, <2>3
<1>20. v[n] = num
  BY <1>12, <1>14, <1>19, ReadsSum
<1> QED
  BY <1>3, <1>19, <1>20

\* The digits that print_dec writes, for the numbers up to n.
Writes(g, n) ==
    \A i \in 0..n : g[i] = IF i < 10 THEN <<Digits[i + 1]>>
                           ELSE Append(g[i \div 10], Digits[(i % 10) + 1])

LEMMA WritesExist == \A n \in Nat : \E g : Writes(g, n)
<1> DEFINE T == {n \in Nat : ~ \E g : Writes(g, n)}
<1> SUFFICES ASSUME T # {} PROVE FALSE
  OBVIOUS
<1>1. PICK m \in T : \A y \in T : m <= y
  BY LeastNatural
<1>2. m \in Nat /\ ~ \E g : Writes(g, m)
  BY <1>1
<1>3. PICK h : m # 0 => Writes(h, m - 1)
  <2>1. m # 0 => m - 1 \in Nat /\ ~(m <= m - 1)
    BY <1>2
  <2> QED
    BY <1>1, <2>1
<1>4. PICK z : z = IF m < 10 THEN <<Digits[m + 1]>> ELSE Append(h[m \div 10], Digits[(m % 10) + 1])
  OBVIOUS
<1> DEFINE g == [i \in 0..m |-> IF i = m THEN z ELSE h[i]]
<1>5. ASSUME NEW i \in 0..m
      PROVE  g[i] = IF i < 10 THEN <<Digits[i + 1]>> ELSE Append(g[i \div 10], Digits[(i % 10) + 1])
  <2>1. ~(i < 10) => i \div 10 \in 0..m /\ i \div 10 # m
    BY <1>2
  <2>2. g[i] = (IF i = m THEN z ELSE h[i]) /\ (~(i < 10) => g[i \div 10] = h[i \div 10])
    BY <2>1
  <2> HIDE DEF g
  <2>3. CASE i = m
    BY <1>4, <2>2, <2>3
  <2>4. CASE i # m
    <3>1. m # 0 /\ i \in 0..(m - 1)
      BY <1>2, <2>4
    <3>2. h[i] = IF i < 10 THEN <<Digits[i + 1]>> ELSE Append(h[i \div 10], Digits[(i % 10) + 1])
      BY <1>3, <3>1 DEF Writes
    <3> QED
      BY <2>2, <2>4, <3>2
  <2> QED
    BY <2>3, <2>4
<1> HIDE DEF g
<1>6. Writes(g, m)
  BY <1>5 DEF Writes
<1> QED
  BY <1>2, <1>6

LEMMA DecWrites ==
    ASSUME NEW num \in Nat
    PROVE  \E g : Writes(g, num) /\ PrintDec(num) = g[num]
<1> DEFINE dec[n \in 0..num] == IF n < 10 THEN <<Digits[n + 1]>>
                                ELSE Append(dec[n \div 10], Digits[(n % 10) + 1])
<1>1. PrintDec(num) = dec[num]
  BY DEF PrintDec
<1>2. PICK f : Writes(f, num)
  BY WritesExist
<1> DEFINE g == [i \in 0..num |-> f[i]]
<1>3. ASSUME NEW i \in 0..num
      PROVE  g[i] = IF i < 10 THEN <<Digits[i + 1]>> ELSE Append(g[i \div 10], Digits[(i % 10) + 1])
  <2>1. ~(i < 10) => i \div 10 \in 0..num
    OBVIOUS
  <2>2. g[i] = f[i] /\ (~(i < 10) => g[i \div 10] = f[i \div 10])
    BY <2>1
  <2>3. f[i] = IF i < 10 THEN <<Digits[i + 1]>> ELSE Append(f[i \div 10], Digits[(i % 10) + 1])
    BY <1>2 DEF Writes
  <2> HIDE DEF g
  <2> QED
    BY <2>2, <2>3
<1>4. g = [n \in 0..num |-> IF n < 10 THEN <<Digits[n + 1]>>
                            ELSE Append(g[n \div 10], Digits[(n % 10) + 1])]
  BY <1>3
<1> HIDE DEF g
<1>5. \E h : h = [n \in 0..num |-> IF n < 10 THEN <<Digits[n + 1]>>
                                   ELSE Append(h[n \div 10], Digits[(n % 10) + 1])]
  BY <1>4
<1>6. dec = [n \in 0..num |-> IF n < 10 THEN <<Digits[n + 1]>>
                              ELSE Append(dec[n \div 10], Digits[(n % 10) + 1])]
  BY <1>5 DEF dec
<1> HIDE DEF dec
<1>7. Writes(dec, num)
  BY <1>6 DEF Writes
<1> QED
  BY <1>1, <1>7

Characters == {Digits[i] : i \in 1..16}

\* A string of decimal digits that is read as the number n, without a zero in
\* front of others.
Decimal(s, n) ==
    /\ s \in Seq(Characters) /\ Len(s) >= 1
    /\ \A i \in 1..Len(s) : DigitOf(s[i]) < 10
    /\ n > 0 \/ Len(s) >= 2 => s[1] # "0"
    /\ \E f : f[Len(s)] = n /\ Reads(f, s, 10, Len(s))

LEMMA DecimalOne ==
    ASSUME NEW n \in 0..9, n < W
    PROVE  Decimal(<<Digits[n + 1]>>, n)
<1> DEFINE c == Digits[n + 1]
           s == <<c>>
           f == [i \in {0, 1} |-> IF i = 0 THEN 0 ELSE n]
<1>1. c \in Characters /\ DigitOf(c) = n
  <2>1. n + 1 \in 1..16 /\ n \in 0..15
    OBVIOUS
  <2> QED
    BY <2>1, DigitBack DEF Characters
<1>2. n > 0 => c # "0"
  <2>1. Digits[0 + 1] = "0"
    BY DEF Digits
  <2>2. DigitOf("0") = 0
    BY <2>1, DigitBack
  <2> QED
    BY <1>1, <2>2
<1> HIDE DEF c
<1>3. s \in Seq(Characters) /\ Len(s) = 1 /\ s[1] = c
  BY <1>1
<1>4. f[0] = 0 /\ f[1] = n
  OBVIOUS
<1> HIDE DEF s, f
<1>5. Reads(f, s, 10, 1)
  <2>1. \A i \in 1..1 : i = 1
    OBVIOUS
  <2>2. f[1] = f[1 - 1] * 10 + DigitOf(s[1]) /\ f[1] \in Nat /\ f[1] < W
    BY <1>1, <1>3, <1>4
  <2> QED
    BY <1>4, <2>1, <2>2 DEF Reads
<1>6. \A i \in 1..1 : i = 1
  OBVIOUS
<1>7. Decimal(s, n)
  BY <1>1, <1>2, <1>3, <1>4, <1>5, <1>6 DEF Decimal
<1> QED
  BY <1>7 DEF s, c

LEMMA DecimalMore ==
    ASSUME NEW q \in Nat, q > 0, NEW d \in 0..9, NEW s, Decimal(s, q), NEW n \in Nat, n = q * 10 + d, n < W
    PROVE  Decimal(Append(s, Digits[d + 1]), n)
<1> DEFINE c == Digits[d + 1]
           t == Append(s, c)
           l == Len(s)
<1>1. c \in Characters /\ DigitOf(c) = d
  <2>1. d + 1 \in 1..16 /\ d \in 0..15
    OBVIOUS
  <2> QED
    BY <2>1, DigitBack DEF Characters
<1>2. /\ s \in Seq(Characters) /\ l \in Nat /\ l >= 1 /\ s[1] # "0"
      /\ \A i \in 1..l : DigitOf(s[i]) < 10
  BY DEF Decimal
<1>3. PICK h : h[l] = q /\ Reads(h, s, 10, l)
  BY DEF Decimal
<1> HIDE DEF c
<1>4. /\ t \in Seq(Characters) /\ Len(t) = l + 1 /\ t[l + 1] = c
      /\ \A i \in 1..l : t[i] = s[i]
  BY <1>1, <1>2
<1> HIDE DEF t
<1>5. /\ \A i \in 1..(l + 1) : i # l + 1 => i \in 1..l
      /\ \A i \in 1..l : i \in 0..(l + 1) /\ i # l + 1 /\ i - 1 \in 0..(l + 1) /\ i - 1 # l + 1
      /\ 0 \in 0..(l + 1) /\ 0 # l + 1 /\ l \in 0..(l + 1) /\ l # l + 1 /\ l + 1 \in 0..(l + 1) /\ l + 1 - 1 = l
  BY <1>2
<1> DEFINE f == [i \in 0..(l + 1) |-> IF i = l + 1 THEN n ELSE h[i]]
<1>6. /\ f[l + 1] = n /\ f[0] = h[0] /\ f[l] = h[l]
      /\ \A i \in 1..l : f[i] = h[i] /\ f[i - 1] = h[i - 1]
  BY <1>5
<1> HIDE DEF f
<1>7. Reads(f, t, 10, l + 1)
  <2>1. f[0] = 0
    BY <1>3, <1>6 DEF Reads
  <2>2. ASSUME NEW i \in 1..(l + 1)
        PROVE  f[i] = f[i - 1] * 10 + DigitOf(t[i]) /\ f[i] \in Nat /\ f[i] < W
    <3>1. CASE i = l + 1
      <4>1. f[i] = n /\ f[i - 1] = q /\ DigitOf(t[i]) = d
        <5>1. i - 1 = l
          BY <1>2, <3>1
        <5>2. f[i - 1] = q
          BY <1>3, <1>6, <5>1
        <5>3. f[i] = n
          BY <1>6, <3>1
        <5> QED
          BY <1>1, <1>4, <3>1, <5>2, <5>3
      <4> QED
        BY <4>1
    <3>2. CASE i # l + 1
      <4>1. i \in 1..l
        BY <1>5, <3>2
      <4>2. h[i] = h[i - 1] * 10 + DigitOf(s[i]) /\ h[i] \in Nat /\ h[i] < W
        BY <1>3, <4>1 DEF Reads
      <4>3. f[i] = h[i] /\ f[i - 1] = h[i - 1] /\ t[i] = s[i]
        BY <1>4, <1>6, <4>1
      <4> QED
        BY <4>2, <4>3
    <3> QED
      BY <3>1, <3>2
  <2> QED
    BY <2>1, <2>2 DEF Reads
<1>8. \A i \in 1..(l + 1) : DigitOf(t[i]) < 10
  <2> SUFFICES ASSUME NEW i \in 1..(l + 1) PROVE DigitOf(t[i]) < 10
    OBVIOUS
  <2>1. CASE i = l + 1
    BY <1>1, <1>4, <2>1
  <2>2. CASE i # l + 1
    BY <1>2, <1>4, <1>5, <2>2
  <2> QED
    BY <2>1, <2>2
<1>9. t[1] # "0"
  <2>1. 1 \in 1..l
    BY <1>2
  <2> QED
    BY <1>2, <1>4, <2>1
<1>10. Len(t) >= 1
  BY <1>2, <1>4
<1>11. Decimal(t, n)
  BY <1>4, <1>6, <1>7, <1>8, <1>9, <1>10 DEF Decimal
<1> QED
  BY <1>11 DEF t, c

\* What print_dec writes is read back as the same number.
LEMMA DecBack ==
    ASSUME NEW num \in Nat, num < W
    PROVE  ParseUint(PrintDec(num)) = [ok |-> TRUE, value |-> num]
<1>1. PICK g : Writes(g, num) /\ PrintDec(num) = g[num]
  BY DecWrites
<1>2. \A n \in 0..num : Decimal(g[n], n)
  <2> DEFINE T == {n \in 0..num : ~Decimal(g[n], n)}
  <2> SUFFICES ASSUME T # {} PROVE FALSE
    OBVIOUS
  <2>1. T \in SUBSET Nat
    OBVIOUS
  <2>2. PICK m \in T : \A y \in T : m <= y
    BY <2>1, LeastNatural
  <2>3. m \in 0..num /\ ~Decimal(g[m], m)
    BY <2>2
  <2>4. m \in Nat /\ m < W
    BY <2>3, Width
  <2>5. g[m] = IF m < 10 THEN <<Digits[m + 1]>> ELSE Append(g[m \div 10], Digits[(m % 10) + 1])
    BY <1>1, <2>3 DEF Writes
  <2>6. CASE m < 10
    <3>1. m \in 0..9 /\ g[m] = <<Digits[m + 1]>>
      BY <2>4, <2>5, <2>6
    <3> QED
      BY <2>3, <2>4, <3>1, DecimalOne
  <2>7. CASE ~(m < 10)
    <3> DEFINE q == m \div 10
               d == m % 10
    <3>1. q \in Nat /\ q > 0 /\ d \in 0..9 /\ m = q * 10 + d /\ q \in 0..num /\ ~(m <= q)
      BY <2>3, <2>4, <2>7
    <3>2. g[m] = Append(g[q], Digits[d + 1])
      BY <2>5, <2>7
    <3> HIDE DEF q, d
    <3>3. Decimal(g[q], q)
      BY <2>2, <3>1
    <3>4. Decimal(Append(g[q], Digits[d + 1]), m)
      BY <2>4, <3>1, <3>3, DecimalMore
    <3> QED
      BY <2>3, <3>2, <3>4
  <2> QED
    BY <2>6, <2>7
<1>3. PICK s : s = g[num] /\ Decimal(s, num)
  <2>1. num \in 0..num
    OBVIOUS
  <2> QED
    BY <1>2, <2>1
<1>4. /\ s \in Seq(Characters) /\ Len(s) \in Nat /\ Len(s) >= 1 /\ s # <<>>
      /\ DOMAIN s = 1..Len(s) /\ \A i \in 1..Len(s) : DigitOf(s[i]) < 10
      /\ Len(s) >= 2 => s[1] # "0"
  BY <1>3 DEF Decimal
<1>5. Form(s, 10, s)
  BY <1>4 DEF Form
<1>6. PICK v : Sums(v, s, 10, Len(s)) /\ ParseUint(s) = [ok |-> TRUE, value |-> v[Len(s)]]
  BY <1>4, <1>5, ParsedIs
<1>7. PICK f : f[Len(s)] = num /\ Reads(f, s, 10, Len(s))
  BY <1>3 DEF Decimal
<1>8. v[Len(s)] = num
  BY <1>4, <1>6, <1>7, ReadsSum
<1> QED
  BY <1>1, <1>3, <1>6, <1>8

-----------------------------------------------------------------------------
(***************************************************************************)
(* The dump.                                                               *)
(***************************************************************************)

\* A dump of a length that leaves room for one more row has covered the bytes
\* before its offset; it ends when there are no others.
DumpInv ==
    /\ len \in Nat /\ offset \in Nat
    /\ pc \in {"split", "execute"} => offset = 0 /\ len = 0 /\ covered = {}
    /\ len <= W - Row => \A b : b \in covered <=> b \in 0..(len - 1) /\ b < offset
    /\ pc = "done" /\ len > 0 /\ len <= W - Row => offset >= len

LEMMA Sizes ==
    W \in Nat \ {0} /\ Row \in Nat \ {0} /\ Row <= W
BY CommandAssumption, Width

LEMMA RowCovered ==
    ASSUME DumpInv, HexdumpRow, offset < len
    PROVE  DumpInv'
<1>1. /\ pc = "dump" /\ pc' = "dump" /\ len' = len /\ offset' = (offset + Row) % W
      /\ covered' = covered \cup RowOffsets
  BY DEF HexdumpRow
<1>2. /\ W \in Nat \ {0} /\ Row \in Nat \ {0} /\ Row <= W /\ len \in Nat /\ offset \in Nat
  BY Sizes DEF DumpInv
<1>3. offset' \in Nat
  <2>1. \A x \in Nat, w \in Nat \ {0} : x % w \in Nat
    BY Z3
  <2> QED
    BY <1>1, <1>2, <2>1
<1>4. ASSUME len <= W - Row PROVE \A b : b \in covered' <=> b \in 0..(len - 1) /\ b < offset'
  <2>1. offset' = offset + Row
    <3>1. \A x \in Nat, w \in Nat \ {0} : x < w => x % w = x
      BY Z3
    <3>2. offset + Row \in Nat /\ offset + Row < W
      BY <1>2, <1>4
    <3> QED
      BY <1>1, <1>2, <3>1, <3>2
  <2>2. \A b : b \in RowOffsets <=> \E j \in 0..(Row - 1) : offset + j < len /\ b = offset + j
    BY DEF RowOffsets
  <2>3. \A b : b \in RowOffsets <=> b \in 0..(len - 1) /\ offset <= b /\ b < offset + Row
    <3>1. ASSUME NEW b \in RowOffsets PROVE b \in 0..(len - 1) /\ offset <= b /\ b < offset + Row
      BY <1>2, <2>2
    <3>2. ASSUME NEW b \in 0..(len - 1), offset <= b, b < offset + Row PROVE b \in RowOffsets
      <4>1. b - offset \in 0..(Row - 1) /\ offset + (b - offset) = b /\ offset + (b - offset) < len
        BY <1>2, <3>2
      <4> QED
        BY <2>2, <4>1
    <3> QED
      BY <3>1, <3>2
  <2>4. \A b : b \in covered <=> b \in 0..(len - 1) /\ b < offset
    BY <1>4 DEF DumpInv
  <2>5. \A b \in 0..(len - 1) : b < offset + Row <=> (b < offset \/ (offset <= b /\ b < offset + Row))
    BY <1>2
  <2> QED
    BY <1>1, <2>1, <2>3, <2>4, <2>5
<1> QED
  BY <1>1, <1>2, <1>3, <1>4 DEF DumpInv, W

LEMMA InitDump ==
    ASSUME CInit
    PROVE  DumpInv
BY DEF CInit, DumpInv

LEMMA WordIsString ==
    ASSUME WordsInv
    PROVE  \A i \in Nat : i >= 1 /\ Len(argv) >= i => Word(i) \in Seq(STRING)
<1> SUFFICES ASSUME NEW i \in Nat, i >= 1, Len(argv) >= i PROVE Word(i) \in Seq(STRING)
  OBVIOUS
<1>1. i \in 1..Len(argv) /\ argv[i] \in 1..Len(typed) /\ CutLine
  <2>1. argv \in Seq(1..Len(typed)) /\ Len(argv) \in Nat
    BY DEF WordsInv
  <2> QED
    BY <2>1 DEF WordsInv
<1>2. PICK e : WordAt(argv[i], e)
  BY <1>1 DEF WordsInv
<1>3. Word(i) = SubSeq(typed, argv[i], e - 1)
  BY <1>1, <1>2, WordReads
<1>4. typed \in Seq(STRING) /\ Len(typed) \in Nat
  BY <1>1 DEF CutLine
<1>5. e \in (argv[i] + 1)..(Len(typed) + 1)
  BY <1>2 DEF WordAt
<1>6. argv[i] \in Int /\ e - 1 \in Int /\ \A j \in argv[i]..(e - 1) : j \in 1..Len(typed)
  BY <1>1, <1>4, <1>5
<1>7. \A j \in argv[i]..(e - 1) : typed[j] \in STRING
  BY <1>4, <1>6
<1> QED
  BY <1>3, <1>6, <1>7, SubSeqProperties

LEMMA NextDump ==
    ASSUME WordsInv, DumpInv, [CNext]_cvars
    PROVE  DumpInv'
<1>0. len \in Nat /\ offset \in Nat /\ W' = W
  BY DEF DumpInv, W
<1>1. ASSUME UNCHANGED <<len, offset, covered>>, pc' \in {"split", "execute"} => pc \in {"split", "execute"},
             pc' = "done" => pc = "done" \/ len = 0
      PROVE  DumpInv'
  BY <1>0, <1>1 DEF DumpInv
<1>2. CASE NextWord \/ Stop
  <2>1. /\ UNCHANGED <<len, offset, covered>> /\ pc \in {"split", "execute"}
        /\ pc' \in {pc, "execute", "stopped"}
    BY <1>2 DEF NextWord, Stop, dump
  <2> QED
    BY <1>1, <2>1
<1>3. CASE PrintOnly
  <2>1. UNCHANGED <<len, offset, covered>> /\ pc = "execute" /\ pc' = "done"
    BY <1>3 DEF PrintOnly, dump
  <2>2. len = 0
    BY <2>1 DEF DumpInv
  <2> QED
    BY <1>1, <2>1, <2>2
<1>4. CASE HexdumpStart
  <2>1. pc = "execute" /\ UNCHANGED <<offset, covered>>
    BY <1>4 DEF HexdumpStart
  <2>2. offset = 0 /\ len = 0 /\ covered = {}
    BY <2>1 DEF DumpInv
  <2>3. CASE pc' = "done" /\ len' = len
    BY <1>1, <2>1, <2>2, <2>3
  <2>4. CASE ~(pc' = "done" /\ len' = len)
    <3>1. Len(argv) >= 3 /\ pc' = "dump" /\ len' = ParseUint(Word(3)).value
      <4>1. Len(argv) \in Nat
        BY DEF WordsInv
      <4> QED
        BY <1>4, <2>4, <4>1 DEF HexdumpStart
    <3>2. len' \in Nat
      <4>1. Word(3) \in Seq(STRING)
        BY <3>1, WordIsString
      <4> QED
        BY <3>1, <4>1, Sizes, ParsedIsNat
    <3>3. \A b : b \in covered' <=> b \in 0..(len' - 1) /\ b < offset'
      BY <2>1, <2>2, <3>2
    <3> QED
      BY <1>0, <2>1, <2>2, <3>1, <3>2, <3>3 DEF DumpInv
  <2> QED
    BY <2>3, <2>4
<1>5. CASE HexdumpRow
  <2>1. CASE offset < len
    BY <1>5, <2>1, RowCovered
  <2>2. CASE ~(offset < len)
    <3>1. pc = "dump" /\ pc' = "done" /\ UNCHANGED <<len, offset, covered>>
      BY <1>5, <2>2 DEF HexdumpRow
    <3>2. offset >= len
      BY <1>0, <2>2
    <3> QED
      BY <1>0, <3>1, <3>2 DEF DumpInv
  <2> QED
    BY <2>1, <2>2
<1>6. CASE Finished \/ UNCHANGED cvars
  <2>1. UNCHANGED <<len, offset, covered>> /\ pc' = pc
    BY <1>6 DEF Finished, cvars, dump
  <2> QED
    BY <1>1, <2>1
<1> QED
  BY <1>2, <1>3, <1>4, <1>5, <1>6 DEF CNext

\* hexdump covers exactly the bytes asked for, also in a last row that is not
\* full, for every length that leaves room for a row below 2^64.
THEOREM DumpCorrect ==
    CSpec => []DumpExact
<1> DEFINE I == WordsInv /\ DumpInv
<1>1. I => DumpExact
  <2> SUFFICES ASSUME DumpInv, len <= W - Row
               PROVE  /\ covered \subseteq 0..(len - 1)
                      /\ pc = "done" /\ len > 0 => covered = 0..(len - 1)
    BY DEF DumpExact
  <2>1. \A b : b \in covered <=> b \in 0..(len - 1) /\ b < offset
    BY DEF DumpInv
  <2>2. ASSUME pc = "done", len > 0 PROVE \A b \in 0..(len - 1) : b < offset
    <3>1. offset >= len /\ len \in Nat /\ offset \in Nat
      BY <2>2 DEF DumpInv
    <3> QED
      BY <3>1
  <2> QED
    BY <2>1, <2>2
<1>2. I /\ [CNext]_cvars => I'
  BY NextWordsInv, NextDump
<1>3. CInit => I
  BY InitWords, InitDump
<1> QED
  BY <1>1, <1>2, <1>3, PTL DEF CSpec

LEMMA NextAddr ==
    ASSUME WordsInv, addr \in Nat, [CNext]_cvars
    PROVE  addr' \in Nat
<1>1. CASE HexdumpStart /\ addr' # addr
  <2>1. Len(argv) >= 3 /\ addr' = ParseUint(Word(2)).value
    <3>1. Len(argv) \in Nat
      BY DEF WordsInv
    <3> QED
      BY <1>1, <3>1 DEF HexdumpStart
  <2>2. Word(2) \in Seq(STRING)
    BY <2>1, WordIsString
  <2> QED
    BY <2>1, <2>2, Sizes, ParsedIsNat
<1>2. CASE ~HexdumpStart
  BY <1>2 DEF CNext, NextWord, HexdumpRow, Stop, PrintOnly, Finished, cvars, dump
<1> QED
  BY <1>1, <1>2

\* A number that print_hex or print_dec writes is read back by parse_uint as
\* the same number, for every width of numbers; here the addresses of a dump.
THEOREM NumbersCorrect == CSpec => []NumbersRoundTrip
<1> DEFINE I == WordsInv /\ DumpInv /\ addr \in Nat
<1>1. I => NumbersRoundTrip
  <2> SUFFICES ASSUME addr \in Nat, offset \in Nat
               PROVE  \A s \in {PrintHex(At), PrintDec(At)} : ParseUint(s) = [ok |-> TRUE, value |-> At]
    BY DEF NumbersRoundTrip, DumpInv
  <2>1. At \in Nat /\ At < W
    <3>1. \A x \in Nat, w \in Nat \ {0} : x % w \in Nat /\ x % w < w
      BY Z3
    <3>2. addr + offset \in Nat
      OBVIOUS
    <3> QED
      BY <3>1, <3>2, Width DEF At
  <2> HIDE DEF At
  <2> QED
    BY <2>1, HexBack, DecBack
<1>2. I /\ [CNext]_cvars => I'
  BY NextWordsInv, NextDump, NextAddr
<1>3. CInit => I
  <2>1. CInit => addr \in Nat
    BY DEF CInit
  <2> QED
    BY <2>1, InitWords, InitDump
<1> QED
  BY <1>1, <1>2, <1>3, PTL DEF CSpec
=============================================================================
