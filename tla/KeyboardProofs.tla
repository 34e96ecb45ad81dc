--------------------------- MODULE KeyboardProofs --------------------------
(***************************************************************************)
(* Theorems about Keyboard, for every size of the ring, every keyboard and *)
(* every length of reads.                                                  *)
(***************************************************************************)
EXTENDS Keyboard, SequenceTheorems, TLAPS

USE KeyboardAssumption

-----------------------------------------------------------------------------
(***************************************************************************)
(* Types.                                                                  *)
(***************************************************************************)

Byte == [code: AllKeys \cup {"E0"}, release: BOOLEAN]
Flags == [shift: BOOLEAN, ctrl: BOOLEAN, alt: BOOLEAN, caps: BOOLEAN, ext: BOOLEAN]

\* Indexes wrap around once.
LEMMA Wrap ==
    ASSUME NEW n \in Nat \ {0}, NEW x \in 0..(2 * n - 1)
    PROVE  x % n = IF x < n THEN x ELSE x - n
BY Z3

LEMMA RingWrap == \A x \in 0..(2 * Size - 1) : x % Size = IF x < Size THEN x ELSE x - Size
BY Wrap

\* The successor of an index is an index.
LEMMA NextSlot == \A i \in Slots : (i + 1) % Size \in Slots
BY Wrap DEF Slots

\* Two sequences of one element joined.
LEMMA Pairs ==
    ASSUME NEW S, NEW x \in S, NEW y \in S
    PROVE  <<x>> \o <<y>> = <<x, y>> /\ <<>> \o <<y>> = <<y>>
<1> DEFINE s == <<x>> \o <<y>>
           t == <<x, y>>
<1>1. s \in Seq(S) /\ t \in Seq(S)
  OBVIOUS
<1>2. Len(s) = 2 /\ Len(t) = 2
  OBVIOUS
<1>3. s[1] = t[1] /\ s[2] = t[2]
  OBVIOUS
<1>4. <<>> \o <<y>> = <<y>>
  OBVIOUS
<1> HIDE DEF s, t
<1>5. \A i \in 1..Len(s) : s[i] = t[i]
  BY <1>2, <1>3
<1>6. s = t
  BY <1>1, <1>2, <1>5, SeqEqual
<1> QED
  BY <1>4, <1>6 DEF s, t

\* A key event is one byte, or the prefix and one byte.
LEMMA BytesOf ==
    ASSUME NEW key \in AllKeys, NEW r \in BOOLEAN
    PROVE  LET b == [code |-> Code(key), release |-> r]
           IN /\ b \in Byte /\ Prefix \in Byte /\ b # Prefix
              /\ Bytes(key, r) = IF key \in Extended THEN <<Prefix, b>> ELSE <<b>>
              /\ Bytes(key, r) \in Seq(Byte)
<1> DEFINE b == [code |-> Code(key), release |-> r]
<1>1. Code(key) \in AllKeys
  BY DEF Code, AllKeys
<1>2. b \in Byte /\ Prefix \in Byte
  BY <1>1 DEF Byte, Prefix
<1>3. b.code # Prefix.code
  BY <1>1 DEF Prefix, AllKeys
<1> HIDE DEF b
<1>5. Bytes(key, r) = IF key \in Extended THEN <<Prefix, b>> ELSE <<b>>
  BY <1>2, Pairs DEF Bytes, b
<1>6. <<Prefix, b>> \in Seq(Byte) /\ <<b>> \in Seq(Byte)
  BY <1>2
<1> QED
  BY <1>2, <1>3, <1>5, <1>6 DEF b

\* The translation yields a character or none.
LEMMA TranslateType ==
    ASSUME NEW m \in Flags, NEW code
    PROVE  Translate(m, code) \in Chars \cup {None}
BY DEF Translate, Shifted, Plain, CapsSwap, Chars, None

\* Putting a character keeps the ring well typed.
LEMMA PutType ==
    ASSUME TypeOK, NEW c \in Chars \cup {None}, PutIfChar(c)
    PROVE  key_buffer' \in [Slots -> Chars \cup {None}] /\ buffer_head' \in Slots
<1>1. CASE UNCHANGED <<key_buffer, buffer_head>>
  BY <1>1 DEF TypeOK
<1>2. CASE ~ UNCHANGED <<key_buffer, buffer_head>>
  BY <1>2, NextSlot DEF TypeOK, PutIfChar, BufferPut
<1> QED
  BY <1>1, <1>2

\* The handler keeps ring and flags well typed.
LEMMA HandlerType ==
    ASSUME TypeOK, NEW b \in Byte, KeyboardHandler(b)
    PROVE  /\ key_buffer' \in [Slots -> Chars \cup {None}] /\ buffer_head' \in Slots
           /\ mods' \in Flags
<1>0. mods \in Flags
  BY DEF TypeOK, Flags
<1>1. CASE b = Prefix /\ mods' = [mods EXCEPT !.ext = TRUE]
           /\ UNCHANGED <<key_buffer, buffer_head>>
  BY <1>0, <1>1 DEF TypeOK, Flags
<1>2. CASE b.release /\ Release(b)
  BY <1>0, <1>2 DEF TypeOK, Flags, Release
<1>3. CASE PressExtended(b)
  <2>1. mods' \in Flags
    BY <1>0, <1>3 DEF PressExtended, Flags
  <2> QED
    BY <2>1, <1>3, PutType DEF PressExtended, Chars
<1>4. CASE Press(b)
  <2>1. mods' \in Flags
    BY <1>0, <1>4 DEF Press, Flags
  <2> QED
    BY <2>1, <1>0, <1>4, PutType, TranslateType DEF Press
<1> QED
  BY <1>1, <1>2, <1>3, <1>4 DEF KeyboardHandler

LEMMA InitType == Init => TypeOK
<1> SUFFICES ASSUME Init PROVE TypeOK
  OBVIOUS
<1>1. key_buffer \in [Slots -> Chars \cup {None}] /\ 0 \in Slots
  BY DEF Init, Slots
<1>2. wire \in Seq([code: AllKeys \cup {"E0"}, release: BOOLEAN])
  BY EmptySeq DEF Init
<1>3. mods \in [shift: BOOLEAN, ctrl: BOOLEAN, alt: BOOLEAN, caps: BOOLEAN, ext: BOOLEAN]
  BY DEF Init
<1> QED
  BY <1>1, <1>2, <1>3 DEF Init, TypeOK

-----------------------------------------------------------------------------
(***************************************************************************)
(* The reader against the handler.  The inductive invariant: once the      *)
(* reader has seen a character, the ring stays nonempty until the reader   *)
(* itself advances the tail, and the slot it loaded from is not            *)
(* overwritten.  TypeOK alone is not inductive: left could be decremented  *)
(* below zero.                                                             *)
(***************************************************************************)

Loaded == pc = "advance" => char = key_buffer[buffer_tail]
Wanted == pc \in {"get", "advance"} => left > 0
ReaderInv == TypeOK /\ GetFindsChar /\ Wanted /\ Loaded

\* All the handler does to the ring is to put at most one character.
LEMMA HandlerRing ==
    ASSUME TypeOK, NEW b \in Byte, KeyboardHandler(b)
    PROVE  UNCHANGED <<key_buffer, buffer_head>> \/ \E c \in Chars : BufferPut(c)
<1>0. mods \in Flags
  BY DEF TypeOK, Flags
<1>1. CASE PressExtended(b)
  BY <1>1 DEF PressExtended, PutIfChar, Chars
<1>2. CASE Press(b)
  <2>1. PICK c \in Chars \cup {None} : PutIfChar(c)
    BY <1>0, <1>2, TranslateType DEF Press
  <2> QED
    BY <2>1 DEF PutIfChar
<1> QED
  BY <1>1, <1>2 DEF KeyboardHandler, Release

\* A put leaves a nonempty ring nonempty and its oldest character alone.
LEMMA PutKeepsOldest ==
    ASSUME TypeOK, Available, buffer_tail' = buffer_tail,
           NEW c \in Chars, BufferPut(c)
    PROVE  Available' /\ key_buffer'[buffer_tail'] = key_buffer[buffer_tail]
<1>1. CASE (buffer_head + 1) % Size # buffer_tail
  BY <1>1 DEF BufferPut, Available, TypeOK
<1>2. CASE (buffer_head + 1) % Size = buffer_tail
  BY <1>2 DEF BufferPut, Available
<1> QED
  BY <1>1, <1>2

LEMMA InitReader == Init => ReaderInv
BY InitType DEF Init, ReaderInv, GetFindsChar, Wanted, Loaded

LEMMA NextReader == ReaderInv /\ [Next]_vars => ReaderInv'
<1> SUFFICES ASSUME ReaderInv, [Next]_vars PROVE ReaderInv'
  OBVIOUS
<1> USE DEF ReaderInv
<1>1. CASE KeyboardInterrupt
  <2>1. Head(wire) \in Byte /\ Tail(wire) \in Seq(Byte)
    BY <1>1, HeadTailProperties DEF KeyboardInterrupt, TypeOK, Byte
  <2>2. /\ key_buffer' \in [Slots -> Chars \cup {None}] /\ buffer_head' \in Slots
        /\ mods' \in Flags
    BY <1>1, <2>1, HandlerType DEF KeyboardInterrupt
  <2>3. TypeOK'
    BY <1>1, <2>1, <2>2 DEF KeyboardInterrupt, WakeReader, reader, TypeOK, Byte, Flags
  <2>4. pc' \in {"get", "advance"} => pc' = pc
    BY <1>1 DEF KeyboardInterrupt, WakeReader
  <2>5. Available => Available' /\ key_buffer'[buffer_tail'] = key_buffer[buffer_tail]
    BY <1>1, <2>1, HandlerRing, PutKeepsOldest DEF KeyboardInterrupt, Available
  <2> QED
    BY <1>1, <2>3, <2>4, <2>5 DEF KeyboardInterrupt, reader, GetFindsChar, Wanted, Loaded
<1>2. CASE TimerInterrupt
  BY <1>2 DEF TimerInterrupt, WakeReader, ring, reader, TypeOK, GetFindsChar, Wanted,
       Loaded, Available
<1>3. ASSUME NEW key \in Keys, PressKey(key) \/ ReleaseKey(key) PROVE ReaderInv'
  <2>1. Bytes(key, FALSE) \in Seq(Byte) /\ Bytes(key, TRUE) \in Seq(Byte)
    BY BytesOf
  <2>2. TypeOK'
    BY <1>3, <2>1 DEF PressKey, ReleaseKey, ring, reader, TypeOK, Byte
  <2> QED
    BY <1>3, <2>2 DEF PressKey, ReleaseKey, ring, reader, GetFindsChar, Wanted, Loaded,
         Available
<1>4. CASE CallGetchar
  BY <1>4 DEF CallGetchar, ring, TypeOK, GetFindsChar, Wanted, Loaded
<1>5. ASSUME NEW n \in 0..MaxRead, CallRead(n) PROVE ReaderInv'
  BY <1>5 DEF CallRead, ring, TypeOK, GetFindsChar, Wanted, Loaded
<1>6. CASE Check \/ Halt
  BY <1>6 DEF Check, Halt, ring, reader, TypeOK, GetFindsChar, Wanted, Loaded, Available
<1>7. CASE GetLoad
  BY <1>7 DEF GetLoad, ring, TypeOK, GetFindsChar, Wanted, Loaded, Available
<1>8. CASE GetAdvance
  <2>1. left - 1 \in 0..MaxRead \cup {1}
    BY <1>8 DEF GetAdvance, TypeOK, Wanted
  <2>2. TypeOK'
    BY <1>8, <2>1, NextSlot DEF GetAdvance, TypeOK
  <2> QED
    BY <1>8, <2>2 DEF GetAdvance, GetFindsChar, Wanted, Loaded
<1>9. CASE UNCHANGED vars
  BY <1>9 DEF vars, ring, reader, TypeOK, GetFindsChar, Wanted, Loaded, Available
<1> QED
  BY <1>1, <1>2, <1>3, <1>4, <1>5, <1>6, <1>7, <1>8, <1>9 DEF Next, ReaderStep

LEMMA ReaderCorrect == Spec => []ReaderInv
BY InitReader, NextReader, PTL DEF Spec

\* The types hold: both indexes stay in the ring, only characters get into it,
\* and the count of characters still wanted does not go below zero.
THEOREM TypeCorrect == Spec => []TypeOK
<1>1. ReaderInv => TypeOK
  BY DEF ReaderInv
<1> QED
  BY <1>1, ReaderCorrect, PTL

\* buffer_get never finds the ring empty that keyboard_available found
\* nonempty, however often the handler interrupts in between.
THEOREM GetCorrect == Spec => []GetFindsChar
<1>1. ReaderInv => GetFindsChar
  BY DEF ReaderInv
<1> QED
  BY <1>1, ReaderCorrect, PTL

-----------------------------------------------------------------------------
(***************************************************************************)
(* The ring implements the bounded FIFO.                                   *)
(***************************************************************************)

\* The number of characters in a ring, and the characters, oldest first, as
\* functions of its three fields.
Cells == Chars \cup {None}
Dist(h, t) == (h + Size - t) % Size
View(buf, h, t) == [i \in 1..Dist(h, t) |-> buf[(t + i - 1) % Size]]

\* The remainders the ring computes, without the remainder.
LEMMA DistValue ==
    ASSUME NEW h \in Slots, NEW t \in Slots
    PROVE  /\ Dist(h, t) = IF h >= t THEN h - t ELSE h + Size - t
           /\ Dist(h, t) \in Slots
<1> DEFINE x == h + Size - t
<1>1. x \in 0..(2 * Size - 1)
  BY DEF Slots
<1>2. x % Size = IF x < Size THEN x ELSE x - Size
  BY <1>1, Wrap
<1> QED
  BY <1>2 DEF Dist, Slots

LEMMA SlotValue ==
    ASSUME NEW i \in Slots
    PROVE  (i + 1) % Size = IF i = Size - 1 THEN 0 ELSE i + 1
<1> DEFINE x == i + 1
<1>1. x \in 0..(2 * Size - 1)
  BY DEF Slots
<1>2. x % Size = IF x < Size THEN x ELSE x - Size
  BY <1>1, Wrap
<1> QED
  BY <1>2 DEF Slots

LEMMA AheadValue ==
    ASSUME NEW h \in Slots, NEW t \in Slots, NEW i \in 1..Dist(h, t)
    PROVE  /\ (t + i - 1) % Size = IF t + i - 1 < Size THEN t + i - 1 ELSE t + i - 1 - Size
           /\ (t + i - 1) % Size \in Slots \ {h}
<1> DEFINE x == t + i - 1
<1>1. /\ Dist(h, t) = IF h >= t THEN h - t ELSE h + Size - t
      /\ Dist(h, t) \in Slots
  BY DistValue
<1>2. i \in 1..(Size - 1) /\ x \in 0..(2 * Size - 1)
  BY <1>1 DEF Slots
<1>3. x % Size = IF x < Size THEN x ELSE x - Size
  BY <1>2, Wrap
<1> QED
  BY <1>1, <1>2, <1>3 DEF Slots

\* A put that is not refused adds one character, and is refused exactly when
\* Size-1 characters are waiting; an advance of the tail removes one.
LEMMA DistPut ==
    ASSUME NEW h \in Slots, NEW t \in Slots
    PROVE  /\ (h + 1) % Size # t => Dist((h + 1) % Size, t) = Dist(h, t) + 1
           /\ (h + 1) % Size = t => Dist(h, t) = Size - 1
<1> DEFINE x == (h + 1) % Size
<1>1. x \in Slots /\ x = IF h = Size - 1 THEN 0 ELSE h + 1
  BY NextSlot, SlotValue
<1> HIDE DEF x
<1>2. Dist(h, t) = IF h >= t THEN h - t ELSE h + Size - t
  BY DistValue
<1>3. Dist(x, t) = IF x >= t THEN x - t ELSE x + Size - t
  BY <1>1, DistValue
<1>4. (x # t => Dist(x, t) = Dist(h, t) + 1) /\ (x = t => Dist(h, t) = Size - 1)
  BY <1>1, <1>2, <1>3 DEF Slots
<1> QED
  BY <1>4 DEF x

LEMMA DistGet ==
    ASSUME NEW h \in Slots, NEW t \in Slots, h # t
    PROVE  Dist(h, t) > 0 /\ Dist(h, (t + 1) % Size) = Dist(h, t) - 1
<1> DEFINE x == (t + 1) % Size
<1>1. x \in Slots /\ x = IF t = Size - 1 THEN 0 ELSE t + 1
  BY NextSlot, SlotValue
<1> HIDE DEF x
<1>2. Dist(h, t) = IF h >= t THEN h - t ELSE h + Size - t
  BY DistValue
<1>3. Dist(h, x) = IF h >= x THEN h - x ELSE h + Size - x
  BY <1>1, DistValue
<1>4. Dist(h, t) > 0 /\ Dist(h, x) = Dist(h, t) - 1
  BY <1>1, <1>2, <1>3 DEF Slots
<1> QED
  BY <1>4 DEF x

\* The view of a ring is a sequence of its length.
LEMMA ViewSeq ==
    ASSUME NEW buf \in [Slots -> Cells], NEW h \in Slots, NEW t \in Slots
    PROVE  View(buf, h, t) \in Seq(Cells) /\ Len(View(buf, h, t)) = Dist(h, t)
<1>1. Dist(h, t) \in Nat
  <2>1. Dist(h, t) \in Slots
    BY DistValue
  <2> QED
    BY <2>1 DEF Slots
<1>2. \A i \in 1..Dist(h, t) : buf[(t + i - 1) % Size] \in Cells
  BY AheadValue
<1> QED
  BY <1>1, <1>2, IsASeq DEF View

\* Storing at the head and advancing it appends to the view.
LEMMA ViewPut ==
    ASSUME NEW buf \in [Slots -> Cells], NEW h \in Slots, NEW t \in Slots, NEW c \in Cells,
           NEW new \in [Slots -> Cells], new[h] = c, \A j \in Slots \ {h} : new[j] = buf[j],
           NEW next \in Slots, next = (h + 1) % Size, next # t
    PROVE  View(new, next, t) = Append(View(buf, h, t), c)
<1> DEFINE s == View(new, next, t)
           u == Append(View(buf, h, t), c)
           n == Dist(h, t)
<1>1. new \in [Slots -> Cells] /\ next \in Slots
  BY NextSlot
<1>2. Dist(next, t) = n + 1 /\ n \in Nat
  <2>1. Dist(next, t) = n + 1 /\ n \in Slots
    BY DistPut, DistValue
  <2> QED
    BY <2>1 DEF Slots
<1>3. View(buf, h, t) \in Seq(Cells) /\ Len(View(buf, h, t)) = n
  BY ViewSeq
<1>4. s \in Seq(Cells) /\ Len(s) = n + 1
  <2>1. View(new, next, t) \in Seq(Cells) /\ Len(View(new, next, t)) = Dist(next, t)
    BY <1>1, ViewSeq
  <2> HIDE DEF n
  <2> QED
    BY <1>2, <2>1
<1>5. u \in Seq(Cells) /\ Len(u) = n + 1
  BY <1>3, AppendProperties
<1>6. ASSUME NEW i \in 1..(n + 1) PROVE s[i] = u[i]
  <2>1. s[i] = new[(t + i - 1) % Size]
    BY <1>2 DEF View
  <2>2. CASE i = n + 1
    <3>1. (t + n) % Size = h
      <4>1. n = (IF h >= t THEN h - t ELSE h + Size - t) /\ n \in Slots
        BY DistValue
      <4>2. t + n \in 0..(2 * Size - 1)
        BY <4>1 DEF Slots
      <4>3. PICK x \in 0..(2 * Size - 1) : x = t + n
        BY <4>2
      <4>4. x % Size = IF x < Size THEN x ELSE x - Size
        BY RingWrap
      <4> HIDE DEF n
      <4>5. x % Size = h
        BY <4>1, <4>3, <4>4 DEF Slots
      <4> QED
        BY <4>3, <4>5
    <3>2. u[i] = c
      BY <2>2, <1>3, AppendProperties
    <3>3. t + i - 1 = t + n
      BY <2>2, <1>2 DEF Slots
    <3> QED
      BY <2>1, <3>1, <3>2, <3>3
  <2>3. CASE i # n + 1
    <3>1. i \in 1..n
      BY <2>3, <1>2
    <3>2. u[i] = View(buf, h, t)[i]
      BY <3>1, <1>3, AppendProperties
    <3>3. View(buf, h, t)[i] = buf[(t + i - 1) % Size]
      BY <3>1 DEF View
    <3>4. (t + i - 1) % Size \in Slots \ {h}
      BY <3>1, AheadValue
    <3> QED
      BY <2>1, <3>2, <3>3, <3>4
  <2> QED
    BY <2>2, <2>3
<1> HIDE DEF s, u, n
<1>7. s = u
  BY <1>4, <1>5, <1>6, SeqEqual
<1> QED
  BY <1>7 DEF s, u

\* Advancing the tail removes the first character of the view.
LEMMA ViewGet ==
    ASSUME NEW buf \in [Slots -> Cells], NEW h \in Slots, NEW t \in Slots, h # t
    PROVE  /\ View(buf, h, t) # <<>>
           /\ Head(View(buf, h, t)) = buf[t]
           /\ View(buf, h, (t + 1) % Size) = Tail(View(buf, h, t))
<1> DEFINE q == View(buf, h, t)
           next == (t + 1) % Size
           s == View(buf, h, next)
           n == Dist(h, t)
<1>1. next \in Slots
  BY NextSlot
<1>2. n \in Nat /\ n > 0 /\ Dist(h, next) = n - 1
  <2>1. n > 0 /\ Dist(h, next) = n - 1 /\ n \in Slots
    BY DistGet, DistValue
  <2> QED
    BY <2>1 DEF Slots
<1>3. q \in Seq(Cells) /\ Len(q) = n
  BY ViewSeq
<1>4. s \in Seq(Cells) /\ Len(s) = n - 1
  <2> HIDE DEF next, n
  <2>1. View(buf, h, next) \in Seq(Cells) /\ Len(View(buf, h, next)) = Dist(h, next)
    BY <1>1, ViewSeq
  <2> QED
    BY <1>2, <2>1
<1>5. q # <<>>
  BY <1>2, <1>3
<1>6. Tail(q) \in Seq(Cells) /\ Len(Tail(q)) = n - 1 /\ \A i \in 1..(n - 1) : Tail(q)[i] = q[i + 1]
  BY <1>2, <1>3, <1>5, HeadTailProperties
<1>7. q[1] = buf[t]
  <2>0. t \in 0..(2 * Size - 1) /\ t < Size
    BY DEF Slots
  <2>1. t + 1 - 1 = t /\ t % Size = t
    BY <2>0, RingWrap
  <2> QED
    BY <1>2, <2>1 DEF View
<1>8. ASSUME NEW i \in 1..(n - 1) PROVE s[i] = Tail(q)[i]
  <2>1. i \in 1..Dist(h, next) /\ i + 1 \in 1..Dist(h, t)
    BY <1>2
  <2>7. i \in 1..(Size - 1)
    <3>1. n \in Slots
      BY DistValue
    <3> QED
      BY <1>2, <3>1 DEF Slots
  <2>2. s[i] = buf[(next + i - 1) % Size]
    BY <2>1 DEF View
  <2>8. t + (i + 1) - 1 = t + i /\ t + i \in 0..(2 * Size - 1)
    BY <2>7 DEF Slots
  <2>9. PICK x \in 0..(2 * Size - 1) : x = t + (i + 1) - 1 /\ x = t + i
    BY <2>8
  <2>3. q[i + 1] = buf[x % Size]
    BY <2>1, <2>9 DEF View
  <2>4. (next + i - 1) % Size = IF next + i - 1 < Size THEN next + i - 1 ELSE next + i - 1 - Size
    BY <2>1, <1>1, AheadValue
  <2>5. x % Size = IF x < Size THEN x ELSE x - Size
    BY RingWrap
  <2>6. (next + i - 1) % Size = x % Size
    <3>1. next = IF t = Size - 1 THEN 0 ELSE t + 1
      BY SlotValue
    <3> HIDE DEF next
    <3> QED
      BY <2>4, <2>5, <2>7, <2>9, <3>1 DEF Slots
  <2> QED
    BY <2>2, <2>3, <2>6, <1>6
<1>9. Head(q) = q[1]
  BY <1>3, <1>5
<1> HIDE DEF s, q, n
<1>10. s = Tail(q)
  BY <1>4, <1>6, <1>8, SeqEqual
<1> QED
  BY <1>5, <1>7, <1>9, <1>10 DEF s, q

LEMMA ContentsView == Contents = View(key_buffer, buffer_head, buffer_tail)
BY DEF Contents, Count, View, Dist

\* A step that leaves the ring and the reader's result alone is a stutter.
LEMMA FifoStutter ==
    ASSUME UNCHANGED <<key_buffer, buffer_head, buffer_tail, ret>>
    PROVE  UNCHANGED <<Contents, ret>>
BY DEF Contents, Count

\* buffer_put is Put.
LEMMA PutIsPut ==
    ASSUME TypeOK, NEW c \in Chars, BufferPut(c), UNCHANGED <<buffer_tail, ret>>
    PROVE  Fifo!Put
<1> DEFINE q == View(key_buffer, buffer_head, buffer_tail)
<1>1. /\ key_buffer \in [Slots -> Cells] /\ buffer_head \in Slots /\ buffer_tail \in Slots
      /\ c \in Cells
  BY DEF TypeOK, Cells
<1>2. Len(q) = Dist(buffer_head, buffer_tail) /\ Len(q) \in Slots
  BY <1>1, ViewSeq, DistValue
<1>3. CASE (buffer_head + 1) % Size # buffer_tail
  <2>1. Contents' = Append(q, c)
    <3>1. View(key_buffer', buffer_head', buffer_tail') = Append(q, c)
      <4>1. /\ key_buffer' = [key_buffer EXCEPT ![buffer_head] = c]
            /\ buffer_head' = (buffer_head + 1) % Size /\ buffer_tail' = buffer_tail
        BY <1>3 DEF BufferPut
      <4>2. /\ key_buffer' \in [Slots -> Cells] /\ key_buffer'[buffer_head] = c
            /\ \A j \in Slots \ {buffer_head} : key_buffer'[j] = key_buffer[j]
            /\ buffer_head' \in Slots /\ buffer_head' # buffer_tail
        BY <1>1, <1>3, <4>1, NextSlot
      <4>3. buffer_head' = (buffer_head + 1) % Size /\ buffer_tail' = buffer_tail
        BY <4>1
      <4> QED
        BY <1>1, <4>2, <4>3, ViewPut
    <3> QED
      BY <3>1 DEF Contents, Count, View, Dist
  <2>2. Len(q) < Size - 1
    <3>1. Dist((buffer_head + 1) % Size, buffer_tail) = Len(q) + 1
      BY <1>1, <1>2, <1>3, DistPut
    <3>2. Dist((buffer_head + 1) % Size, buffer_tail) \in Slots
      BY <1>1, NextSlot, DistValue
    <3> QED
      BY <1>2, <3>1, <3>2 DEF Slots
  <2> QED
    BY <2>1, <2>2, ContentsView DEF Fifo!Put
<1>4. CASE (buffer_head + 1) % Size = buffer_tail
  <2>1. Len(q) = Size - 1
    BY <1>1, <1>2, <1>4, DistPut
  <2>2. Contents' = Contents
    BY <1>4 DEF BufferPut, Contents, Count
  <2> QED
    BY <2>1, <2>2, ContentsView DEF Fifo!Put
<1> QED
  BY <1>3, <1>4

\* The end of buffer_get is Get.
LEMMA AdvanceIsGet ==
    ASSUME ReaderInv, GetAdvance
    PROVE  Fifo!Get
<1> DEFINE q == View(key_buffer, buffer_head, buffer_tail)
<1>1. key_buffer \in [Slots -> Cells] /\ buffer_head \in Slots /\ buffer_tail \in Slots
  BY DEF ReaderInv, TypeOK, Cells
<1>2. buffer_head # buffer_tail /\ ret' = key_buffer[buffer_tail]
  BY DEF ReaderInv, GetFindsChar, Loaded, GetAdvance, Available
<1>3. /\ q # <<>> /\ Head(q) = key_buffer[buffer_tail]
      /\ View(key_buffer, buffer_head, (buffer_tail + 1) % Size) = Tail(q)
  BY <1>1, <1>2, ViewGet
<1>4. Contents' = View(key_buffer, buffer_head, (buffer_tail + 1) % Size)
  BY DEF GetAdvance, Contents, Count, View, Dist
<1> QED
  BY <1>2, <1>3, <1>4, ContentsView DEF Fifo!Get

\* The ring with its unsynchronised reader and writer implements the bounded
\* FIFO: every step of the driver is a put, a get or invisible in it.
THEOREM FifoCorrect == Spec => ImplementsFifo
<1>1. Init => Fifo!Init
  <2> SUFFICES ASSUME Init PROVE Contents = <<>> /\ ret = "none"
    BY DEF Fifo!Init
  <2>1. Count = 0
    BY Wrap DEF Init, Count
  <2> QED
    BY <2>1 DEF Init, Contents, None
<1>2. ReaderInv /\ [Next]_vars => [Fifo!Put \/ Fifo!Get]_<<Contents, ret>>
  <2> SUFFICES ASSUME ReaderInv, [Next]_vars
               PROVE  Fifo!Put \/ Fifo!Get \/ UNCHANGED <<Contents, ret>>
    OBVIOUS
  <2>1. CASE KeyboardInterrupt
    <3>1. Head(wire) \in Byte
      BY <2>1, HeadTailProperties DEF KeyboardInterrupt, ReaderInv, TypeOK, Byte
    <3>2. UNCHANGED <<key_buffer, buffer_head>> \/ \E c \in Chars : BufferPut(c)
      BY <2>1, <3>1, HandlerRing DEF KeyboardInterrupt, ReaderInv
    <3>3. UNCHANGED <<buffer_tail, ret>>
      BY <2>1 DEF KeyboardInterrupt, reader
    <3> QED
      BY <3>2, <3>3, PutIsPut, FifoStutter DEF ReaderInv
  <2>2. CASE GetAdvance
    BY <2>2, AdvanceIsGet
  <2>3. CASE UNCHANGED <<key_buffer, buffer_head, buffer_tail, ret>>
    BY <2>3, FifoStutter
  <2> QED
    BY <2>1, <2>2, <2>3 DEF Next, ReaderStep, TimerInterrupt, PressKey, ReleaseKey,
         CallGetchar, CallRead, Check, Halt, GetLoad, vars, ring, reader
<1> QED
  BY <1>1, <1>2, ReaderCorrect, PTL DEF Spec, ImplementsFifo, Fifo!Spec

-----------------------------------------------------------------------------
(***************************************************************************)
(* The modifier flags.  The inductive invariant follows one key event at a *)
(* time: while its bytes are on the wire the flags match the keys held     *)
(* before the event, and the prefix flag is set exactly when the prefix of *)
(* an extended key has been fetched and its second byte has not.  A driver *)
(* with one flag for two Shift keys cannot keep this when the keyboard has *)
(* both.                                                                   *)
(***************************************************************************)

\* The flags say that the modifiers among the keys in H are down.
Matches(m, H) == /\ m.shift <=> (H \cap Shifts # {})
                 /\ m.ctrl <=> ("LCTRL" \in H)
                 /\ m.alt <=> ("LALT" \in H)

\* The last byte of an event.
LastByte(key, r) == [code |-> Code(key), release |-> r]

\* The keys down after an event, given those down before it.
After(H, key, r) == IF r THEN H \ {key} ELSE H \cup {key}

Quiet == wire = <<>> /\ ~mods.ext /\ Matches(mods, held)

Underway == \E key \in Keys, r \in BOOLEAN, before \in SUBSET Keys :
                /\ held = After(before, key, r)
                /\ Matches(mods, before)
                /\ \/ wire = Bytes(key, r) /\ ~mods.ext
                   \/ key \in Extended /\ wire = <<LastByte(key, r)>> /\ mods.ext

ModInv == TypeOK /\ (Quiet \/ Underway)

\* The second byte of an extended key clears the prefix flag and nothing else.
LEMMA ExtendedByte ==
    ASSUME NEW m \in Flags, m = mods, m.ext, NEW b \in Byte, b # Prefix, KeyboardHandler(b)
    PROVE  mods' = [m EXCEPT !.ext = FALSE]
BY DEF KeyboardHandler, Release, PressExtended

\* The byte of a key without prefix sets or clears the flag of that key.
LEMMA PlainByte ==
    ASSUME NEW m \in Flags, m = mods, ~m.ext, ~(Shifts \subseteq Keys),
           NEW key \in Keys \ Extended, NEW r \in BOOLEAN, NEW before \in SUBSET Keys,
           Matches(m, before), KeyboardHandler(LastByte(key, r))
    PROVE  ~mods'.ext /\ Matches(mods', After(before, key, r))
<1> DEFINE b == LastByte(key, r)
<1>1. b.code = key /\ b.release = r /\ b # Prefix
  BY BytesOf DEF LastByte, Code, Extended
<1>2. CASE r
  <2>1. mods' = [m EXCEPT !.shift = @ /\ key \notin Shifts,
                          !.ctrl = @ /\ key # "LCTRL",
                          !.alt = @ /\ key # "LALT"]
    BY <1>1, <1>2 DEF KeyboardHandler, Release
  <2>2. /\ mods'.shift = (m.shift /\ key \notin Shifts)
        /\ mods'.ctrl = (m.ctrl /\ key # "LCTRL")
        /\ mods'.alt = (m.alt /\ key # "LALT")
        /\ mods'.ext = m.ext
    BY <2>1 DEF Flags
  <2>3. After(before, key, r) = before \ {key}
    BY <1>2 DEF After
  <2>4. mods'.shift <=> ((before \ {key}) \cap Shifts # {})
    <3>1. CASE key \notin Shifts
      BY <2>2, <3>1 DEF Matches
    <3>2. CASE key \in Shifts
      BY <2>2, <3>2 DEF Shifts
    <3> QED
      BY <3>1, <3>2
  <2> QED
    BY <2>2, <2>3, <2>4 DEF Matches
<1>3. CASE ~r
  <2>1. mods' = [m EXCEPT !.shift = @ \/ key \in Shifts,
                          !.ctrl = @ \/ key = "LCTRL",
                          !.alt = @ \/ key = "LALT",
                          !.caps = IF key = "CAPS" THEN ~@ ELSE @]
    BY <1>1, <1>3 DEF KeyboardHandler, Press
  <2>2. /\ mods'.shift = (m.shift \/ key \in Shifts)
        /\ mods'.ctrl = (m.ctrl \/ key = "LCTRL")
        /\ mods'.alt = (m.alt \/ key = "LALT")
        /\ mods'.ext = m.ext
    BY <2>1 DEF Flags
  <2>3. After(before, key, r) = before \cup {key}
    BY <1>3 DEF After
  <2> QED
    BY <2>2, <2>3 DEF Matches
<1> QED
  BY <1>2, <1>3

\* While an event is under way there is a byte on the wire.
LEMMA UnderwayBusy == Underway => wire # <<>>
<1> SUFFICES ASSUME NEW key \in Keys, NEW r \in BOOLEAN
             PROVE  Bytes(key, r) # <<>> /\ <<LastByte(key, r)>> # <<>>
  BY DEF Underway
<1> DEFINE b == LastByte(key, r)
<1>1. Bytes(key, r) = IF key \in Extended THEN <<Prefix, b>> ELSE <<b>>
  BY BytesOf DEF LastByte
<1> HIDE DEF b
<1>2. <<b>> # <<>> /\ <<Prefix, b>> # <<>>
  OBVIOUS
<1> QED
  BY <1>1, <1>2 DEF b

LEMMA NextMod ==
    ASSUME ~(Shifts \subseteq Keys), ModInv, TypeOK', [Next]_vars
    PROVE  ModInv'
<1>0. mods \in Flags
  BY DEF ModInv, TypeOK, Flags
<1>1. CASE KeyboardInterrupt
  <2>1. Underway
    BY <1>1 DEF KeyboardInterrupt, ModInv, Quiet
  <2>2. PICK key \in Keys, r \in BOOLEAN, before \in SUBSET Keys :
                /\ held = After(before, key, r)
                /\ Matches(mods, before)
                /\ \/ wire = Bytes(key, r) /\ ~mods.ext
                   \/ key \in Extended /\ wire = <<LastByte(key, r)>> /\ mods.ext
    BY <2>1 DEF Underway
  <2>3. /\ LastByte(key, r) \in Byte /\ LastByte(key, r) # Prefix
        /\ Bytes(key, r) = IF key \in Extended THEN <<Prefix, LastByte(key, r)>>
                           ELSE <<LastByte(key, r)>>
    BY BytesOf DEF LastByte
  <2>4. KeyboardHandler(Head(wire)) /\ wire' = Tail(wire) /\ held' = held
    BY <1>1 DEF KeyboardInterrupt
  <2>5. CASE key \in Extended /\ wire = <<LastByte(key, r)>> /\ mods.ext
    <3>1. Head(wire) = LastByte(key, r) /\ wire' = <<>>
      BY <2>4, <2>5
    <3>2. mods' = [mods EXCEPT !.ext = FALSE]
      BY <1>0, <2>3, <2>4, <2>5, <3>1, ExtendedByte
    <3>3. ~mods'.ext /\ mods'.shift = mods.shift /\ mods'.ctrl = mods.ctrl /\ mods'.alt = mods.alt
      BY <1>0, <3>2 DEF Flags
    <3>4. Matches(mods', held)
      BY <2>2, <2>5, <3>3 DEF Matches, After, Extended, Shifts
    <3> QED
      BY <2>4, <3>1, <3>3, <3>4 DEF ModInv, Quiet
  <2>6. CASE key \in Extended /\ wire = Bytes(key, r) /\ ~mods.ext
    <3>1. Head(wire) = Prefix /\ wire' = <<LastByte(key, r)>>
      BY <2>3, <2>4, <2>6
    <3>2. mods' = [mods EXCEPT !.ext = TRUE]
      <4>1. KeyboardHandler(Prefix) /\ ~Prefix.release
        BY <2>4, <3>1 DEF Prefix
      <4> QED
        BY <4>1 DEF KeyboardHandler
    <3>3. mods'.ext /\ mods'.shift = mods.shift /\ mods'.ctrl = mods.ctrl /\ mods'.alt = mods.alt
      BY <1>0, <3>2 DEF Flags
    <3>4. Matches(mods', before)
      BY <2>2, <3>3 DEF Matches
    <3> QED
      BY <2>2, <2>4, <2>6, <3>1, <3>3, <3>4 DEF ModInv, Underway
  <2>7. CASE key \notin Extended /\ wire = Bytes(key, r) /\ ~mods.ext
    <3>1. Head(wire) = LastByte(key, r) /\ wire' = <<>>
      BY <2>3, <2>4, <2>7
    <3>2. ~mods'.ext /\ Matches(mods', After(before, key, r))
      BY <1>0, <2>2, <2>4, <2>7, <3>1, PlainByte
    <3> QED
      BY <2>2, <2>4, <3>1, <3>2 DEF ModInv, Quiet
  <2> QED
    BY <2>2, <2>5, <2>6, <2>7
<1>2. ASSUME NEW key \in Keys, PressKey(key) PROVE ModInv'
  <2>1. ~mods.ext /\ Matches(mods, held) /\ held \in SUBSET Keys
    <3>1. wire = <<>>
      BY <1>2 DEF PressKey
    <3>2. Quiet
      BY <3>1, UnderwayBusy DEF ModInv
    <3> QED
      BY <3>2 DEF Quiet, ModInv, TypeOK
  <2>2. mods' = mods /\ wire' = Bytes(key, FALSE) /\ held' = After(held, key, FALSE)
    BY <1>2 DEF PressKey, After
  <2> QED
    BY <2>1, <2>2 DEF ModInv, Underway
<1>3. ASSUME NEW key \in Keys, ReleaseKey(key) PROVE ModInv'
  <2>1. ~mods.ext /\ Matches(mods, held) /\ held \in SUBSET Keys
    <3>1. wire = <<>>
      BY <1>3 DEF ReleaseKey
    <3>2. Quiet
      BY <3>1, UnderwayBusy DEF ModInv
    <3> QED
      BY <3>2 DEF Quiet, ModInv, TypeOK
  <2>2. mods' = mods /\ wire' = Bytes(key, TRUE) /\ held' = After(held, key, TRUE)
    BY <1>3 DEF ReleaseKey, After
  <2> QED
    BY <2>1, <2>2 DEF ModInv, Underway
<1>4. CASE UNCHANGED <<wire, mods, held>>
  BY <1>4 DEF ModInv, Quiet, Underway
<1> QED
  BY <1>1, <1>2, <1>3, <1>4 DEF Next, ReaderStep, TimerInterrupt, CallGetchar, CallRead,
       Check, Halt, GetLoad, GetAdvance, vars

\* Between two key events the flags say which modifiers are down and no prefix
\* is left over, on every keyboard that does not have both Shift keys: the
\* handler keeps one flag for the two.
THEOREM ModifiersCorrect ==
    ASSUME ~(Shifts \subseteq Keys)
    PROVE  Spec => []ModifiersTrack
<1>1. Init => ModInv
  BY InitType DEF Init, ModInv, Quiet, Matches
<1>2. TypeOK' /\ ModInv /\ [Next]_vars => ModInv'
  BY NextMod
<1>3. ModInv => ModifiersTrack
  <2> SUFFICES ASSUME ModInv, wire = <<>> PROVE Quiet
    BY DEF ModifiersTrack, Quiet, Matches
  <2>1. ~ Underway
    BY UnderwayBusy
  <2> QED
    BY <2>1 DEF ModInv
<1> QED
  BY <1>1, <1>2, <1>3, TypeCorrect, PTL DEF Spec
=============================================================================
