----------------------------- MODULE HeapProofs -----------------------------
(***************************************************************************)
(* Theorems about Heap for every arena, every header size and every        *)
(* sequence of calls of kmalloc, kfree and krealloc other than the growth  *)
(* in place: the blocks tile the arena and overlap nowhere.                *)
(*                                                                         *)
(* Splitting, joining and marking are operators on lists of headers, so    *)
(* each has a lemma of its own about any sound list h.                     *)
(***************************************************************************)
EXTENDS Heap, TLAPS

-----------------------------------------------------------------------------
\* What a sound list of headers is.  Beyond Tiled and NoOverlap it says that a
\* prev link leads to the block before, which coalesce_blocks relies on.
Field == [size: Nat, free: BOOLEAN, next: Ptr, prev: Ptr]

Typed(h) == DOMAIN h \subseteq Addr /\ h \in [DOMAIN h -> Field]

LimitOf(h, b) == b + Header + h[b].size

Forward(h) == \A b \in DOMAIN h :
    /\ LimitOf(h, b) <= End
    /\ LimitOf(h, b) = End => h[b].next = NULL
    /\ LimitOf(h, b) # End => /\ h[b].next = LimitOf(h, b)
                              /\ h[b].next \in DOMAIN h
                              /\ h[h[b].next].prev = b

Backward(h) == \A b \in DOMAIN h :
    h[b].prev # NULL => h[b].prev \in DOMAIN h /\ h[h[b].prev].next = b

Disjoint(h) == \A b, c \in DOMAIN h : b < c => LimitOf(h, b) <= c

Sound(h) == Typed(h) /\ Base \in DOMAIN h /\ Forward(h) /\ Backward(h) /\ Disjoint(h)

-----------------------------------------------------------------------------
\* A remainder is smaller than the divisor and not larger than the number.
LEMMA Remainder ==
    ASSUME NEW m \in Nat, NEW a \in Nat \ {0}
    PROVE  m % a \in 0..(a - 1) /\ m % a <= m
OBVIOUS

\* Rounded sizes are sizes.
LEMMA AlignSizeNat == \A n \in Nat : AlignSize(n) \in Nat
<1> SUFFICES ASSUME NEW n \in Nat PROVE AlignSize(n) \in Nat
  OBVIOUS
<1>1. SizeMod \in Nat \ {0} /\ Align \in Nat \ {0}
  BY WidthAssumption, ArenaAssumption, LayoutAssumption
<1>2. n + Align - 1 \in Nat
  BY <1>1
<1> DEFINE m == (n + Align - 1) % SizeMod
<1>3. m \in Nat
  BY <1>1, <1>2, Remainder
<1>4. AlignSize(n) = m - (m % Align)
  BY DEF AlignSize, RoundDown
<1> HIDE DEF m
<1>5. m % Align \in Nat /\ m % Align <= m
  BY <1>1, <1>3, Remainder
<1> QED
  BY <1>3, <1>4, <1>5

\* The arena lies above address 0, has room for a block and fits size_t.
LEMMA Arena == /\ Header \in Nat /\ Header > 0 /\ MinBlock \in Nat /\ MinBlock > Header
               /\ Base \in Nat /\ Base > 0
               /\ End \in Nat /\ Base + Header <= End /\ End < SizeMod
               /\ Total = End - Base
<1>1. /\ Align \in Nat \ {0} /\ Header \in Nat \ {0} /\ MinPayload \in Nat
      /\ MinPayload > Align + Align - 2
      /\ Start \in Nat \ {0} /\ Bytes \in Nat /\ Bytes >= Header + MinPayload
      /\ SizeMod \in Nat /\ Start + Bytes < SizeMod
  BY LayoutAssumption, ArenaAssumption, WidthAssumption DEF MinBlock
<1>2. Base \in Nat /\ Start <= Base /\ Base <= Start + Align - 1
  <2> DEFINE m == Start + Align - 1
  <2>1. m \in Nat
    BY <1>1
  <2>2. Base = m - (m % Align)
    BY DEF Base, RoundUp, RoundDown
  <2> HIDE DEF m
  <2>3. m % Align \in 0..(Align - 1) /\ m % Align <= m
    BY <1>1, <2>1, Remainder
  <2>4. m = Start + Align - 1
    BY DEF m
  <2> QED
    BY <1>1, <2>1, <2>2, <2>3, <2>4
<1> DEFINE left == Bytes - (Base - Start)
<1>3. left \in Nat /\ left >= Header + MinPayload - Align + 1
  BY <1>1, <1>2
<1>4. Total \in Nat /\ Total <= left /\ Total > left - Align
  <2> HIDE DEF left
  <2>1. left % Align \in 0..(Align - 1) /\ left % Align <= left
    BY <1>1, <1>3, Remainder
  <2>2. Total = left - (left % Align)
    BY DEF Total, RoundDown, left
  <2> QED
    BY <1>1, <1>3, <2>1, <2>2
<1> QED
  BY <1>1, <1>2, <1>3, <1>4 DEF End, MinBlock

\* NULL is no address.
LEMMA AddrFacts == /\ NULL \notin Addr
                   /\ \A x \in Addr : x \in Nat /\ x < End /\ Base <= x
                   /\ \A x \in Nat : Base <= x /\ x < End => x \in Addr
BY Arena DEF Addr, NULL

-----------------------------------------------------------------------------
\* Marking a block changes nothing else.
LEMMA MarkSound ==
    ASSUME NEW h, Sound(h), NEW b \in DOMAIN h, NEW v \in BOOLEAN
    PROVE  Sound([h EXCEPT ![b].free = v])
<1> DEFINE g == [h EXCEPT ![b].free = v]
<1>1. DOMAIN g = DOMAIN h /\ h \in [DOMAIN h -> Field]
  BY DEF Sound, Typed
<1>2. \A x \in DOMAIN h : /\ g[x].size = h[x].size /\ g[x].next = h[x].next
                          /\ g[x].prev = h[x].prev /\ g[x] \in Field
  BY <1>1 DEF Field
<1>3. g \in [DOMAIN g -> Field]
  BY <1>1, <1>2
<1> QED
  BY <1>1, <1>2, <1>3 DEF Sound, Typed, Forward, Backward, Disjoint, LimitOf

\* split_block leaves a sound list: it adds at most one block, inside b.
LEMMA SplitSound ==
    ASSUME NEW h, Sound(h), NEW b \in DOMAIN h, NEW n \in Nat, n <= h[b].size
    PROVE  Sound(SplitBlock(h, b, n))
<1> DEFINE c == b + Header + n
           rest == [size |-> h[b].size - n - Header, free |-> TRUE,
                    next |-> h[b].next, prev |-> b]
           g == SplitBlock(h, b, n)
<1>1. CASE h[b].size < n + MinBlock
  BY <1>1 DEF SplitBlock
<1>2. CASE ~(h[b].size < n + MinBlock)
  <2>1. h \in [DOMAIN h -> Field] /\ DOMAIN h \subseteq Addr /\ b \in Nat /\ h[b].size \in Nat
    BY AddrFacts DEF Sound, Typed, Field
  <2>2. h[b].size >= n + MinBlock /\ MinBlock > Header /\ Header \in Nat /\ MinBlock \in Nat
    BY <1>2, <2>1, Arena
  <2>3. c \in Nat /\ b < c /\ c + Header < LimitOf(h, b) /\ LimitOf(h, b) <= End
        /\ LimitOf(h, b) \in Nat /\ c < End
    BY <2>1, <2>2, Arena DEF Sound, Forward, LimitOf
  <2>4. c \in Addr /\ c # NULL
    BY <2>1, <2>3, AddrFacts, Arena DEF LimitOf
  <2>5. c \notin DOMAIN h
    BY <2>1, <2>3, AddrFacts, Arena DEF Sound, Disjoint, LimitOf
  <2>6. g = [x \in DOMAIN h \cup {c} |->
               IF x = c THEN rest
               ELSE IF x = b THEN [h[b] EXCEPT !.size = n, !.next = c]
               ELSE IF x = h[b].next THEN [h[x] EXCEPT !.prev = c]
               ELSE h[x]]
    BY <1>2 DEF SplitBlock
  <2> HIDE DEF g
  <2>7. rest \in Field /\ rest.size = h[b].size - n - Header /\ rest.next = h[b].next
        /\ rest.prev = b
    BY <2>1, <2>2, AddrFacts DEF Field, Ptr
  <2>8. DOMAIN g = DOMAIN h \cup {c} /\ g[c] = rest
    BY <2>6
  <2>9. \A x \in DOMAIN h : h[x] \in Field
    BY <2>1
  <2> HIDE DEF rest
  <2>10. \A x \in DOMAIN h : x # c
    BY <2>5
  <2>11. /\ g[b] \in Field /\ g[b].size = n /\ g[b].next = c /\ g[b].prev = h[b].prev
         /\ b # c
    BY <2>4, <2>6, <2>8, <2>9, <2>10 DEF Field, Ptr
  <2>12. \A x \in DOMAIN h : x # b =>
           /\ g[x] \in Field /\ g[x].size = h[x].size /\ g[x].next = h[x].next
           /\ g[x].prev = IF x = h[b].next THEN c ELSE h[x].prev
    BY <2>4, <2>6, <2>8, <2>9, <2>10 DEF Field, Ptr
  <2>13. Typed(g)
    <3>1. \A x \in DOMAIN g : g[x] \in Field
      BY <2>7, <2>8, <2>11, <2>12
    <3>2. g \in [DOMAIN g -> Field]
      BY <2>6, <2>8, <3>1
    <3> QED
      BY <2>1, <2>4, <2>8, <3>2 DEF Typed
  <2>14. /\ LimitOf(g, b) = c /\ LimitOf(g, c) = LimitOf(h, b)
         /\ \A x \in DOMAIN h : x # b => LimitOf(g, x) = LimitOf(h, x)
    BY <2>1, <2>2, <2>7, <2>8, <2>11, <2>12 DEF LimitOf
  <2>15. Forward(g)
    <3> SUFFICES ASSUME NEW x \in DOMAIN g
                 PROVE  /\ LimitOf(g, x) <= End
                        /\ LimitOf(g, x) = End => g[x].next = NULL
                        /\ LimitOf(g, x) # End => /\ g[x].next = LimitOf(g, x)
                                                  /\ g[x].next \in DOMAIN g
                                                  /\ g[g[x].next].prev = x
      BY DEF Forward
    <3>1. CASE x = b
      BY <3>1, <2>3, <2>7, <2>8, <2>11, <2>14, Arena
    <3>2. CASE x = c
      <4>1. LimitOf(h, b) # End => h[b].next # b /\ h[b].next \in DOMAIN h
        BY <2>1, <2>3, Arena DEF Sound, Forward, LimitOf
      <4> QED
        BY <3>2, <4>1, <2>3, <2>7, <2>8, <2>12, <2>14 DEF Sound, Forward
    <3>3. CASE x \in DOMAIN h /\ x # b
      <4>1. LimitOf(h, x) # End => h[x].next # h[b].next
        <5> SUFFICES ASSUME LimitOf(h, x) # End, h[x].next = h[b].next PROVE FALSE
          OBVIOUS
        <5>1. h[x].next \in DOMAIN h /\ h[h[x].next].prev = x /\ h[x].next # NULL
          BY <3>3, <2>1, AddrFacts DEF Sound, Forward
        <5>2. LimitOf(h, b) # End
          BY <5>1 DEF Sound, Forward
        <5>3. h[h[b].next].prev = b
          BY <5>2 DEF Sound, Forward
        <5> QED
          BY <3>3, <5>1, <5>3
      <4>2. LimitOf(h, x) # End /\ h[x].next = b => g[b].prev = x
        BY <3>3, <2>11 DEF Sound, Forward
      <4> QED
        BY <3>3, <4>1, <4>2, <2>8, <2>12, <2>14 DEF Sound, Forward
    <3> QED
      BY <2>8, <3>1, <3>2, <3>3
  <2>16. Backward(g)
    <3> SUFFICES ASSUME NEW x \in DOMAIN g, g[x].prev # NULL
                 PROVE  g[x].prev \in DOMAIN g /\ g[g[x].prev].next = x
      BY DEF Backward
    <3>1. CASE x = c
      BY <3>1, <2>7, <2>8, <2>11
    <3>2. CASE x = b
      <4>1. h[b].prev \in DOMAIN h /\ h[h[b].prev].next = b
        BY <3>2, <2>11 DEF Sound, Backward
      <4>2. h[b].prev # b
        BY <4>1, <2>1, AddrFacts, Arena DEF Sound, Forward, LimitOf
      <4> QED
        BY <3>2, <4>1, <4>2, <2>8, <2>11, <2>12
    <3>3. CASE x \in DOMAIN h /\ x # b /\ x = h[b].next
      BY <3>3, <2>7, <2>8, <2>12
    <3>4. CASE x \in DOMAIN h /\ x # b /\ x # h[b].next
      BY <3>4, <2>8, <2>12 DEF Sound, Backward
    <3> QED
      BY <2>8, <3>1, <3>2, <3>3, <3>4
  <2>17. Disjoint(g)
    <3> SUFFICES ASSUME NEW x \in DOMAIN g, NEW y \in DOMAIN g, x < y
                 PROVE  LimitOf(g, x) <= y
      BY DEF Disjoint
    <3>0. \A z \in DOMAIN h : z \in Nat
      BY <2>1, AddrFacts
    <3>1. CASE x \in DOMAIN h /\ y \in DOMAIN h
      <4>1. LimitOf(h, x) <= y
        BY <3>1 DEF Sound, Disjoint
      <4> QED
        BY <3>0, <3>1, <4>1, <2>2, <2>3, <2>14
    <3>2. CASE x = c /\ y \in DOMAIN h
      BY <3>0, <3>2, <2>3, <2>14 DEF Sound, Disjoint
    <3>3. CASE x \in DOMAIN h /\ y = c
      <4>1. CASE x = b
        BY <4>1, <3>3, <2>3, <2>14
      <4>2. CASE x # b
        <5>1. ~(b < x)
          <6>1. b < x => LimitOf(h, b) <= x
            BY <3>3 DEF Sound, Disjoint
          <6> QED
            BY <3>0, <3>3, <6>1, <2>2, <2>3
        <5>2. LimitOf(h, x) <= b /\ LimitOf(h, x) \in Nat
          BY <3>0, <3>3, <4>2, <5>1, <2>9, Arena DEF Sound, Disjoint, LimitOf, Field
        <5> QED
          BY <3>3, <4>2, <5>2, <2>1, <2>3, <2>14
      <4> QED
        BY <4>1, <4>2
    <3> QED
      BY <2>3, <2>8, <3>1, <3>2, <3>3
  <2> QED
    BY <2>8, <2>13, <2>15, <2>16, <2>17 DEF Sound, g
<1> QED
  BY <1>1, <1>2

\* What split_block leaves alone: the blocks there are stay, with their sizes
\* and marks, except that b keeps at least the n bytes asked for; a block it
\* adds is free.
LEMMA SplitFacts ==
    ASSUME NEW h, Sound(h), NEW b \in DOMAIN h, NEW n \in Nat, n <= h[b].size
    PROVE  LET g == SplitBlock(h, b, n)
           IN /\ DOMAIN h \subseteq DOMAIN g
              /\ \A x \in DOMAIN g \ DOMAIN h : g[x].free
              /\ \A x \in DOMAIN h : g[x].free = h[x].free
              /\ \A x \in DOMAIN h \ {b} : g[x].size = h[x].size
              /\ n <= g[b].size
<1> DEFINE c == b + Header + n
           rest == [size |-> h[b].size - n - Header, free |-> TRUE,
                    next |-> h[b].next, prev |-> b]
           g == SplitBlock(h, b, n)
<1>1. CASE h[b].size < n + MinBlock
  BY <1>1 DEF SplitBlock
<1>2. CASE ~(h[b].size < n + MinBlock)
  <2>1. h \in [DOMAIN h -> Field] /\ b \in Nat /\ h[b].size \in Nat
    BY AddrFacts DEF Sound, Typed, Field
  <2>2. \A x \in DOMAIN h : x # c
    <3> SUFFICES c \notin DOMAIN h
      OBVIOUS
    <3>1. b < c /\ c < LimitOf(h, b) /\ c \in Nat /\ LimitOf(h, b) \in Nat
      BY <1>2, <2>1, Arena DEF LimitOf
    <3>2. c \in DOMAIN h => LimitOf(h, b) <= c
      BY <3>1 DEF Sound, Disjoint
    <3> QED
      BY <3>1, <3>2
  <2>3. g = [x \in DOMAIN h \cup {c} |->
               IF x = c THEN rest
               ELSE IF x = b THEN [h[b] EXCEPT !.size = n, !.next = c]
               ELSE IF x = h[b].next THEN [h[x] EXCEPT !.prev = c]
               ELSE h[x]]
    BY <1>2 DEF SplitBlock
  <2> HIDE DEF g, c
  <2>4. DOMAIN g = DOMAIN h \cup {c} /\ g[c].free
    BY <2>3
  <2>5. \A x \in DOMAIN h : h[x] \in Field
    BY <2>1
  <2>6. \A x \in DOMAIN h : g[x].free = h[x].free /\ (x # b => g[x].size = h[x].size)
    BY <2>2, <2>3, <2>5 DEF Field
  <2>7. g[b].size = n
    BY <2>2, <2>3, <2>5 DEF Field
  <2> QED
    BY <2>4, <2>6, <2>7 DEF g
<1> QED
  BY <1>1, <1>2

-----------------------------------------------------------------------------
\* Block a takes in the block b that follows it on a sound list: the list stays
\* sound, and no other block changes its size, no block at all its mark.
LEMMA AbsorbSound ==
    ASSUME NEW h, Sound(h), NEW a \in DOMAIN h, NEW b \in DOMAIN h, h[a].next = b
    PROVE  /\ Sound(Absorb(h, a, b))
           /\ DOMAIN Absorb(h, a, b) = DOMAIN h \ {b}
           /\ a # b
           /\ \A x \in DOMAIN h \ {b} : Absorb(h, a, b)[x].free = h[x].free
           /\ \A x \in DOMAIN h \ {a, b} : /\ Absorb(h, a, b)[x].size = h[x].size
                                          /\ Absorb(h, a, b)[x].next = h[x].next
           /\ Absorb(h, a, b)[a].next = h[b].next
           /\ Absorb(h, a, b)[a].prev = h[a].prev
<1> DEFINE g == Absorb(h, a, b)
           d == h[b].next
<1>1. h \in [DOMAIN h -> Field] /\ DOMAIN h \subseteq Addr
  BY DEF Sound, Typed
<1>2. \A x \in DOMAIN h : /\ h[x] \in Field /\ x \in Nat /\ x # NULL
                          /\ h[x].size \in Nat /\ LimitOf(h, x) \in Nat
                          /\ x < LimitOf(h, x) /\ Base <= x
  BY <1>1, AddrFacts, Arena DEF Field, LimitOf
<1>3. b = LimitOf(h, a) /\ h[b].prev = a /\ a < b
  BY <1>2 DEF Sound, Forward
<1>4. g = [x \in DOMAIN h \ {b} |->
             IF x = a THEN [h[a] EXCEPT !.size = @ + Header + h[b].size, !.next = d]
             ELSE IF x = d THEN [h[x] EXCEPT !.prev = a]
             ELSE h[x]]
  BY DEF Absorb
<1> HIDE DEF g
<1>5. DOMAIN g = DOMAIN h \ {b} /\ a # b
  BY <1>2, <1>3, <1>4
<1>6. /\ g[a] \in Field /\ g[a].size = h[a].size + Header + h[b].size
      /\ g[a].next = d /\ g[a].prev = h[a].prev /\ g[a].free = h[a].free
  <2>1. g[a] = [h[a] EXCEPT !.size = @ + Header + h[b].size, !.next = d]
    BY <1>4, <1>5
  <2>2. d \in Ptr /\ h[a] \in Field /\ h[a].size + Header + h[b].size \in Nat
    BY <1>2, Arena DEF Field
  <2> QED
    BY <2>1, <2>2 DEF Field
<1>7. \A x \in DOMAIN h \ {a, b} :
        /\ g[x] \in Field /\ g[x].size = h[x].size /\ g[x].next = h[x].next
        /\ g[x].free = h[x].free
        /\ g[x].prev = IF x = d THEN a ELSE h[x].prev
  <2>1. a \in Ptr
    BY <1>1 DEF Ptr
  <2> QED
    BY <1>2, <1>4, <1>5, <2>1 DEF Field
<1>8. Typed(g)
  <2>1. \A x \in DOMAIN g : g[x] \in Field
    BY <1>5, <1>6, <1>7
  <2>2. g \in [DOMAIN g -> Field]
    BY <1>4, <1>5, <2>1
  <2> QED
    BY <1>1, <1>5, <2>2 DEF Typed
<1>9. /\ LimitOf(g, a) = LimitOf(h, b)
      /\ \A x \in DOMAIN h \ {a, b} : LimitOf(g, x) = LimitOf(h, x)
  <2>1. LimitOf(g, a) = a + Header + (h[a].size + Header + h[b].size)
    BY <1>6 DEF LimitOf
  <2>2. b = a + Header + h[a].size
    BY <1>3 DEF LimitOf
  <2> QED
    BY <1>2, <1>7, <2>1, <2>2, Arena DEF LimitOf
<1>10. Base \in DOMAIN g
  BY <1>2, <1>3, <1>5, Arena DEF Sound
<1>11. \A x \in DOMAIN h \ {a, b} : LimitOf(h, x) # End =>
          h[x].next # b /\ h[x].next # d
  <2> SUFFICES ASSUME NEW x \in DOMAIN h \ {a, b}, LimitOf(h, x) # End
               PROVE  h[x].next # b /\ h[x].next # d
    OBVIOUS
  <2>1. h[x].next \in DOMAIN h /\ h[h[x].next].prev = x
    BY DEF Sound, Forward
  <2>2. h[x].next = d => LimitOf(h, b) # End
    BY <2>1, <1>2 DEF Sound, Forward
  <2>3. LimitOf(h, b) # End => h[d].prev = b
    BY DEF Sound, Forward
  <2> QED
    BY <1>3, <2>1, <2>2, <2>3
<1>12. Forward(g)
  <2> SUFFICES ASSUME NEW x \in DOMAIN g
               PROVE  /\ LimitOf(g, x) <= End
                      /\ LimitOf(g, x) = End => g[x].next = NULL
                      /\ LimitOf(g, x) # End => /\ g[x].next = LimitOf(g, x)
                                                /\ g[x].next \in DOMAIN g
                                                /\ g[g[x].next].prev = x
    BY DEF Forward
  <2>1. CASE x = a
    <3>1. LimitOf(h, b) # End => d = LimitOf(h, b) /\ d \in DOMAIN h /\ d # a /\ d # b
      BY <1>2, <1>3 DEF Sound, Forward
    <3>2. LimitOf(h, b) <= End /\ (LimitOf(h, b) = End => d = NULL)
      BY DEF Sound, Forward
    <3> QED
      BY <2>1, <3>1, <3>2, <1>5, <1>6, <1>7, <1>9
  <2>2. CASE x # a
    <3>1. x \in DOMAIN h \ {a, b}
      BY <2>2, <1>5
    <3>2. /\ LimitOf(h, x) <= End /\ (LimitOf(h, x) = End => h[x].next = NULL)
          /\ LimitOf(h, x) # End => /\ h[x].next = LimitOf(h, x)
                                    /\ h[x].next \in DOMAIN h
                                    /\ h[h[x].next].prev = x
      BY <3>1 DEF Sound, Forward
    <3> QED
      BY <3>1, <3>2, <1>5, <1>6, <1>7, <1>9, <1>11
  <2> QED
    BY <2>1, <2>2
<1>13. Backward(g)
  <2> SUFFICES ASSUME NEW x \in DOMAIN g, g[x].prev # NULL
               PROVE  g[x].prev \in DOMAIN g /\ g[g[x].prev].next = x
    BY DEF Backward
  <2>1. CASE x = a
    <3>1. h[a].prev \in DOMAIN h /\ h[h[a].prev].next = a
      BY <2>1, <1>6 DEF Sound, Backward
    <3>2. LimitOf(h, h[a].prev) = a
      BY <1>2, <3>1 DEF Sound, Forward
    <3>3. h[a].prev # a /\ h[a].prev # b
      BY <1>2, <1>3, <3>1, <3>2
    <3> QED
      BY <2>1, <3>1, <3>3, <1>5, <1>6, <1>7
  <2>2. CASE x # a /\ x = d
    BY <2>2, <1>5, <1>6, <1>7
  <2>3. CASE x # a /\ x # d
    <3>1. h[x].prev \in DOMAIN h /\ h[h[x].prev].next = x /\ g[x].prev = h[x].prev
      BY <2>3, <1>5, <1>7 DEF Sound, Backward
    <3>2. h[x].prev # a /\ h[x].prev # b
      BY <2>3, <3>1, <1>5
    <3> QED
      BY <2>3, <3>1, <3>2, <1>5, <1>7
  <2> QED
    BY <2>1, <2>2, <2>3
<1>14. Disjoint(g)
  <2> SUFFICES ASSUME NEW x \in DOMAIN g, NEW y \in DOMAIN g, x < y
               PROVE  LimitOf(g, x) <= y
    BY DEF Disjoint
  <2>0. x \in DOMAIN h /\ y \in DOMAIN h /\ y # b /\ x # b
    BY <1>5
  <2>1. LimitOf(h, x) <= y
    BY <2>0 DEF Sound, Disjoint
  <2>2. CASE x = a
    <3>1. b < y
      BY <2>0, <2>1, <2>2, <1>2, <1>3
    <3>2. LimitOf(h, b) <= y
      BY <2>0, <3>1 DEF Sound, Disjoint
    <3> QED
      BY <2>2, <3>2, <1>9
  <2>3. CASE x # a
    BY <2>0, <2>1, <2>3, <1>9
  <2> QED
    BY <2>2, <2>3
<1>15. Sound(g)
  BY <1>8, <1>10, <1>12, <1>13, <1>14 DEF Sound
<1> QED
  BY <1>5, <1>6, <1>7, <1>15 DEF g

-----------------------------------------------------------------------------
\* find_free_block returns a free block that is large enough.
LEMMA FindFreeFits ==
    ASSUME NEW h, NEW n, FindFree(h, n) # NULL
    PROVE  /\ FindFree(h, n) \in DOMAIN h
           /\ h[FindFree(h, n)].free
           /\ h[FindFree(h, n)].size >= n
<1> DEFINE Fits(b) == h[b].free /\ h[b].size >= n
           closed == {S \in SUBSET DOMAIN h :
                        Base \in S /\ \A b \in S : Fits(b) \/ h[b].next \in S \cup {NULL}}
           found == {b \in DOMAIN h : Fits(b) /\ \A S \in closed : b \in S}
<1>1. found # {} /\ FindFree(h, n) = CHOOSE b \in found : TRUE
  BY DEF FindFree
<1>2. FindFree(h, n) \in found
  <2> HIDE DEF found
  <2> QED
    BY <1>1
<1> QED
  BY <1>2

\* kmalloc on a sound list: b is marked, the other blocks keep size and mark,
\* a block that is added is free.
LEMMA AllocatedSound ==
    ASSUME NEW h, Sound(h), NEW b \in DOMAIN h, NEW n \in Nat, n <= h[b].size
    PROVE  LET g == Allocated(h, b, n)
           IN /\ Sound(g)
              /\ DOMAIN h \subseteq DOMAIN g
              /\ \A x \in DOMAIN g : g[x].free <=> x # b /\ (x \in DOMAIN h => h[x].free)
              /\ \A x \in DOMAIN h \ {b} : g[x].size = h[x].size
              /\ n <= g[b].size
<1> DEFINE s == SplitBlock(h, b, n)
           g == [s EXCEPT ![b].free = FALSE]
<1>1. Sound(s) /\ b \in DOMAIN s
  BY SplitSound, SplitFacts
<1>2. s \in [DOMAIN s -> Field]
  BY <1>1 DEF Sound, Typed
<1>3. /\ DOMAIN h \subseteq DOMAIN s
      /\ \A x \in DOMAIN s \ DOMAIN h : s[x].free
      /\ \A x \in DOMAIN h : s[x].free = h[x].free
      /\ \A x \in DOMAIN h \ {b} : s[x].size = h[x].size
      /\ n <= s[b].size
  BY SplitFacts
<1>4. Allocated(h, b, n) = g
  BY DEF Allocated
<1> HIDE DEF s
<1>5. Sound(g)
  BY <1>1, MarkSound
<1>6. /\ DOMAIN g = DOMAIN s
      /\ \A x \in DOMAIN s : g[x].size = s[x].size /\ (x # b => g[x].free = s[x].free)
      /\ ~g[b].free
  BY <1>1, <1>2 DEF Field
<1> HIDE DEF g
<1>7. \A x \in DOMAIN g : g[x].free <=> x # b /\ (x \in DOMAIN h => h[x].free)
  BY <1>3, <1>6
<1> QED
  BY <1>3, <1>4, <1>5, <1>6, <1>7

\* kfree on a sound list: only free blocks and b are taken in by others, and
\* only free blocks and b grow.
LEMMA FreedSound ==
    ASSUME NEW h, Sound(h), NEW b \in DOMAIN h
    PROVE  LET g == Freed(h, b)
           IN /\ Sound(g)
              /\ DOMAIN g \subseteq DOMAIN h
              /\ \A x \in DOMAIN h \ DOMAIN g : x = b \/ h[x].free
              /\ \A x \in DOMAIN g : g[x].free <=> x = b \/ h[x].free
              /\ \A x \in DOMAIN g : g[x].size # h[x].size => x = b \/ h[x].free
<1> DEFINE m == [h EXCEPT ![b].free = TRUE]
           n == m[b].next
           p == m[b].prev
           one == IF n # NULL /\ m[n].free THEN Absorb(m, b, n) ELSE m
           g == IF p # NULL /\ one[p].free THEN Absorb(one, p, b) ELSE one
<1>1. Freed(h, b) = g
  BY DEF Freed, Coalesce
<1>2. Sound(m)
  BY MarkSound
<1>3. h \in [DOMAIN h -> Field]
  BY DEF Sound, Typed
<1>4. /\ DOMAIN m = DOMAIN h
      /\ \A x \in DOMAIN h : m[x].size = h[x].size /\ (m[x].free <=> x = b \/ h[x].free)
  BY <1>3 DEF Field
<1>5. /\ n # NULL => n \in DOMAIN m /\ n # b
      /\ p # NULL => p \in DOMAIN m /\ m[p].next = b /\ p # b /\ p # n
  <2>1. /\ b \in DOMAIN m /\ Header \in Nat /\ Header > 0
        /\ \A x \in DOMAIN m : x \in Nat /\ x # NULL /\ m[x].size \in Nat
    BY <1>2, <1>4, AddrFacts, Arena DEF Sound, Typed, Field
  <2>2. n # NULL => n \in DOMAIN m /\ n = b + Header + m[b].size
    BY <1>2, <1>4 DEF Sound, Forward, LimitOf
  <2>3. p # NULL => p \in DOMAIN m /\ m[p].next = b
    BY <1>2, <1>4 DEF Sound, Backward
  <2>4. p # NULL => b = p + Header + m[p].size
    BY <1>2, <2>1, <2>3 DEF Sound, Forward, LimitOf
  <2> HIDE DEF m, n, p
  <2>5. n # NULL => n # b /\ b < n
    BY <2>1, <2>2
  <2>6. p # NULL => p # b /\ p < b
    BY <2>1, <2>3, <2>4
  <2> QED
    BY <2>1, <2>2, <2>3, <2>5, <2>6
<1> HIDE DEF m
<1>6. /\ Sound(one) /\ b \in DOMAIN one /\ DOMAIN one \subseteq DOMAIN m
      /\ \A x \in DOMAIN m \ DOMAIN one : m[x].free
      /\ \A x \in DOMAIN one : one[x].free = m[x].free
      /\ \A x \in DOMAIN one : one[x].size # m[x].size => x = b
      /\ p # NULL => p \in DOMAIN one /\ one[p].next = b
  <2>1. CASE n # NULL /\ m[n].free
    <3>1. one = Absorb(m, b, n)
      BY <2>1
    <3>2. n \in DOMAIN m /\ b \in DOMAIN m /\ m[b].next = n /\ m[b].prev = p /\ b # n
      BY <1>4, <1>5, <2>1
    <3> HIDE DEF one, n, p
    <3>3. /\ Sound(one) /\ DOMAIN one = DOMAIN m \ {n}
          /\ \A x \in DOMAIN m \ {n} : one[x].free = m[x].free
          /\ \A x \in DOMAIN m \ {b, n} : one[x].size = m[x].size
          /\ one[b].prev = p
      BY <1>2, <3>1, <3>2, AbsorbSound
    <3>4. p # NULL => p \in DOMAIN one /\ one[p].next = b
      <4>1. p # NULL => p \in DOMAIN one
        BY <1>5, <3>3
      <4>2. one[b].prev # NULL => one[one[b].prev].next = b
        BY <3>2, <3>3 DEF Sound, Backward
      <4> QED
        BY <4>1, <4>2, <3>3
    <3> QED
      BY <1>5, <2>1, <3>2, <3>3, <3>4
  <2>2. CASE ~(n # NULL /\ m[n].free)
    <3>1. one = m
      BY <2>2
    <3> HIDE DEF one
    <3> QED
      BY <1>2, <1>4, <1>5, <3>1
  <2> QED
    BY <2>1, <2>2
<1> HIDE DEF one, n, p
<1>7. CASE p # NULL /\ one[p].free
  <2>1. g = Absorb(one, p, b)
    BY <1>7
  <2>2. /\ Sound(g) /\ DOMAIN g = DOMAIN one \ {b}
        /\ \A x \in DOMAIN one \ {b} : g[x].free = one[x].free
        /\ \A x \in DOMAIN one \ {p, b} : g[x].size = one[x].size
    <3>1. Sound(one) /\ p \in DOMAIN one /\ b \in DOMAIN one /\ one[p].next = b
      BY <1>6, <1>7
    <3> HIDE DEF g
    <3> QED
      BY <2>1, <3>1, AbsorbSound
  <2> HIDE DEF g
  <2> QED
    BY <1>1, <1>4, <1>6, <1>7, <2>2
<1>8. CASE ~(p # NULL /\ one[p].free)
  <2>1. g = one
    BY <1>8
  <2> HIDE DEF g
  <2> QED
    BY <1>1, <1>4, <1>6, <2>1
<1> QED
  BY <1>7, <1>8

-----------------------------------------------------------------------------
(***************************************************************************)
(* The specification.                                                      *)
(***************************************************************************)

\* The owners' view of the heap.
Ownership == /\ DOMAIN req \subseteq DOMAIN hdr
             /\ req \in [DOMAIN req -> Nat]
             /\ FreeMeansUnowned

\* The inductive invariant.
HeapInv == Sound(hdr) /\ Ownership /\ used \in 0..(SizeMod - 1) /\ ops \in OpSets

\* A sound list is what the properties ask for.
LEMMA InvImplies == HeapInv => TypeOK /\ Tiled /\ NoOverlap /\ FreeMeansUnowned
<1> SUFFICES ASSUME HeapInv PROVE TypeOK /\ Tiled /\ NoOverlap
  BY DEF HeapInv, Ownership
<1>1. Sound(hdr)
  BY DEF HeapInv
<1>2. \A b \in DOMAIN hdr : /\ hdr[b] \in Field /\ b \in Nat /\ Base <= b
                            /\ b + Header + hdr[b].size <= End
  BY <1>1, AddrFacts DEF Sound, Typed, Forward, LimitOf
<1>3. \A b \in DOMAIN hdr : hdr[b] \in HeaderFields
  <2>1. \A x \in Ptr : x \in Int
    BY AddrFacts DEF Ptr, NULL
  <2>2. \A b \in DOMAIN hdr : hdr[b].size \in 0..(SizeMod - 1)
    BY <1>2, Arena, WidthAssumption DEF Field
  <2> QED
    BY <1>2, <2>1, <2>2 DEF Field, HeaderFields
<1>4. TypeOK
  <2>1. hdr \in [DOMAIN hdr -> HeaderFields]
    BY <1>1, <1>3 DEF Sound, Typed
  <2> QED
    BY <1>1, <2>1 DEF TypeOK, HeapInv, Ownership, Sound, Typed
<1>5. Tiled
  BY <1>1, <1>2, AddrFacts DEF Tiled, Limit, Sound, Forward, LimitOf
<1>6. NoOverlap
  BY <1>1 DEF NoOverlap, Limit, Sound, Disjoint, LimitOf
<1> QED
  BY <1>4, <1>5, <1>6

\* heap_init leaves one block.
LEMMA InitInv == Init => HeapInv
<1> SUFFICES ASSUME Init PROVE HeapInv
  OBVIOUS
<1> DEFINE f == [size |-> Total - Header, free |-> TRUE, next |-> NULL, prev |-> NULL]
<1>1. hdr = [b \in {Base} |-> f]
  BY DEF Init
<1>2. f \in Field /\ f.size = Total - Header /\ f.next = NULL /\ f.prev = NULL /\ f.free
  BY Arena DEF Field, Ptr
<1> HIDE DEF f
<1>3. DOMAIN hdr = {Base} /\ hdr[Base] = f
  BY <1>1
<1>4. Typed(hdr)
  BY <1>1, <1>2, <1>3, Arena, AddrFacts DEF Typed
<1>5. LimitOf(hdr, Base) = End
  BY <1>2, <1>3, Arena DEF LimitOf
<1>6. Sound(hdr)
  BY <1>2, <1>3, <1>4, <1>5, Arena DEF Sound, Forward, Backward, Disjoint
<1>7. DOMAIN req = {} /\ req \in [DOMAIN req -> Nat] /\ used = 0 /\ ops \in OpSets
  BY DEF Init
<1>8. FreeMeansUnowned
  BY <1>2, <1>3, <1>7 DEF FreeMeansUnowned
<1>9. used \in 0..(SizeMod - 1)
  BY <1>7, Arena, WidthAssumption
<1> QED
  BY <1>6, <1>7, <1>8, <1>9 DEF HeapInv, Ownership

\* The counter stays within size_t.
LEMMA UsedRange == \A i \in Int : i % SizeMod \in 0..(SizeMod - 1)
BY Arena, WidthAssumption

\* Every call keeps the list sound.
LEMMA NextInv == HeapInv /\ [Next]_vars => HeapInv'
<1> SUFFICES ASSUME HeapInv, [Next]_vars PROVE HeapInv'
  OBVIOUS
<1>0. /\ Sound(hdr) /\ DOMAIN req \subseteq DOMAIN hdr
      /\ req \in [DOMAIN req -> Nat] /\ used \in Nat
      /\ \A b \in DOMAIN hdr : hdr[b].free <=> b \notin DOMAIN req
      /\ \A n \in Sizes : n \in Nat /\ AlignSize(n) \in Nat
  BY HeapCallAssumption, AlignSizeNat, Arena DEF HeapInv, Ownership, FreeMeansUnowned
<1>t. ops' \in OpSets
  BY DEF Next, Kmalloc, Kfree, KreallocShrink, KreallocMove, vars, HeapInv
<1>s. \A h : Sound(h) => \A b \in DOMAIN h : h[b].size \in Nat
  BY DEF Sound, Typed, Field
<1>1. CASE \E n \in Sizes : Kmalloc(n)
  <2>1. PICK n \in Sizes : Kmalloc(n)
    BY <1>1
  <2> DEFINE b == FindFree(hdr, AlignSize(n))
  <2>2. /\ b # NULL /\ hdr' = Allocated(hdr, b, AlignSize(n)) /\ req' = Put(req, b, n)
        /\ used' = (used + hdr'[b].size + Header) % SizeMod
    BY <2>1 DEF Kmalloc
  <2>3. b \in DOMAIN hdr /\ hdr[b].free /\ AlignSize(n) <= hdr[b].size
    BY <1>0, <1>s, <2>2, FindFreeFits
  <2> HIDE DEF b
  <2>4. /\ Sound(hdr') /\ DOMAIN hdr \subseteq DOMAIN hdr'
        /\ \A x \in DOMAIN hdr' : hdr'[x].free <=> x # b /\ (x \in DOMAIN hdr => hdr[x].free)
    BY <1>0, <2>2, <2>3, AllocatedSound
  <2>5. DOMAIN req' = DOMAIN req \cup {b} /\ req' \in [DOMAIN req' -> Nat]
    BY <1>0, <2>2 DEF Put
  <2>6. used' \in 0..(SizeMod - 1)
    BY <1>0, <1>s, <2>2, <2>3, <2>4, UsedRange, Arena
  <2> QED
    BY <1>0, <1>t, <2>3, <2>4, <2>5, <2>6 DEF HeapInv, Ownership, FreeMeansUnowned
<1>2. CASE \E b \in DOMAIN req : Kfree(b)
  <2>1. PICK b \in DOMAIN req : Kfree(b)
    BY <1>2
  <2>2. /\ hdr' = Freed(hdr, b) /\ req' = Drop(req, b)
        /\ used' = (used - (hdr[b].size + Header)) % SizeMod
    BY <2>1 DEF Kfree, FreedSize
  <2>3. /\ Sound(hdr') /\ DOMAIN hdr' \subseteq DOMAIN hdr
        /\ \A x \in DOMAIN hdr \ DOMAIN hdr' : x = b \/ hdr[x].free
        /\ \A x \in DOMAIN hdr' : hdr'[x].free <=> x = b \/ hdr[x].free
    BY <1>0, <2>1, <2>2, FreedSound
  <2>4. DOMAIN req' = DOMAIN req \ {b} /\ req' \in [DOMAIN req' -> Nat]
    BY <1>0, <2>2 DEF Drop
  <2>5. used' \in 0..(SizeMod - 1)
    BY <1>0, <1>s, <2>2, UsedRange, Arena
  <2> QED
    BY <1>0, <1>t, <2>3, <2>4, <2>5 DEF HeapInv, Ownership, FreeMeansUnowned
<1>3. CASE \E b \in DOMAIN req, n \in Sizes : KreallocShrink(b, n)
  <2>1. PICK b \in DOMAIN req, n \in Sizes : KreallocShrink(b, n)
    BY <1>3
  <2>2. /\ AlignSize(n) <= hdr[b].size /\ hdr' = SplitBlock(hdr, b, AlignSize(n))
        /\ req' = Put(req, b, n) /\ used' = used
    BY <2>1 DEF KreallocShrink
  <2>3. /\ Sound(hdr') /\ DOMAIN hdr \subseteq DOMAIN hdr'
        /\ \A x \in DOMAIN hdr' \ DOMAIN hdr : hdr'[x].free
        /\ \A x \in DOMAIN hdr : hdr'[x].free = hdr[x].free
    BY <1>0, <2>2, SplitSound, SplitFacts
  <2>4. DOMAIN req' = DOMAIN req /\ req' \in [DOMAIN req' -> Nat]
    BY <1>0, <2>2 DEF Put
  <2> QED
    BY <1>0, <1>t, <2>2, <2>3, <2>4 DEF HeapInv, Ownership, FreeMeansUnowned
<1>4. CASE \E b \in DOMAIN req, n \in Sizes : KreallocMove(b, n)
  <2>1. PICK b \in DOMAIN req, n \in Sizes : KreallocMove(b, n)
    BY <1>4
  <2> DEFINE c == FindFree(hdr, AlignSize(n))
             h == Allocated(hdr, c, AlignSize(n))
  <2>2. /\ c # NULL /\ hdr' = Freed(h, b) /\ req' = Drop(Put(req, c, n), b)
        /\ used' = (used + h[c].size + Header - (h[b].size + Header)) % SizeMod
    BY <2>1 DEF KreallocMove, FreedSize
  <2>3. c \in DOMAIN hdr /\ hdr[c].free /\ AlignSize(n) <= hdr[c].size
    BY <1>0, <1>s, <2>2, FindFreeFits
  <2> HIDE DEF c
  <2>4. /\ Sound(h) /\ DOMAIN hdr \subseteq DOMAIN h
        /\ \A x \in DOMAIN h : h[x].free <=> x # c /\ (x \in DOMAIN hdr => hdr[x].free)
    BY <1>0, <2>3, AllocatedSound
  <2> HIDE DEF h
  <2>5. /\ Sound(hdr') /\ DOMAIN hdr' \subseteq DOMAIN h
        /\ \A x \in DOMAIN h \ DOMAIN hdr' : x = b \/ h[x].free
        /\ \A x \in DOMAIN hdr' : hdr'[x].free <=> x = b \/ h[x].free
    BY <1>0, <2>2, <2>4, FreedSound
  <2>6. DOMAIN req' = (DOMAIN req \cup {c}) \ {b} /\ req' \in [DOMAIN req' -> Nat]
    BY <1>0, <2>2 DEF Drop, Put
  <2>7. used' \in 0..(SizeMod - 1)
    <3>1. h[c].size \in Nat /\ h[b].size \in Nat
      BY <1>0, <1>s, <2>3, <2>4
    <3> QED
      BY <1>0, <2>2, <3>1, UsedRange, Arena
  <2>8. b # c
    BY <1>0, <2>3
  <2> QED
    BY <1>0, <1>t, <2>3, <2>4, <2>5, <2>6, <2>7, <2>8 DEF HeapInv, Ownership, FreeMeansUnowned
<1>5. CASE UNCHANGED vars
  BY <1>5 DEF vars, HeapInv, Ownership, FreeMeansUnowned
<1> QED
  BY <1>1, <1>2, <1>3, <1>4, <1>5 DEF Next

\* Whatever is allocated, freed, shrunk and moved, in whatever order, the
\* blocks tile the arena without overlap, the links of the list agree, and a
\* block is marked in use exactly while it has an owner.
THEOREM HeapCorrect == Spec => [](TypeOK /\ Tiled /\ NoOverlap /\ FreeMeansUnowned)
BY InitInv, NextInv, InvImplies, PTL DEF Spec

\* The blocks cover the arena from its first byte to its last with no gap, and
\* each block's back link names the block before it.
THEOREM TilingCorrect == Spec => []Tiled
BY HeapCorrect, PTL

-----------------------------------------------------------------------------
\* Unless it overflows, a rounded size is not smaller than the size.
LEMMA AlignSizeCovers ==
    ASSUME NEW n \in Nat, n + Align <= SizeMod
    PROVE  n <= AlignSize(n)
<1>1. SizeMod \in Nat \ {0} /\ Align \in Nat \ {0}
  BY WidthAssumption, ArenaAssumption, LayoutAssumption
<1> DEFINE m == n + Align - 1
<1>2. m \in Nat /\ m < SizeMod
  BY <1>1
<1>3. m = n + Align - 1
  OBVIOUS
<1>4. AlignSize(n) = (m % SizeMod) - ((m % SizeMod) % Align)
  BY DEF AlignSize, RoundDown
<1> HIDE DEF m
<1>5. m % SizeMod = m
  BY <1>1, <1>2
<1>6. m % Align \in 0..(Align - 1)
  BY <1>1, <1>2, Remainder
<1> QED
  BY <1>1, <1>2, <1>3, <1>4, <1>5, <1>6

\* No call takes room from an owner.
LEMMA NextRequest ==
    ASSUME \A n \in Sizes : n + Align <= SizeMod
    PROVE  HeapInv /\ RequestHonoured /\ [Next]_vars => RequestHonoured'
<1> SUFFICES ASSUME HeapInv, RequestHonoured, [Next]_vars PROVE RequestHonoured'
  OBVIOUS
<1>0. /\ Sound(hdr) /\ DOMAIN req \subseteq DOMAIN hdr
      /\ \A b \in DOMAIN hdr : hdr[b].free <=> b \notin DOMAIN req
      /\ \A n \in Sizes : n \in Nat /\ AlignSize(n) \in Nat /\ n <= AlignSize(n)
      /\ \A b \in DOMAIN req : req[b] <= hdr[b].size
  BY HeapCallAssumption, AlignSizeNat, AlignSizeCovers, Arena
     DEF HeapInv, Ownership, FreeMeansUnowned, RequestHonoured
<1>s. \A h : Sound(h) => \A b \in DOMAIN h : h[b].size \in Nat
  BY DEF Sound, Typed, Field
<1>1. CASE \E n \in Sizes : Kmalloc(n)
  <2>1. PICK n \in Sizes : Kmalloc(n)
    BY <1>1
  <2> DEFINE b == FindFree(hdr, AlignSize(n))
  <2>2. b # NULL /\ hdr' = Allocated(hdr, b, AlignSize(n)) /\ req' = Put(req, b, n)
    BY <2>1 DEF Kmalloc
  <2>3. b \in DOMAIN hdr /\ hdr[b].free /\ AlignSize(n) <= hdr[b].size
    BY <1>0, <1>s, <2>2, FindFreeFits
  <2> HIDE DEF b
  <2>4. /\ \A x \in DOMAIN hdr \ {b} : hdr'[x].size = hdr[x].size
        /\ AlignSize(n) <= hdr'[b].size /\ hdr'[b].size \in Nat
    BY <1>0, <1>s, <2>2, <2>3, AllocatedSound
  <2>5. /\ DOMAIN req' = DOMAIN req \cup {b} /\ req'[b] = n
        /\ \A x \in DOMAIN req \ {b} : req'[x] = req[x]
    BY <2>2 DEF Put
  <2> QED
    BY <1>0, <2>4, <2>5 DEF RequestHonoured
<1>2. CASE \E b \in DOMAIN req : Kfree(b)
  <2>1. PICK b \in DOMAIN req : hdr' = Freed(hdr, b) /\ req' = Drop(req, b)
    BY <1>2 DEF Kfree
  <2>2. \A x \in DOMAIN hdr' : hdr'[x].size # hdr[x].size => x = b \/ hdr[x].free
    BY <1>0, <2>1, FreedSound
  <2>3. \A x \in DOMAIN hdr \ DOMAIN hdr' : x = b \/ hdr[x].free
    BY <1>0, <2>1, FreedSound
  <2>4. /\ DOMAIN req' = DOMAIN req \ {b}
        /\ \A x \in DOMAIN req' : req'[x] = req[x]
    BY <2>1 DEF Drop
  <2> QED
    BY <1>0, <2>2, <2>3, <2>4 DEF RequestHonoured
<1>3. CASE \E b \in DOMAIN req, n \in Sizes : KreallocShrink(b, n)
  <2>1. PICK b \in DOMAIN req, n \in Sizes :
           /\ AlignSize(n) <= hdr[b].size /\ hdr' = SplitBlock(hdr, b, AlignSize(n))
           /\ req' = Put(req, b, n)
    BY <1>3 DEF KreallocShrink
  <2>2. Sound(hdr') /\ DOMAIN hdr \subseteq DOMAIN hdr'
    BY <1>0, <2>1, SplitSound, SplitFacts
  <2>3. /\ \A x \in DOMAIN hdr \ {b} : hdr'[x].size = hdr[x].size
        /\ AlignSize(n) <= hdr'[b].size /\ hdr'[b].size \in Nat
    BY <1>0, <1>s, <2>1, <2>2, SplitFacts
  <2>4. /\ DOMAIN req' = DOMAIN req /\ req'[b] = n
        /\ \A x \in DOMAIN req \ {b} : req'[x] = req[x]
    BY <2>1 DEF Put
  <2> QED
    BY <1>0, <2>3, <2>4 DEF RequestHonoured
<1>4. CASE \E b \in DOMAIN req, n \in Sizes : KreallocMove(b, n)
  <2>1. PICK b \in DOMAIN req, n \in Sizes : KreallocMove(b, n)
    BY <1>4
  <2> DEFINE c == FindFree(hdr, AlignSize(n))
             h == Allocated(hdr, c, AlignSize(n))
  <2>2. c # NULL /\ hdr' = Freed(h, b) /\ req' = Drop(Put(req, c, n), b)
    BY <2>1 DEF KreallocMove
  <2>3. c \in DOMAIN hdr /\ hdr[c].free /\ AlignSize(n) <= hdr[c].size
    BY <1>0, <1>s, <2>2, FindFreeFits
  <2> HIDE DEF c
  <2>4. /\ Sound(h) /\ DOMAIN hdr \subseteq DOMAIN h
        /\ \A x \in DOMAIN h : h[x].free <=> x # c /\ (x \in DOMAIN hdr => hdr[x].free)
        /\ \A x \in DOMAIN hdr \ {c} : h[x].size = hdr[x].size
        /\ AlignSize(n) <= h[c].size
    BY <1>0, <2>3, AllocatedSound
  <2> HIDE DEF h
  <2>5. \A x \in DOMAIN hdr' : hdr'[x].size # h[x].size => x = b \/ h[x].free
    BY <1>0, <2>2, <2>4, FreedSound
  <2>6. \A x \in DOMAIN h \ DOMAIN hdr' : x = b \/ h[x].free
    BY <1>0, <2>2, <2>4, FreedSound
  <2>7. /\ DOMAIN req' = (DOMAIN req \cup {c}) \ {b}
        /\ \A x \in DOMAIN req' : req'[x] = IF x = c THEN n ELSE req[x]
    BY <2>2 DEF Drop, Put
  <2>8. b # c /\ n <= h[c].size
    BY <1>0, <1>s, <2>3, <2>4
  <2>9. \A x \in DOMAIN req' : /\ x \in DOMAIN h /\ ~h[x].free /\ x # b
                               /\ req'[x] <= h[x].size
    BY <1>0, <2>3, <2>4, <2>7, <2>8
  <2> QED
    BY <2>5, <2>6, <2>9 DEF RequestHonoured
<1>5. CASE UNCHANGED vars
  BY <1>5 DEF vars, RequestHonoured
<1> QED
  BY <1>1, <1>2, <1>3, <1>4, <1>5 DEF Next

\* As long as nobody asks for so much that the rounding overflows size_t, the
\* block behind every pointer has the room its owner asked for.
THEOREM RequestCorrect ==
    ASSUME \A n \in Sizes : n + Align <= SizeMod
    PROVE  Spec => []RequestHonoured
<1>1. Init => RequestHonoured
  BY DEF Init, RequestHonoured
<1>2. HeapInv /\ RequestHonoured /\ [Next]_vars => RequestHonoured'
  BY NextRequest
<1> QED
  BY <1>1, <1>2, InitInv, NextInv, PTL DEF Spec

-----------------------------------------------------------------------------
(***************************************************************************)
(* Coalescing.                                                             *)
(***************************************************************************)

\* The property as a predicate of a list.
Joined(h) == \A x \in DOMAIN h : h[x].free /\ h[x].next # NULL => ~h[h[x].next].free

\* kmalloc takes a free block, whose neighbours are in use: what it splits off
\* has no free neighbour either.
LEMMA AllocatedJoined ==
    ASSUME NEW h, Sound(h), Joined(h), NEW b \in DOMAIN h, h[b].free,
           NEW n \in Nat, n <= h[b].size
    PROVE  Joined(Allocated(h, b, n))
<1> DEFINE c == b + Header + n
           s == SplitBlock(h, b, n)
           g == [s EXCEPT ![b].free = FALSE]
<1>1. Allocated(h, b, n) = g
  BY DEF Allocated
<1>2. Sound(s) /\ b \in DOMAIN s
  BY SplitSound, SplitFacts
<1>3. /\ DOMAIN g = DOMAIN s /\ ~g[b].free
      /\ \A x \in DOMAIN s : g[x].next = s[x].next /\ (x # b => g[x].free = s[x].free)
  <2> HIDE DEF s
  <2>1. s \in [DOMAIN s -> Field]
    BY <1>2 DEF Sound, Typed
  <2> QED
    BY <1>2, <2>1 DEF Field
<1>4. \A x \in DOMAIN h : h[x] \in Field /\ x # NULL
  BY AddrFacts DEF Sound, Typed
<1>5. \A x \in DOMAIN h : h[x].next # NULL => h[x].next \in DOMAIN h
  BY DEF Sound, Forward
<1>6. CASE h[b].size < n + MinBlock
  <2>1. s = h
    BY <1>6 DEF SplitBlock
  <2> HIDE DEF g, s
  <2> QED
    BY <1>1, <1>3, <1>5, <2>1 DEF Joined
<1>7. CASE ~(h[b].size < n + MinBlock)
  <2>1. /\ s = [x \in DOMAIN h \cup {c} |->
                 IF x = c THEN [size |-> h[b].size - n - Header, free |-> TRUE,
                                next |-> h[b].next, prev |-> b]
                 ELSE IF x = b THEN [h[b] EXCEPT !.size = n, !.next = c]
                 ELSE IF x = h[b].next THEN [h[x] EXCEPT !.prev = c]
                 ELSE h[x]]
    BY <1>7 DEF SplitBlock
  <2>2. c \notin DOMAIN h
    <3>1. b \in Nat /\ h[b].size \in Nat
      BY AddrFacts DEF Sound, Typed, Field
    <3>2. b < c /\ c < LimitOf(h, b) /\ c \in Nat /\ LimitOf(h, b) \in Nat
      BY <1>7, <3>1, Arena DEF LimitOf
    <3>3. c \in DOMAIN h => LimitOf(h, b) <= c
      BY <3>2 DEF Sound, Disjoint
    <3> QED
      BY <3>2, <3>3
  <2> HIDE DEF c, s, g
  <2>3. DOMAIN s = DOMAIN h \cup {c} /\ s[c].next = h[b].next /\ c # b
    BY <2>1, <2>2
  <2>4. \A x \in DOMAIN h \ {b} : s[x].next = h[x].next /\ s[x].free = h[x].free
    BY <1>4, <2>1, <2>2 DEF Field
  <2>5. h[b].next # NULL => h[b].next \in DOMAIN h /\ ~h[h[b].next].free
    BY <1>5 DEF Joined
  <2>6. \A x \in DOMAIN g : g[x].free /\ g[x].next # NULL => ~g[g[x].next].free
    <3> SUFFICES ASSUME NEW x \in DOMAIN g, g[x].free, g[x].next # NULL
                 PROVE  ~g[g[x].next].free
      OBVIOUS
    <3>1. CASE x = c
      BY <3>1, <1>3, <2>3, <2>4, <2>5
    <3>2. CASE x # c
      <4>1. x \in DOMAIN h \ {b} /\ h[x].free /\ g[x].next = h[x].next
        BY <3>2, <1>3, <2>3, <2>4
      <4>2. h[x].next \in DOMAIN h /\ ~h[h[x].next].free
        BY <4>1, <1>5 DEF Joined
      <4> QED
        BY <4>1, <4>2, <1>3, <2>3, <2>4
    <3> QED
      BY <3>1, <3>2
  <2> QED
    BY <1>1, <2>6 DEF Joined
<1> QED
  BY <1>6, <1>7

\* kfree joins the block with both neighbours, whose own neighbours are in use.
LEMMA FreedJoined ==
    ASSUME NEW h, Sound(h), Joined(h), NEW b \in DOMAIN h
    PROVE  Joined(Freed(h, b))
<1> DEFINE m == [h EXCEPT ![b].free = TRUE]
           n == m[b].next
           p == m[b].prev
           one == IF n # NULL /\ m[n].free THEN Absorb(m, b, n) ELSE m
           g == IF p # NULL /\ one[p].free THEN Absorb(one, p, b) ELSE one
<1>1. Freed(h, b) = g
  BY DEF Freed, Coalesce
<1>2. Sound(m)
  BY MarkSound
<1>3. h \in [DOMAIN h -> Field]
  BY DEF Sound, Typed
<1>4. /\ DOMAIN m = DOMAIN h
      /\ \A x \in DOMAIN h : /\ m[x].next = h[x].next
                             /\ m[x].free <=> x = b \/ h[x].free
  BY <1>3 DEF Field
<1> HIDE DEF m
<1>5. m[b].next = n /\ m[b].prev = p
  OBVIOUS
<1> HIDE DEF n, p
<1>6. \A x \in DOMAIN m : /\ x \in Nat /\ x # NULL
                          /\ m[x].next # NULL => /\ m[x].next \in DOMAIN m /\ x < m[x].next
                                                 /\ m[m[x].next].prev = x
  <2>1. \A x \in DOMAIN m : x \in Nat /\ x # NULL /\ m[x].size \in Nat
    BY <1>2, AddrFacts DEF Sound, Typed, Field
  <2>2. \A x \in DOMAIN m : m[x].next # NULL =>
          m[x].next = x + Header + m[x].size /\ m[x].next \in DOMAIN m /\ m[m[x].next].prev = x
    BY <1>2 DEF Sound, Forward, LimitOf
  <2> QED
    BY <2>1, <2>2, Arena
<1>7. \A x \in DOMAIN m \ {b} : m[x].free /\ m[x].next # NULL /\ m[x].next # b =>
         ~m[m[x].next].free
  BY <1>4, <1>6 DEF Joined
<1>8. /\ Sound(one) /\ b \in DOMAIN one /\ one[b].prev = p /\ DOMAIN one \subseteq DOMAIN m
      /\ \A x \in DOMAIN one \ {b} : one[x].next = m[x].next
      /\ \A x \in DOMAIN one : one[x].free = m[x].free
      /\ one[b].next # NULL => one[b].next \in DOMAIN one /\ ~m[one[b].next].free
  <2>1. CASE n # NULL /\ m[n].free
    <3>1. n \in DOMAIN m /\ b \in DOMAIN m /\ n # b
      BY <1>4, <1>5, <1>6, <2>1
    <3>2. one = Absorb(m, b, n)
      BY <2>1
    <3> HIDE DEF one
    <3>3. /\ Sound(one) /\ DOMAIN one = DOMAIN m \ {n}
          /\ \A x \in DOMAIN m \ {n} : one[x].free = m[x].free
          /\ \A x \in DOMAIN m \ {b, n} : one[x].next = m[x].next
          /\ one[b].prev = p /\ one[b].next = m[n].next
      BY <1>2, <1>5, <3>1, <3>2, AbsorbSound
    <3>4. m[n].next # NULL => m[n].next \in DOMAIN m /\ m[n].next # n /\ m[n].next # b
      BY <1>5, <1>6, <2>1, <3>1
    <3>5. m[n].next # NULL => ~m[m[n].next].free
      BY <1>7, <2>1, <3>1, <3>4
    <3> QED
      BY <3>1, <3>3, <3>4, <3>5
  <2>2. CASE ~(n # NULL /\ m[n].free)
    <3>1. one = m
      BY <2>2
    <3> HIDE DEF one
    <3> QED
      BY <1>2, <1>4, <1>5, <1>6, <2>2, <3>1
  <2> QED
    BY <2>1, <2>2
<1> HIDE DEF one
<1>9. \A x \in DOMAIN one : one[x].next # NULL => one[x].next \in DOMAIN one
  BY <1>8 DEF Sound, Forward
<1>10. \A x \in DOMAIN one \ {b} : one[x].next = b => x = p
  BY <1>4, <1>5, <1>6, <1>8
<1>11. \A x \in DOMAIN one : one[x].free /\ one[x].next # NULL /\ one[x].next # b
          => ~one[one[x].next].free
  BY <1>7, <1>8, <1>9
<1>12. CASE p # NULL /\ one[p].free
  <2>1. g = Absorb(one, p, b)
    BY <1>12
  <2>2. p \in DOMAIN one /\ one[p].next = b
    BY <1>8, <1>12 DEF Sound, Backward
  <2> HIDE DEF g
  <2>3. /\ DOMAIN g = DOMAIN one \ {b} /\ p # b
        /\ \A x \in DOMAIN one \ {b} : g[x].free = one[x].free
        /\ \A x \in DOMAIN one \ {p, b} : g[x].next = one[x].next
        /\ g[p].next = one[b].next
    <3>1. Sound(one) /\ b \in DOMAIN one
      BY <1>8
    <3>2. /\ DOMAIN Absorb(one, p, b) = DOMAIN one \ {b} /\ p # b
          /\ \A x \in DOMAIN one \ {b} : Absorb(one, p, b)[x].free = one[x].free
          /\ \A x \in DOMAIN one \ {p, b} : Absorb(one, p, b)[x].next = one[x].next
          /\ Absorb(one, p, b)[p].next = one[b].next
      BY <2>2, <3>1, AbsorbSound
    <3> QED
      BY <2>1, <3>2
  <2>4. one[b].next # NULL => /\ one[b].next \in DOMAIN one \ {b}
                              /\ ~one[one[b].next].free
    <3>1. one[b].next # b
      BY <1>4, <1>6, <1>8, <1>10, <2>3, AddrFacts, Arena DEF Sound, Typed, Forward, LimitOf, Field
    <3> QED
      BY <1>8, <3>1
  <2>5. Joined(g)
    <3> SUFFICES ASSUME NEW x \in DOMAIN g, g[x].free, g[x].next # NULL
                 PROVE  ~g[g[x].next].free
      BY DEF Joined
    <3>1. CASE x = p
      BY <3>1, <2>3, <2>4
    <3>2. CASE x # p
      <4>1. x \in DOMAIN one \ {p, b} /\ one[x].free /\ one[x].next # NULL
        BY <3>2, <2>3
      <4>2. one[x].next # b /\ one[x].next \in DOMAIN one /\ ~one[one[x].next].free
        BY <4>1, <1>9, <1>10, <1>11
      <4> QED
        BY <4>1, <4>2, <2>3
    <3> QED
      BY <3>1, <3>2
  <2> QED
    BY <1>1, <2>5
<1>13. CASE ~(p # NULL /\ one[p].free)
  <2>1. g = one
    BY <1>13
  <2> HIDE DEF g
  <2>2. \A x \in DOMAIN one : one[x].next = b => ~one[x].free
    <3> SUFFICES ASSUME NEW x \in DOMAIN one, one[x].next = b PROVE ~one[x].free
      OBVIOUS
    <3>1. x # b
      BY <1>8, AddrFacts, Arena DEF Sound, Typed, Forward, LimitOf, Field
    <3>2. x = p /\ x # NULL
      BY <1>6, <1>8, <1>10, <3>1
    <3> QED
      BY <1>13, <3>2
  <2> QED
    BY <1>1, <1>11, <2>1, <2>2 DEF Joined
<1> QED
  BY <1>12, <1>13

\* As long as krealloc is not used to shrink a block, no two free blocks lie
\* side by side: kfree never leaves memory in smaller pieces than it could.
THEOREM CoalesceCorrect ==
    Spec => []Coalesced
<1>1. Init => Coalesced
  <2> SUFFICES ASSUME Init PROVE \A b \in DOMAIN hdr : hdr[b].next = NULL
    BY DEF Coalesced
  <2> QED
    BY DEF Init
<1>2. HeapInv /\ Coalesced /\ [Next]_vars => Coalesced'
  <2> SUFFICES ASSUME HeapInv, Coalesced, [Next]_vars, "shrink" \notin ops'
               PROVE  Joined(hdr')
    BY DEF Coalesced, Joined
  <2>a. "shrink" \notin ops
    BY DEF Next, Kmalloc, Kfree, KreallocShrink, KreallocMove, vars
  <2>0. /\ Sound(hdr) /\ Joined(hdr) /\ DOMAIN req \subseteq DOMAIN hdr
        /\ \A n \in Sizes : AlignSize(n) \in Nat
        /\ \A b \in DOMAIN hdr : hdr[b].size \in Nat
    BY <2>a, HeapCallAssumption, AlignSizeNat, Arena
       DEF HeapInv, Ownership, Coalesced, Joined, Sound, Typed, Field
  <2>1. ASSUME NEW n \in Sizes, FindFree(hdr, AlignSize(n)) # NULL
        PROVE  LET h == Allocated(hdr, FindFree(hdr, AlignSize(n)), AlignSize(n))
               IN Sound(h) /\ Joined(h) /\ DOMAIN hdr \subseteq DOMAIN h
    <3> DEFINE b == FindFree(hdr, AlignSize(n))
    <3>1. b \in DOMAIN hdr /\ hdr[b].free /\ AlignSize(n) <= hdr[b].size
      BY <2>0, <2>1, FindFreeFits
    <3> HIDE DEF b
    <3>2. LET h == Allocated(hdr, b, AlignSize(n))
          IN Sound(h) /\ Joined(h) /\ DOMAIN hdr \subseteq DOMAIN h
      BY <2>0, <3>1, AllocatedSound, AllocatedJoined
    <3> QED
      BY <3>2 DEF b
  <2>2. CASE \E n \in Sizes : Kmalloc(n)
    BY <2>1, <2>2 DEF Kmalloc
  <2>3. CASE \E b \in DOMAIN req : Kfree(b)
    <3>1. PICK b \in DOMAIN req : hdr' = Freed(hdr, b)
      BY <2>3 DEF Kfree
    <3> QED
      BY <2>0, <3>1, FreedJoined
  <2>4. CASE \E b \in DOMAIN req, n \in Sizes : KreallocShrink(b, n)
    BY <2>4, <2>a DEF KreallocShrink
  <2>5. CASE \E b \in DOMAIN req, n \in Sizes : KreallocMove(b, n)
    <3>1. PICK b \in DOMAIN req, n \in Sizes : KreallocMove(b, n)
      BY <2>5
    <3> DEFINE c == FindFree(hdr, AlignSize(n))
               h == Allocated(hdr, c, AlignSize(n))
    <3>2. c # NULL /\ hdr' = Freed(h, b)
      BY <3>1 DEF KreallocMove
    <3>3. Sound(h) /\ Joined(h) /\ b \in DOMAIN h
      BY <2>0, <2>1, <3>2
    <3> HIDE DEF h
    <3> QED
      BY <3>2, <3>3, FreedJoined
  <2>6. CASE UNCHANGED vars
    BY <2>0, <2>6 DEF vars
  <2> QED
    BY <2>2, <2>3, <2>4, <2>5, <2>6 DEF Next
<1> QED
  BY <1>1, <1>2, InitInv, NextInv, PTL DEF Spec
=============================================================================
