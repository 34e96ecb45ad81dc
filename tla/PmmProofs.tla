----------------------------- MODULE PmmProofs ------------------------------
(***************************************************************************)
(* Theorems about Pmm, for every number of pages, every memory map and     *)
(* every sequence of calls.  The page count is exact whatever callers      *)
(* pass; that the bitmap is exact, that no page has two owners and that    *)
(* only usable memory is handed out is proved for callers that free what   *)
(* they own.  The search of PmmSearch, loop in loop, finds the lowest run  *)
(* that fits on every bitmap.                                              *)
(***************************************************************************)
EXTENDS PmmSearch, FiniteSetTheorems, WellFoundedInduction, TLAPS

-----------------------------------------------------------------------------
\* Every set of naturals that is not empty has a least element, which is what
\* the two searches return.
LEMMA LowestLeast ==
    ASSUME NEW T \in SUBSET Nat, T # {}
    PROVE  Lowest(T) \in T /\ \A y \in T : Lowest(T) <= y
<1>1. PICK x \in T : \A y \in T : ~ (<<y, x>> \in OpToRel(<, Nat))
  BY NatLessThanWellFounded, WFMin
<1>2. \A y \in T : ~(y < x)
  BY <1>1 DEF OpToRel
<1>3. \A y \in T : x <= y
  BY <1>2
<1> QED
  BY <1>3 DEF Lowest

\* Any set of pages is finite.
LEMMA PagesFinite ==
    ASSUME NEW S \in SUBSET Pages
    PROVE  IsFiniteSet(S) /\ Cardinality(S) \in Nat
<1>1. IsFiniteSet(Pages)
  BY FS_Interval, PmmAssumption DEF Pages
<1>2. IsFiniteSet(S)
  BY <1>1, FS_Subset
<1> QED
  BY <1>2, FS_CardinalityType

\* A bit that is set or cleared is counted once.
LEMMA BitsCounted ==
    ASSUME NEW S \in SUBSET Pages, NEW R \in SUBSET Pages
    PROVE  /\ Cardinality(S \ R) = Cardinality(S) - Cardinality(R \cap S)
           /\ Cardinality(S \cup R) = Cardinality(S) + Cardinality(R \ S)
<1>1. IsFiniteSet(S) /\ IsFiniteSet(R)
  BY PagesFinite
<1>2. R \cap S = S \cap R
  OBVIOUS
<1>3. Cardinality(S \ R) = Cardinality(S) - Cardinality(R \cap S)
  BY <1>1, <1>2, FS_Difference
<1>4. Cardinality(R \ S) = Cardinality(R) - Cardinality(R \cap S)
  BY <1>1, FS_Difference
<1>5. Cardinality(S \cup R) = Cardinality(S) + Cardinality(R) - Cardinality(S \cap R)
  BY <1>1, FS_Union
<1>6. Cardinality(S) \in Nat /\ Cardinality(R) \in Nat /\ Cardinality(R \cap S) \in Nat
  BY PagesFinite
<1> QED
  BY <1>2, <1>3, <1>4, <1>5, <1>6

\* Both ways to change bits keep the count exact.
LEMMA BitsKeepCount ==
    ASSUME bitmap \in SUBSET Pages, CountExact, NEW R \in SUBSET Pages,
           ClearBits(R) \/ SetBits(R)
    PROVE  bitmap' \in SUBSET Pages /\ CountExact'
BY BitsCounted, PagesFinite DEF ClearBits, SetBits, CountExact

\* The pages of a block are pages, and the pages an entry gives are too.
LEMMA SpanPages == /\ \A s, n : Span(s, n) \in SUBSET Pages
                   /\ \A r : Freeable(r) \in SUBSET Pages
                   /\ Low \in SUBSET Pages
BY PmmAssumption DEF Span, Freeable, Low, Pages

\* What a search returns fits.
LEMMA LowestFits ==
    ASSUME NEW n \in Nat, Fits(n) # {}
    PROVE  Lowest(Fits(n)) \in Fits(n)
<1>1. Fits(n) \in SUBSET Nat
  BY PmmAssumption DEF Fits, Pages
<1> QED
  BY <1>1, LowestLeast

-----------------------------------------------------------------------------
\* Before pmm_init has run nothing is marked and nothing owned.
BootEmpty == phase = "boot" => bitmap = {} /\ base = {} /\ owned = {}

\* The part of the inductive invariant that needs no contract.
Counted == TypeOK /\ CountExact /\ BootEmpty

\* Nothing is marked, counted or owned at boot.
LEMMA InitCounted == Init => Counted
BY FS_EmptySet, PmmAssumption DEF Init, Counted, TypeOK, CountExact, BootEmpty

\* The count stays exact through every step.
LEMMA NextCounted == Counted /\ [Next]_vars => Counted'
<1> SUFFICES ASSUME Counted, [Next]_vars
             PROVE  Counted'
  OBVIOUS
<1>0. TypeOK /\ CountExact /\ BootEmpty /\ bitmap \in SUBSET Pages
  BY DEF Counted, TypeOK
<1>n. ASSUME bitmap' \in SUBSET Pages, CountExact'
      PROVE  used_pages' \in Nat
  BY <1>n, PagesFinite DEF CountExact
<1>1. CASE InitRejected
  <2>1. bitmap' = {} /\ used_pages' = 0
    BY <1>0, <1>1 DEF InitRejected, BootEmpty
  <2>2. CountExact'
    BY <2>1, FS_EmptySet DEF CountExact
  <2> QED
    BY <1>0, <1>1, <2>1, <2>2 DEF InitRejected, Counted, TypeOK, BootEmpty
<1>2. CASE \E m \in Maps : InitStart(m)
  <2>1. PICK m \in Maps : InitStart(m)
    BY <1>2
  <2>2. Cardinality(Pages) = NPages
    BY FS_Interval, PmmAssumption DEF Pages
  <2> QED
    BY <1>0, <2>1, <2>2, PmmAssumption DEF InitStart, Counted, TypeOK, CountExact, BootEmpty
<1>3. CASE InitEntry
  <2>1. bitmap' \in SUBSET Pages /\ CountExact'
    BY <1>0, <1>3, BitsKeepCount, SpanPages DEF InitEntry
  <2>2. todo' \in Seq(Region)
    BY <1>0, <1>3 DEF InitEntry, TypeOK
  <2> QED
    BY <1>0, <1>3, <1>n, <2>1, <2>2 DEF InitEntry, Counted, TypeOK, BootEmpty
<1>4. CASE InitReserve
  <2>1. bitmap' \in SUBSET Pages /\ CountExact'
    BY <1>0, <1>4, BitsKeepCount, SpanPages DEF InitReserve
  <2> QED
    BY <1>0, <1>4, <1>n, <2>1 DEF InitReserve, Counted, TypeOK, BootEmpty
<1>5. ASSUME NEW p \in Pages, NEW n \in 1..NPages, phase = "run", Take(p, n)
      PROVE  Counted'
  <2>0. phase' = "run"
    BY <1>5 DEF Take
  <2>1. bitmap' \in SUBSET Pages /\ CountExact'
    BY <1>0, <1>5, BitsKeepCount, SpanPages DEF Take
  <2>2. Block(p, n) \in [start: Pages, num: 1..NPages]
    BY DEF Block
  <2> QED
    BY <1>0, <1>5, <1>n, <2>0, <2>1, <2>2 DEF Take, Counted, TypeOK, BootEmpty
<1>6. ASSUME NEW p, NEW n, phase = "run", Give(p, n)
      PROVE  Counted'
  <2>0. phase' = "run"
    BY <1>6 DEF Give
  <2>1. bitmap' \in SUBSET Pages /\ CountExact'
    BY <1>0, <1>6, BitsKeepCount, SpanPages DEF Give
  <2> QED
    BY <1>0, <1>6, <1>n, <2>0, <2>1 DEF Give, Counted, TypeOK, BootEmpty
<1>7. ASSUME NEW n \in Nat, n >= 1, Fits(n) # {}
      PROVE  Lowest(Fits(n)) \in Pages /\ n \in 1..NPages
  BY <1>7, LowestFits, PmmAssumption DEF Fits, Pages
<1>8. CASE AllocPage
  BY <1>8, <1>5, <1>7 DEF AllocPage
<1>9. CASE \E n \in 1..MaxCount : AllocPages(n)
  BY <1>9, <1>5, <1>7, PmmAssumption DEF AllocPages
<1>10. CASE \E p \in 0..NPages : FreePage(p)
  BY <1>10, <1>6 DEF FreePage
<1>11. CASE \E p \in 0..NPages, n \in 1..MaxCount : FreePages(p, n)
  BY <1>11, <1>6 DEF FreePages
<1>12. CASE UNCHANGED vars
  BY <1>12 DEF Counted, TypeOK, CountExact, BootEmpty, vars
<1> QED
  BY <1>1, <1>2, <1>3, <1>4, <1>8, <1>9, <1>10, <1>11, <1>12 DEF Next

\* used_pages is the number of marked pages at all times, for every memory
\* map and even for callers that free what they do not own.
THEOREM CountCorrect == Spec => [](TypeOK /\ CountExact)
<1>1. Counted => TypeOK /\ CountExact
  BY DEF Counted
<1> QED
  BY <1>1, InitCounted, NextCounted, PTL DEF Spec

-----------------------------------------------------------------------------
(***************************************************************************)
(* Ownership.  BitmapExact and NoSharedPage need each other: a block that  *)
(* is freed leaves the others marked only because it shares no page with   *)
(* them, and a new one shares none because theirs are marked.              *)
(***************************************************************************)

\* The inductive invariant.
Exact == /\ Counted
         /\ phase # "run" => owned = {}
         /\ BitmapExact
         /\ NoSharedPage

\* Pages of blocks.
LEMMA AllocatedPages == Allocated \in SUBSET Pages
BY SpanPages DEF Allocated, PagesOf

\* A block that is taken is made of pages that nobody had.
LEMMA TakeExact ==
    ASSUME Exact, phase = "run", NEW n \in Nat, NEW p \in Fits(n), Take(p, n),
           Counted'
    PROVE  Exact'
<1> DEFINE b == Block(p, n)
<1>1. PagesOf(b) = Span(p, n) /\ PagesOf(b) \cap bitmap = {}
  BY DEF Fits, Block, PagesOf
<1>2. phase' = "run" /\ base' = base /\ owned' = owned \cup {b}
      /\ bitmap' = bitmap \cup PagesOf(b)
  BY <1>1 DEF Take, SetBits
<1>3. bitmap = base \cup Allocated /\ base \cap Allocated = {}
  BY DEF Exact, BitmapExact
<1>4. Allocated' = Allocated \cup PagesOf(b)
  BY <1>2 DEF Allocated, PagesOf, Span
<1>5. BitmapExact'
  BY <1>1, <1>2, <1>3, <1>4 DEF BitmapExact
<1>6. \A c \in owned : PagesOf(c) \cap PagesOf(b) = {}
  BY <1>1, <1>3 DEF Allocated
<1>7. NoSharedPage'
  BY <1>2, <1>6 DEF Exact, NoSharedPage, PagesOf, Span
<1> QED
  BY <1>2, <1>5, <1>7 DEF Exact

\* A block that is given back by its owner leaves all the others marked.
LEMMA GiveExact ==
    ASSUME Exact, phase = "run", NEW p, NEW n, Block(p, n) \in owned, Give(p, n),
           Counted'
    PROVE  Exact'
<1> DEFINE b == Block(p, n)
<1>1. PagesOf(b) = Span(p, n)
  BY DEF Block, PagesOf
<1>2. phase' = "run" /\ base' = base /\ owned' = owned \ {b}
      /\ bitmap' = bitmap \ PagesOf(b)
  BY <1>1 DEF Give, ClearBits
<1>3. bitmap = base \cup Allocated /\ base \cap Allocated = {}
  BY DEF Exact, BitmapExact
<1>4. \A c \in owned : c # b => PagesOf(c) \cap PagesOf(b) = {}
  BY DEF Exact, NoSharedPage
<1>5. Allocated' = Allocated \ PagesOf(b)
  BY <1>2, <1>4 DEF Allocated, PagesOf, Span
<1>6. base \cap PagesOf(b) = {}
  BY <1>3 DEF Allocated
<1>7. BitmapExact'
  BY <1>2, <1>3, <1>5, <1>6 DEF BitmapExact
<1>8. NoSharedPage'
  BY <1>2 DEF Exact, NoSharedPage, PagesOf, Span
<1> QED
  BY <1>2, <1>7, <1>8 DEF Exact

\* Nothing is owned at boot.
LEMMA InitExact == Init => Exact
BY InitCounted DEF Init, Exact, BitmapExact, NoSharedPage

\* Callers that free what they own keep the bitmap exact.
LEMMA NextExact == Contract /\ Exact /\ [Next]_vars => Exact'
<1> SUFFICES ASSUME Contract, Exact, [Next]_vars
             PROVE  Exact'
  OBVIOUS
<1>0. Counted'
  BY NextCounted DEF Exact
<1>e. ASSUME owned = {}, owned' = {}, phase' = "run" => bitmap' = base'
      PROVE  Exact'
  BY <1>0, <1>e DEF Exact, BitmapExact, NoSharedPage, Allocated
<1>1. CASE InitRejected
  BY <1>1, <1>e DEF InitRejected, Exact, Counted, BootEmpty
<1>2. CASE \E m \in Maps : InitStart(m)
  BY <1>2, <1>e DEF InitStart, Exact, Counted, BootEmpty
<1>3. CASE InitEntry
  BY <1>3, <1>e DEF InitEntry, Exact
<1>4. CASE InitReserve
  BY <1>4, <1>e DEF InitReserve, Exact
<1>5. CASE AllocPage
  BY <1>0, <1>5, LowestFits, TakeExact DEF AllocPage
<1>6. CASE \E n \in 1..MaxCount : AllocPages(n)
  BY <1>0, <1>6, LowestFits, TakeExact, PmmAssumption DEF AllocPages
<1>7. CASE \E p \in 0..NPages : FreePage(p)
  BY <1>0, <1>7, GiveExact DEF FreePage
<1>8. CASE \E p \in 0..NPages, n \in 1..MaxCount : FreePages(p, n)
  BY <1>0, <1>8, GiveExact DEF FreePages
<1>9. CASE UNCHANGED vars
  BY <1>0, <1>9 DEF vars, Exact, BitmapExact, NoSharedPage, Allocated, PagesOf, Span
<1> QED
  BY <1>1, <1>2, <1>3, <1>4, <1>5, <1>6, <1>7, <1>8, <1>9 DEF Next

\* As long as callers free what they own, the marked pages are exactly those
\* that pmm_init left marked and those of the blocks in use.
THEOREM BitmapCorrect ==
    ASSUME Contract
    PROVE  Spec => []BitmapExact
<1>1. Exact => BitmapExact
  BY DEF Exact
<1>2. Exact /\ [Next]_vars => Exact'
  BY NextExact
<1> QED
  BY <1>1, <1>2, InitExact, PTL DEF Spec

\* As long as callers free what they own, no page is ever handed to two of
\* them.
THEOREM OwnershipCorrect ==
    ASSUME Contract
    PROVE  Spec => []NoSharedPage
<1>1. Exact => NoSharedPage
  BY DEF Exact
<1>2. Exact /\ [Next]_vars => Exact'
  BY NextExact
<1> QED
  BY <1>1, <1>2, InitExact, PTL DEF Spec

-----------------------------------------------------------------------------
(***************************************************************************)
(* Usable memory.  While pmm_init scans the map, what it has cleared is    *)
(* usable, and what it has still to read comes from the map; afterwards    *)
(* the bits it left set cover everything that is not to be handed out.     *)
(***************************************************************************)

\* The inductive invariant of the scan.
ScanSound == /\ phase = "boot" => map = <<>>
             /\ phase = "scan" =>
                  /\ Pages \ bitmap \subseteq UsablePages
                  /\ \A i \in DOMAIN todo : \E j \in DOMAIN map : todo[i] = map[j]
             /\ phase = "run" /\ map # <<>> =>
                  Low \subseteq base /\ Pages \ base \subseteq UsablePages

\* What an entry gives is usable according to the map it is an entry of.
LEMMA EntryUsable ==
    ASSUME map \in Seq(Region), NEW j \in DOMAIN map
    PROVE  Freeable(map[j]) \subseteq UsablePages
<1>1. map[j] \in Region
  OBVIOUS
<1>2. CASE map[j].usable
  <2>1. Freeable(map[j]) \subseteq Span(map[j].start, map[j].num)
    BY <1>1, <1>2, PmmAssumption DEF Freeable, Span, Pages, Region
  <2> QED
    BY <1>2, <2>1 DEF UsablePages
<1>3. CASE ~map[j].usable
  BY <1>3 DEF Freeable
<1> QED
  BY <1>2, <1>3

\* The scan is sound at every step.
LEMMA NextScan == TypeOK /\ ScanSound /\ [Next]_vars => ScanSound'
<1> SUFFICES ASSUME TypeOK, ScanSound, [Next]_vars
             PROVE  ScanSound'
  OBVIOUS
<1>1. CASE InitRejected
  BY <1>1 DEF InitRejected, ScanSound
<1>2. CASE \E m \in Maps : InitStart(m)
  BY <1>2 DEF InitStart, ScanSound
<1>3. CASE InitEntry
  <2>1. todo \in Seq(Region) /\ map \in Seq(Region) /\ todo # <<>>
    BY <1>3 DEF TypeOK, InitEntry
  <2>2. 1 \in DOMAIN todo /\ Head(todo) = todo[1]
    BY <2>1
  <2>3. PICK j \in DOMAIN map : todo[1] = map[j]
    BY <1>3, <2>2 DEF ScanSound, InitEntry
  <2>4. Freeable(Head(todo)) \subseteq UsablePages
    BY <2>1, <2>2, <2>3, EntryUsable
  <2>5. map' = map /\ phase' = "scan" /\ UsablePages' = UsablePages
    BY <1>3 DEF InitEntry, UsablePages, Span
  <2>6. Pages \ bitmap' \subseteq UsablePages
    BY <1>3, <2>4 DEF InitEntry, ClearBits, ScanSound
  <2>7. \A i \in DOMAIN Tail(todo) : i + 1 \in DOMAIN todo /\ Tail(todo)[i] = todo[i + 1]
    BY <2>1
  <2>8. \A i \in DOMAIN todo' : \E l \in DOMAIN map : todo'[i] = map[l]
    BY <1>3, <2>7 DEF InitEntry, ScanSound
  <2> QED
    BY <2>5, <2>6, <2>8 DEF ScanSound
<1>4. CASE InitReserve
  <2>1. map' = map /\ UsablePages' = UsablePages /\ phase' = "run"
    BY <1>4 DEF InitReserve, UsablePages, Span
  <2>2. base' = bitmap \cup Low
    BY <1>4 DEF InitReserve, SetBits
  <2> QED
    BY <1>4, <2>1, <2>2 DEF InitReserve, ScanSound
<1>5. ASSUME phase = "run", UNCHANGED <<phase, map, base>>
      PROVE  ScanSound'
  <2>1. UsablePages' = UsablePages
    BY <1>5 DEF UsablePages, Span
  <2> QED
    BY <1>5, <2>1 DEF ScanSound
<1>6. CASE AllocPage
  BY <1>5, <1>6 DEF AllocPage, Take
<1>7. CASE \E n \in 1..MaxCount : AllocPages(n)
  BY <1>5, <1>7 DEF AllocPages, Take
<1>8. CASE \E p \in 0..NPages : FreePage(p)
  BY <1>5, <1>8 DEF FreePage, Give
<1>9. CASE \E p \in 0..NPages, n \in 1..MaxCount : FreePages(p, n)
  BY <1>5, <1>9 DEF FreePages, Give
<1>10. CASE UNCHANGED vars
  <2>1. UsablePages' = UsablePages
    BY <1>10 DEF UsablePages, Span, vars
  <2> QED
    BY <1>10, <2>1 DEF ScanSound, vars
<1> QED
  BY <1>1, <1>2, <1>3, <1>4, <1>6, <1>7, <1>8, <1>9, <1>10 DEF Next

\* As long as callers free what they own, every page handed out is usable
\* according to the firmware's map and lies above the first 2MB.
THEOREM UsableCorrect ==
    ASSUME Contract
    PROVE  Spec => []OnlyUsable
<1>1. Init => ScanSound
  BY DEF Init, ScanSound
<1>2. Exact => TypeOK
  BY DEF Exact, Counted
<1>3. Exact /\ ScanSound => OnlyUsable
  <2> SUFFICES ASSUME Exact, ScanSound, map # <<>>
               PROVE  Allocated \subseteq UsablePages \ Low
    BY DEF OnlyUsable
  <2>1. CASE phase = "run"
    <3>1. Allocated \subseteq Pages /\ base \cap Allocated = {}
      BY <2>1, AllocatedPages DEF Exact, BitmapExact
    <3>2. Low \subseteq base /\ Pages \ base \subseteq UsablePages
      BY <2>1 DEF ScanSound
    <3> QED
      BY <3>1, <3>2
  <2>2. CASE phase # "run"
    BY <2>2 DEF Exact, Allocated
  <2> QED
    BY <2>1, <2>2
<1>4. Exact /\ [Next]_vars => Exact'
  BY NextExact
<1> QED
  BY <1>1, <1>2, <1>3, <1>4, InitExact, NextScan, PTL DEF Spec

-----------------------------------------------------------------------------
(***************************************************************************)
(* The loops of pmm_alloc_pages (PmmSearch).                               *)
(***************************************************************************)

\* The runs that fit from page s on, and the lowest of them.
FitsFrom(n, s) == {p \in Fits(n) : s <= p}
Best(n, s) == IF FitsFrom(n, s) = {} THEN NotFound ELSE Lowest(FitsFrom(n, s))

\* The inner loop stops at the first used page.
LEMMA FreeAheadIs ==
    ASSUME NEW s \in Nat, NEW n \in Nat
    PROVE  LET i == FreeAhead(s, n)
           IN /\ i \in 0..n /\ (i = n \/ s + i \in bitmap)
              /\ \A j \in 0..(i - 1) : s + j \notin bitmap
<1> DEFINE T == {i \in 0..n : i = n \/ s + i \in bitmap}
<1>1. T \in SUBSET Nat /\ T # {}
  <2>1. n \in T
    OBVIOUS
  <2> QED
    BY <2>1
<1>2. Lowest(T) \in T /\ \A y \in T : Lowest(T) <= y
  BY <1>1, LowestLeast
<1>3. PICK i \in T : \A y \in T : i <= y
  BY <1>2
<1>4. \A j \in 0..(i - 1) : s + j \notin bitmap
  <2> SUFFICES ASSUME NEW j \in 0..(i - 1), s + j \in bitmap PROVE FALSE
    OBVIOUS
  <2>1. j \in T
    OBVIOUS
  <2> QED
    BY <1>3, <2>1
<1>5. \E x \in 0..n : /\ x = n \/ s + x \in bitmap
                      /\ \A j \in 0..(x - 1) : s + j \notin bitmap
  BY <1>4
<1> QED
  BY <1>5 DEF FreeAhead

\* A run that fits, page by page.
LEMMA FitsIs ==
    ASSUME NEW n \in Nat, NEW p \in Nat
    PROVE  p \in Fits(n) <=> /\ p \in Pages /\ Reserved <= p /\ p + n <= NPages
                             /\ \A j \in 0..(n - 1) : p + j \notin bitmap
<1>0. NPages \in Nat
  BY PmmAssumption
<1>1. ASSUME p \in Pages, p + n <= NPages
      PROVE  Span(p, n) \cap bitmap = {} <=> \A j \in 0..(n - 1) : p + j \notin bitmap
  <2>1. \A j \in 0..(n - 1) : p + j \in Span(p, n)
    BY <1>0, <1>1 DEF Span, Pages
  <2>2. ASSUME NEW q \in Span(p, n)
        PROVE  q - p \in 0..(n - 1) /\ p + (q - p) = q
    BY <1>0, <2>2 DEF Span, Pages
  <2> QED
    BY <2>1, <2>2
<1> QED
  BY <1>1 DEF Fits

\* One turn of the outer loop: the skip passes no run that fits.
LEMMA BestStep ==
    ASSUME NEW n \in Nat \ {0}, NEW s \in Reserved..(NPages + 1)
    PROVE  Best(n, s) = IF s + n > NPages THEN NotFound
                        ELSE LET i == FreeAhead(s, n)
                             IN IF i = n THEN s ELSE Best(n, SkipAhead(s, i))
<1>0. NPages \in Nat /\ Reserved \in Nat /\ s \in Nat /\ Reserved <= s
  BY PmmAssumption
<1>1. \A p \in Fits(n) : p \in Nat /\ p + n <= NPages
  BY PmmAssumption DEF Fits, Pages
<1>2. CASE s + n > NPages
  <2>1. FitsFrom(n, s) = {}
    BY <1>0, <1>1, <1>2 DEF FitsFrom
  <2> QED
    BY <1>2, <2>1 DEF Best
<1>3. CASE ~(s + n > NPages)
  <2> DEFINE i == FreeAhead(s, n)
  <2>1. /\ i \in 0..n /\ (i = n \/ s + i \in bitmap)
        /\ \A j \in 0..(i - 1) : s + j \notin bitmap
    BY <1>0, FreeAheadIs
  <2> HIDE DEF i
  <2>2. CASE i = n
    <3>1. s \in Pages
      BY <1>0, <1>3 DEF Pages
    <3>2. s \in Fits(n)
      BY <1>0, <1>3, <2>1, <2>2, <3>1, FitsIs
    <3>3. s \in FitsFrom(n, s) /\ \A y \in FitsFrom(n, s) : s <= y
      BY <1>0, <3>2 DEF FitsFrom
    <3>4. FitsFrom(n, s) \in SUBSET Nat /\ FitsFrom(n, s) # {}
      BY <1>1, <3>3 DEF FitsFrom
    <3>5. Lowest(FitsFrom(n, s)) \in FitsFrom(n, s)
          /\ \A y \in FitsFrom(n, s) : Lowest(FitsFrom(n, s)) <= y
      BY <3>4, LowestLeast
    <3>6. Lowest(FitsFrom(n, s)) = s
      <4>1. Lowest(FitsFrom(n, s)) \in Nat /\ s <= Lowest(FitsFrom(n, s))
            /\ Lowest(FitsFrom(n, s)) <= s
        BY <3>3, <3>4, <3>5
      <4> QED
        BY <1>0, <4>1
    <3> QED
      BY <1>3, <2>2, <3>4, <3>6 DEF Best, i
  <2>3. CASE i # n
    <3>1. SkipAhead(s, i) = s + i + 1 /\ s + i \in bitmap /\ i < n
      BY <2>1, <2>3 DEF SkipAhead
    <3>2. ASSUME NEW p \in Fits(n), s <= p
          PROVE  s + i + 1 <= p
      <4>1. p \in Nat /\ \A j \in 0..(n - 1) : p + j \notin bitmap
        BY <1>1, FitsIs
      <4>2. SUFFICES ASSUME p <= s + i PROVE FALSE
        BY <1>0, <2>1, <4>1
      <4>3. (s + i) - p \in 0..(n - 1) /\ p + ((s + i) - p) = s + i
        BY <1>0, <2>1, <3>1, <3>2, <4>1, <4>2
      <4> QED
        BY <3>1, <4>1, <4>3
    <3>3. FitsFrom(n, s) = FitsFrom(n, s + i + 1)
      <4>1. \A p \in Fits(n) : s + i + 1 <= p => s <= p
        BY <1>0, <1>1, <2>1
      <4> QED
        BY <3>2, <4>1 DEF FitsFrom
    <3>4. Best(n, s) = Best(n, s + i + 1)
      BY <3>3 DEF Best
    <3> QED
      BY <1>3, <2>3, <3>1, <3>4 DEF i
  <2> QED
    BY <2>2, <2>3
<1> QED
  BY <1>2, <1>3

\* The outer loop returns the lowest run that fits.
LEMMA SearchBest ==
    ASSUME NEW n \in Nat \ {0}
    PROVE  Search(n) = Best(n, Reserved)
<1> DEFINE D == Reserved..(NPages + 1)
           from[s \in D] ==
             IF s + n > NPages THEN NotFound
             ELSE LET i == FreeAhead(s, n)
                  IN IF i = n THEN s ELSE from[SkipAhead(s, i)]
           F == [s \in D |-> Best(n, s)]
<1>0. NPages \in Nat /\ Reserved \in Nat /\ Reserved <= NPages
  BY PmmAssumption
<1>1. ASSUME NEW s \in D, ~(s + n > NPages), FreeAhead(s, n) # n
      PROVE  SkipAhead(s, FreeAhead(s, n)) \in D /\ SkipAhead(s, FreeAhead(s, n)) > s
  <2>1. s \in Nat
    BY <1>0
  <2>2. FreeAhead(s, n) \in 0..n
    BY <2>1, FreeAheadIs
  <2> QED
    BY <1>0, <1>1, <2>1, <2>2 DEF SkipAhead
<1>2. F = [s \in D |-> IF s + n > NPages THEN NotFound
                       ELSE LET i == FreeAhead(s, n)
                            IN IF i = n THEN s ELSE F[SkipAhead(s, i)]]
  <2>1. ASSUME NEW s \in D
        PROVE  Best(n, s) = IF s + n > NPages THEN NotFound
                            ELSE LET i == FreeAhead(s, n)
                                 IN IF i = n THEN s ELSE F[SkipAhead(s, i)]
    BY <1>1, BestStep
  <2> QED
    BY <2>1
<1>3. \E g : g = [s \in D |-> IF s + n > NPages THEN NotFound
                              ELSE LET i == FreeAhead(s, n)
                                   IN IF i = n THEN s ELSE g[SkipAhead(s, i)]]
  BY <1>2
<1>4. from = [s \in D |-> IF s + n > NPages THEN NotFound
                          ELSE LET i == FreeAhead(s, n)
                               IN IF i = n THEN s ELSE from[SkipAhead(s, i)]]
  BY <1>3 DEF from
<1>5. Search(n) = from[Reserved]
  BY DEF Search, from
<1> HIDE DEF from
<1>6. \A s \in D : from[s] = IF s + n > NPages THEN NotFound
                             ELSE LET i == FreeAhead(s, n)
                                  IN IF i = n THEN s ELSE from[SkipAhead(s, i)]
  BY <1>4
<1> DEFINE Bad == {x \in Nat : /\ (NPages + 1) - x \in D
                               /\ from[(NPages + 1) - x] # Best(n, (NPages + 1) - x)}
<1>7. Bad = {}
  <2> SUFFICES ASSUME Bad # {} PROVE FALSE
    OBVIOUS
  <2>1. PICK x \in Bad : \A y \in Bad : x <= y
    BY LowestLeast
  <2> DEFINE s == (NPages + 1) - x
  <2>2. s \in D /\ from[s] # Best(n, s) /\ x \in Nat
    OBVIOUS
  <2>3. \A t \in D : t > s => from[t] = Best(n, t)
    <3> SUFFICES ASSUME NEW t \in D, t > s, from[t] # Best(n, t) PROVE FALSE
      OBVIOUS
    <3>1. (NPages + 1) - t \in Nat /\ (NPages + 1) - ((NPages + 1) - t) = t
          /\ (NPages + 1) - t < x
      BY <1>0, <2>2
    <3>2. (NPages + 1) - t \in Bad
      BY <3>1
    <3> QED
      BY <2>1, <3>1, <3>2
  <2> HIDE DEF s, Bad
  <2>4. from[s] = IF s + n > NPages THEN NotFound
                  ELSE LET i == FreeAhead(s, n)
                       IN IF i = n THEN s ELSE from[SkipAhead(s, i)]
    BY <1>6, <2>2
  <2>5. Best(n, s) = IF s + n > NPages THEN NotFound
                     ELSE LET i == FreeAhead(s, n)
                          IN IF i = n THEN s ELSE Best(n, SkipAhead(s, i))
    BY <2>2, BestStep
  <2> QED
    BY <1>1, <2>2, <2>3, <2>4, <2>5
<1>8. (NPages + 1) - Reserved \in Nat /\ (NPages + 1) - ((NPages + 1) - Reserved) = Reserved
      /\ Reserved \in D
  BY <1>0
<1>9. from[Reserved] = Best(n, Reserved)
  <2> SUFFICES ASSUME from[Reserved] # Best(n, Reserved) PROVE FALSE
    OBVIOUS
  <2>1. (NPages + 1) - Reserved \in Bad
    BY <1>8
  <2> QED
    BY <1>7, <2>1
<1> QED
  BY <1>5, <1>9

\* The skipping search of pmm_alloc_pages finds the lowest run that fits, and
\* reports that there is none only when there is none.
THEOREM SearchCorrect == Spec => []FindsLowest
<1>1. FindsLowest
  <2> SUFFICES ASSUME NEW n \in 1..MaxCount
               PROVE  Search(n) = IF Fits(n) = {} THEN NotFound ELSE Lowest(Fits(n))
    BY DEF FindsLowest
  <2>1. n \in Nat \ {0}
    BY PmmAssumption
  <2>2. FitsFrom(n, Reserved) = Fits(n)
    BY DEF FitsFrom, Fits
  <2> QED
    BY <2>1, <2>2, SearchBest DEF Best
<1> QED
  BY <1>1, PTL
=============================================================================
