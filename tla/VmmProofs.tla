----------------------------- MODULE VmmProofs -----------------------------
(***************************************************************************)
(* Theorems about Vmm, for every number of frames, size of the tables,     *)
(* set of pages and number of address spaces.                              *)
(*                                                                         *)
(* The tables form a tree: lev gives each frame its level in it, from 1    *)
(* for the PML4 to 4 for the tables whose entries are pages, and 0 to a    *)
(* frame that is no table.                                                 *)
(***************************************************************************)
EXTENDS Vmm, FiniteSetTheorems, WellFoundedInduction, TLAPS

Memory == [Frames -> [Idx -> Nat]]
Levels == [Frames -> 0..4]

\* Entries of the levels 1 to 3 are tables of the next level.
Graded(m, r, lev) ==
    /\ r \in Frames /\ \A t \in Frames : lev[t] = 1 <=> t = r
    /\ \A t \in Frames, i \in Idx :
         lev[t] \in 1..3 /\ m[t][i] # 0 => m[t][i] \in Frames /\ lev[m[t][i]] = lev[t] + 1

\* Every table but the root hangs on one entry, ...
Hung(m, lev) ==
    \A t \in Frames : lev[t] > 1 => \E u \in Frames, i \in Idx : lev[u] \in 1..3 /\ m[u][i] = t

\* ... and on no other.
Single(m, lev) ==
    \A t, u \in Frames, i, j \in Idx :
       lev[t] \in 1..3 /\ lev[u] \in 1..3 /\ m[t][i] # 0 /\ m[t][i] = m[u][j] => t = u /\ i = j

Tree(m, r, lev) ==
    /\ m \in Memory /\ lev \in Levels
    /\ Graded(m, r, lev) /\ Hung(m, lev) /\ Single(m, lev)

\* A step of a walk, and the walks over three and four levels.
Go(m, t, i) == IF t = 0 THEN 0 ELSE m[t][i]
Walk1(m, r, u) == Go(m, r, u[1])
Walk2(m, r, u) == Go(m, Walk1(m, r, u), u[2])
Walk3(m, r, u) == Go(m, Walk2(m, r, u), u[3])
Walk4(m, r, u) == Go(m, Walk3(m, r, u), u[4])

Pages == Idx \X Idx \X Idx \X Idx

\* A table of level n, or none.
At(lev, n, t) == t = 0 \/ (t \in Frames /\ lev[t] = n)

LEMMA FrameFacts == 0 \notin Frames /\ Frames \subseteq Nat /\ IsFiniteSet(Frames)
<1>1. NFrames \in Nat
  BY VmmAssumption
<1>2. IsFiniteSet(1..NFrames)
  BY <1>1, FS_Interval
<1> QED
  BY <1>1, <1>2 DEF Frames

\* No entry of these tables is a huge page.
LEMMA FrameOfPlain == \A e \in Nat : FrameOf(e) = e
BY DEF FrameOf

\* Every set of naturals that is not empty has a least element.
LEMMA LeastFrame ==
    ASSUME NEW T \in SUBSET Frames, T # {}
    PROVE  Min(T) \in T
<1>0. T \in SUBSET Nat
  BY FrameFacts
<1>1. PICK x \in T : \A y \in T : ~ (<<y, x>> \in OpToRel(<, Nat))
  BY <1>0, NatLessThanWellFounded, WFMin
<1>2. \A y \in T : ~(y < x)
  BY <1>0, <1>1 DEF OpToRel
<1>3. \A y \in T : x <= y
  BY <1>0, <1>2
<1> QED
  BY <1>3 DEF Min

-----------------------------------------------------------------------------
(***************************************************************************)
(* Walks.                                                                  *)
(***************************************************************************)

\* A step leads from a table to a table of the next level, or nowhere.
LEMMA GoLevel ==
    ASSUME NEW m, NEW r, NEW lev, Tree(m, r, lev), NEW n \in 1..3, NEW t, At(lev, n, t),
           NEW i \in Idx
    PROVE  At(lev, n + 1, Go(m, t, i))
BY FrameFacts DEF Tree, Graded, At, Go

LEMMA WalkLevels ==
    ASSUME NEW m, NEW r, NEW lev, Tree(m, r, lev), NEW u \in Pages
    PROVE  /\ At(lev, 1, r) /\ At(lev, 2, Walk1(m, r, u))
           /\ At(lev, 3, Walk2(m, r, u)) /\ At(lev, 4, Walk3(m, r, u))
<1>0. u[1] \in Idx /\ u[2] \in Idx /\ u[3] \in Idx
  BY DEF Pages
<1>1. At(lev, 1, r)
  BY DEF Tree, Graded, At
<1>2. At(lev, 1 + 1, Walk1(m, r, u))
  BY <1>0, <1>1, GoLevel DEF Walk1
<1>3. At(lev, 2 + 1, Walk2(m, r, u))
  BY <1>0, <1>2, GoLevel DEF Walk2
<1>4. At(lev, 3 + 1, Walk3(m, r, u))
  BY <1>0, <1>3, GoLevel DEF Walk3
<1> QED
  BY <1>1, <1>2, <1>3, <1>4

\* Two walks that arrive at the same table came the same way.
LEMMA GoSingle ==
    ASSUME NEW m, NEW r, NEW lev, Tree(m, r, lev), NEW n \in 1..3,
           NEW t, NEW u, At(lev, n, t), At(lev, n, u), NEW i \in Idx, NEW j \in Idx,
           Go(m, t, i) # 0, Go(m, t, i) = Go(m, u, j)
    PROVE  t # 0 /\ t = u /\ i = j
<1>1. t # 0 /\ u # 0
  BY DEF Go
<1>2. t \in Frames /\ u \in Frames /\ lev[t] = n /\ lev[u] = n
  BY <1>1 DEF At
<1>3. m[t][i] # 0 /\ m[t][i] = m[u][j]
  BY <1>1 DEF Go
<1> QED
  BY <1>1, <1>2, <1>3 DEF Tree, Single

LEMMA WalkSingle ==
    ASSUME NEW m, NEW r, NEW lev, Tree(m, r, lev), NEW u \in Pages, NEW v \in Pages,
           Walk3(m, r, u) # 0, Walk3(m, r, u) = Walk3(m, r, v)
    PROVE  u[1] = v[1] /\ u[2] = v[2] /\ u[3] = v[3]
<1>0. /\ u[1] \in Idx /\ u[2] \in Idx /\ u[3] \in Idx
      /\ v[1] \in Idx /\ v[2] \in Idx /\ v[3] \in Idx
  BY DEF Pages
<1>1. /\ At(lev, 1, r) /\ At(lev, 2, Walk1(m, r, u)) /\ At(lev, 3, Walk2(m, r, u))
      /\ At(lev, 2, Walk1(m, r, v)) /\ At(lev, 3, Walk2(m, r, v))
  BY WalkLevels
<1>2. Walk2(m, r, u) # 0 /\ Walk2(m, r, u) = Walk2(m, r, v) /\ u[3] = v[3]
  BY <1>0, <1>1, GoSingle DEF Walk3
<1>3. Walk1(m, r, u) # 0 /\ Walk1(m, r, u) = Walk1(m, r, v) /\ u[2] = v[2]
  BY <1>0, <1>1, <1>2, GoSingle DEF Walk2
<1>4. u[1] = v[1]
  BY <1>0, <1>1, <1>3, GoSingle DEF Walk1
<1> QED
  BY <1>2, <1>3, <1>4

-----------------------------------------------------------------------------
(***************************************************************************)
(* Linking a table: frame f, cleared, becomes entry i of the table t.      *)
(***************************************************************************)

Linked(m, lev, t, i, f, m2, lev2) ==
    /\ t \in Frames /\ lev[t] \in 1..3 /\ i \in Idx /\ m[t][i] = 0
    /\ f \in Frames /\ lev[f] = 0
    /\ m2 \in Memory /\ m2[t][i] = f /\ \A j \in Idx : m2[f][j] = 0
    /\ \A x \in Frames \ {f}, j \in Idx : x # t \/ j # i => m2[x][j] = m[x][j]
    /\ lev2 \in Levels /\ lev2[f] = lev[t] + 1
    /\ \A x \in Frames \ {f} : lev2[x] = lev[x]

LEMMA LinkTree ==
    ASSUME NEW m, NEW r, NEW lev, Tree(m, r, lev), NEW t, NEW i, NEW f, NEW m2, NEW lev2,
           Linked(m, lev, t, i, f, m2, lev2)
    PROVE  Tree(m2, r, lev2)
<1>1. t # f /\ r # f
  BY DEF Tree, Graded, Linked
<1>0. /\ r \in Frames /\ \A x \in Frames : lev[x] = 1 <=> x = r
      /\ \A x \in Frames : lev[x] \in 0..4 /\ lev2[x] \in 0..4
      /\ f # 0 /\ f \in Frames /\ t \in Frames
  BY FrameFacts DEF Tree, Graded, Linked, Levels
<1>2. Graded(m2, r, lev2)
  <2>1. \A x \in Frames : lev2[x] = 1 <=> x = r
    BY <1>0, <1>1 DEF Linked
  <2>2. ASSUME NEW x \in Frames, NEW j \in Idx, lev2[x] \in 1..3, m2[x][j] # 0
        PROVE  m2[x][j] \in Frames /\ lev2[m2[x][j]] = lev2[x] + 1
    <3>1. x # f
      BY <2>2 DEF Linked
    <3>2. lev2[x] = lev[x]
      BY <3>1 DEF Linked
    <3>3. CASE x = t /\ j = i
      BY <3>2, <3>3 DEF Linked
    <3>4. CASE ~(x = t /\ j = i)
      <4>1. m2[x][j] = m[x][j]
        BY <3>1, <3>4 DEF Linked
      <4>2. m[x][j] \in Frames /\ lev[m[x][j]] = lev[x] + 1
        BY <2>2, <3>2, <4>1 DEF Tree, Graded
      <4>3. m[x][j] # f
        BY <1>0, <2>2, <3>2, <4>2 DEF Linked
      <4> QED
        BY <3>2, <4>1, <4>2, <4>3 DEF Linked
    <3> QED
      BY <3>3, <3>4
  <2> QED
    BY <1>0, <2>1, <2>2 DEF Graded
<1>3. Hung(m2, lev2)
  <2> SUFFICES ASSUME NEW x \in Frames, lev2[x] > 1
               PROVE  \E u \in Frames, j \in Idx : lev2[u] \in 1..3 /\ m2[u][j] = x
    BY DEF Hung
  <2>1. CASE x = f
    BY <1>1, <2>1 DEF Linked
  <2>2. CASE x # f
    <3>1. lev[x] > 1
      BY <2>2 DEF Linked
    <3>2. PICK u \in Frames, j \in Idx : lev[u] \in 1..3 /\ m[u][j] = x
      BY <3>1 DEF Tree, Hung
    <3>3. u # f /\ ~(u = t /\ j = i)
      BY <3>2, FrameFacts DEF Linked
    <3> QED
      BY <3>2, <3>3 DEF Linked
  <2> QED
    BY <2>1, <2>2
<1>4. Single(m2, lev2)
  <2> SUFFICES ASSUME NEW x \in Frames, NEW y \in Frames, NEW j \in Idx, NEW h \in Idx,
                      lev2[x] \in 1..3, lev2[y] \in 1..3, m2[x][j] # 0, m2[x][j] = m2[y][h]
               PROVE  x = y /\ j = h
    BY DEF Single
  <2>1. x # f /\ y # f
    BY DEF Linked
  <2>2. lev[x] \in 1..3 /\ lev[y] \in 1..3
    BY <2>1 DEF Linked
  <2>3. \A z \in Frames, g \in Idx : lev[z] \in 1..3 => m[z][g] # f
    BY <1>0 DEF Tree, Graded, Linked
  <2>6. m2[t][i] = f /\ \A z \in Frames, g \in Idx : z # f /\ ~(z = t /\ g = i) => m2[z][g] = m[z][g]
    BY DEF Linked
  <2>4. CASE (x = t /\ j = i) \/ (y = t /\ h = i)
    <3>1. m2[x][j] = f /\ m2[y][h] = f
      BY <2>4, <2>6
    <3>2. x = t /\ j = i
      BY <2>1, <2>2, <2>3, <2>6, <3>1
    <3>3. y = t /\ h = i
      BY <2>1, <2>2, <2>3, <2>6, <3>1
    <3> QED
      BY <3>2, <3>3
  <2>5. CASE ~(x = t /\ j = i) /\ ~(y = t /\ h = i)
    <3>1. m2[x][j] = m[x][j] /\ m2[y][h] = m[y][h]
      BY <2>1, <2>5, <2>6
    <3>2. m[x][j] # 0 /\ m[x][j] = m[y][h]
      BY <3>1
    <3> QED
      BY <2>2, <3>2 DEF Tree, Single
  <2> QED
    BY <2>4, <2>5
<1> QED
  BY <1>2, <1>3, <1>4 DEF Tree, Linked

\* A walk that did not end early is not changed, one that ended where the
\* table was linked ends in it.
LEMMA LinkGo ==
    ASSUME NEW m, NEW r, NEW lev, Tree(m, r, lev), NEW t, NEW i, NEW f, NEW m2, NEW lev2,
           Linked(m, lev, t, i, f, m2, lev2),
           NEW a, NEW b, NEW n \in 1..3, At(lev, n, a), b = a \/ (a = 0 /\ b = f), NEW j \in Idx
    PROVE  \/ Go(m2, b, j) = Go(m, a, j)
           \/ Go(m, a, j) = 0 /\ Go(m2, b, j) = f
<1>1. CASE b = a /\ a = 0
  BY <1>1 DEF Go
<1>2. CASE b = a /\ a # 0
  <2>1. a \in Frames /\ a # f
    BY <1>2 DEF At, Linked
  <2> QED
    BY <1>2, <2>1, FrameFacts DEF Go, Linked
<1>3. CASE a = 0 /\ b = f
  BY <1>3, FrameFacts DEF Go, Linked
<1> QED
  BY <1>1, <1>2, <1>3

LEMMA LinkWalk ==
    ASSUME NEW m, NEW r, NEW lev, Tree(m, r, lev), NEW t, NEW i, NEW f, NEW m2, NEW lev2,
           Linked(m, lev, t, i, f, m2, lev2), NEW u \in Pages
    PROVE  Walk4(m2, r, u) = Walk4(m, r, u)
<1>0. u[1] \in Idx /\ u[2] \in Idx /\ u[3] \in Idx /\ u[4] \in Idx
  BY DEF Pages
<1>1. /\ At(lev, 1, r) /\ At(lev, 2, Walk1(m, r, u))
      /\ At(lev, 3, Walk2(m, r, u)) /\ At(lev, 4, Walk3(m, r, u))
  BY WalkLevels
<1>2. \/ Walk1(m2, r, u) = Walk1(m, r, u)
      \/ Walk1(m, r, u) = 0 /\ Walk1(m2, r, u) = f
  BY <1>0, <1>1, LinkGo DEF Walk1
<1>3. \/ Walk2(m2, r, u) = Walk2(m, r, u)
      \/ Walk2(m, r, u) = 0 /\ Walk2(m2, r, u) = f
  BY <1>0, <1>1, <1>2, LinkGo DEF Walk2
<1>4. \/ Walk3(m2, r, u) = Walk3(m, r, u)
      \/ Walk3(m, r, u) = 0 /\ Walk3(m2, r, u) = f
  BY <1>0, <1>1, <1>3, LinkGo DEF Walk3
<1>5. CASE Walk3(m2, r, u) = Walk3(m, r, u) /\ Walk3(m, r, u) = 0
  BY <1>5 DEF Walk4, Go
<1>6. CASE Walk3(m2, r, u) = Walk3(m, r, u) /\ Walk3(m, r, u) # 0
  <2>1. Walk3(m, r, u) \in Frames /\ Walk3(m, r, u) # f /\ Walk3(m, r, u) # t
    BY <1>1, <1>6 DEF At, Linked
  <2> QED
    BY <1>0, <1>6, <2>1 DEF Walk4, Go, Linked
<1>7. CASE Walk3(m, r, u) = 0 /\ Walk3(m2, r, u) = f
  BY <1>0, <1>7, FrameFacts DEF Walk4, Go, Linked
<1> QED
  BY <1>4, <1>5, <1>6, <1>7

-----------------------------------------------------------------------------
(***************************************************************************)
(* vmm_get_or_create_entry.                                                *)
(***************************************************************************)

\* Memory m2, with the free frames fr2, is m with tables made of frames of fr:
\* no frame but these is touched, no entry in use changes and no page moves.
Extends(r, m, fr, lev, m2, fr2, lev2) ==
    /\ fr2 \subseteq fr
    /\ \A x \in Frames : lev[x] # 0 => lev2[x] = lev[x]
    /\ \A x \in Frames : lev[x] = 0 => (lev2[x] # 0 <=> x \in fr \ fr2)
    /\ \A x \in Frames \ fr, j \in Idx : lev[x] = 0 => m2[x][j] = m[x][j]
    /\ \A x \in Frames, j \in Idx : lev[x] \in 1..3 /\ m[x][j] # 0 => m2[x][j] = m[x][j]
    /\ \A u \in Pages : Walk4(m2, r, u) = Walk4(m, r, u)

LEMMA ExtendsRefl ==
    ASSUME NEW r, NEW m, NEW fr, NEW lev
    PROVE  Extends(r, m, fr, lev, m, fr, lev)
BY DEF Extends

LEMMA ExtendsTrans ==
    ASSUME NEW r, NEW m, NEW fr, NEW lev, NEW m2, NEW fr2, NEW lev2, NEW m3, NEW fr3, NEW lev3,
           Extends(r, m, fr, lev, m2, fr2, lev2), Extends(r, m2, fr2, lev2, m3, fr3, lev3)
    PROVE  Extends(r, m, fr, lev, m3, fr3, lev3)
<1>1. fr3 \subseteq fr
  BY DEF Extends
<1>2. \A x \in Frames : lev[x] # 0 => lev3[x] = lev[x]
  BY DEF Extends
<1>3. \A x \in Frames : lev[x] = 0 => (lev3[x] # 0 <=> x \in fr \ fr3)
  BY DEF Extends
<1>4. \A x \in Frames \ fr, j \in Idx : lev[x] = 0 => m3[x][j] = m[x][j]
  BY DEF Extends
<1>5. \A x \in Frames, j \in Idx : lev[x] \in 1..3 /\ m[x][j] # 0 => m3[x][j] = m[x][j]
  BY DEF Extends
<1>6. \A u \in Pages : Walk4(m3, r, u) = Walk4(m, r, u)
  BY DEF Extends
<1> QED
  BY <1>1, <1>2, <1>3, <1>4, <1>5, <1>6 DEF Extends

WalkState == [mem : Memory, free : SUBSET Frames, table : Frames \cup {0}]

\* A walk that has reached a table of level n, or failed.
Reached(w, r, n, lev) ==
    /\ w \in WalkState /\ Tree(w.mem, r, lev) /\ At(lev, n, w.table)
    /\ \A x \in w.free : lev[x] = 0

\* The new table of Descend.
LEMMA DescendLinks ==
    ASSUME NEW w \in WalkState, NEW i \in Idx, w.table # 0, w.mem[w.table][i] = 0, w.free # {},
           w.table \notin w.free
    PROVE  LET d == Descend(w, i)
               f == Min(w.free)
           IN /\ d \in WalkState /\ f \in w.free /\ d.free = w.free \ {f} /\ d.table = f
              /\ d.mem[w.table][i] = f /\ \A j \in Idx : d.mem[f][j] = 0
              /\ \A x \in Frames \ {f}, j \in Idx :
                    x # w.table \/ j # i => d.mem[x][j] = w.mem[x][j]
<1> DEFINE f == Min(w.free)
           d == Descend(w, i)
           new == AllocPageTable(w)
<1>0. /\ w.mem \in [Frames -> [Idx -> Nat]] /\ w.free \in SUBSET Frames
      /\ w.table \in Frames
  BY DEF WalkState, Memory
<1>1. f \in w.free /\ f \in Frames /\ f # w.table
  BY <1>0, LeastFrame
<1> HIDE DEF f
<1>2. new = [mem |-> [w.mem EXCEPT ![f] = Cleared], free |-> w.free \ {f}, table |-> f]
  BY DEF AllocPageTable, f
<1>3. new.table # 0
  BY <1>1, <1>2, FrameFacts
<1>4. d = [new EXCEPT !.mem[w.table][i] = new.table]
  BY <1>3 DEF Descend
<1> HIDE DEF d, new
<1>5. d = [mem |-> [[w.mem EXCEPT ![f] = Cleared] EXCEPT ![w.table][i] = f],
           free |-> w.free \ {f}, table |-> f]
  BY <1>2, <1>4
<1>6. Cleared \in [Idx -> Nat] /\ \A j \in Idx : Cleared[j] = 0
  BY DEF Cleared
<1>7. f \in Nat
  BY <1>1, FrameFacts
<1> DEFINE m1 == [w.mem EXCEPT ![f] = Cleared]
           m2 == [m1 EXCEPT ![w.table][i] = f]
<1>8. m1 \in [Frames -> [Idx -> Nat]]
  BY <1>0, <1>1, <1>6
<1>9. \A x \in Frames : m1[x] = IF x = f THEN Cleared ELSE w.mem[x]
  BY <1>0
<1> HIDE DEF m1
<1>10. m2 \in [Frames -> [Idx -> Nat]]
  BY <1>0, <1>7, <1>8
<1>11. \A x \in Frames, j \in Idx : m2[x][j] = IF x = w.table /\ j = i THEN f ELSE m1[x][j]
  BY <1>0, <1>8
<1>12. d.mem = m2 /\ d.free = w.free \ {f} /\ d.table = f
  BY <1>5 DEF m1
<1>13. d \in WalkState
  BY <1>0, <1>1, <1>5, <1>10 DEF WalkState, Memory, m1
<1> HIDE DEF m2
<1>14. d.mem[w.table][i] = f
  BY <1>0, <1>11, <1>12
<1>15. \A j \in Idx : d.mem[f][j] = 0
  BY <1>1, <1>6, <1>9, <1>11, <1>12
<1>16. \A x \in Frames \ {f}, j \in Idx : x # w.table \/ j # i => d.mem[x][j] = w.mem[x][j]
  BY <1>9, <1>11, <1>12
<1> QED
  BY <1>1, <1>12, <1>13, <1>14, <1>15, <1>16 DEF d, f

\* One level of the walk extends the tree, if it changes it at all.
LEMMA DescendStep ==
    ASSUME NEW w, NEW r, NEW n \in 1..3, NEW lev, Reached(w, r, n, lev), NEW i \in Idx
    PROVE  LET d == Descend(w, i)
           IN \E lev2 \in Levels :
                 /\ Extends(r, w.mem, w.free, lev, d.mem, d.free, lev2)
                 /\ Reached(d, r, n + 1, lev2)
                 /\ d.table # 0 => w.table # 0 /\ d.mem[w.table][i] = d.table
<1> DEFINE d == Descend(w, i)
<1>0. /\ w \in WalkState /\ Tree(w.mem, r, lev) /\ At(lev, n, w.table)
      /\ \A x \in w.free : lev[x] = 0
  BY DEF Reached
<1>1. /\ w.mem \in [Frames -> [Idx -> Nat]] /\ w.free \in SUBSET Frames
      /\ w.table \in Frames \cup {0} /\ lev \in Levels
  BY <1>0 DEF WalkState, Memory, Tree
<1>2. CASE w.table = 0
  <2>1. d = w
    BY <1>2 DEF Descend
  <2>2. Reached(d, r, n + 1, lev)
    BY <1>0, <1>2, <2>1 DEF Reached, At
  <2> QED
    BY <1>1, <1>2, <2>1, <2>2, ExtendsRefl
<1>3. CASE w.table # 0 /\ w.mem[w.table][i] # 0
  <2>1. w.table \in Frames /\ lev[w.table] = n
    BY <1>0, <1>3 DEF At
  <2>2. w.mem[w.table][i] \in Frames /\ lev[w.mem[w.table][i]] = n + 1
    BY <1>0, <1>3, <2>1 DEF Tree, Graded
  <2>3. FrameOf(w.mem[w.table][i]) = w.mem[w.table][i]
    BY <2>2, FrameFacts, FrameOfPlain
  <2>4. d = [w EXCEPT !.table = w.mem[w.table][i]]
    BY <1>3, <2>3 DEF Descend
  <2>5. d.mem = w.mem /\ d.free = w.free /\ d.table = w.mem[w.table][i]
    BY <1>0, <2>4 DEF WalkState
  <2>6. d \in WalkState
    BY <1>0, <2>2, <2>4 DEF WalkState
  <2> HIDE DEF d
  <2>7. Reached(d, r, n + 1, lev)
    BY <1>0, <2>2, <2>5, <2>6 DEF Reached, At
  <2>8. Extends(r, w.mem, w.free, lev, d.mem, d.free, lev)
    BY <2>5, ExtendsRefl
  <2> QED
    BY <1>1, <1>3, <2>5, <2>7, <2>8 DEF d
<1>4. CASE w.table # 0 /\ w.mem[w.table][i] = 0 /\ w.free = {}
  <2>1. AllocPageTable(w) = [w EXCEPT !.table = 0]
    BY <1>4 DEF AllocPageTable
  <2>2. [w EXCEPT !.table = 0].table = 0
    BY <1>0 DEF WalkState
  <2>3. d = [w EXCEPT !.table = 0]
    BY <1>4, <2>1, <2>2 DEF Descend
  <2>5. d.mem = w.mem /\ d.free = w.free /\ d.table = 0
    BY <1>0, <2>3 DEF WalkState
  <2>6. d \in WalkState
    BY <1>0, <2>3 DEF WalkState
  <2> HIDE DEF d
  <2>7. Reached(d, r, n + 1, lev)
    BY <1>0, <2>5, <2>6 DEF Reached, At
  <2>8. Extends(r, w.mem, w.free, lev, d.mem, d.free, lev)
    BY <2>5, ExtendsRefl
  <2> QED
    BY <1>1, <2>5, <2>7, <2>8 DEF d
<1>5. CASE w.table # 0 /\ w.mem[w.table][i] = 0 /\ w.free # {}
  <2>1. w.table \in Frames /\ lev[w.table] = n /\ w.table \notin w.free
    BY <1>0, <1>5 DEF At
  <2> DEFINE f == Min(w.free)
             lev2 == [x \in Frames |-> IF x = f THEN n + 1 ELSE lev[x]]
  <2>2. /\ d \in WalkState /\ f \in w.free /\ d.free = w.free \ {f} /\ d.table = f
        /\ d.mem[w.table][i] = f /\ \A j \in Idx : d.mem[f][j] = 0
        /\ \A x \in Frames \ {f}, j \in Idx :
              x # w.table \/ j # i => d.mem[x][j] = w.mem[x][j]
    BY <1>0, <1>5, <2>1, DescendLinks
  <2> HIDE DEF f, d
  <2>3. f \in Frames /\ lev[f] = 0 /\ f # 0 /\ f # w.table
    BY <1>0, <1>1, <2>1, <2>2, FrameFacts
  <2>4. lev2 \in Levels /\ lev2[f] = n + 1 /\ \A x \in Frames \ {f} : lev2[x] = lev[x]
    BY <1>1, <2>3 DEF Levels
  <2> HIDE DEF lev2
  <2>5. d.mem \in Memory
    BY <2>2 DEF WalkState
  <2>6. Linked(w.mem, lev, w.table, i, f, d.mem, lev2)
    BY <1>5, <2>1, <2>2, <2>3, <2>4, <2>5 DEF Linked
  <2>7. Tree(d.mem, r, lev2)
    BY <1>0, <2>6, LinkTree
  <2>8. \A u \in Pages : Walk4(d.mem, r, u) = Walk4(w.mem, r, u)
    BY <1>0, <2>6, LinkWalk
  <2>9. Reached(d, r, n + 1, lev2)
    <3>1. At(lev2, n + 1, d.table)
      BY <2>2, <2>3, <2>4 DEF At
    <3>2. \A x \in d.free : lev2[x] = 0
      BY <1>0, <1>1, <2>2, <2>4
    <3> QED
      BY <2>2, <2>7, <3>1, <3>2 DEF Reached
  <2>10. Extends(r, w.mem, w.free, lev, d.mem, d.free, lev2)
    <3>1. d.free \subseteq w.free
      BY <2>2
    <3>2. \A x \in Frames : lev[x] # 0 => lev2[x] = lev[x]
      BY <2>3, <2>4
    <3>3. \A x \in Frames : lev[x] = 0 => (lev2[x] # 0 <=> x \in w.free \ d.free)
      BY <2>2, <2>4
    <3>4. \A x \in Frames \ w.free, j \in Idx : lev[x] = 0 => d.mem[x][j] = w.mem[x][j]
      BY <2>1, <2>2
    <3>5. \A x \in Frames, j \in Idx : lev[x] \in 1..3 /\ w.mem[x][j] # 0 => d.mem[x][j] = w.mem[x][j]
      BY <1>5, <2>2, <2>3
    <3> QED
      BY <2>8, <3>1, <3>2, <3>3, <3>4, <3>5 DEF Extends
  <2> QED
    BY <1>5, <2>2, <2>4, <2>9, <2>10 DEF d
<1> QED
  BY <1>2, <1>3, <1>4, <1>5

\* The walk of vmm_get_or_create_entry: it extends the tree and ends at the
\* table that holds the page's entry, or nowhere.
LEMMA EntryFound ==
    ASSUME NEW w, NEW r, NEW lev, Reached(w, r, 1, lev), NEW v \in Pages
    PROVE  LET d == Descend(Descend(Descend(w, v[1]), v[2]), v[3])
           IN \E lev2 \in Levels :
                 /\ Extends(r, w.mem, w.free, lev, d.mem, d.free, lev2)
                 /\ Reached(d, r, 4, lev2)
                 /\ d.table # 0 => d.table = Walk3(d.mem, r, v)
<1> DEFINE a == Descend(w, v[1])
           b == Descend(a, v[2])
           d == Descend(b, v[3])
<1>0. v[1] \in Idx /\ v[2] \in Idx /\ v[3] \in Idx
  BY DEF Pages
<1>1. PICK la \in Levels :
         /\ Extends(r, w.mem, w.free, lev, a.mem, a.free, la)
         /\ Reached(a, r, 1 + 1, la)
         /\ a.table # 0 => w.table # 0 /\ a.mem[w.table][v[1]] = a.table
  <2>1. 1 \in 1..3
    OBVIOUS
  <2> QED
    BY <1>0, <2>1, DescendStep
<1> HIDE DEF a
<1>2. PICK lb \in Levels :
         /\ Extends(r, a.mem, a.free, la, b.mem, b.free, lb)
         /\ Reached(b, r, 2 + 1, lb)
         /\ b.table # 0 => a.table # 0 /\ b.mem[a.table][v[2]] = b.table
  BY <1>0, <1>1, DescendStep
<1> HIDE DEF b
<1>3. PICK ld \in Levels :
         /\ Extends(r, b.mem, b.free, lb, d.mem, d.free, ld)
         /\ Reached(d, r, 3 + 1, ld)
         /\ d.table # 0 => b.table # 0 /\ d.mem[b.table][v[3]] = d.table
  BY <1>0, <1>2, DescendStep
<1> HIDE DEF d
<1>4. Extends(r, w.mem, w.free, lev, d.mem, d.free, ld)
  BY <1>1, <1>2, <1>3, ExtendsTrans
<1>5. ASSUME d.table # 0 PROVE d.table = Walk3(d.mem, r, v)
  <2>0. w.table # 0 /\ a.table # 0 /\ b.table # 0
    BY <1>1, <1>2, <1>3, <1>5
  <2>1. w.table = r /\ r # 0 /\ a.table # 0 /\ b.table # 0
    BY <2>0 DEF Reached, At, Tree, Graded
  <2>2. At(la, 2, a.table) /\ At(lb, 3, b.table) /\ At(lev, 1, w.table)
    BY <1>1, <1>2 DEF Reached
  <2>3. a.table \in Frames /\ la[a.table] = 2 /\ b.table \in Frames /\ lb[b.table] = 3
        /\ r \in Frames /\ lev[r] = 1
    BY <2>1, <2>2 DEF At
  <2>4. la[r] = 1 /\ lb[r] = 1 /\ lb[a.table] = 2
    BY <1>1, <1>2, <2>3 DEF Extends
  <2>5. a.mem[r][v[1]] = a.table /\ b.mem[a.table][v[2]] = b.table
        /\ d.mem[b.table][v[3]] = d.table
    BY <1>1, <1>2, <1>3, <1>5, <2>1
  <2>6. b.mem[r][v[1]] = a.table
    BY <1>0, <1>2, <2>1, <2>3, <2>4, <2>5 DEF Extends
  <2>7. d.mem[r][v[1]] = a.table /\ d.mem[a.table][v[2]] = b.table
    BY <1>0, <1>3, <2>1, <2>3, <2>4, <2>5, <2>6 DEF Extends
  <2> QED
    BY <2>1, <2>5, <2>7 DEF Walk3, Walk2, Walk1, Go
<1> QED
  BY <1>3, <1>4, <1>5 DEF d, b, a

-----------------------------------------------------------------------------
(***************************************************************************)
(* Writes to the memory.                                                   *)
(***************************************************************************)

LEMMA GoSame ==
    ASSUME NEW m, NEW m2, NEW lev, NEW n, NEW t, At(lev, n, t), NEW i \in Idx,
           \A x \in Frames, j \in Idx : lev[x] = n => m2[x][j] = m[x][j]
    PROVE  Go(m2, t, i) = Go(m, t, i)
BY DEF At, Go

\* The entry of a page, once its table is there: the write moves that page
\* and no other.
LEMMA WriteEntry ==
    ASSUME NEW m, NEW r, NEW lev, Tree(m, r, lev), NEW v \in Pages, Walk3(m, r, v) # 0,
           NEW m2 \in Memory, NEW p, m2[Walk3(m, r, v)][v[4]] = p,
           \A x \in Frames, j \in Idx : x # Walk3(m, r, v) \/ j # v[4] => m2[x][j] = m[x][j]
    PROVE  /\ Tree(m2, r, lev) /\ Walk4(m2, r, v) = p
           /\ \A u \in Pages : u # v => Walk4(m2, r, u) = Walk4(m, r, u)
<1>0. \A u \in Pages : /\ u[1] \in Idx /\ u[2] \in Idx /\ u[3] \in Idx /\ u[4] \in Idx
                       /\ u = <<u[1], u[2], u[3], u[4]>>
  BY DEF Pages
<1>1. Walk3(m, r, v) \in Frames /\ lev[Walk3(m, r, v)] = 4
  BY WalkLevels DEF At
<1>2. \A x \in Frames, j \in Idx : lev[x] \in 1..3 => m2[x][j] = m[x][j]
  BY <1>1
<1>3. Tree(m2, r, lev)
  <2>1. Graded(m2, r, lev)
    BY <1>2 DEF Tree, Graded
  <2>2. Hung(m2, lev)
    <3> SUFFICES ASSUME NEW x \in Frames, lev[x] > 1
                 PROVE  \E u \in Frames, j \in Idx : lev[u] \in 1..3 /\ m2[u][j] = x
      BY DEF Hung
    <3>1. PICK u \in Frames, j \in Idx : lev[u] \in 1..3 /\ m[u][j] = x
      BY DEF Tree, Hung
    <3> QED
      BY <1>2, <3>1
  <2>3. Single(m2, lev)
    BY <1>2 DEF Tree, Single
  <2> QED
    BY <2>1, <2>2, <2>3 DEF Tree
<1>4. /\ \A x \in Frames, j \in Idx : lev[x] = 1 => m2[x][j] = m[x][j]
      /\ \A x \in Frames, j \in Idx : lev[x] = 2 => m2[x][j] = m[x][j]
      /\ \A x \in Frames, j \in Idx : lev[x] = 3 => m2[x][j] = m[x][j]
  BY <1>2
<1>5. ASSUME NEW u \in Pages
      PROVE  Walk3(m2, r, u) = Walk3(m, r, u)
  <2>1. /\ At(lev, 1, r) /\ At(lev, 2, Walk1(m, r, u)) /\ At(lev, 3, Walk2(m, r, u))
    BY WalkLevels
  <2>2. Walk1(m2, r, u) = Walk1(m, r, u)
    BY <1>0, <1>4, GoSame, <2>1 DEF Walk1
  <2>3. Walk2(m2, r, u) = Walk2(m, r, u)
    BY <1>0, <1>4, GoSame, <2>1, <2>2 DEF Walk2
  <2> QED
    BY <1>0, <1>4, GoSame, <2>1, <2>3 DEF Walk3
<1>6. Walk4(m2, r, v) = p
  BY <1>5 DEF Walk4, Go
<1>7. ASSUME NEW u \in Pages, u # v
      PROVE  Walk4(m2, r, u) = Walk4(m, r, u)
  <2>1. CASE Walk3(m, r, u) = 0
    BY <1>5, <2>1 DEF Walk4, Go
  <2>2. CASE Walk3(m, r, u) # 0 /\ Walk3(m, r, u) = Walk3(m, r, v)
    <3>1. u[1] = v[1] /\ u[2] = v[2] /\ u[3] = v[3]
      BY <2>2, WalkSingle
    <3>2. u[4] # v[4]
      BY <1>0, <1>7, <3>1
    <3> QED
      BY <1>0, <1>1, <1>5, <2>2, <3>2 DEF Walk4, Go
  <2>3. CASE Walk3(m, r, u) # 0 /\ Walk3(m, r, u) # Walk3(m, r, v)
    <3>1. Walk3(m, r, u) \in Frames
      BY <2>3, WalkLevels DEF At
    <3> QED
      BY <1>0, <1>5, <2>3, <3>1 DEF Walk4, Go
  <2> QED
    BY <2>1, <2>2, <2>3
<1> QED
  BY <1>3, <1>6, <1>7

\* A write to a frame that is no table leaves the tree and every page alone.
LEMMA OffTree ==
    ASSUME NEW m, NEW r, NEW lev, Tree(m, r, lev), NEW m2 \in Memory,
           \A x \in Frames : lev[x] # 0 => m2[x] = m[x]
    PROVE  Tree(m2, r, lev) /\ \A u \in Pages : Walk4(m2, r, u) = Walk4(m, r, u)
<1>2. \A x \in Frames, j \in Idx : lev[x] \in 1..4 => m2[x][j] = m[x][j]
  OBVIOUS
<1>3. Tree(m2, r, lev)
  <2>1. Graded(m2, r, lev)
    BY <1>2 DEF Tree, Graded
  <2>2. Hung(m2, lev)
    <3> SUFFICES ASSUME NEW x \in Frames, lev[x] > 1
                 PROVE  \E u \in Frames, j \in Idx : lev[u] \in 1..3 /\ m2[u][j] = x
      BY DEF Hung
    <3>1. PICK u \in Frames, j \in Idx : lev[u] \in 1..3 /\ m[u][j] = x
      BY DEF Tree, Hung
    <3> QED
      BY <1>2, <3>1
  <2>3. Single(m2, lev)
    BY <1>2 DEF Tree, Single
  <2> QED
    BY <2>1, <2>2, <2>3 DEF Tree
<1>4. /\ \A x \in Frames, j \in Idx : lev[x] = 1 => m2[x][j] = m[x][j]
      /\ \A x \in Frames, j \in Idx : lev[x] = 2 => m2[x][j] = m[x][j]
      /\ \A x \in Frames, j \in Idx : lev[x] = 3 => m2[x][j] = m[x][j]
      /\ \A x \in Frames, j \in Idx : lev[x] = 4 => m2[x][j] = m[x][j]
  BY <1>2
<1>5. ASSUME NEW u \in Pages
      PROVE  Walk4(m2, r, u) = Walk4(m, r, u)
  <2>0. u[1] \in Idx /\ u[2] \in Idx /\ u[3] \in Idx /\ u[4] \in Idx
    BY DEF Pages
  <2>1. /\ At(lev, 1, r) /\ At(lev, 2, Walk1(m, r, u))
        /\ At(lev, 3, Walk2(m, r, u)) /\ At(lev, 4, Walk3(m, r, u))
    BY WalkLevels
  <2>5. /\ Go(m2, r, u[1]) = Go(m, r, u[1])
        /\ Go(m2, Walk1(m, r, u), u[2]) = Go(m, Walk1(m, r, u), u[2])
        /\ Go(m2, Walk2(m, r, u), u[3]) = Go(m, Walk2(m, r, u), u[3])
        /\ Go(m2, Walk3(m, r, u), u[4]) = Go(m, Walk3(m, r, u), u[4])
    BY <1>4, <2>0, <2>1, GoSame
  <2> QED
    BY <2>5 DEF Walk1, Walk2, Walk3, Walk4
<1> QED
  BY <1>3, <1>5

-----------------------------------------------------------------------------
(***************************************************************************)
(* Translations.                                                           *)
(***************************************************************************)

CpuGo(m, entry, i) == IF entry <= 0 THEN entry ELSE m[entry][i]
CpuWalk(m, s, v) == FrameOf(CpuGo(m, CpuGo(m, CpuGo(m, CpuGo(m, s, v[1]), v[2]), v[3]), v[4]))

PhysGo(m, table, i) == IF table = 0 THEN 0 ELSE FrameOf(m[table][i])
PhysWalk(m, k, v) == PhysGo(m, PhysGo(m, PhysGo(m, PhysGo(m, k, v[1]), v[2]), v[3]), v[4])

\* The CPU's walk and the one of vmm_get_physical.
LEMMA CpuWalkIs ==
    ASSUME NEW m, NEW k, NEW lev, Tree(m, k, lev), NEW s \in Frames, NEW v \in Pages,
           m[s][v[1]] # 0 => m[s][v[1]] = m[k][v[1]]
    PROVE  CpuWalk(m, s, v) = IF m[s][v[1]] = 0 THEN 0 ELSE Walk4(m, k, v)
<1>0. v[1] \in Idx /\ v[2] \in Idx /\ v[3] \in Idx /\ v[4] \in Idx
  BY DEF Pages
<1>1. /\ At(lev, 2, Walk1(m, k, v)) /\ At(lev, 3, Walk2(m, k, v)) /\ At(lev, 4, Walk3(m, k, v))
  BY WalkLevels
<1>2. m \in [Frames -> [Idx -> Nat]] /\ k \in Frames
  BY DEF Tree, Graded, Memory
<1>3. \A n \in Nat : \A i : CpuGo(m, n, i) = Go(m, n, i)
  BY DEF CpuGo, Go
<1>4. s \in Nat /\ s # 0 /\ k \in Nat /\ k # 0
  BY <1>2, FrameFacts
<1>5. CpuGo(m, s, v[1]) = m[s][v[1]]
  BY <1>3, <1>4 DEF Go
<1>6. CASE m[s][v[1]] = 0
  <2>1. CpuGo(m, 0, v[2]) = 0 /\ CpuGo(m, 0, v[3]) = 0 /\ CpuGo(m, 0, v[4]) = 0
    BY <1>3 DEF Go
  <2> QED
    BY <1>5, <1>6, <2>1, FrameOfPlain DEF CpuWalk
<1>7. CASE m[s][v[1]] # 0
  <2>1. CpuGo(m, s, v[1]) = Walk1(m, k, v)
    <3>1. m[s][v[1]] = m[k][v[1]]
      BY <1>7
    <3>2. Walk1(m, k, v) = m[k][v[1]]
      BY <1>4 DEF Walk1, Go
    <3> QED
      BY <1>5, <3>1, <3>2
  <2>2. Walk1(m, k, v) \in Nat /\ Walk2(m, k, v) \in Nat /\ Walk3(m, k, v) \in Nat
    <3>1. \A t \in Frames \cup {0} : t \in Nat
      BY FrameFacts
    <3>2. /\ Walk1(m, k, v) \in Frames \cup {0} /\ Walk2(m, k, v) \in Frames \cup {0}
          /\ Walk3(m, k, v) \in Frames \cup {0}
      BY <1>1 DEF At
    <3> QED
      BY <3>1, <3>2
  <2>3. CpuGo(m, Walk1(m, k, v), v[2]) = Walk2(m, k, v)
    BY <1>3, <2>2 DEF Walk2
  <2>4. CpuGo(m, Walk2(m, k, v), v[3]) = Walk3(m, k, v)
    BY <1>3, <2>2 DEF Walk3
  <2>5. CpuGo(m, Walk3(m, k, v), v[4]) = Walk4(m, k, v)
    BY <1>3, <2>2 DEF Walk4
  <2>6. Walk4(m, k, v) \in Nat
    BY <1>0, <1>1, <1>2 DEF Walk4, Go, At
  <2> QED
    BY <1>7, <2>1, <2>3, <2>4, <2>5, <2>6, FrameOfPlain DEF CpuWalk
<1> QED
  BY <1>6, <1>7

LEMMA PhysWalkIs ==
    ASSUME NEW m, NEW k, NEW lev, Tree(m, k, lev), NEW v \in Pages
    PROVE  PhysWalk(m, k, v) = Walk4(m, k, v)
<1>0. v[1] \in Idx /\ v[2] \in Idx /\ v[3] \in Idx /\ v[4] \in Idx
  BY DEF Pages
<1>1. /\ At(lev, 1, k) /\ At(lev, 2, Walk1(m, k, v))
      /\ At(lev, 3, Walk2(m, k, v)) /\ At(lev, 4, Walk3(m, k, v))
  BY WalkLevels
<1>2. m \in [Frames -> [Idx -> Nat]]
  BY DEF Tree, Memory
<1>3. \A t \in Frames \cup {0}, i \in Idx : PhysGo(m, t, i) = Go(m, t, i)
  BY <1>2, FrameOfPlain DEF PhysGo, Go
<1>4. /\ k \in Frames \cup {0} /\ Walk1(m, k, v) \in Frames \cup {0}
      /\ Walk2(m, k, v) \in Frames \cup {0} /\ Walk3(m, k, v) \in Frames \cup {0}
  BY <1>1 DEF At
<1>5. PhysGo(m, k, v[1]) = Walk1(m, k, v)
  BY <1>0, <1>3, <1>4 DEF Walk1
<1>6. PhysGo(m, Walk1(m, k, v), v[2]) = Walk2(m, k, v)
  BY <1>0, <1>3, <1>4 DEF Walk2
<1>7. PhysGo(m, Walk2(m, k, v), v[3]) = Walk3(m, k, v)
  BY <1>0, <1>3, <1>4 DEF Walk3
<1>8. PhysGo(m, Walk3(m, k, v), v[4]) = Walk4(m, k, v)
  BY <1>0, <1>3, <1>4 DEF Walk4
<1> QED
  BY <1>5, <1>6, <1>7, <1>8 DEF PhysWalk

LEMMA TranslateWalks == \A s, v : Translate(s, v) = CpuWalk(mem, s, v)
BY DEF Translate, CpuFollow, CpuWalk, CpuGo

LEMMA PhysicalWalks == \A v : GetPhysical(v) = PhysWalk(mem, kernel_pml4, v)
BY DEF GetPhysical, Follow, PhysWalk, PhysGo

-----------------------------------------------------------------------------
(***************************************************************************)
(* The invariant.                                                          *)
(***************************************************************************)

\* The tree of the kernel's tables; before vmm_init it is the firmware's.
Root == IF kernel_pml4 # 0 THEN kernel_pml4 ELSE cr3

\* Every frame has one use: a table of the tree has a level, any other frame
\* is in one of three sets.
Held(m, r, fr, cl, sp, lev) ==
    /\ r # 0 => Tree(m, r, lev)
    /\ r = 0 => \A x \in Frames : lev[x] = 0
    /\ \A x \in Frames : lev[x] # 0 <=> x \notin fr \cup cl \cup sp

Apart(fr, cl, sp) == fr \cap cl = {} /\ fr \cap sp = {} /\ cl \cap sp = {}

\* The entries of an address space are entries of the kernel's upper half.
Shared(m, k, sp) ==
    \A s \in sp, i \in Idx : m[s][i] # 0 => k # 0 /\ i >= Half /\ m[s][i] = m[k][i]

Coherent(m, c, T) == \A e \in T : e.virt \in Virts /\ CpuWalk(m, c, e.virt) = e.phys

VTypeOK ==
    /\ mem \in Memory /\ free \in SUBSET Frames /\ clients \in SUBSET Frames
    /\ spaces \in SUBSET Frames /\ kernel_pml4 \in Frames \cup {0} /\ cr3 \in Frames \cup {0}

Current ==
    /\ kernel_pml4 # 0 => cr3 \in spaces \cup {kernel_pml4}
    /\ kernel_pml4 = 0 => tlb = {}

VInv ==
    /\ VTypeOK /\ Apart(free, clients, spaces)
    /\ \E lev \in Levels : Held(mem, Root, free, clients, spaces, lev)
    /\ Shared(mem, kernel_pml4, spaces) /\ Current /\ Coherent(mem, cr3, tlb)

LEMMA VirtPages == Virts \subseteq Pages /\ Half \in Idx /\ Phys \subseteq Nat /\ Idx \subseteq Nat
<1>1. Fanout \in Nat
  BY VmmAssumption
<1>2. Idx \subseteq Nat
  BY <1>1 DEF Idx
<1> QED
  BY <1>2, VmmAssumption DEF Pages

LEMMA CpuKernel ==
    ASSUME NEW m, NEW k, NEW lev, Tree(m, k, lev), NEW u \in Pages
    PROVE  CpuWalk(m, k, u) = Walk4(m, k, u)
<1>1. k \in Frames /\ k # 0
  BY FrameFacts DEF Tree, Graded
<1>2. CpuWalk(m, k, u) = IF m[k][u[1]] = 0 THEN 0 ELSE Walk4(m, k, u)
  BY <1>1, CpuWalkIs
<1>3. m[k][u[1]] = 0 => Walk4(m, k, u) = 0
  BY <1>1 DEF Walk4, Walk3, Walk2, Walk1, Go
<1> QED
  BY <1>2, <1>3

\* Cached translations stay right if their pages do not move.
LEMMA CoherentKept ==
    ASSUME NEW m, NEW m2, NEW k, NEW lev, NEW lev2, Tree(m, k, lev), Tree(m2, k, lev2),
           NEW sp \in SUBSET Frames, Shared(m, k, sp), NEW c \in sp \cup {k},
           \A j \in Idx : c # k => m2[c][j] = m[c][j],
           \A j \in Idx : m[k][j] # 0 => m2[k][j] = m[k][j],
           NEW T, NEW T2 \in SUBSET T, Coherent(m, c, T),
           \A e \in T2 : Walk4(m2, k, e.virt) = Walk4(m, k, e.virt)
    PROVE  Coherent(m2, c, T2)
<1> SUFFICES ASSUME NEW e \in T2
             PROVE  CpuWalk(m2, c, e.virt) = CpuWalk(m, c, e.virt)
  BY DEF Coherent
<1>1. e.virt \in Pages /\ e.virt[1] \in Idx
  <2>1. e.virt \in Pages
    BY VirtPages DEF Coherent
  <2> QED
    BY <2>1 DEF Pages
<1>2. Walk4(m2, k, e.virt) = Walk4(m, k, e.virt)
  OBVIOUS
<1> DEFINE u == e.virt
<1> HIDE DEF u
<1>3. CASE c = k
  BY <1>1, <1>2, <1>3, CpuKernel
<1>4. CASE c # k
  <2>1. c \in sp /\ c \in Frames
    BY <1>4
  <2>2. m[c][u[1]] # 0 => m[c][u[1]] = m[k][u[1]]
    BY <1>1, <2>1 DEF Shared, u
  <2>3. m2[c][u[1]] = m[c][u[1]]
    BY <1>1, <1>4 DEF u
  <2>4. m[k][u[1]] # 0 => m2[k][u[1]] = m[k][u[1]]
    BY <1>1 DEF u
  <2>5. m2[c][u[1]] # 0 => m2[c][u[1]] = m2[k][u[1]]
    BY <2>2, <2>3, <2>4
  <2>6. CpuWalk(m, c, u) = IF m[c][u[1]] = 0 THEN 0 ELSE Walk4(m, k, u)
    BY <1>1, <2>1, <2>2, CpuWalkIs DEF u
  <2>7. CpuWalk(m2, c, u) = IF m2[c][u[1]] = 0 THEN 0 ELSE Walk4(m2, k, u)
    BY <1>1, <2>1, <2>5, CpuWalkIs DEF u
  <2> QED
    BY <1>2, <2>3, <2>6, <2>7 DEF u
<1> QED
  BY <1>3, <1>4

LEMMA InitFromCr3Inv == VInv /\ InitFromCr3 => VInv'
<1> SUFFICES ASSUME VInv, InitFromCr3 PROVE VInv'
  OBVIOUS
<1>1. VTypeOK' /\ Apart(free, clients, spaces)'
  BY DEF VInv, VTypeOK, InitFromCr3, Apart
<1>2. PICK lev \in Levels : Held(mem, Root, free, clients, spaces, lev)
  BY DEF VInv
<1>3. Root' = Root
  BY DEF InitFromCr3, Root
<1>4. Held(mem, Root, free, clients, spaces, lev)'
  BY <1>2, <1>3 DEF InitFromCr3
<1>5. Shared(mem, kernel_pml4, spaces)'
  BY DEF VInv, InitFromCr3, Shared
<1>6. Current' /\ Coherent(mem, cr3, tlb)'
  BY DEF VInv, InitFromCr3, Current, Coherent
<1> QED
  BY <1>1, <1>4, <1>5, <1>6 DEF VInv

LEMMA InitNewInv == VInv /\ InitNew => VInv'
<1> SUFFICES ASSUME VInv, InitNew PROVE VInv'
  OBVIOUS
<1>1. PICK f \in free :
         /\ mem' = [mem EXCEPT ![f] = Cleared] /\ free' = free \ {f} /\ kernel_pml4' = f
         /\ cr3' = f /\ tlb' = {} /\ clients' = clients /\ spaces' = spaces
         /\ kernel_pml4 = 0 /\ cr3 = 0
  BY LeastFrame DEF InitNew, VInv, VTypeOK
<1>0. f \in free /\ f \in Frames /\ f \in Nat /\ f # 0
  BY FrameFacts DEF VInv, VTypeOK
<1>2. Cleared \in [Idx -> Nat] /\ \A j \in Idx : Cleared[j] = 0
  BY DEF Cleared
<1>3. mem' \in Memory /\ \A x \in Frames : mem'[x] = IF x = f THEN Cleared ELSE mem[x]
  BY <1>0, <1>1, <1>2 DEF VInv, VTypeOK, Memory
<1>4. VTypeOK' /\ Apart(free, clients, spaces)'
  BY <1>0, <1>1, <1>3 DEF VInv, VTypeOK, Apart
<1>5. PICK lev \in Levels : Held(mem, Root, free, clients, spaces, lev)
  BY DEF VInv
<1>6. \A x \in Frames : x \in free \cup clients \cup spaces
  BY <1>1, <1>5 DEF Held, Root
<1>7. PICK lev2 \in Levels : lev2[f] = 1 /\ \A x \in Frames \ {f} : lev2[x] = 0
  <2>1. [x \in Frames |-> IF x = f THEN 1 ELSE 0] \in Levels
    BY DEF Levels
  <2> QED
    BY <1>0, <2>1
<1>8. Tree(mem', f, lev2)
  <2>1. Graded(mem', f, lev2)
    <3>1. \A x \in Frames : lev2[x] = 1 <=> x = f
      BY <1>0, <1>7
    <3>2. \A x \in Frames, i \in Idx : lev2[x] \in 1..3 => mem'[x][i] = 0
      BY <1>0, <1>2, <1>3, <1>7
    <3> QED
      BY <1>0, <3>1, <3>2 DEF Graded
  <2>2. Hung(mem', lev2)
    BY <1>0, <1>7 DEF Hung
  <2>3. Single(mem', lev2)
    <3> SUFFICES ASSUME NEW x \in Frames, NEW i \in Idx, lev2[x] \in 1..3
                 PROVE  mem'[x][i] = 0
      BY DEF Single
    <3>1. x = f
      BY <1>7
    <3> QED
      BY <1>0, <1>2, <1>3, <3>1
  <2> QED
    BY <1>3, <1>7, <2>1, <2>2, <2>3 DEF Tree
<1>9. \A x \in Frames : lev2[x] # 0 <=> x \notin free' \cup clients' \cup spaces'
  BY <1>0, <1>1, <1>6, <1>7 DEF VInv, Apart
<1>10. Root' = f
  BY <1>0, <1>1 DEF Root
<1>11. Held(mem, Root, free, clients, spaces, lev2)'
  BY <1>0, <1>8, <1>9, <1>10 DEF Held
<1>12. Shared(mem, kernel_pml4, spaces)'
  <2>1. \A s \in spaces : s # f /\ s \in Frames
    BY <1>0 DEF VInv, VTypeOK, Apart
  <2>2. \A s \in spaces, i \in Idx : mem[s][i] = 0
    BY <1>1 DEF VInv, Shared
  <2> QED
    BY <1>1, <1>3, <2>1, <2>2 DEF Shared
<1>13. Current' /\ Coherent(mem, cr3, tlb)'
  BY <1>0, <1>1 DEF Current, Coherent
<1> QED
  BY <1>4, <1>7, <1>11, <1>12, <1>13 DEF VInv

\* A step that writes to a frame outside the tree, if to any.
LEMMA OffInv ==
    ASSUME VInv, NEW f \in free \cup clients \cup spaces, f # cr3,
           mem' \in Memory, \A x \in Frames : x # f => mem'[x] = mem[x],
           kernel_pml4' = kernel_pml4, cr3' = cr3, tlb' = tlb,
           VTypeOK', Apart(free', clients', spaces'), Current',
           free' \cup clients' \cup spaces' = free \cup clients \cup spaces,
           Shared(mem', kernel_pml4, spaces')
    PROVE  /\ VInv'
           /\ kernel_pml4 # 0 =>
                \A u \in Pages : Walk4(mem', kernel_pml4, u) = Walk4(mem, kernel_pml4, u)
<1>1. PICK lev \in Levels : Held(mem, Root, free, clients, spaces, lev)
  BY DEF VInv
<1>2. Root' = Root
  BY DEF Root
<1>3. \A x \in Frames : lev[x] # 0 => mem'[x] = mem[x]
  BY <1>1 DEF Held
<1>4. Root # 0 => /\ Tree(mem, Root, lev) /\ Tree(mem', Root, lev)
                  /\ \A u \in Pages : Walk4(mem', Root, u) = Walk4(mem, Root, u)
  BY <1>1, <1>3, OffTree DEF Held
<1>5. Held(mem', Root, free', clients', spaces', lev)
  BY <1>1, <1>4 DEF Held
<1>6. Coherent(mem', cr3, tlb)
  <2>1. CASE kernel_pml4 = 0
    BY <2>1 DEF VInv, Current, Coherent
  <2>2. CASE kernel_pml4 # 0
    <3>1. Root = kernel_pml4
      BY <2>2 DEF Root
    <3>2. /\ Tree(mem, kernel_pml4, lev) /\ Tree(mem', kernel_pml4, lev)
          /\ \A u \in Pages : Walk4(mem', kernel_pml4, u) = Walk4(mem, kernel_pml4, u)
      BY <1>4, <2>2, <3>1
    <3>3. cr3 \in spaces \cup {kernel_pml4} /\ cr3 \in Frames /\ spaces \in SUBSET Frames
      BY <2>2 DEF VInv, VTypeOK, Current
    <3>4. \A j \in Idx : mem'[cr3][j] = mem[cr3][j] /\ mem'[kernel_pml4][j] = mem[kernel_pml4][j]
      BY <1>3, <3>2, <3>3 DEF Tree, Graded
    <3>5. Shared(mem, kernel_pml4, spaces) /\ Coherent(mem, cr3, tlb)
      BY DEF VInv
    <3>6. \A e \in tlb : Walk4(mem', kernel_pml4, e.virt) = Walk4(mem, kernel_pml4, e.virt)
      BY <3>2, <3>5, VirtPages DEF Coherent
    <3> QED
      BY <3>2, <3>3, <3>4, <3>5, <3>6, CoherentKept
  <2> QED
    BY <2>1, <2>2
<1>7. VInv'
  BY <1>2, <1>5, <1>6 DEF VInv
<1> QED
  BY <1>4, <1>7 DEF Root

\* No frame of the sets is the root, and only a space can be current.
LEMMA RootOff ==
    ASSUME VInv
    PROVE  /\ Root \notin free \cup clients \cup spaces
           /\ cr3 \notin free \cup clients
<1>1. PICK lev \in Levels : Held(mem, Root, free, clients, spaces, lev)
  BY DEF VInv
<1>2. Root \notin free \cup clients \cup spaces
  <2>1. CASE Root = 0
    BY <2>1, FrameFacts DEF VInv, VTypeOK
  <2>2. CASE Root # 0
    <3>1. Root \in Frames /\ lev[Root] = 1
      BY <1>1, <2>2 DEF Held, Tree, Graded
    <3> QED
      BY <1>1, <3>1 DEF Held
  <2> QED
    BY <2>1, <2>2
<1>3. CASE kernel_pml4 = 0
  BY <1>2, <1>3 DEF Root
<1>4. CASE kernel_pml4 # 0
  <2>1. cr3 = Root \/ cr3 \in spaces
    BY <1>4 DEF VInv, Current, Root
  <2> QED
    BY <1>2, <2>1 DEF VInv, Apart
<1> QED
  BY <1>2, <1>3, <1>4

\* What the operations that may not move a page have in common.
Quiet == /\ VInv'
         /\ kernel_pml4 # 0 =>
              /\ kernel_pml4' = kernel_pml4
              /\ \A u \in Pages : Walk4(mem', kernel_pml4, u) = Walk4(mem, kernel_pml4, u)

LEMMA ClientAllocQuiet == VInv /\ ClientAlloc => Quiet
<1> SUFFICES ASSUME VInv, ClientAlloc PROVE Quiet
  OBVIOUS
<1>1. PICK f \in free :
         /\ mem' = [mem EXCEPT ![f] = Junk] /\ free' = free \ {f} /\ clients' = clients \cup {f}
         /\ kernel_pml4' = kernel_pml4 /\ cr3' = cr3 /\ spaces' = spaces /\ tlb' = tlb
  BY LeastFrame DEF ClientAlloc, VInv, VTypeOK
<1>2. f \in Frames /\ Junk \in [Idx -> Nat] /\ f # cr3
  BY RootOff DEF VInv, VTypeOK, Junk
<1>3. mem' \in Memory /\ \A x \in Frames : x # f => mem'[x] = mem[x]
  BY <1>1, <1>2 DEF VInv, VTypeOK, Memory
<1>4. VTypeOK' /\ Apart(free', clients', spaces') /\ Current'
  BY <1>1, <1>2, <1>3 DEF VInv, VTypeOK, Apart, Current
<1>5. free' \cup clients' \cup spaces' = free \cup clients \cup spaces
  BY <1>1
<1>6. Shared(mem', kernel_pml4, spaces')
  <2>1. f # kernel_pml4
    BY <1>2, RootOff, FrameFacts DEF Root
  <2>2. \A s \in spaces : s # f /\ s \in Frames
    BY <1>1 DEF VInv, VTypeOK, Apart
  <2>3. kernel_pml4 # 0 => kernel_pml4 \in Frames
    BY DEF VInv, VTypeOK
  <2> QED
    BY <1>1, <1>3, <2>1, <2>2, <2>3 DEF VInv, Shared
<1>7. f \in free \cup clients \cup spaces
  OBVIOUS
<1>8. kernel_pml4' = kernel_pml4 /\ cr3' = cr3 /\ tlb' = tlb
  BY <1>1
<1> QED
  BY <1>2, <1>3, <1>4, <1>5, <1>6, <1>7, <1>8, OffInv DEF Quiet

LEMMA ClientFreeQuiet ==
    ASSUME VInv, NEW f \in clients, ClientFree(f)
    PROVE  Quiet
<1>1. /\ clients' = clients \ {f} /\ free' = free \cup {f} /\ mem' = mem
      /\ kernel_pml4' = kernel_pml4 /\ cr3' = cr3 /\ spaces' = spaces /\ tlb' = tlb
  BY DEF ClientFree
<1>2. f \in Frames /\ f # cr3
  BY RootOff DEF VInv, VTypeOK
<1>3. mem' \in Memory /\ \A x \in Frames : x # f => mem'[x] = mem[x]
  BY <1>1 DEF VInv, VTypeOK
<1>4. VTypeOK' /\ Apart(free', clients', spaces') /\ Current'
  BY <1>1, <1>2 DEF VInv, VTypeOK, Apart, Current
<1>5. free' \cup clients' \cup spaces' = free \cup clients \cup spaces
  BY <1>1
<1>6. Shared(mem', kernel_pml4, spaces')
  BY <1>1 DEF VInv, Shared
<1>7. f \in free \cup clients \cup spaces
  OBVIOUS
<1>8. kernel_pml4' = kernel_pml4 /\ cr3' = cr3 /\ tlb' = tlb
  BY <1>1
<1> QED
  BY <1>2, <1>3, <1>4, <1>5, <1>6, <1>7, <1>8, OffInv DEF Quiet

LEMMA CreateQuiet == VInv /\ CreateAddressSpace => Quiet
<1> SUFFICES ASSUME VInv, CreateAddressSpace PROVE Quiet
  OBVIOUS
<1>1. PICK f \in free :
         /\ mem' = [mem EXCEPT ![f] = CopyUpperHalf(kernel_pml4)]
         /\ free' = free \ {f} /\ spaces' = spaces \cup {f} /\ clients' = clients
         /\ kernel_pml4' = kernel_pml4 /\ cr3' = cr3 /\ tlb' = tlb
  BY LeastFrame DEF CreateAddressSpace, VInv, VTypeOK
<1> DEFINE copy == CopyUpperHalf(kernel_pml4)
<1>2. f \in Frames /\ f # cr3 /\ f # kernel_pml4
  BY RootOff, FrameFacts DEF VInv, VTypeOK, Root
<1>3. /\ copy \in [Idx -> Nat]
      /\ \A i \in Idx : copy[i] # 0 =>
            kernel_pml4 # 0 /\ i >= Half /\ copy[i] = mem[kernel_pml4][i]
  <2>1. kernel_pml4 # 0 => mem[kernel_pml4] \in [Idx -> Nat]
    BY DEF VInv, VTypeOK, Memory
  <2> QED
    BY <2>1 DEF CopyUpperHalf
<1> HIDE DEF copy
<1>4. mem' \in Memory /\ \A x \in Frames : mem'[x] = IF x = f THEN copy ELSE mem[x]
  BY <1>1, <1>2, <1>3 DEF VInv, VTypeOK, Memory, copy
<1>5. VTypeOK' /\ Apart(free', clients', spaces') /\ Current'
  BY <1>1, <1>2, <1>4 DEF VInv, VTypeOK, Apart, Current
<1>6. free' \cup clients' \cup spaces' = free \cup clients \cup spaces
  BY <1>1
<1>7. Shared(mem', kernel_pml4, spaces')
  <2> SUFFICES ASSUME NEW s \in spaces \cup {f}, NEW i \in Idx, mem'[s][i] # 0
               PROVE  kernel_pml4 # 0 /\ i >= Half /\ mem'[s][i] = mem'[kernel_pml4][i]
    BY <1>1 DEF Shared
  <2>1. kernel_pml4 # 0 => mem'[kernel_pml4] = mem[kernel_pml4]
    BY <1>2, <1>4 DEF VInv, VTypeOK
  <2>2. CASE s = f
    BY <1>2, <1>3, <1>4, <2>1, <2>2
  <2>3. CASE s # f
    <3>1. s \in spaces /\ mem'[s] = mem[s]
      BY <1>4, <2>3 DEF VInv, VTypeOK
    <3> QED
      BY <2>1, <3>1 DEF VInv, Shared
  <2> QED
    BY <2>2, <2>3
<1>8. \A x \in Frames : x # f => mem'[x] = mem[x]
  BY <1>4
<1>9. f \in free \cup clients \cup spaces
  OBVIOUS
<1>10. kernel_pml4' = kernel_pml4 /\ cr3' = cr3 /\ tlb' = tlb
  BY <1>1
<1> QED
  BY <1>2, <1>4, <1>5, <1>6, <1>7, <1>8, <1>9, <1>10, OffInv DEF Quiet

LEMMA DestroyQuiet ==
    ASSUME VInv, NEW s \in spaces, DestroyAddressSpace(s)
    PROVE  Quiet
<1>1. /\ mem' = [mem EXCEPT ![s] = [i \in Idx |-> IF i < Half THEN 0 ELSE mem[s][i]]]
      /\ free' = free \cup {s} /\ spaces' = spaces \ {s} /\ clients' = clients
      /\ kernel_pml4' = kernel_pml4 /\ cr3' = cr3 /\ tlb' = tlb
  BY DEF DestroyAddressSpace, VInv, VTypeOK, Memory
<1> DEFINE rest == [i \in Idx |-> IF i < Half THEN 0 ELSE mem[s][i]]
<1>2. s \in Frames /\ s # cr3 /\ s # kernel_pml4
  BY RootOff, FrameFacts DEF VInv, VTypeOK, Root, DestroyAddressSpace
<1>3. rest \in [Idx -> Nat]
  BY <1>2 DEF VInv, VTypeOK, Memory
<1> HIDE DEF rest
<1>4. mem' \in Memory /\ \A x \in Frames : x # s => mem'[x] = mem[x]
  BY <1>1, <1>2, <1>3 DEF VInv, VTypeOK, Memory, rest
<1>5. VTypeOK' /\ Apart(free', clients', spaces') /\ Current'
  BY <1>1, <1>2, <1>4 DEF VInv, VTypeOK, Apart, Current
<1>6. free' \cup clients' \cup spaces' = free \cup clients \cup spaces
  BY <1>1
<1>7. Shared(mem', kernel_pml4, spaces')
  <2>1. kernel_pml4 # 0 => mem'[kernel_pml4] = mem[kernel_pml4]
    BY <1>2, <1>4 DEF VInv, VTypeOK
  <2>2. \A x \in spaces' : x \in spaces /\ mem'[x] = mem[x]
    BY <1>1, <1>4 DEF VInv, VTypeOK
  <2> QED
    BY <2>1, <2>2 DEF VInv, Shared
<1>8. s \in free \cup clients \cup spaces
  OBVIOUS
<1>9. kernel_pml4' = kernel_pml4 /\ cr3' = cr3 /\ tlb' = tlb
  BY <1>1
<1> QED
  BY <1>2, <1>4, <1>5, <1>6, <1>7, <1>8, <1>9, OffInv DEF Quiet

LEMMA SwitchQuiet ==
    ASSUME VInv, NEW s \in spaces \cup {kernel_pml4}, SwitchAddressSpace(s)
    PROVE  Quiet
<1>1. /\ kernel_pml4 # 0 /\ cr3' = s /\ tlb' = {} /\ mem' = mem /\ free' = free
      /\ clients' = clients /\ kernel_pml4' = kernel_pml4 /\ spaces' = spaces
  BY DEF SwitchAddressSpace
<1>2. VTypeOK' /\ Apart(free, clients, spaces)'
  BY <1>1 DEF VInv, VTypeOK, Apart
<1>3. Root' = Root
  BY <1>1 DEF Root
<1>4. (\E lev \in Levels : Held(mem, Root, free, clients, spaces, lev))'
  BY <1>1, <1>3 DEF VInv
<1>5. Shared(mem, kernel_pml4, spaces)' /\ Current' /\ Coherent(mem, cr3, tlb)'
  BY <1>1 DEF VInv, Shared, Current, Coherent
<1>6. VInv'
  BY <1>2, <1>4, <1>5 DEF VInv
<1> QED
  BY <1>1, <1>6 DEF Quiet

LEMMA TlbFillQuiet ==
    ASSUME VInv, NEW v \in Virts, TlbFill(v)
    PROVE  Quiet
<1>1. /\ kernel_pml4 # 0 /\ cr3' = cr3 /\ mem' = mem /\ free' = free
      /\ clients' = clients /\ kernel_pml4' = kernel_pml4 /\ spaces' = spaces
      /\ tlb' = {e \in tlb : e.virt # v} \cup {[virt |-> v, phys |-> CpuWalk(mem, cr3, v)]}
  BY TranslateWalks DEF TlbFill, InvalidateTlb
<1>2. VTypeOK' /\ Apart(free, clients, spaces)'
  BY <1>1 DEF VInv, VTypeOK, Apart
<1>3. Root' = Root
  BY <1>1 DEF Root
<1>4. (\E lev \in Levels : Held(mem, Root, free, clients, spaces, lev))'
  BY <1>1, <1>3 DEF VInv
<1>5. Shared(mem, kernel_pml4, spaces)' /\ Current'
  BY <1>1 DEF VInv, Shared, Current
<1>6. Coherent(mem', cr3', tlb')
  BY <1>1 DEF VInv, Coherent
<1>7. VInv'
  BY <1>2, <1>4, <1>5, <1>6 DEF VInv
<1> QED
  BY <1>1, <1>7 DEF Quiet

\* vmm_map_page and vmm_unmap_page: the page moves to p or, when a table could
\* not be had, stays where it is, and no other page moves.
LEMMA SetEntryInv ==
    ASSUME VInv, NEW v \in Virts, NEW p \in Nat, kernel_pml4 # 0, SetEntry(v, p)
    PROVE  /\ VInv'
           /\ \A u \in Pages : u # v => Walk4(mem', kernel_pml4, u) = Walk4(mem, kernel_pml4, u)
           /\ Walk4(mem', kernel_pml4, v) \in {p, Walk4(mem, kernel_pml4, v)}
<1> DEFINE k == kernel_pml4
           w0 == [mem |-> mem, free |-> free, table |-> kernel_pml4]
           w == GetOrCreateEntry(v)
<1>0. v \in Pages /\ v[4] \in Idx
  <2>1. v \in Pages
    BY VirtPages
  <2> QED
    BY <2>1 DEF Pages
<1>1. PICK lev \in Levels : Held(mem, k, free, clients, spaces, lev)
  BY DEF VInv, Root
<1>2. Tree(mem, k, lev) /\ \A x \in free : lev[x] = 0
  BY <1>1 DEF VInv, VTypeOK, Held
<1>3. Reached(w0, k, 1, lev) /\ w0.mem = mem /\ w0.free = free
  <2>1. At(lev, 1, k)
    BY <1>2 DEF Tree, Graded, At
  <2>2. w0 \in WalkState
    BY DEF WalkState, VInv, VTypeOK
  <2> QED
    BY <1>2, <2>1, <2>2 DEF Reached
<1>4. w = Descend(Descend(Descend(w0, v[1]), v[2]), v[3])
  BY DEF GetOrCreateEntry
<1> HIDE DEF w0
<1>5. PICK lev2 \in Levels :
         /\ Extends(k, w0.mem, w0.free, lev, w.mem, w.free, lev2)
         /\ Reached(w, k, 4, lev2)
         /\ w.table # 0 => w.table = Walk3(w.mem, k, v)
  BY <1>0, <1>3, <1>4, EntryFound
<1>6. /\ free' = w.free
      /\ w.table = 0 => mem' = w.mem /\ tlb' = tlb
      /\ w.table # 0 => /\ mem' = [w.mem EXCEPT ![w.table][v[4]] = p]
                        /\ tlb' = {e \in tlb : e.virt # v}
      /\ clients' = clients /\ kernel_pml4' = k /\ cr3' = cr3 /\ spaces' = spaces
  BY DEF SetEntry, InvalidateTlb
<1> HIDE DEF w
<1>7. Extends(k, mem, free, lev, w.mem, w.free, lev2)
  BY <1>3, <1>5
<1>8. /\ w.mem \in [Frames -> [Idx -> Nat]] /\ w.free \in SUBSET Frames
      /\ Tree(w.mem, k, lev2) /\ At(lev2, 4, w.table)
  BY <1>5 DEF Reached, WalkState, Memory
<1>9. /\ mem' \in Memory /\ Tree(mem', k, lev2)
      /\ \A x \in Frames, j \in Idx : lev2[x] # 4 => mem'[x][j] = w.mem[x][j]
      /\ \A u \in Pages : u # v => Walk4(mem', k, u) = Walk4(mem, k, u)
      /\ \/ tlb' = tlb /\ Walk4(mem', k, v) = Walk4(mem, k, v)
         \/ tlb' = {e \in tlb : e.virt # v} /\ Walk4(mem', k, v) = p
  <2>0. \A u \in Pages : Walk4(w.mem, k, u) = Walk4(mem, k, u)
    BY <1>7 DEF Extends
  <2>1. CASE w.table = 0
    <3>1. mem' = w.mem /\ tlb' = tlb
      BY <1>6, <2>1
    <3> QED
      BY <1>0, <1>8, <2>0, <3>1 DEF Memory
  <2>2. CASE w.table # 0
    <3>1. w.table \in Frames /\ lev2[w.table] = 4 /\ w.table = Walk3(w.mem, k, v)
      BY <1>5, <1>8, <2>2 DEF At
    <3>2. mem' = [w.mem EXCEPT ![w.table][v[4]] = p] /\ tlb' = {e \in tlb : e.virt # v}
      BY <1>6, <2>2
    <3>3. mem' \in [Frames -> [Idx -> Nat]]
      BY <1>0, <1>8, <3>1, <3>2
    <3>4. mem'[w.table][v[4]] = p
      BY <1>0, <1>8, <3>1, <3>2
    <3>5. \A x \in Frames, j \in Idx : x # w.table \/ j # v[4] => mem'[x][j] = w.mem[x][j]
      BY <1>0, <1>8, <3>1, <3>2
    <3>6. /\ Walk3(w.mem, k, v) # 0 /\ mem' \in Memory /\ mem'[Walk3(w.mem, k, v)][v[4]] = p
          /\ \A x \in Frames, j \in Idx :
               x # Walk3(w.mem, k, v) \/ j # v[4] => mem'[x][j] = w.mem[x][j]
      BY <2>2, <3>1, <3>3, <3>4, <3>5 DEF Memory
    <3>7. /\ Tree(mem', k, lev2) /\ Walk4(mem', k, v) = p
          /\ \A u \in Pages : u # v => Walk4(mem', k, u) = Walk4(w.mem, k, u)
      BY <1>0, <1>8, <3>6, WriteEntry
    <3>8. \A x \in Frames, j \in Idx : lev2[x] # 4 => mem'[x][j] = w.mem[x][j]
      BY <3>1, <3>5
    <3> QED
      BY <2>0, <3>2, <3>6, <3>7, <3>8
  <2> QED
    BY <2>1, <2>2
<1>10. k \in Frames /\ lev[k] = 1 /\ lev2[k] = 1
  BY <1>2, <1>8 DEF Tree, Graded
<1>11. /\ \A x \in Frames \ free, j \in Idx : lev[x] = 0 => mem'[x][j] = mem[x][j]
       /\ \A j \in Idx : mem[k][j] # 0 => mem'[k][j] = mem[k][j]
  <2>1. \A x \in Frames \ free : lev[x] = 0 => lev2[x] = 0
    BY <1>7 DEF Extends
  <2>2. \A x \in Frames \ free, j \in Idx : lev[x] = 0 => w.mem[x][j] = mem[x][j]
    BY <1>7 DEF Extends
  <2>3. \A j \in Idx : mem[k][j] # 0 => w.mem[k][j] = mem[k][j]
    BY <1>7, <1>10 DEF Extends
  <2>4. \A j \in Idx : mem'[k][j] = w.mem[k][j]
    BY <1>9, <1>10
  <2> QED
    BY <1>9, <2>1, <2>2, <2>3, <2>4
<1>12. \A s \in spaces : s \in Frames \ free /\ lev[s] = 0 /\ \A j \in Idx : mem'[s][j] = mem[s][j]
  <2>1. \A s \in spaces : s \in Frames \ free /\ lev[s] = 0
    BY <1>1 DEF VInv, VTypeOK, Apart, Held
  <2> QED
    BY <1>11, <2>1
<1>13. VTypeOK' /\ Apart(free, clients, spaces)' /\ Current'
  <2>1. free' \in SUBSET free
    BY <1>6, <1>7 DEF Extends
  <2> QED
    BY <1>6, <1>9, <2>1 DEF VInv, VTypeOK, Apart, Current
<1>14. Held(mem', k, free', clients', spaces', lev2)
  <2>1. \A x \in Frames : lev2[x] # 0 <=> x \notin free' \cup clients' \cup spaces'
    <3>1. w.free \subseteq free
      BY <1>7 DEF Extends
    <3>2. \A x \in Frames : lev[x] # 0 => lev2[x] # 0 /\ x \notin free \cup clients \cup spaces
      BY <1>1, <1>7 DEF Extends, Held
    <3>3. \A x \in Frames : lev[x] = 0 =>
             (lev2[x] # 0 <=> x \in free \ w.free) /\ x \in free \cup clients \cup spaces
      BY <1>1, <1>7 DEF Extends, Held
    <3>4. Apart(free, clients, spaces)
      BY DEF VInv
    <3> QED
      BY <1>6, <3>1, <3>2, <3>3, <3>4 DEF Apart
  <2> QED
    BY <1>9, <1>10, <2>1, FrameFacts DEF Held
<1>15. Shared(mem', k, spaces')
  BY <1>6, <1>11, <1>12 DEF VInv, Shared
<1>16. Coherent(mem', cr3, tlb')
  <2>1. cr3 \in spaces \cup {k} /\ spaces \in SUBSET Frames
    BY DEF VInv, VTypeOK, Current
  <2>2. \A j \in Idx : cr3 # k => mem'[cr3][j] = mem[cr3][j]
    BY <1>12, <2>1
  <2>3. Shared(mem, k, spaces) /\ Coherent(mem, cr3, tlb)
    BY DEF VInv
  <2>4. tlb' \in SUBSET tlb
    BY <1>9
  <2>5. \A e \in tlb' : Walk4(mem', k, e.virt) = Walk4(mem, k, e.virt)
    <3>1. \A e \in tlb : e.virt \in Pages
      BY <2>3, VirtPages DEF Coherent
    <3> QED
      BY <1>9, <3>1
  <2> HIDE DEF k
  <2> QED
    BY <1>2, <1>9, <1>11, <2>1, <2>2, <2>3, <2>4, <2>5, CoherentKept
<1>17. Root' = k /\ kernel_pml4' = k /\ cr3' = cr3
  BY <1>6 DEF Root
<1>18. VInv'
  BY <1>13, <1>14, <1>15, <1>16, <1>17 DEF VInv
<1> QED
  BY <1>9, <1>18

-----------------------------------------------------------------------------
(***************************************************************************)
(* The theorems.                                                           *)
(***************************************************************************)

\* The memory as the firmware leaves it.
FirmwareMem(f) == [p \in Frames |-> IF p \in DOMAIN f.tables THEN f.tables[p] ELSE Junk]

\* The firmware's tables form a tree without huge pages, and its frames are
\* not free; without tables there is nothing to ask.  The walks of vmm.c never
\* look at VMM_HUGE, so that with a huge page the theorems would be false.
SoundFirmware ==
    \A f \in Firmware : f.cr3 # 0 =>
       /\ DOMAIN f.tables \subseteq Frames
       /\ \E lev \in Levels : /\ Tree(FirmwareMem(f), f.cr3, lev)
                              /\ \A x \in Frames : lev[x] # 0 <=> x \in DOMAIN f.tables

LEMMA InitVInv ==
    ASSUME SoundFirmware
    PROVE  Init => VInv
<1> SUFFICES ASSUME NEW f \in Firmware,
                    mem = FirmwareMem(f), free = Frames \ DOMAIN f.tables, cr3 = f.cr3,
                    clients = {}, kernel_pml4 = 0, spaces = {}, tlb = {}
             PROVE  VInv
  BY DEF Init, FirmwareMem
<1>1. /\ Apart(free, clients, spaces) /\ Shared(mem, kernel_pml4, spaces) /\ Current
      /\ Coherent(mem, cr3, tlb)
  BY DEF Apart, Shared, Current, Coherent
<1>2. CASE f.cr3 = 0
  <2>1. DOMAIN f.tables = {}
    BY <1>2, VmmAssumption
  <2>2. Junk \in [Idx -> Nat]
    BY DEF Junk
  <2>3. FirmwareMem(f) \in Memory
    BY <2>1, <2>2 DEF FirmwareMem, Memory
  <2>4. VTypeOK
    BY <1>2, <2>3 DEF VTypeOK
  <2>5. [x \in Frames |-> 0] \in Levels
    BY DEF Levels
  <2>6. Held(mem, Root, free, clients, spaces, [x \in Frames |-> 0])
    BY <1>2, <2>1 DEF Held, Root
  <2> QED
    BY <1>1, <2>4, <2>5, <2>6 DEF VInv
<1>3. CASE f.cr3 # 0
  <2>1. PICK lev \in Levels : /\ Tree(FirmwareMem(f), f.cr3, lev)
                              /\ \A x \in Frames : lev[x] # 0 <=> x \in DOMAIN f.tables
    BY <1>3 DEF SoundFirmware
  <2>2. FirmwareMem(f) \in Memory /\ f.cr3 \in Frames
    BY <2>1 DEF Tree, Graded
  <2>3. VTypeOK
    BY <2>2 DEF VTypeOK
  <2>4. Held(mem, Root, free, clients, spaces, lev)
    BY <1>3, <2>1 DEF Held, Root
  <2> QED
    BY <1>1, <2>3, <2>4 DEF VInv
<1> QED
  BY <1>2, <1>3

\* Either no page moves, or the step maps or unmaps the one that does.
LEMMA NextVInv ==
    ASSUME VInv, [Next]_vars
    PROVE  \/ Quiet
           \/ /\ VInv' /\ kernel_pml4 # 0 /\ kernel_pml4' = kernel_pml4
              /\ \E v \in Virts, p \in Phys \cup {0} :
                   /\ SetEntry(v, p)
                   /\ \A u \in Pages : u # v =>
                         Walk4(mem', kernel_pml4, u) = Walk4(mem, kernel_pml4, u)
                   /\ Walk4(mem', kernel_pml4, v) \in {p, Walk4(mem, kernel_pml4, v)}
<1>1. ASSUME NEW v \in Virts, NEW p \in Phys \cup {0}, kernel_pml4 # 0, SetEntry(v, p)
      PROVE  /\ VInv' /\ kernel_pml4 # 0 /\ kernel_pml4' = kernel_pml4
             /\ \A u \in Pages : u # v =>
                   Walk4(mem', kernel_pml4, u) = Walk4(mem, kernel_pml4, u)
             /\ Walk4(mem', kernel_pml4, v) \in {p, Walk4(mem, kernel_pml4, v)}
  <2>1. p \in Nat
    BY VirtPages
  <2>2. kernel_pml4' = kernel_pml4
    BY <1>1 DEF SetEntry
  <2> QED
    BY <1>1, <2>1, <2>2, SetEntryInv
<1>2. CASE InitFromCr3
  BY <1>2, InitFromCr3Inv DEF Quiet, InitFromCr3
<1>3. CASE InitNew
  BY <1>3, InitNewInv DEF Quiet, InitNew
<1>4. ASSUME NEW v \in Virts, NEW p \in Phys, MapPage(v, p)
      PROVE  kernel_pml4 # 0 /\ SetEntry(v, p) /\ p \in Phys \cup {0}
  BY <1>4 DEF MapPage
<1>5. ASSUME NEW v \in Virts, UnmapPage(v)
      PROVE  kernel_pml4 # 0 /\ SetEntry(v, 0) /\ 0 \in Phys \cup {0}
  BY <1>5 DEF UnmapPage
<1>6. CASE CreateAddressSpace
  BY <1>6, CreateQuiet
<1>7. CASE \E s \in spaces \cup {kernel_pml4} : SwitchAddressSpace(s)
  BY <1>7, SwitchQuiet
<1>8. CASE \E s \in spaces : DestroyAddressSpace(s)
  BY <1>8, DestroyQuiet
<1>9. CASE ClientAlloc
  BY <1>9, ClientAllocQuiet
<1>10. CASE \E f \in clients : ClientFree(f)
  BY <1>10, ClientFreeQuiet
<1>11. CASE \E v \in Virts : TlbFill(v)
  BY <1>11, TlbFillQuiet
<1>12. CASE UNCHANGED vars
  <2>1. VInv'
    BY <1>12 DEF vars, VInv, VTypeOK, Root, Current
  <2> QED
    BY <1>12, <2>1 DEF vars, Quiet
<1>13. CASE \E v \in Virts, p \in Phys : MapPage(v, p)
  BY <1>1, <1>4, <1>13
<1>14. CASE \E v \in Virts : UnmapPage(v)
  BY <1>1, <1>5, <1>14
<1> QED
  BY <1>2, <1>3, <1>6, <1>7, <1>8, <1>9, <1>10, <1>11, <1>12, <1>13, <1>14 DEF Next

LEMMA VInvAlways ==
    ASSUME SoundFirmware
    PROVE  Spec => []VInv
<1>1. Init => VInv
  BY InitVInv
<1>2. VInv /\ [Next]_vars => VInv'
  BY NextVInv DEF Quiet
<1> QED
  BY <1>1, <1>2, PTL DEF Spec

\* The kernel's tree, and vmm_get_physical on it.
LEMMA KernelTree ==
    ASSUME VInv, kernel_pml4 # 0
    PROVE  /\ \E lev \in Levels : Tree(mem, kernel_pml4, lev)
           /\ \A v \in Pages : GetPhysical(v) = Walk4(mem, kernel_pml4, v)
<1>1. PICK lev \in Levels : Tree(mem, kernel_pml4, lev)
  BY DEF VInv, Held, Root
<1> QED
  BY <1>1, PhysicalWalks, PhysWalkIs

\* vmm_create_address_space and all that follows: an address space shows the
\* kernel's pages of the upper half as far as the tables were there when it
\* was created, and no page besides.
THEOREM SpacesCorrect ==
    ASSUME SoundFirmware
    PROVE  Spec => []SpacesSeeKernel
<1>1. VInv => SpacesSeeKernel
  <2> SUFFICES ASSUME VInv, NEW s \in spaces, NEW v \in Virts
               PROVE  CpuWalk(mem, s, v) =
                        IF v[1] >= Half /\ mem[s][v[1]] # 0 THEN GetPhysical(v) ELSE 0
    BY TranslateWalks DEF SpacesSeeKernel
  <2>0. v \in Pages /\ v[1] \in Idx /\ s \in Frames
    <3>1. v \in Pages
      BY VirtPages
    <3> QED
      BY <3>1 DEF Pages, VInv, VTypeOK
  <2>1. mem[s][v[1]] # 0 =>
           kernel_pml4 # 0 /\ v[1] >= Half /\ mem[s][v[1]] = mem[kernel_pml4][v[1]]
    BY <2>0 DEF VInv, Shared
  <2>2. CASE kernel_pml4 # 0
    <3>1. PICK lev \in Levels : Tree(mem, kernel_pml4, lev)
      BY <2>2, KernelTree
    <3>2. GetPhysical(v) = Walk4(mem, kernel_pml4, v)
      BY <2>0, <2>2, KernelTree
    <3>3. CpuWalk(mem, s, v) = IF mem[s][v[1]] = 0 THEN 0 ELSE Walk4(mem, kernel_pml4, v)
      BY <2>0, <2>1, <3>1, CpuWalkIs
    <3> QED
      BY <2>1, <3>2, <3>3
  <2>3. CASE kernel_pml4 = 0
    <3>1. mem[s][v[1]] = 0 /\ s \in Nat /\ s # 0
      BY <2>0, <2>1, <2>3, FrameFacts
    <3>2. \A i : CpuGo(mem, 0, i) = 0
      BY DEF CpuGo
    <3>3. CpuGo(mem, s, v[1]) = 0
      BY <3>1 DEF CpuGo
    <3>4. FrameOf(0) = 0
      BY FrameOfPlain
    <3> QED
      BY <3>1, <3>2, <3>3, <3>4 DEF CpuWalk
  <2> QED
    BY <2>2, <2>3
<1> QED
  BY <1>1, VInvAlways, PTL

\* invlpg in vmm_map_page and vmm_unmap_page, and the loads of CR3: the CPU
\* holds no translation that the current tables do not.
THEOREM TlbCorrect ==
    ASSUME SoundFirmware
    PROVE  Spec => []TlbCoherent
<1>1. VInv => TlbCoherent
  BY TranslateWalks DEF VInv, Coherent, TlbCoherent
<1> QED
  BY <1>1, VInvAlways, PTL

\* No operation moves a page of the kernel but the one it is asked to map or
\* unmap, not even one that runs out of frames half way.
THEOREM TargetCorrect ==
    ASSUME SoundFirmware
    PROVE  Spec => OnlyTargetMoves
<1>1. VInv /\ [Next]_vars =>
        (kernel_pml4 # 0 =>
           \A v \in Virts : GetPhysical(v)' # GetPhysical(v) =>
              \E p \in Phys \cup {0} : SetEntry(v, p) /\ GetPhysical(v)' = p)
  <2> SUFFICES ASSUME VInv, [Next]_vars, kernel_pml4 # 0, NEW v \in Virts,
                      GetPhysical(v)' # GetPhysical(v)
               PROVE  \E p \in Phys \cup {0} : SetEntry(v, p) /\ GetPhysical(v)' = p
    OBVIOUS
  <2>0. v \in Pages
    BY VirtPages
  <2>1. GetPhysical(v) = Walk4(mem, kernel_pml4, v)
    BY <2>0, KernelTree
  <2>2. VInv' /\ kernel_pml4' = kernel_pml4
    BY NextVInv DEF Quiet
  <2>3. PICK lev \in Levels : Tree(mem', kernel_pml4, lev)
    BY <2>2 DEF VInv, Held, Root
  <2>4. GetPhysical(v)' = PhysWalk(mem', kernel_pml4', v)
    BY DEF GetPhysical, Follow, PhysWalk, PhysGo
  <2>5. GetPhysical(v)' = Walk4(mem', kernel_pml4, v)
    BY <2>0, <2>2, <2>3, <2>4, PhysWalkIs
  <2>6. Walk4(mem', kernel_pml4, v) # Walk4(mem, kernel_pml4, v)
    BY <2>1, <2>5
  <2>7. PICK u \in Virts, p \in Phys \cup {0} :
           /\ SetEntry(u, p)
           /\ \A x \in Pages : x # u => Walk4(mem', kernel_pml4, x) = Walk4(mem, kernel_pml4, x)
           /\ Walk4(mem', kernel_pml4, u) \in {p, Walk4(mem, kernel_pml4, u)}
    BY <2>0, <2>6, NextVInv DEF Quiet
  <2>8. u = v
    BY <2>0, <2>6, <2>7
  <2> QED
    BY <2>5, <2>6, <2>7, <2>8
<1> QED
  BY <1>1, VInvAlways, PTL DEF Spec, OnlyTargetMoves

-----------------------------------------------------------------------------
(***************************************************************************)
(* The account of the frames.                                              *)
(***************************************************************************)

LevelSet(lev, n) == {x \in Frames : lev[x] = n}

LEMMA BelowLevel ==
    ASSUME NEW lev, NEW k, Tree(mem, k, lev), NEW n \in 1..3
    PROVE  Below(LevelSet(lev, n)) = LevelSet(lev, n + 1)
<1>0. mem \in [Frames -> [Idx -> Nat]]
  BY DEF Tree, Memory
<1>1. \A t \in Frames, i \in Idx : FrameOf(mem[t][i]) = mem[t][i]
  BY <1>0, FrameOfPlain
<1>2. ASSUME NEW x \in Below(LevelSet(lev, n))
      PROVE  x \in LevelSet(lev, n + 1)
  <2>1. PICK t \in LevelSet(lev, n), i \in Idx : x = FrameOf(mem[t][i]) /\ x # 0
    BY <1>2 DEF Below
  <2>2. t \in Frames /\ lev[t] = n /\ mem[t][i] # 0 /\ x = mem[t][i]
    BY <1>1, <2>1 DEF LevelSet
  <2>3. mem[t][i] \in Frames /\ lev[mem[t][i]] = n + 1
    BY <2>2 DEF Tree, Graded
  <2> QED
    BY <2>2, <2>3 DEF LevelSet
<1>3. ASSUME NEW x \in LevelSet(lev, n + 1)
      PROVE  x \in Below(LevelSet(lev, n))
  <2>1. x \in Frames /\ lev[x] = n + 1 /\ x # 0
    BY FrameFacts DEF LevelSet
  <2>2. PICK t \in Frames, i \in Idx : lev[t] \in 1..3 /\ mem[t][i] = x
    BY <2>1 DEF Tree, Hung
  <2>3. lev[x] = lev[t] + 1
    BY <2>1, <2>2 DEF Tree, Graded
  <2>4. t \in LevelSet(lev, n) /\ x = FrameOf(mem[t][i])
    BY <1>1, <2>1, <2>2, <2>3 DEF LevelSet
  <2> QED
    BY <2>1, <2>4 DEF Below
<1> QED
  BY <1>2, <1>3

\* The levels of Upper are those of the tree.
LEMMA UpperIs ==
    ASSUME NEW lev \in Levels, Tree(mem, kernel_pml4, lev), NEW n \in 1..4
    PROVE  Upper(n) = {x \in Frames : lev[x] \in 1..n}
<1> DEFINE level[l \in 1..4] == IF l = 1 THEN {kernel_pml4} ELSE Below(level[l - 1])
           F == [l \in 1..4 |-> LevelSet(lev, l)]
<1>1. LevelSet(lev, 1) = {kernel_pml4}
  BY DEF Tree, Graded, LevelSet
<1>2. \A l \in 1..4 : l # 1 => LevelSet(lev, l) = Below(LevelSet(lev, l - 1))
  <2> SUFFICES ASSUME NEW l \in 1..4, l # 1
               PROVE  LevelSet(lev, l) = Below(LevelSet(lev, l - 1))
    OBVIOUS
  <2>1. l - 1 \in 1..3 /\ (l - 1) + 1 = l
    OBVIOUS
  <2>2. Below(LevelSet(lev, l - 1)) = LevelSet(lev, (l - 1) + 1)
    BY <2>1, BelowLevel
  <2> QED
    BY <2>1, <2>2
<1>3. F = [l \in 1..4 |-> IF l = 1 THEN {kernel_pml4} ELSE Below(F[l - 1])]
  <2>1. \A l \in 1..4 : l # 1 => F[l - 1] = LevelSet(lev, l - 1)
    OBVIOUS
  <2> QED
    BY <1>1, <1>2, <2>1
<1>4. \E g : g = [l \in 1..4 |-> IF l = 1 THEN {kernel_pml4} ELSE Below(g[l - 1])]
  BY <1>3
<1>5. level = [l \in 1..4 |-> IF l = 1 THEN {kernel_pml4} ELSE Below(level[l - 1])]
  BY <1>4 DEF level
<1> HIDE DEF level
<1>6. \A l \in 1..4 : level[l] = IF l = 1 THEN {kernel_pml4} ELSE Below(level[l - 1])
  BY <1>5
<1>7. level[1] = LevelSet(lev, 1)
  BY <1>1, <1>6
<1>8. level[2] = LevelSet(lev, 2)
  BY <1>2, <1>6, <1>7
<1>9. level[3] = LevelSet(lev, 3)
  BY <1>2, <1>6, <1>8
<1>10. level[4] = LevelSet(lev, 4)
  BY <1>2, <1>6, <1>9
<1>11. \A l \in 1..4 : level[l] = LevelSet(lev, l)
  BY <1>7, <1>8, <1>9, <1>10
<1>12. Upper(n) = UNION {level[l] : l \in 1..n}
  BY DEF Upper, level
<1> QED
  BY <1>11, <1>12 DEF LevelSet

\* Every table but the PML4 hangs on one entry: as many links as tables, less
\* one.
LEMMA LinkCount ==
    ASSUME NEW lev \in Levels, Tree(mem, kernel_pml4, lev)
    PROVE  Cardinality(Links) + 1 = Cardinality(Upper(4))
<1> DEFINE k == kernel_pml4
           U == Upper(4) \ {k}
           g == [e \in Links |-> mem[e[1]][e[2]]]
<1>1. Upper(3) = {x \in Frames : lev[x] \in 1..3} /\ Upper(4) = {x \in Frames : lev[x] \in 1..4}
  BY UpperIs
<1>2. \A x \in Frames : lev[x] \in 0..4
  BY DEF Levels
<1>3. k \in Frames /\ \A x \in Frames : lev[x] = 1 <=> x = k
  BY DEF Tree, Graded
<1>4. \A e \in Links : /\ e = <<e[1], e[2]>> /\ e[1] \in Frames /\ lev[e[1]] \in 1..3
                       /\ e[2] \in Idx /\ mem[e[1]][e[2]] # 0
  BY <1>1 DEF Links
<1>5. \A x \in Frames, i \in Idx : lev[x] \in 1..3 /\ mem[x][i] # 0 => <<x, i>> \in Links
  BY <1>1 DEF Links
<1>6. g \in [Links -> U]
  <2> SUFFICES ASSUME NEW e \in Links PROVE mem[e[1]][e[2]] \in U
    OBVIOUS
  <2>1. mem[e[1]][e[2]] \in Frames /\ lev[mem[e[1]][e[2]]] = lev[e[1]] + 1
    BY <1>4 DEF Tree, Graded
  <2>2. lev[mem[e[1]][e[2]]] \in 2..4
    BY <1>4, <2>1
  <2> QED
    BY <1>1, <1>3, <2>1, <2>2
<1>7. \A e, d \in Links : g[e] = g[d] => e = d
  <2> SUFFICES ASSUME NEW e \in Links, NEW d \in Links, mem[e[1]][e[2]] = mem[d[1]][d[2]]
               PROVE  e = d
    OBVIOUS
  <2>1. e[1] = d[1] /\ e[2] = d[2]
    BY <1>4 DEF Tree, Single
  <2> QED
    BY <1>4, <2>1
<1>8. \A x \in U : \E e \in Links : g[e] = x
  <2> SUFFICES ASSUME NEW x \in U PROVE \E e \in Links : mem[e[1]][e[2]] = x
    OBVIOUS
  <2>0. x \in Frames /\ lev[x] \in 1..4 /\ x # k
    BY <1>1
  <2>1. x \in Frames /\ lev[x] > 1 /\ x # 0
    BY <1>3, <2>0, FrameFacts
  <2>2. PICK t \in Frames, i \in Idx : lev[t] \in 1..3 /\ mem[t][i] = x
    BY <2>1 DEF Tree, Hung
  <2>3. <<t, i>> \in Links
    BY <1>5, <2>1, <2>2
  <2> QED
    BY <2>2, <2>3
<1>9. g \in Injection(Links, U) /\ g \in Surjection(Links, U)
  BY <1>6, <1>7, <1>8 DEF Injection, Surjection, IsInjective
<1>10. IsFiniteSet(Upper(4)) /\ k \in Upper(4)
  <2>1. Upper(4) \in SUBSET Frames
    BY <1>1
  <2> QED
    BY <1>1, <1>3, <2>1, FrameFacts, FS_Subset
<1> HIDE DEF k
<1>11. IsFiniteSet(U) /\ Cardinality(U) = Cardinality(Upper(4)) - 1
  BY <1>10, FS_RemoveElement
<1>12. Cardinality(Upper(4)) \in Nat
  BY <1>10, FS_CardinalityType
<1> HIDE DEF U, g
<1>13. Cardinality(Links) = Cardinality(U)
  BY <1>9, <1>11, FS_Injection
<1> QED
  BY <1>11, <1>12, <1>13

\* No frame leaks and none is used twice, whatever was mapped, unmapped,
\* created and destroyed and wherever the frames ran out.
THEOREM FramesCorrect ==
    ASSUME SoundFirmware
    PROVE  Spec => []FramesAccounted
<1>1. VInv => FramesAccounted
  <2> SUFFICES ASSUME VInv, kernel_pml4 # 0
               PROVE  LET parts == <<free, clients, spaces, Upper(4)>>
                      IN /\ UNION {parts[i] : i \in 1..4} = Frames
                         /\ \A i, j \in 1..4 : i # j => parts[i] \cap parts[j] = {}
                         /\ Cardinality(Links) + 1 = Cardinality(Upper(4))
    BY DEF FramesAccounted
  <2> DEFINE parts == <<free, clients, spaces, Upper(4)>>
  <2>1. PICK lev \in Levels : Held(mem, kernel_pml4, free, clients, spaces, lev)
    BY DEF VInv, Root
  <2>2. Tree(mem, kernel_pml4, lev)
    BY <2>1 DEF Held
  <2>3. Upper(4) = {x \in Frames : lev[x] # 0}
    <3>1. Upper(4) = {x \in Frames : lev[x] \in 1..4}
      BY <2>2, UpperIs
    <3>2. \A x \in Frames : lev[x] \in 1..4 <=> lev[x] # 0
      BY DEF Levels
    <3> QED
      BY <3>1, <3>2
  <2>4. Upper(4) = Frames \ (free \cup clients \cup spaces)
    BY <2>1, <2>3 DEF Held
  <2>5. /\ free \cup clients \cup spaces \cup Upper(4) = Frames
        /\ free \cap clients = {} /\ free \cap spaces = {} /\ clients \cap spaces = {}
        /\ free \cap Upper(4) = {} /\ clients \cap Upper(4) = {} /\ spaces \cap Upper(4) = {}
    BY <2>4 DEF VInv, VTypeOK, Apart
  <2>6. parts[1] = free /\ parts[2] = clients /\ parts[3] = spaces /\ parts[4] = Upper(4)
    OBVIOUS
  <2>7. Cardinality(Links) + 1 = Cardinality(Upper(4))
    BY <2>2, LinkCount
  <2> HIDE DEF parts
  <2>8. UNION {parts[i] : i \in 1..4} = Frames
    <3>1. UNION {parts[i] : i \in 1..4} = parts[1] \cup parts[2] \cup parts[3] \cup parts[4]
      <4>1. 1..4 = {1, 2, 3, 4}
        OBVIOUS
      <4> QED
        BY <4>1
    <3> QED
      BY <2>5, <2>6, <3>1
  <2>9. \A i, j \in 1..4 : i # j => parts[i] \cap parts[j] = {}
    <3>1. \A i \in 1..4 : i = 1 \/ i = 2 \/ i = 3 \/ i = 4
      OBVIOUS
    <3> QED
      BY <2>5, <2>6, <3>1
  <2> QED
    BY <2>7, <2>8, <2>9 DEF parts
<1> QED
  BY <1>1, VInvAlways, PTL
=============================================================================
