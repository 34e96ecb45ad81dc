-------------------------- MODULE VirtioNetProofs --------------------------
(***************************************************************************)
(* Theorems about VirtioNet, for every size of the queues, number of       *)
(* buffers and range of the indices.                                       *)
(*                                                                         *)
(* The indices of a ring are the remainders of counters that never wrap:   *)
(* U buffers that the device has given back, L of which the driver has     *)
(* taken back, A that the driver has published and E that it has written   *)
(* to the ring.                                                            *)
(***************************************************************************)
EXTENDS VirtioNet, FiniteSetTheorems, WellFoundedInduction, TLAPS

\* Every set of naturals that is not empty has a least element.
LEMMA LeastNatural ==
    ASSUME NEW T \in SUBSET Nat, T # {}
    PROVE  \E x \in T : \A y \in T : x <= y
<1>1. PICK x \in T : \A y \in T : ~ (<<y, x>> \in OpToRel(<, Nat))
  BY NatLessThanWellFounded, WFMin
<1>2. \A y \in T : ~(y < x)
  BY <1>1 DEF OpToRel
<1> QED
  BY <1>2

-----------------------------------------------------------------------------
(***************************************************************************)
(* Remainders.                                                             *)
(***************************************************************************)

LEMMA Division ==
    ASSUME NEW n \in Nat \ {0}, NEW x \in Int
    PROVE  /\ x % n \in 0..(n - 1) /\ x \div n \in Int
           /\ x = n * (x \div n) + (x % n)
BY Z3

LEMMA RemainderUnique ==
    ASSUME NEW n \in Nat \ {0}, NEW c \in Int, NEW r \in 0..(n - 1)
    PROVE  (n * c + r) % n = r
BY Z3

LEMMA SmallRemainder ==
    ASSUME NEW n \in Nat \ {0}, NEW r \in 0..(n - 1)
    PROVE  r % n = r
BY Z3

LEMMA Multiple ==
    ASSUME NEW n \in Nat \ {0}, NEW x \in Int, NEW c \in Int
    PROVE  (x + n * c) % n = x % n
<1> DEFINE r == x % n
           d == x \div n
<1>1. r \in 0..(n - 1) /\ d \in Int /\ x = n * d + r
  BY Division
<1> HIDE DEF r, d
<1>2. x + n * c = n * (d + c) + r
  <2>1. \A i, j, k, l \in Int : (k * i + l) + k * j = k * (i + j) + l
    BY Z3
  <2> QED
    BY <1>1, <2>1
<1>3. (n * (d + c) + r) % n = r
  <2>1. d + c \in Int
    BY <1>1
  <2> QED
    BY <1>1, <2>1, RemainderUnique
<1> QED
  BY <1>2, <1>3 DEF r

LEMMA NextRemainder ==
    ASSUME NEW n \in Nat \ {0}, NEW k \in Nat
    PROVE  ((k % n) + 1) % n = (k + 1) % n
<1> DEFINE r == k % n
           d == k \div n
<1>1. r \in 0..(n - 1) /\ d \in Int /\ k = n * d + r /\ n \in Nat \ {0}
  BY Division
<1> HIDE DEF r, d
<1>2. k + 1 = (r + 1) + n * d /\ r + 1 \in Int
  BY <1>1
<1>3. ((r + 1) + n * d) % n = (r + 1) % n
  BY <1>1, <1>2, Multiple
<1> QED
  BY <1>2, <1>3 DEF r

LEMMA RemaindersDiffer ==
    ASSUME NEW n \in Nat \ {0}, NEW j \in Nat, NEW k \in Nat, j < k, k - j < n
    PROVE  j % n # k % n
<1> DEFINE r == j % n
           d == j \div n
           s == k % n
           f == k \div n
<1>1. r \in 0..(n - 1) /\ d \in Int /\ j = n * d + r /\ n \in Nat \ {0}
  BY Division
<1>2. s \in 0..(n - 1) /\ f \in Int /\ k = n * f + s
  BY Division
<1> HIDE DEF r, d, s, f
<1>3. SUFFICES ASSUME r = s PROVE FALSE
  BY DEF r, s
<1>4. k - j = n * (f - d)
  <2>1. \A m, x, y \in Int : m * (x - y) = m * x - m * y
    BY Z3
  <2>2. n * (f - d) = n * f - n * d
    BY <1>1, <1>2, <2>1
  <2> QED
    BY <1>1, <1>2, <1>3, <2>2
<1>5. ASSUME NEW m \in Nat, NEW x \in Int, m * x > 0
      PROVE  m * x >= m
  <2>1. \A y, z \in Nat : y * z \in Nat
    BY Z3
  <2>2. m * (-x) = -(m * x) /\ m * (x - 1) = m * x - m
    BY Z3
  <2>3. CASE x <= 0
    <3>1. -x \in Nat
      BY <2>3
    <3>2. m * (-x) \in Nat
      BY <2>1, <3>1
    <3>3. m * x \in Int
      BY Z3
    <3> QED
      BY <1>5, <2>2, <3>2, <3>3
  <2>4. CASE x > 0
    <3>1. x - 1 \in Nat
      BY <2>4
    <3>2. m * (x - 1) \in Nat
      BY <2>1, <3>1
    <3>3. m * x \in Int
      BY Z3
    <3> QED
      BY <2>2, <3>2, <3>3
  <2> QED
    BY <2>3, <2>4
<1> DEFINE t == f - d
<1>6. t \in Int /\ n * t > 0 /\ n \in Nat
  BY <1>1, <1>2, <1>4
<1>7. k - j = n * t
  BY <1>4
<1> HIDE DEF t
<1>8. n * t >= n
  BY <1>5, <1>6
<1>9. k - j >= n
  BY <1>7, <1>8
<1> QED
  BY <1>1, <1>9

LEMMA Sizes ==
    /\ Size \in Nat \ {0} /\ IdxMod \in Nat \ {0} /\ Size < IdxMod
    /\ IdxMod \div Size \in Int /\ IdxMod = Size * (IdxMod \div Size)
    /\ 0 \in Desc /\ Desc \subseteq Nat
    /\ RxBuffers \in Nat \ {0} /\ TxBuffers \in Nat \ {0} /\ RxBuffers <= Size
<1>1. /\ Size \in Nat \ {0} /\ IdxMod \in Nat \ {0} /\ Size < IdxMod /\ IdxMod % Size = 0
      /\ RxBuffers \in Nat \ {0} /\ TxBuffers \in Nat \ {0} /\ RxBuffers <= Size
  BY VirtioAssumption
<1>2. IdxMod \div Size \in Int /\ IdxMod = Size * (IdxMod \div Size) + (IdxMod % Size)
  BY <1>1, Division
<1>3. IdxMod = Size * (IdxMod \div Size)
  BY <1>1, <1>2
<1>4. 0 \in Desc /\ Desc \subseteq Nat
  BY <1>1 DEF Desc
<1> QED
  BY <1>1, <1>2, <1>3, <1>4

\* The slot of the k-th buffer, and slots counted from an index.
Slot(k) == k % Size

LEMMA SlotDesc == \A k \in Nat : Slot(k) \in Desc
BY Sizes, Division DEF Slot, Desc

LEMMA IndexSlot ==
    ASSUME NEW k \in Nat, NEW i \in Nat
    PROVE  ((k % IdxMod) + i) % Size = Slot(k + i)
<1> DEFINE r == k % IdxMod
           d == k \div IdxMod
           c == IdxMod \div Size
<1>1. r \in 0..(IdxMod - 1) /\ d \in Int /\ k = IdxMod * d + r
  BY Sizes, Division
<1>2. c \in Int /\ IdxMod = Size * c /\ Size \in Nat \ {0}
  BY Sizes
<1> HIDE DEF r, d, c
<1>3. k + i = (r + i) + Size * (c * d)
  <2>1. \A x, y, z, w, v \in Int : ((x * y) * z + w) + v = (w + v) + x * (y * z)
    BY Z3
  <2>2. k + i = ((Size * c) * d + r) + i
    BY <1>1, <1>2
  <2> QED
    BY <1>1, <1>2, <2>1, <2>2
<1>4. c * d \in Int /\ r + i \in Int
  BY <1>1, <1>2
<1>5. ((r + i) + Size * (c * d)) % Size = (r + i) % Size
  BY <1>2, <1>4, Multiple
<1> QED
  BY <1>3, <1>5 DEF Slot, r

LEMMA IndexNext ==
    ASSUME NEW k \in Nat
    PROVE  ((k % IdxMod) + 1) % IdxMod = (k + 1) % IdxMod
BY Sizes, NextRemainder

\* The distance of two indices, one of them perhaps a step ahead.
LEMMA IndexDistance ==
    ASSUME NEW l \in Nat, NEW a \in Nat, NEW e \in {0, 1}, l <= a + e, (a + e) - l <= Size
    PROVE  (((a % IdxMod) + e) - (l % IdxMod)) % IdxMod = (a + e) - l
<1> DEFINE r == a % IdxMod
           d == a \div IdxMod
           s == l % IdxMod
           f == l \div IdxMod
<1>1. r \in 0..(IdxMod - 1) /\ d \in Int /\ a = IdxMod * d + r /\ IdxMod \in Nat \ {0}
  BY Sizes, Division
<1>2. s \in 0..(IdxMod - 1) /\ f \in Int /\ l = IdxMod * f + s
  BY Sizes, Division
<1> HIDE DEF r, d, s, f
<1>3. (r + e) - s = ((a + e) - l) + IdxMod * (f - d)
  <2>1. \A m, x, y \in Int : m * (x - y) = m * x - m * y
    BY Z3
  <2>2. IdxMod * (f - d) = IdxMod * f - IdxMod * d
    BY <1>1, <1>2, <2>1
  <2> QED
    BY <1>1, <1>2, <2>2
<1>4. (a + e) - l \in Int /\ f - d \in Int
  BY <1>1, <1>2
<1>5. (((a + e) - l) + IdxMod * (f - d)) % IdxMod = ((a + e) - l) % IdxMod
  BY <1>1, <1>4, Multiple
<1>6. (a + e) - l \in 0..(IdxMod - 1)
  BY Sizes
<1>7. ((a + e) - l) % IdxMod = (a + e) - l
  BY <1>1, <1>6, SmallRemainder
<1> QED
  BY <1>3, <1>5, <1>7 DEF r, s

\* Two indices are equal only if the counters are, ...
LEMMA IndexEqual ==
    ASSUME NEW l \in Nat, NEW a \in Nat, l <= a, a - l <= Size
    PROVE  l % IdxMod = a % IdxMod <=> l = a
<1>1. (((a % IdxMod) + 0) - (l % IdxMod)) % IdxMod = (a + 0) - l
  BY IndexDistance
<1>2. l % IdxMod \in Int /\ a % IdxMod \in Int /\ 0 % IdxMod = 0
  BY Sizes, Division, SmallRemainder
<1>3. l % IdxMod = a % IdxMod => ((a % IdxMod) + 0) - (l % IdxMod) = 0
  BY <1>2
<1> QED
  BY <1>1, <1>2, <1>3

\* ... and the slots of fewer than Size buffers in a row are different.
LEMMA SlotsDiffer ==
    ASSUME NEW j \in Nat, NEW k \in Nat, j < k, k - j < Size
    PROVE  Slot(j) # Slot(k)
BY Sizes, RemaindersDiffer DEF Slot

-----------------------------------------------------------------------------
(***************************************************************************)
(* Virtqueues.                                                             *)
(***************************************************************************)

QueueType ==
    [desc : [Desc -> [buf : Nat, next : Desc]], avail : [Desc -> Desc], avail_idx : Nat,
     seen : Nat, used : [Desc -> Desc], used_idx : Nat, last_used : Nat,
     free_head : Desc, num_free : Nat]

\* The descriptor of the k-th buffer.
Av(q, k) == q.avail[Slot(k)]

Counts(q, L, U, A, E) ==
    /\ L \in Nat /\ U \in Nat /\ A \in Nat /\ E \in Nat
    /\ L <= U /\ U <= A /\ A <= E /\ (E - L) + q.num_free = Size
    /\ q.last_used = L % IdxMod /\ q.used_idx = U % IdxMod
    /\ q.seen = U % IdxMod /\ q.avail_idx = A % IdxMod

\* No descriptor is in use twice, and the device gives back what it was given.
Rings(q, L, U, E) ==
    /\ \A j, k \in L..(E - 1) : Av(q, j) = Av(q, k) => j = k
    /\ \A k \in L..(U - 1) : q.used[Slot(k)] = Av(q, k)

\* The free list, as a function from positions to descriptors.
Chain(q, fl) ==
    /\ \A i, j \in 1..q.num_free : fl[i] = fl[j] => i = j
    /\ q.num_free > 0 => q.free_head = fl[1]
    /\ \A i \in 1..(q.num_free - 1) : q.desc[fl[i]].next = fl[i + 1]

Parted(q, fl, L, E) ==
    \A d \in Desc : (\E i \in 1..q.num_free : fl[i] = d) <=> ~(\E k \in L..(E - 1) : Av(q, k) = d)

QueueOK(q, L, U, A, E) ==
    /\ q \in QueueType /\ Counts(q, L, U, A, E) /\ Rings(q, L, U, E)
    /\ \E fl \in [1..q.num_free -> Desc] : Chain(q, fl) /\ Parted(q, fl, L, E)

\* The slots that the indices name.
LEMMA IndexSlots ==
    ASSUME NEW q, NEW L, NEW U, NEW A, NEW E, Counts(q, L, U, A, E)
    PROVE  /\ q.last_used % Size = Slot(L) /\ q.used_idx % Size = Slot(U)
           /\ q.seen % Size = Slot(U) /\ q.avail_idx % Size = Slot(A)
           /\ (q.last_used + 1) % IdxMod = (L + 1) % IdxMod
           /\ (q.used_idx + 1) % IdxMod = (U + 1) % IdxMod
           /\ (q.avail_idx + 1) % IdxMod = (A + 1) % IdxMod
<1>1. L \in Nat /\ U \in Nat /\ A \in Nat
  BY DEF Counts
<1>2. ASSUME NEW k \in Nat
      PROVE  (k % IdxMod) % Size = Slot(k) /\ ((k % IdxMod) + 1) % IdxMod = (k + 1) % IdxMod
  <2>1. ((k % IdxMod) + 0) % Size = Slot(k + 0)
    BY IndexSlot
  <2>2. (k % IdxMod) + 0 = k % IdxMod /\ k + 0 = k
    BY Sizes, Division
  <2> QED
    BY <2>1, <2>2, IndexNext
<1> QED
  BY <1>1, <1>2 DEF Counts

LEMMA AddBufferIs ==
    ASSUME NEW q \in QueueType, NEW b \in Nat, q.num_free >= 1
    PROVE  LET r == AddBuffer(q, b)
           IN /\ r \in QueueType /\ r.free_head = q.desc[q.free_head].next
              /\ r.num_free = q.num_free - 1
              /\ r.desc[q.free_head] = [buf |-> b, next |-> 0]
              /\ \A d \in Desc : d # q.free_head => r.desc[d] = q.desc[d]
              /\ r.avail[q.avail_idx % Size] = q.free_head
              /\ \A s \in Desc : s # q.avail_idx % Size => r.avail[s] = q.avail[s]
              /\ r.avail_idx = q.avail_idx /\ r.seen = q.seen /\ r.used = q.used
              /\ r.used_idx = q.used_idx /\ r.last_used = q.last_used
<1> DEFINE r == AddBuffer(q, b)
           h == q.free_head
           a == q.avail_idx % Size
           desc2 == [q.desc EXCEPT ![h] = [buf |-> b, next |-> 0]]
           avail2 == [q.avail EXCEPT ![a] = h]
<1>0. /\ q.desc \in [Desc -> [buf : Nat, next : Desc]] /\ q.avail \in [Desc -> Desc]
      /\ q.avail_idx \in Nat /\ h \in Desc /\ q.num_free \in Nat
  BY DEF QueueType
<1>1. a \in Desc
  BY <1>0, SlotDesc DEF Slot
<1> HIDE DEF h, a
<1>2. r = [q EXCEPT !.free_head = q.desc[h].next, !.num_free = q.num_free - 1,
                    !.desc = desc2, !.avail = avail2]
  BY DEF AddBuffer, h, a, QueueType
<1>3. desc2 \in [Desc -> [buf : Nat, next : Desc]] /\ avail2 \in [Desc -> Desc]
  BY <1>0, <1>1, Sizes
<1>4. desc2[h] = [buf |-> b, next |-> 0] /\ \A d \in Desc : d # h => desc2[d] = q.desc[d]
  BY <1>0
<1>5. avail2[a] = h /\ \A s \in Desc : s # a => avail2[s] = q.avail[s]
  BY <1>0, <1>1
<1>6. q.desc[h].next \in Desc /\ q.num_free - 1 \in Nat
  BY <1>0
<1> HIDE DEF desc2, avail2, r
<1>7. /\ r.desc = desc2 /\ r.avail = avail2 /\ r.free_head = q.desc[h].next
      /\ r.num_free = q.num_free - 1 /\ r.avail_idx = q.avail_idx /\ r.seen = q.seen
      /\ r.used = q.used /\ r.used_idx = q.used_idx /\ r.last_used = q.last_used
  BY <1>2 DEF QueueType
<1>8. r \in QueueType
  BY <1>2, <1>3, <1>6 DEF QueueType
<1> QED
  BY <1>4, <1>5, <1>7, <1>8 DEF r, h, a

LEMMA GetUsedIs ==
    ASSUME NEW q \in QueueType
    PROVE  LET r == GetUsed(q)
               d == q.used[q.last_used % Size]
           IN /\ r \in QueueType /\ d \in Desc /\ r.free_head = d /\ r.num_free = q.num_free + 1
              /\ r.desc[d].next = q.free_head
              /\ \A x \in Desc : r.desc[x].buf = q.desc[x].buf
              /\ \A x \in Desc : x # d => r.desc[x] = q.desc[x]
              /\ r.last_used = (q.last_used + 1) % IdxMod
              /\ r.avail = q.avail /\ r.avail_idx = q.avail_idx /\ r.seen = q.seen
              /\ r.used = q.used /\ r.used_idx = q.used_idx
<1> DEFINE r == GetUsed(q)
           d == q.used[q.last_used % Size]
           desc2 == [q.desc EXCEPT ![d].next = q.free_head]
<1>0. /\ q.desc \in [Desc -> [buf : Nat, next : Desc]] /\ q.used \in [Desc -> Desc]
      /\ q.last_used \in Nat /\ q.free_head \in Desc /\ q.num_free \in Nat
  BY DEF QueueType
<1>1. q.last_used % Size \in Desc
  BY <1>0, SlotDesc DEF Slot
<1>2. d \in Desc
  BY <1>0, <1>1
<1> HIDE DEF d
<1>3. r = [q EXCEPT !.last_used = (q.last_used + 1) % IdxMod, !.desc = desc2,
                    !.free_head = d, !.num_free = q.num_free + 1]
  BY DEF GetUsed, d, QueueType
<1> DEFINE e2 == [q.desc[d] EXCEPT !.next = q.free_head]
<1>4. q.desc[d] \in [buf : Nat, next : Desc]
  BY <1>0, <1>2
<1>5. e2 \in [buf : Nat, next : Desc] /\ e2.next = q.free_head /\ e2.buf = q.desc[d].buf
  BY <1>0, <1>4
<1>6. desc2 = [q.desc EXCEPT ![d] = e2]
  BY <1>0, <1>2
<1> HIDE DEF e2
<1>7. desc2 \in [Desc -> [buf : Nat, next : Desc]]
  BY <1>0, <1>2, <1>5, <1>6
<1>8. desc2[d] = e2 /\ \A x \in Desc : x # d => desc2[x] = q.desc[x]
  BY <1>0, <1>2, <1>6
<1>9. /\ desc2[d].next = q.free_head /\ \A x \in Desc : desc2[x].buf = q.desc[x].buf
      /\ \A x \in Desc : x # d => desc2[x] = q.desc[x]
  BY <1>5, <1>8
<1> DEFINE lu == (q.last_used + 1) % IdxMod
<1>10. lu \in Nat /\ q.num_free + 1 \in Nat
  <2>1. q.last_used + 1 \in Int /\ q.num_free + 1 \in Nat
    BY <1>0
  <2>2. lu \in 0..(IdxMod - 1)
    BY <2>1, Sizes, Division
  <2> QED
    BY <2>1, <2>2, Sizes
<1> HIDE DEF desc2, r, lu
<1>11. /\ r.desc = desc2 /\ r.free_head = d /\ r.num_free = q.num_free + 1
      /\ r.last_used = lu /\ r.avail = q.avail /\ r.avail_idx = q.avail_idx
      /\ r.seen = q.seen /\ r.used = q.used /\ r.used_idx = q.used_idx
  BY <1>3 DEF QueueType, lu
<1>12. r \in QueueType
  BY <1>2, <1>3, <1>7, <1>10 DEF QueueType, lu
<1> QED
  BY <1>2, <1>9, <1>11, <1>12 DEF r, d, lu

LEMMA PublishIs ==
    ASSUME NEW q \in QueueType
    PROVE  LET r == Publish(q)
           IN /\ r \in QueueType /\ r.avail_idx = (q.avail_idx + 1) % IdxMod
              /\ r.desc = q.desc /\ r.avail = q.avail /\ r.seen = q.seen /\ r.used = q.used
              /\ r.used_idx = q.used_idx /\ r.last_used = q.last_used
              /\ r.free_head = q.free_head /\ r.num_free = q.num_free
<1> DEFINE r == Publish(q)
           ai == (q.avail_idx + 1) % IdxMod
<1>1. q.avail_idx \in Nat
  BY DEF QueueType
<1>2. ai \in Nat
  BY <1>1, Sizes, Division
<1>3. r = [q EXCEPT !.avail_idx = ai]
  BY DEF Publish, QueueType
<1> HIDE DEF ai, r
<1>4. r \in QueueType
  BY <1>2, <1>3 DEF QueueType
<1>5. /\ r.avail_idx = ai /\ r.desc = q.desc /\ r.avail = q.avail /\ r.seen = q.seen
      /\ r.used = q.used /\ r.used_idx = q.used_idx /\ r.last_used = q.last_used
      /\ r.free_head = q.free_head /\ r.num_free = q.num_free
  BY <1>3 DEF QueueType
<1> QED
  BY <1>4, <1>5 DEF r, ai

\* The device's part: the next buffer is given back.
GiveBack(q) ==
    [q EXCEPT !.seen = (@ + 1) % IdxMod,
              !.used[q.used_idx % Size] = q.avail[q.seen % Size],
              !.used_idx = (@ + 1) % IdxMod]

LEMMA GiveBackIs ==
    ASSUME NEW q \in QueueType
    PROVE  LET r == GiveBack(q)
           IN /\ r \in QueueType /\ r.seen = (q.seen + 1) % IdxMod
              /\ r.used_idx = (q.used_idx + 1) % IdxMod
              /\ r.used[q.used_idx % Size] = q.avail[q.seen % Size]
              /\ \A s \in Desc : s # q.used_idx % Size => r.used[s] = q.used[s]
              /\ r.desc = q.desc /\ r.avail = q.avail /\ r.avail_idx = q.avail_idx
              /\ r.last_used = q.last_used /\ r.free_head = q.free_head
              /\ r.num_free = q.num_free
<1> DEFINE r == GiveBack(q)
           u == q.used_idx % Size
           d == q.avail[q.seen % Size]
           si == (q.seen + 1) % IdxMod
           ui == (q.used_idx + 1) % IdxMod
           used2 == [q.used EXCEPT ![u] = d]
<1>0. /\ q.avail \in [Desc -> Desc] /\ q.used \in [Desc -> Desc]
      /\ q.seen \in Nat /\ q.used_idx \in Nat
  BY DEF QueueType
<1>1. u \in Desc /\ q.seen % Size \in Desc
  BY <1>0, SlotDesc DEF Slot
<1>2. d \in Desc
  BY <1>0, <1>1
<1>3. si \in Nat /\ ui \in Nat
  BY <1>0, Sizes, Division
<1> HIDE DEF u, d
<1>4. r = [q EXCEPT !.seen = si, !.used = used2, !.used_idx = ui]
  BY DEF GiveBack, u, d, QueueType
<1>5. /\ used2 \in [Desc -> Desc] /\ used2[u] = d
      /\ \A s \in Desc : s # u => used2[s] = q.used[s]
  BY <1>0, <1>1, <1>2
<1> HIDE DEF si, ui, used2, r
<1>6. r \in QueueType
  BY <1>3, <1>4, <1>5 DEF QueueType
<1>7. /\ r.seen = si /\ r.used = used2 /\ r.used_idx = ui /\ r.desc = q.desc
      /\ r.avail = q.avail /\ r.avail_idx = q.avail_idx /\ r.last_used = q.last_used
      /\ r.free_head = q.free_head /\ r.num_free = q.num_free
  BY <1>4 DEF QueueType
<1> QED
  BY <1>5, <1>6, <1>7 DEF r, u, d, si, ui

-----------------------------------------------------------------------------
(***************************************************************************)
(* The operations keep QueueOK, and say what becomes of the counters.      *)
(***************************************************************************)

LEMMA QueueFacts ==
    ASSUME NEW q, NEW L, NEW U, NEW A, NEW E, QueueOK(q, L, U, A, E)
    PROVE  /\ q \in QueueType /\ q.num_free \in Nat /\ q.free_head \in Desc
           /\ L \in Nat /\ U \in Nat /\ A \in Nat /\ E \in Nat
           /\ L <= U /\ U <= A /\ A <= E /\ (E - L) + q.num_free = Size
           /\ \A k \in Nat : Av(q, k) \in Desc
<1>1. q \in QueueType /\ Counts(q, L, U, A, E)
  BY DEF QueueOK
<1>2. q.avail \in [Desc -> Desc] /\ q.num_free \in Nat /\ q.free_head \in Desc
  BY <1>1 DEF QueueType
<1>3. \A k \in Nat : Av(q, k) \in Desc
  BY <1>2, SlotDesc DEF Av
<1> QED
  BY <1>1, <1>2, <1>3 DEF Counts

LEMMA AddOK ==
    ASSUME NEW q, NEW L, NEW U, NEW A, QueueOK(q, L, U, A, A),
           q.num_free >= 1, NEW b \in Nat
    PROVE  LET r == AddBuffer(q, b)
           IN /\ QueueOK(r, L, U, A, A + 1)
              /\ Av(r, A) = q.free_head /\ r.desc[q.free_head].buf = b
              /\ r.num_free = q.num_free - 1
              /\ \A k \in L..(A - 1) : /\ Av(r, k) = Av(q, k) /\ Av(q, k) # q.free_head
                                       /\ r.desc[Av(q, k)] = q.desc[Av(q, k)]
<1> DEFINE r == AddBuffer(q, b)
<1> DEFINE n == q.num_free
           h == q.free_head
<1>1. /\ q \in QueueType /\ n \in Nat /\ h \in Desc
      /\ L \in Nat /\ U \in Nat /\ A \in Nat
      /\ L <= U /\ U <= A /\ (A - L) + n = Size
      /\ \A k \in Nat : Av(q, k) \in Desc
  BY QueueFacts
<1>2. Counts(q, L, U, A, A) /\ Rings(q, L, U, A)
  BY DEF QueueOK
<1>3. PICK fl \in [1..n -> Desc] : Chain(q, fl) /\ Parted(q, fl, L, A)
  BY DEF QueueOK
<1>4. q.avail_idx % Size = Slot(A)
  BY <1>2, IndexSlots
<1>5. /\ r \in QueueType /\ r.free_head = q.desc[h].next
      /\ r.num_free = n - 1
      /\ r.desc[h] = [buf |-> b, next |-> 0]
      /\ \A d \in Desc : d # h => r.desc[d] = q.desc[d]
      /\ r.avail[Slot(A)] = h
      /\ \A s \in Desc : s # Slot(A) => r.avail[s] = q.avail[s]
      /\ r.avail_idx = q.avail_idx /\ r.seen = q.seen /\ r.used = q.used
      /\ r.used_idx = q.used_idx /\ r.last_used = q.last_used
  BY <1>1, <1>4, AddBufferIs
<1>6. h = fl[1] /\ fl[1] \in Desc /\ n >= 1
  BY <1>1, <1>3 DEF Chain
<1>7. \A i, j \in 1..n : fl[i] = fl[j] => i = j
  BY <1>3 DEF Chain
<1>8. \A i \in 1..(n - 1) : q.desc[fl[i]].next = fl[i + 1]
  BY <1>3 DEF Chain
<1>9. \A d \in Desc : (\E i \in 1..n : fl[i] = d) <=> ~(\E k \in L..(A - 1) : Av(q, k) = d)
  BY <1>3 DEF Parted
<1> HIDE DEF r, n, h
<1>10. ASSUME NEW k \in L..(A - 1)
       PROVE  Av(r, k) = Av(q, k) /\ Av(q, k) # h /\ k \in Nat /\ Av(q, k) \in Desc
  <2>1. k \in Nat /\ k < A /\ A - k < Size /\ Slot(k) \in Desc /\ 1 \in 1..n
    BY <1>1, <1>6, SlotDesc
  <2>2. Slot(k) # Slot(A)
    BY <1>1, <2>1, SlotsDiffer
  <2>3. Av(q, k) # h
    BY <1>6, <1>9, <2>1
  <2> QED
    BY <1>1, <1>5, <2>1, <2>2, <2>3 DEF Av
<1>11. Av(r, A) = h
  BY <1>5 DEF Av
<1>12. Counts(r, L, U, A, A + 1)
  <2>1. ((A + 1) - L) + r.num_free = Size
    BY <1>1, <1>5
  <2> QED
    BY <1>1, <1>2, <1>5, <2>1 DEF Counts
<1>13. Rings(r, L, U, A + 1)
  <2>1. ASSUME NEW j \in L..((A + 1) - 1), NEW k \in L..((A + 1) - 1), Av(r, j) = Av(r, k)
        PROVE  j = k
    <3>1. (j = A \/ j \in L..(A - 1)) /\ (k = A \/ k \in L..(A - 1))
      BY <1>1
    <3>2. CASE j \in L..(A - 1) /\ k \in L..(A - 1)
      BY <1>2, <1>10, <2>1, <3>2 DEF Rings
    <3> QED
      BY <1>10, <1>11, <2>1, <3>1, <3>2
  <2>2. ASSUME NEW k \in L..(U - 1)
        PROVE  r.used[Slot(k)] = Av(r, k)
    <3>1. k \in L..(A - 1)
      BY <1>1
    <3>2. q.used[Slot(k)] = Av(q, k)
      BY <1>2 DEF Rings
    <3> QED
      BY <1>5, <1>10, <3>1, <3>2
  <2> QED
    BY <2>1, <2>2 DEF Rings
<1> DEFINE g == [i \in 1..(n - 1) |-> fl[i + 1]]
<1>14. \A i \in 1..(n - 1) : /\ i + 1 \in 1..n /\ g[i] = fl[i + 1] /\ g[i] \in Desc
                             /\ g[i] # h
  <2>1. ASSUME NEW i \in 1..(n - 1) PROVE i + 1 \in 1..n /\ i + 1 # 1 /\ 1 \in 1..n
    BY <1>1
  <2> QED
    BY <1>6, <1>7, <2>1
<1>15. g \in [1..r.num_free -> Desc]
  BY <1>5, <1>14
<1> HIDE DEF g
<1>16. Chain(r, g)
  <2>1. ASSUME NEW i \in 1..r.num_free, NEW j \in 1..r.num_free, g[i] = g[j]
        PROVE  i = j
    <3>1. i \in 1..(n - 1) /\ j \in 1..(n - 1)
      BY <1>5
    <3>2. i + 1 = j + 1
      BY <1>7, <1>14, <2>1, <3>1
    <3> QED
      BY <1>1, <3>1, <3>2
  <2>2. ASSUME r.num_free > 0 PROVE r.free_head = g[1]
    <3>1. 1 \in 1..(n - 1) /\ 1 + 1 = 2
      BY <1>1, <1>5, <2>2
    <3> QED
      BY <1>5, <1>6, <1>8, <1>14, <3>1
  <2>3. ASSUME NEW i \in 1..(r.num_free - 1) PROVE r.desc[g[i]].next = g[i + 1]
    <3>1. i \in 1..(n - 1) /\ i + 1 \in 1..(n - 1)
      BY <1>1, <1>5
    <3>2. r.desc[g[i]] = q.desc[fl[i + 1]]
      BY <1>5, <1>14, <3>1
    <3>3. q.desc[fl[i + 1]].next = fl[(i + 1) + 1]
      BY <1>8, <3>1
    <3> QED
      BY <1>14, <3>1, <3>2, <3>3
  <2> QED
    BY <2>1, <2>2, <2>3 DEF Chain
<1>17. Parted(r, g, L, A + 1)
  <2>1. ASSUME NEW d \in Desc
        PROVE  (\E i \in 1..r.num_free : g[i] = d) <=> ((\E i \in 1..n : fl[i] = d) /\ d # h)
    <3>1. ASSUME NEW i \in 1..r.num_free, g[i] = d
          PROVE  (\E m \in 1..n : fl[m] = d) /\ d # h
      BY <1>5, <1>14, <3>1
    <3>2. ASSUME NEW i \in 1..n, fl[i] = d, d # h
          PROVE  \E m \in 1..r.num_free : g[m] = d
      <4>1. i # 1
        BY <1>6, <3>2
      <4>2. i - 1 \in 1..(n - 1) /\ (i - 1) + 1 = i
        BY <1>1, <4>1
      <4> QED
        BY <1>5, <1>14, <3>2, <4>2
    <3> QED
      BY <3>1, <3>2
  <2>2. ASSUME NEW d \in Desc
        PROVE  (\E k \in L..((A + 1) - 1) : Av(r, k) = d)
                 <=> ((\E k \in L..(A - 1) : Av(q, k) = d) \/ d = h)
    <3>1. \A k \in L..((A + 1) - 1) : k \in L..(A - 1) \/ k = A
      BY <1>1
    <3>2. A \in L..((A + 1) - 1) /\ \A k \in L..(A - 1) : k \in L..((A + 1) - 1)
      BY <1>1
    <3> QED
      BY <1>10, <1>11, <3>1, <3>2
  <2> QED
    BY <1>9, <2>1, <2>2 DEF Parted
<1>18. QueueOK(r, L, U, A, A + 1)
  BY <1>5, <1>12, <1>13, <1>15, <1>16, <1>17 DEF QueueOK
<1>19. r.desc[h].buf = b
  BY <1>5
<1> QED
  BY <1>5, <1>10, <1>11, <1>18, <1>19 DEF r, h, n

LEMMA PublishOK ==
    ASSUME NEW q, NEW L, NEW U, NEW A, QueueOK(q, L, U, A, A + 1)
    PROVE  LET r == Publish(q)
           IN /\ QueueOK(r, L, U, A + 1, A + 1)
              /\ r.desc = q.desc /\ r.avail = q.avail /\ r.num_free = q.num_free
<1> DEFINE r == Publish(q)
<1>1. /\ q \in QueueType /\ Counts(q, L, U, A, A + 1) /\ Rings(q, L, U, A + 1)
      /\ L \in Nat /\ U \in Nat /\ A \in Nat /\ A <= A + 1 /\ U <= A
  BY QueueFacts DEF QueueOK
<1>2. PICK fl \in [1..q.num_free -> Desc] : Chain(q, fl) /\ Parted(q, fl, L, A + 1)
  BY DEF QueueOK
<1>3. /\ r \in QueueType /\ r.avail_idx = (q.avail_idx + 1) % IdxMod
      /\ r.desc = q.desc /\ r.avail = q.avail /\ r.seen = q.seen /\ r.used = q.used
      /\ r.used_idx = q.used_idx /\ r.last_used = q.last_used
      /\ r.free_head = q.free_head /\ r.num_free = q.num_free
  BY <1>1, PublishIs
<1>4. (q.avail_idx + 1) % IdxMod = (A + 1) % IdxMod
  BY <1>1, IndexSlots
<1> HIDE DEF r
<1>5. Counts(r, L, U, A + 1, A + 1)
  BY <1>1, <1>3, <1>4 DEF Counts
<1>6. Rings(r, L, U, A + 1) /\ Chain(r, fl) /\ Parted(r, fl, L, A + 1)
  BY <1>1, <1>2, <1>3 DEF Rings, Chain, Parted, Av
<1>7. QueueOK(r, L, U, A + 1, A + 1)
  BY <1>3, <1>5, <1>6 DEF QueueOK
<1> QED
  BY <1>3, <1>7 DEF r

LEMMA GetUsedOK ==
    ASSUME NEW q, NEW L, NEW U, NEW A, QueueOK(q, L, U, A, A), L < U
    PROVE  LET r == GetUsed(q)
           IN /\ QueueOK(r, L + 1, U, A, A) /\ r.num_free = q.num_free + 1
              /\ q.used[q.last_used % Size] = Av(q, L) /\ r.free_head = Av(q, L)
              /\ r.avail = q.avail
              /\ \A x \in Desc : r.desc[x].buf = q.desc[x].buf
<1> DEFINE r == GetUsed(q)
           n == q.num_free
           d == Av(q, L)
<1>1. /\ q \in QueueType /\ n \in Nat /\ L \in Nat /\ U \in Nat /\ A \in Nat
      /\ L <= U /\ U <= A /\ (A - L) + n = Size
      /\ \A k \in Nat : Av(q, k) \in Desc
  BY QueueFacts
<1>2. Counts(q, L, U, A, A) /\ Rings(q, L, U, A)
  BY DEF QueueOK
<1>3. PICK fl \in [1..n -> Desc] : Chain(q, fl) /\ Parted(q, fl, L, A)
  BY DEF QueueOK
<1>4. q.last_used % Size = Slot(L) /\ (q.last_used + 1) % IdxMod = (L + 1) % IdxMod
  BY <1>2, IndexSlots
<1>5. L \in L..(U - 1) /\ L \in L..(A - 1)
  BY <1>1
<1>6. q.used[q.last_used % Size] = d /\ d \in Desc
  BY <1>1, <1>2, <1>4, <1>5 DEF Rings
<1>7. /\ r \in QueueType /\ r.free_head = d /\ r.num_free = n + 1
      /\ r.desc[d].next = q.free_head
      /\ \A x \in Desc : r.desc[x].buf = q.desc[x].buf
      /\ \A x \in Desc : x # d => r.desc[x] = q.desc[x]
      /\ r.last_used = (L + 1) % IdxMod
      /\ r.avail = q.avail /\ r.avail_idx = q.avail_idx /\ r.seen = q.seen
      /\ r.used = q.used /\ r.used_idx = q.used_idx
  BY <1>1, <1>4, <1>6, GetUsedIs
<1>8. /\ \A i, j \in 1..n : fl[i] = fl[j] => i = j
      /\ n > 0 => q.free_head = fl[1]
      /\ \A i \in 1..(n - 1) : q.desc[fl[i]].next = fl[i + 1]
  BY <1>3 DEF Chain
<1>9. \A x \in Desc : (\E i \in 1..n : fl[i] = x) <=> ~(\E k \in L..(A - 1) : Av(q, k) = x)
  BY <1>3 DEF Parted
<1>10. \A k \in Nat : Av(r, k) = Av(q, k)
  BY <1>7 DEF Av
<1>11. \A k \in (L + 1)..(A - 1) : k \in L..(A - 1) /\ k # L /\ k \in Nat /\ Av(q, k) # d
  <2>1. \A k \in (L + 1)..(A - 1) : k \in L..(A - 1) /\ k # L /\ k \in Nat
    BY <1>1
  <2> QED
    BY <1>2, <1>5, <2>1 DEF Rings
<1> HIDE DEF r, n, d
<1>12. Counts(r, L + 1, U, A, A)
  <2>1. (A - (L + 1)) + r.num_free = Size /\ L + 1 \in Nat /\ L + 1 <= U
    BY <1>1, <1>7, Sizes
  <2> QED
    BY <1>1, <1>2, <1>7, <2>1 DEF Counts
<1>13. Rings(r, L + 1, U, A)
  <2>1. \A k \in (L + 1)..(U - 1) : k \in L..(U - 1) /\ k \in Nat
    BY <1>1
  <2> QED
    BY <1>2, <1>7, <1>10, <1>11, <2>1 DEF Rings
<1> DEFINE g == [i \in 1..(n + 1) |-> IF i = 1 THEN d ELSE fl[i - 1]]
<1>14. 1 \in 1..(n + 1) /\ \A i \in 1..(n + 1) : i # 1 => i - 1 \in 1..n
  BY <1>1
<1>15. g[1] = d /\ \A i \in 1..(n + 1) : i # 1 => g[i] = fl[i - 1] /\ g[i] \in Desc /\ g[i] # d
  <2>1. \A i \in 1..n : fl[i] \in Desc /\ fl[i] # d
    BY <1>5, <1>6, <1>9 DEF d
  <2> QED
    BY <1>14, <2>1
<1>16. g \in [1..r.num_free -> Desc]
  BY <1>6, <1>7, <1>14, <1>15
<1> HIDE DEF g
<1>17. Chain(r, g)
  <2>1. ASSUME NEW i \in 1..r.num_free, NEW j \in 1..r.num_free, g[i] = g[j]
        PROVE  i = j
    <3>1. i \in 1..(n + 1) /\ j \in 1..(n + 1)
      BY <1>7
    <3>2. CASE i = 1 \/ j = 1
      BY <1>15, <2>1, <3>1, <3>2
    <3>3. CASE i # 1 /\ j # 1
      <4>1. i - 1 = j - 1
        BY <1>8, <1>14, <1>15, <2>1, <3>1, <3>3
      <4> QED
        BY <1>1, <3>1, <4>1
    <3> QED
      BY <3>2, <3>3
  <2>2. r.free_head = g[1]
    BY <1>7, <1>15
  <2>3. ASSUME NEW i \in 1..(r.num_free - 1) PROVE r.desc[g[i]].next = g[i + 1]
    <3>1. /\ i \in 1..n /\ i + 1 \in 1..(n + 1) /\ i + 1 # 1 /\ (i + 1) - 1 = i
          /\ i \in 1..(n + 1) /\ n > 0
      BY <1>1, <1>7
    <3>2. g[i + 1] = fl[i]
      BY <1>15, <3>1
    <3>3. CASE i = 1
      BY <1>7, <1>8, <1>15, <3>1, <3>2, <3>3
    <3>4. CASE i # 1
      <4>1. i - 1 \in 1..(n - 1) /\ (i - 1) + 1 = i
        BY <1>1, <3>1, <3>4
      <4>2. g[i] = fl[i - 1] /\ r.desc[g[i]] = q.desc[g[i]]
        BY <1>7, <1>15, <3>1, <3>4
      <4>3. q.desc[fl[i - 1]].next = fl[(i - 1) + 1]
        BY <1>8, <4>1
      <4> QED
        BY <3>2, <4>1, <4>2, <4>3
    <3> QED
      BY <3>3, <3>4
  <2> QED
    BY <2>1, <2>2, <2>3 DEF Chain
<1>18. Parted(r, g, L + 1, A)
  <2>1. ASSUME NEW x \in Desc
        PROVE  (\E i \in 1..r.num_free : g[i] = x) <=> ((\E i \in 1..n : fl[i] = x) \/ x = d)
    <3>1. ASSUME NEW i \in 1..n PROVE i + 1 \in 1..(n + 1) /\ g[i + 1] = fl[i]
      <4>1. i + 1 \in 1..(n + 1) /\ i + 1 # 1 /\ (i + 1) - 1 = i
        BY <1>1
      <4> QED
        BY <1>15, <4>1
    <3> QED
      BY <1>7, <1>14, <1>15, <3>1
  <2>2. ASSUME NEW x \in Desc
        PROVE  (\E k \in L..(A - 1) : Av(q, k) = x)
                 <=> ((\E k \in (L + 1)..(A - 1) : Av(r, k) = x) \/ x = d)
    <3>1. \A k \in L..(A - 1) : k = L \/ k \in (L + 1)..(A - 1)
      BY <1>1
    <3> QED
      BY <1>5, <1>10, <1>11, <3>1 DEF d
  <2>3. \A k \in (L + 1)..(A - 1) : Av(r, k) # d
    BY <1>10, <1>11
  <2> QED
    BY <1>9, <2>1, <2>2, <2>3 DEF Parted
<1>19. QueueOK(r, L + 1, U, A, A)
  BY <1>7, <1>12, <1>13, <1>16, <1>17, <1>18 DEF QueueOK
<1> QED
  BY <1>6, <1>7, <1>19 DEF r, n, d

LEMMA GiveBackOK ==
    ASSUME NEW q, NEW L, NEW U, NEW A, NEW E, QueueOK(q, L, U, A, E), U < A
    PROVE  LET r == GiveBack(q)
           IN /\ QueueOK(r, L, U + 1, A, E)
              /\ q.avail[q.seen % Size] = Av(q, U)
              /\ r.desc = q.desc /\ r.avail = q.avail /\ r.num_free = q.num_free
<1> DEFINE r == GiveBack(q)
<1>1. /\ q \in QueueType /\ L \in Nat /\ U \in Nat /\ A \in Nat /\ E \in Nat
      /\ L <= U /\ U <= A /\ A <= E /\ E - L <= Size
      /\ Counts(q, L, U, A, E) /\ Rings(q, L, U, E)
  BY QueueFacts DEF QueueOK
<1>2. PICK fl \in [1..q.num_free -> Desc] : Chain(q, fl) /\ Parted(q, fl, L, E)
  BY DEF QueueOK
<1>3. /\ q.used_idx % Size = Slot(U) /\ q.seen % Size = Slot(U)
      /\ (q.used_idx + 1) % IdxMod = (U + 1) % IdxMod
  BY <1>1, IndexSlots
<1>4. (q.seen + 1) % IdxMod = (U + 1) % IdxMod
  BY <1>1, <1>3 DEF Counts
<1>5. /\ r \in QueueType /\ r.seen = (U + 1) % IdxMod /\ r.used_idx = (U + 1) % IdxMod
      /\ r.used[Slot(U)] = Av(q, U)
      /\ \A s \in Desc : s # Slot(U) => r.used[s] = q.used[s]
      /\ r.desc = q.desc /\ r.avail = q.avail /\ r.avail_idx = q.avail_idx
      /\ r.last_used = q.last_used /\ r.free_head = q.free_head /\ r.num_free = q.num_free
  BY <1>1, <1>3, <1>4, GiveBackIs DEF Av
<1> HIDE DEF r
<1>6. Counts(r, L, U + 1, A, E)
  BY <1>1, <1>5 DEF Counts
<1>7. ASSUME NEW k \in L..((U + 1) - 1) PROVE r.used[Slot(k)] = Av(r, k)
  <2>1. CASE k = U
    BY <1>5, <2>1 DEF Av
  <2>2. CASE k # U
    <3>1. k \in L..(U - 1) /\ k \in Nat /\ k < U /\ U - k < Size
      BY <1>1, <2>2, Sizes
    <3>2. Slot(k) # Slot(U) /\ Slot(k) \in Desc
      BY <1>1, <3>1, SlotsDiffer, SlotDesc
    <3>3. q.used[Slot(k)] = Av(q, k)
      BY <1>1, <3>1 DEF Rings
    <3> QED
      BY <1>5, <3>2, <3>3 DEF Av
  <2> QED
    BY <2>1, <2>2
<1>8. Rings(r, L, U + 1, E) /\ Chain(r, fl) /\ Parted(r, fl, L, E)
  BY <1>1, <1>2, <1>5, <1>7 DEF Rings, Chain, Parted, Av
<1>9. QueueOK(r, L, U + 1, A, E)
  BY <1>2, <1>5, <1>6, <1>8 DEF QueueOK
<1> QED
  BY <1>3, <1>5, <1>9 DEF r, Av

-----------------------------------------------------------------------------
(***************************************************************************)
(* The queues at the start, n buffers posted.                              *)
(***************************************************************************)

Post(n) ==
    [desc |-> [d \in Desc |-> [buf |-> IF d < n THEN d ELSE 0,
                               next |-> IF d < n THEN 0 ELSE IF d < Size - 1 THEN d + 1 ELSE 0]],
     avail |-> [s \in Desc |-> IF s < n THEN s ELSE 0], avail_idx |-> n, seen |-> 0,
     used |-> [s \in Desc |-> 0], used_idx |-> 0, last_used |-> 0,
     free_head |-> IF n < Size THEN n ELSE 0, num_free |-> Size - n]

LEMMA PostNone == VirtqInit = Post(0)
<1>1. \A d \in Desc : ~(d < 0) /\ d \in Nat
  BY Sizes
<1>2. [d \in Desc |-> [buf |-> 0, next |-> IF d < Size - 1 THEN d + 1 ELSE 0]]
        = [d \in Desc |-> [buf |-> IF d < 0 THEN d ELSE 0,
                           next |-> IF d < 0 THEN 0 ELSE IF d < Size - 1 THEN d + 1 ELSE 0]]
  BY <1>1
<1>3. [s \in Desc |-> 0] = [s \in Desc |-> IF s < 0 THEN s ELSE 0]
  BY <1>1
<1>4. 0 < Size /\ Size - 0 = Size
  BY Sizes
<1> QED
  BY <1>2, <1>3, <1>4 DEF VirtqInit, Post

LEMMA PostType == \A n \in 0..Size : Post(n) \in QueueType
<1> SUFFICES ASSUME NEW n \in 0..Size PROVE Post(n) \in QueueType
  OBVIOUS
<1>1. Size \in Nat \ {0} /\ n \in Nat /\ Size - n \in Nat /\ 0 \in Desc /\ Desc \subseteq Nat
  BY Sizes
<1>2. (IF n < Size THEN n ELSE 0) \in Desc
  BY <1>1 DEF Desc
<1>3. ASSUME NEW d \in Desc
      PROVE  /\ (IF d < n THEN d ELSE 0) \in Desc
             /\ (IF d < n THEN 0 ELSE IF d < Size - 1 THEN d + 1 ELSE 0) \in Desc
  BY <1>1 DEF Desc
<1>4. Post(n).desc \in [Desc -> [buf : Nat, next : Desc]]
  BY <1>1, <1>3 DEF Post
<1>5. Post(n).avail \in [Desc -> Desc] /\ Post(n).used \in [Desc -> Desc]
  BY <1>1, <1>3 DEF Post
<1>6. Post(n) = [desc |-> Post(n).desc, avail |-> Post(n).avail, avail_idx |-> n, seen |-> 0,
                 used |-> Post(n).used, used_idx |-> 0, last_used |-> 0,
                 free_head |-> IF n < Size THEN n ELSE 0, num_free |-> Size - n]
  BY DEF Post
<1>7. \A x, y, z : x \in [Desc -> [buf : Nat, next : Desc]] /\ y \in [Desc -> Desc] /\ z \in [Desc -> Desc]
        => [desc |-> x, avail |-> y, avail_idx |-> n, seen |-> 0,
                 used |-> z, used_idx |-> 0, last_used |-> 0,
                 free_head |-> IF n < Size THEN n ELSE 0, num_free |-> Size - n] \in QueueType
  BY <1>1, <1>2 DEF QueueType
<1> QED
  BY <1>4, <1>5, <1>6, <1>7

LEMMA PostStep ==
    ASSUME NEW n \in 1..Size
    PROVE  Publish(AddBuffer(Post(n - 1), n - 1)) = Post(n)
<1> DEFINE p == Post(n - 1)
           r == AddBuffer(p, n - 1)
           t == Publish(r)
<1>1. /\ Size \in Nat \ {0} /\ n \in Nat /\ n - 1 \in Nat /\ n - 1 \in 0..Size /\ n - 1 < Size
      /\ n - 1 \in Desc /\ n - 1 \in 0..(Size - 1) /\ n \in 0..(IdxMod - 1) /\ IdxMod \in Nat \ {0}
      /\ Size - (n - 1) >= 1 /\ (n - 1) + 1 = n
  BY Sizes DEF Desc
<1>2. /\ p \in QueueType /\ p.free_head = n - 1 /\ p.num_free = Size - (n - 1) /\ p.avail_idx = n - 1
      /\ p.seen = 0 /\ p.used = [s \in Desc |-> 0] /\ p.used_idx = 0 /\ p.last_used = 0
  BY <1>1, PostType DEF Post
<1>3. \A d \in Desc : p.desc[d] = [buf |-> IF d < n - 1 THEN d ELSE 0,
                           next |-> IF d < n - 1 THEN 0 ELSE IF d < Size - 1 THEN d + 1 ELSE 0]
  BY DEF Post
<1>4. \A s \in Desc : p.avail[s] = IF s < n - 1 THEN s ELSE 0
  BY DEF Post
<1>5. (n - 1) % Size = n - 1 /\ n % IdxMod = n
  BY <1>1, SmallRemainder
<1> HIDE DEF p
<1>6. /\ r \in QueueType /\ r.free_head = p.desc[n - 1].next
      /\ r.num_free = Size - n
      /\ r.desc[n - 1] = [buf |-> n - 1, next |-> 0]
      /\ \A d \in Desc : d # n - 1 => r.desc[d] = p.desc[d]
      /\ r.avail[n - 1] = n - 1
      /\ \A s \in Desc : s # n - 1 => r.avail[s] = p.avail[s]
      /\ r.avail_idx = n - 1 /\ r.seen = 0 /\ r.used = [s \in Desc |-> 0]
      /\ r.used_idx = 0 /\ r.last_used = 0
  <2>1. p.num_free >= 1 /\ p.num_free - 1 = Size - n
    BY <1>1, <1>2
  <2>2. LET rr == AddBuffer(p, n - 1)
           IN /\ rr \in QueueType /\ rr.free_head = p.desc[p.free_head].next
              /\ rr.num_free = p.num_free - 1
              /\ rr.desc[p.free_head] = [buf |-> n - 1, next |-> 0]
              /\ \A d \in Desc : d # p.free_head => rr.desc[d] = p.desc[d]
              /\ rr.avail[p.avail_idx % Size] = p.free_head
              /\ \A s \in Desc : s # p.avail_idx % Size => rr.avail[s] = p.avail[s]
              /\ rr.avail_idx = p.avail_idx /\ rr.seen = p.seen /\ rr.used = p.used
              /\ rr.used_idx = p.used_idx /\ rr.last_used = p.last_used
    BY <1>1, <1>2, <2>1, AddBufferIs
  <2> QED
    BY <1>2, <1>5, <2>1, <2>2
<1> HIDE DEF r
<1>7. /\ t \in QueueType /\ t.avail_idx = n
      /\ t.desc = r.desc /\ t.avail = r.avail /\ t.seen = 0 /\ t.used = r.used
      /\ t.used_idx = 0 /\ t.last_used = 0
      /\ t.free_head = r.free_head /\ t.num_free = r.num_free
  <2>1. (r.avail_idx + 1) % IdxMod = n
    BY <1>1, <1>5, <1>6
  <2> QED
    BY <1>6, <2>1, PublishIs
<1> HIDE DEF t
<1>8. t.free_head = IF n < Size THEN n ELSE 0
  <2>1. p.desc[n - 1].next = IF n - 1 < Size - 1 THEN (n - 1) + 1 ELSE 0
    <3>1. ~(n - 1 < n - 1)
      BY <1>1
    <3>2. p.desc[n - 1] = [buf |-> IF n - 1 < n - 1 THEN n - 1 ELSE 0,
                           next |-> IF n - 1 < n - 1 THEN 0
                                    ELSE IF n - 1 < Size - 1 THEN (n - 1) + 1 ELSE 0]
      BY <1>1, <1>3
    <3> QED
      BY <3>1, <3>2
  <2> QED
    BY <1>1, <1>6, <1>7, <2>1
<1>9. t.desc = [d \in Desc |-> [buf |-> IF d < n THEN d ELSE 0,
                next |-> IF d < n THEN 0 ELSE IF d < Size - 1 THEN d + 1 ELSE 0]]
  <2>1. ASSUME NEW d \in Desc
        PROVE  r.desc[d] = [buf |-> IF d < n THEN d ELSE 0,
                next |-> IF d < n THEN 0 ELSE IF d < Size - 1 THEN d + 1 ELSE 0]
    <3>1. CASE d = n - 1
      <4>1. d < n
        BY <1>1, <3>1
      <4> QED
        BY <1>6, <3>1, <4>1
    <3>2. CASE d # n - 1
      <4>1. (d < n) <=> (d < n - 1)
        BY <1>1, <3>2 DEF Desc
      <4> QED
        BY <1>3, <1>6, <3>2, <4>1
    <3> QED
      BY <3>1, <3>2
  <2>2. r.desc \in [Desc -> [buf : Nat, next : Desc]]
    BY <1>6 DEF QueueType
  <2> QED
    BY <1>7, <2>1, <2>2
<1>10. t.avail = [s \in Desc |-> IF s < n THEN s ELSE 0]
  <2>1. ASSUME NEW s \in Desc PROVE r.avail[s] = IF s < n THEN s ELSE 0
    <3>1. CASE s = n - 1
      <4>1. s < n
        BY <1>1, <3>1
      <4> QED
        BY <1>6, <3>1, <4>1
    <3>2. CASE s # n - 1
      <4>1. (s < n) <=> (s < n - 1)
        BY <1>1, <3>2 DEF Desc
      <4> QED
        BY <1>4, <1>6, <3>2, <4>1
    <3> QED
      BY <3>1, <3>2
  <2>2. r.avail \in [Desc -> Desc]
    BY <1>6 DEF QueueType
  <2> QED
    BY <1>7, <2>1, <2>2
<1>11. t = [desc |-> t.desc, avail |-> t.avail, avail_idx |-> t.avail_idx, seen |-> t.seen,
            used |-> t.used, used_idx |-> t.used_idx, last_used |-> t.last_used,
            free_head |-> t.free_head, num_free |-> t.num_free]
  BY <1>7 DEF QueueType
<1>12. t = [desc |-> t.desc, avail |-> t.avail, avail_idx |-> n, seen |-> 0,
            used |-> [s \in Desc |-> 0], used_idx |-> 0, last_used |-> 0,
            free_head |-> t.free_head, num_free |-> Size - n]
  BY <1>6, <1>7, <1>11
<1>13. t = Post(n)
  BY <1>8, <1>9, <1>10, <1>12 DEF Post
<1> QED
  BY <1>13 DEF t, r, p

LEMMA PostOK ==
    ASSUME NEW n \in 0..Size
    PROVE  /\ QueueOK(Post(n), 0, 0, n, n)
           /\ \A k \in 0..(n - 1) : Av(Post(n), k) = k /\ Post(n).desc[k].buf = k
<1> DEFINE q == Post(n)
<1>1. /\ Size \in Nat \ {0} /\ n \in Nat /\ n <= Size /\ Size - n \in Nat
      /\ 0 \in 0..(IdxMod - 1) /\ n \in 0..(IdxMod - 1) /\ IdxMod \in Nat \ {0}
  BY Sizes
<1>2. /\ q \in QueueType /\ q.avail_idx = n /\ q.seen = 0 /\ q.used_idx = 0 /\ q.last_used = 0
      /\ q.free_head = (IF n < Size THEN n ELSE 0) /\ q.num_free = Size - n
  BY PostType DEF Post
<1>3. /\ \A s \in Desc : q.avail[s] = IF s < n THEN s ELSE 0
      /\ \A d \in Desc : ~(d < n) => q.desc[d].next = IF d < Size - 1 THEN d + 1 ELSE 0
      /\ \A d \in Desc : d < n => q.desc[d].buf = d
  BY DEF Post
<1> HIDE DEF q
<1>4. \A k \in 0..(n - 1) : Av(q, k) = k /\ k \in Desc /\ k < n
  <2>1. \A k \in 0..(n - 1) : k \in 0..(Size - 1) /\ k < n
    BY <1>1
  <2>2. \A k \in 0..(n - 1) : Slot(k) = k
    BY <1>1, <2>1, SmallRemainder DEF Slot
  <2> QED
    BY <1>3, <2>1, <2>2 DEF Av, Desc
<1>5. Counts(q, 0, 0, n, n)
  <2>1. 0 % IdxMod = 0 /\ n % IdxMod = n
    BY <1>1, SmallRemainder
  <2> QED
    BY <1>1, <1>2, <2>1 DEF Counts
<1>6. Rings(q, 0, 0, n)
  BY <1>1, <1>4 DEF Rings
<1> DEFINE fl == [i \in 1..q.num_free |-> (n + i) - 1]
<1>7. \A i \in 1..q.num_free : fl[i] = (n + i) - 1 /\ fl[i] \in Desc /\ ~(fl[i] < n)
  BY <1>1, <1>2 DEF Desc
<1>8. fl \in [1..q.num_free -> Desc]
  BY <1>7
<1> HIDE DEF fl
<1>9. Chain(q, fl)
  <2>1. \A i, j \in 1..q.num_free : fl[i] = fl[j] => i = j
    BY <1>1, <1>7
  <2>2. ASSUME q.num_free > 0 PROVE q.free_head = fl[1]
    <3>1. 1 \in 1..q.num_free /\ n < Size
      BY <1>1, <1>2, <2>2
    <3> QED
      BY <1>1, <1>2, <1>7, <3>1
  <2>3. ASSUME NEW i \in 1..(q.num_free - 1) PROVE q.desc[fl[i]].next = fl[i + 1]
    <3>1. i \in 1..q.num_free /\ i + 1 \in 1..q.num_free /\ (n + i) - 1 < Size - 1
          /\ ((n + i) - 1) + 1 = (n + (i + 1)) - 1
      BY <1>1, <1>2
    <3> QED
      BY <1>3, <1>7, <3>1
  <2> QED
    BY <2>1, <2>2, <2>3 DEF Chain
<1>10. Parted(q, fl, 0, n)
  <2> SUFFICES ASSUME NEW d \in Desc
               PROVE  (\E i \in 1..q.num_free : fl[i] = d) <=> ~(\E k \in 0..(n - 1) : Av(q, k) = d)
    BY DEF Parted
  <2>1. CASE d < n
    <3>1. d \in 0..(n - 1)
      BY <1>1, <2>1 DEF Desc
    <3> QED
      BY <1>4, <1>7, <2>1, <3>1
  <2>2. CASE ~(d < n)
    <3>1. (d - n) + 1 \in 1..q.num_free /\ (n + ((d - n) + 1)) - 1 = d
      BY <1>1, <1>2, <2>2 DEF Desc
    <3>2. fl[(d - n) + 1] = d
      BY <1>7, <3>1
    <3> QED
      BY <1>4, <2>2, <3>1, <3>2
  <2> QED
    BY <2>1, <2>2
<1>11. QueueOK(q, 0, 0, n, n)
  BY <1>2, <1>5, <1>6, <1>8, <1>9, <1>10 DEF QueueOK
<1> QED
  BY <1>3, <1>4, <1>11 DEF q

LEMMA SetUp ==
    ASSUME SetUpQueues
    PROVE  rx' = Post(RxBuffers) /\ tx' = Post(0)
<1> DEFINE D == 0..RxBuffers
           Step(f, n) == IF n = 0 THEN VirtqInit ELSE Publish(AddBuffer(f[n - 1], n - 1))
           posted[n \in D] == IF n = 0 THEN VirtqInit ELSE Publish(AddBuffer(posted[n - 1], n - 1))
           F == [n \in D |-> Post(n)]
<1>1. RxBuffers \in Nat /\ RxBuffers <= Size /\ Size \in Nat
  BY Sizes
<1>2. \A n \in D : n # 0 => n - 1 \in D /\ n \in 1..Size /\ n \in Nat
  BY <1>1
<1>3. \A n \in D : Post(n) = IF n = 0 THEN VirtqInit ELSE Publish(AddBuffer(F[n - 1], n - 1))
  <2>1. ASSUME NEW n \in D, n # 0 PROVE Post(n) = Publish(AddBuffer(F[n - 1], n - 1))
    <3>1. F[n - 1] = Post(n - 1)
      BY <1>2, <2>1
    <3> QED
      BY <1>2, <2>1, <3>1, PostStep
  <2> QED
    BY <2>1, PostNone
<1>4. F = [n \in D |-> IF n = 0 THEN VirtqInit ELSE Publish(AddBuffer(F[n - 1], n - 1))]
  BY <1>3
<1> HIDE DEF F
<1>5. \E g : g = [n \in D |-> IF n = 0 THEN VirtqInit ELSE Publish(AddBuffer(g[n - 1], n - 1))]
  BY <1>4
<1>6. posted = [n \in D |-> IF n = 0 THEN VirtqInit ELSE Publish(AddBuffer(posted[n - 1], n - 1))]
  BY <1>5 DEF posted
<1>7. rx' = posted[RxBuffers] /\ tx' = VirtqInit
  BY DEF SetUpQueues, posted, D
<1> HIDE DEF posted
<1>8. \A n \in D : posted[n] = IF n = 0 THEN VirtqInit ELSE Publish(AddBuffer(posted[n - 1], n - 1))
  BY <1>6
<1>9. ASSUME NEW n \in D, posted[n] # Post(n) PROVE FALSE
  <2> DEFINE T == {m \in D : posted[m] # Post(m)}
  <2>1. T \in SUBSET Nat /\ T # {}
    BY <1>1, <1>9
  <2>2. PICK m \in T : \A y \in T : m <= y
    BY <2>1, LeastNatural
  <2>3. m # 0
    BY <1>8, <2>2, PostNone
  <2>4. m - 1 \in D /\ m \in 1..Size /\ ~(m <= m - 1)
    BY <1>2, <2>2, <2>3
  <2>5. posted[m - 1] = Post(m - 1)
    BY <2>2, <2>4
  <2>6. posted[m] = Publish(AddBuffer(Post(m - 1), m - 1))
    BY <1>8, <2>2, <2>3, <2>5
  <2> QED
    BY <2>2, <2>4, <2>6, PostStep
<1>10. RxBuffers \in D
  BY <1>1
<1> QED
  BY <1>7, <1>9, <1>10, PostNone

-----------------------------------------------------------------------------
(***************************************************************************)
(* The inductive invariant: the counters of both queues are lengths of the *)
(* histories.                                                              *)
(***************************************************************************)

\* A frame has been taken off the receive queue and is not yet processed.
Ahead == IF pc \in {"requeue", "process"} THEN 1 ELSE 0

RxL == Len(received) + Ahead
RxE == RxL + RxBuffers
RxA == RxE - (IF pc = "requeue" THEN 1 ELSE 0)
TxA == Len(sent) - (IF pc = "notify" THEN 1 ELSE 0)

AllKinds == Kinds \cup {NoFrame.kind}
Frames == [id : Nat, kind : AllKinds]
Replies == [id : Nat, kind : {[k EXCEPT !.request = FALSE, !.dest = "sender"] : k \in AllKinds}]

NTypeOK ==
    /\ pc \in {"poll", "requeue", "process", "notify", "wild"}
    /\ rxbuf \in [0..(RxBuffers - 1) -> Frames] /\ txbuf \in [0..(TxBuffers - 1) -> Frames \cup Replies]
    /\ packet \in Frames /\ arrived \in Seq(Frames) /\ received \in Seq(Frames)
    /\ sent \in Seq(Replies) /\ wire \in Seq(Frames \cup Replies)

\* Without queues nothing has happened.
Down ==
    /\ rx = VirtqInit /\ tx = VirtqInit /\ pc \in {"poll", "wild"} /\ tx_buf_idx = 0
    /\ arrived = <<>> /\ received = <<>> /\ sent = <<>> /\ wire = <<>>

\* A descriptor of the receive queue owns the buffer with its number, ...
Owned == \A k \in RxL..(RxE - 1) : Av(rx, k) < RxBuffers /\ rx.desc[Av(rx, k)].buf = Av(rx, k)

\* ... which holds the frame that the device put there.
Held ==
    /\ \A k \in RxL..(Len(arrived) - 1) : rxbuf[Av(rx, k)] = arrived[k + 1]
    /\ Ahead = 1 => RxL <= Len(arrived) /\ packet = arrived[RxL]
    /\ \A i \in 1..Len(received) : received[i] = arrived[i]

RxOK == QueueOK(rx, RxL, Len(arrived), RxA, RxE) /\ Owned /\ Held

\* The transmit buffers are used one after the other.
TxOK ==
    /\ QueueOK(tx, 0, Len(wire), TxA, Len(sent)) /\ tx_buf_idx = Len(sent) % TxBuffers
    /\ \A k \in 0..(Len(sent) - 1) : tx.desc[Av(tx, k)].buf = k % TxBuffers
    /\ tx.num_free >= 1

NInv == NTypeOK /\ (IF status = "up" THEN RxOK /\ TxOK ELSE Down)

\* The device is not more than TxBuffers frames behind, ...
KeepsUp == Len(sent) - Len(wire) <= TxBuffers

\* ... and then finds the frames it has still to transmit in their buffers.
TxHeld ==
    /\ \A k \in Len(wire)..(Len(sent) - 1) : txbuf[k % TxBuffers] = sent[k + 1]
    /\ \A i \in 1..Len(wire) : wire[i] = sent[i]

LEMMA FrameTypes ==
    /\ NoFrame \in Frames
    /\ \A n \in Nat, k \in Kinds : [id |-> n, kind |-> k] \in Frames
    /\ \A f \in Frames : ReplyTo(f) \in Replies
<1>1. NoFrame \in Frames /\ \A n \in Nat, k \in Kinds : [id |-> n, kind |-> k] \in Frames
  BY DEF NoFrame, Frames, AllKinds
<1>2. ASSUME NEW f \in Frames PROVE ReplyTo(f) \in Replies
  <2>1. f.id \in Nat /\ f.kind \in AllKinds
    BY DEF Frames
  <2> QED
    BY <2>1 DEF ReplyTo, Replies
<1> QED
  BY <1>1, <1>2

LEMMA InitInv == Init => NInv
<1> SUFFICES ASSUME Init PROVE NInv
  OBVIOUS
<1>1. NTypeOK
  <2>1. rxbuf \in [0..(RxBuffers - 1) -> Frames] /\ txbuf \in [0..(TxBuffers - 1) -> Frames \cup Replies]
    BY FrameTypes DEF Init
  <2>2. packet \in Frames /\ pc \in {"poll", "requeue", "process", "notify", "wild"}
    BY FrameTypes DEF Init
  <2>3. /\ arrived \in Seq(Frames) /\ received \in Seq(Frames)
        /\ sent \in Seq(Replies) /\ wire \in Seq(Frames \cup Replies)
    BY DEF Init
  <2> QED
    BY <2>1, <2>2, <2>3 DEF NTypeOK
<1>2. Down /\ status # "up"
  BY DEF Init, Down
<1> QED
  BY <1>1, <1>2 DEF NInv

\* What the counters are.
LEMMA CounterTypes ==
    ASSUME NTypeOK
    PROVE  /\ Len(received) \in Nat /\ Len(arrived) \in Nat /\ Len(sent) \in Nat /\ Len(wire) \in Nat
           /\ Ahead \in {0, 1} /\ RxL \in Nat /\ RxE \in Nat /\ RxE = RxL + RxBuffers
<1>1. Len(received) \in Nat /\ Len(arrived) \in Nat /\ Len(sent) \in Nat /\ Len(wire) \in Nat
  BY DEF NTypeOK
<1>2. Ahead \in {0, 1}
  BY DEF Ahead
<1>3. RxL \in Nat /\ RxE \in Nat /\ RxE = RxL + RxBuffers
  BY <1>1, <1>2, Sizes DEF RxL, RxE
<1> QED
  BY <1>1, <1>2, <1>3

LEMMA InitStep ==
    ASSUME NInv, VirtioNetInit
    PROVE  NInv'
<1>1. status # "up" /\ NTypeOK /\ Down
  BY DEF NInv, VirtioNetInit
<1>2. status' # "up"
  BY DEF VirtioNetInit
<1>3. NTypeOK' /\ Down'
  BY <1>1 DEF VirtioNetInit, NTypeOK, Down, queues, driver
<1> QED
  BY <1>2, <1>3 DEF NInv

LEMMA TooEarlyStep ==
    ASSUME NInv, RecvTooEarly
    PROVE  NInv'
<1>1. status # "up" /\ status' # "up" /\ NTypeOK /\ Down
  BY DEF NInv, RecvTooEarly
<1>2. NTypeOK' /\ Down'
  BY <1>1 DEF RecvTooEarly, NTypeOK, Down, queues
<1> QED
  BY <1>1, <1>2 DEF NInv

LEMMA SetUpStep ==
    ASSUME NInv, SetUpQueues
    PROVE  NInv'
<1>1. status # "up" /\ NTypeOK /\ Down
  BY DEF NInv, SetUpQueues
<1>2. status' = "up" /\ UNCHANGED <<rxbuf, txbuf, tx_buf_idx, pc, packet, received, sent, arrived, wire>>
  BY DEF SetUpQueues, driver
<1>3. NTypeOK'
  BY <1>1, <1>2 DEF NTypeOK
<1>4. rx' = Post(RxBuffers) /\ tx' = Post(0)
  BY SetUp
<1>5. /\ Len(received)' = 0 /\ Len(arrived)' = 0 /\ Len(sent)' = 0 /\ Len(wire)' = 0
      /\ pc' = "poll" /\ tx_buf_idx' = 0
  BY <1>1, <1>2 DEF Down, SetUpQueues
<1>6. Ahead' = 0 /\ RxL' = 0 /\ RxE' = RxBuffers /\ RxA' = RxBuffers /\ TxA' = 0
  <2>1. Ahead' = 0
    BY <1>5 DEF Ahead
  <2>2. RxL' = 0
    BY <1>5, <2>1 DEF RxL
  <2>3. RxE' = RxBuffers
    BY <2>2, Sizes DEF RxE
  <2>4. RxA' = RxBuffers
    BY <1>5, <2>3, Sizes DEF RxA
  <2> QED
    BY <1>5, <2>1, <2>2, <2>3, <2>4 DEF TxA
<1>7. RxBuffers \in 0..Size /\ 0 \in 0..Size /\ Size \in Nat \ {0}
  BY Sizes
<1>8. RxOK'
  <2>1. /\ QueueOK(rx', 0, 0, RxBuffers, RxBuffers)
        /\ \A k \in 0..(RxBuffers - 1) : Av(rx', k) = k /\ rx'.desc[k].buf = k
    BY <1>4, <1>7, PostOK
  <2>2. QueueOK(rx, RxL, Len(arrived), RxA, RxE)'
    BY <1>5, <1>6, <2>1
  <2>3. Owned'
    <3>1. \A k \in 0..(RxBuffers - 1) : k < RxBuffers
      BY Sizes
    <3> QED
      BY <1>6, <2>1, <3>1 DEF Owned
  <2>4. Held'
    <3>1. \A k \in 0..(0 - 1) : FALSE
      OBVIOUS
    <3>2. \A k \in 1..0 : FALSE
      OBVIOUS
    <3>3. Ahead' # 1
      BY <1>6
    <3> QED
      BY <1>5, <1>6, <3>1, <3>2, <3>3 DEF Held
  <2> QED
    BY <2>2, <2>3, <2>4 DEF RxOK
<1>9. TxOK'
  <2>1. QueueOK(tx', 0, 0, 0, 0)
    BY <1>4, <1>7, PostOK
  <2>2. QueueOK(tx, 0, Len(wire), TxA, Len(sent))'
    BY <1>5, <1>6, <2>1
  <2>3. tx'.num_free >= 1
    BY <1>4, <1>7 DEF Post
  <2>4. 0 % TxBuffers = 0
    <3>1. TxBuffers \in Nat \ {0} /\ 0 \in 0..(TxBuffers - 1)
      BY Sizes
    <3> QED
      BY <3>1, SmallRemainder
  <2>5. \A k \in 0..(0 - 1) : FALSE
    OBVIOUS
  <2> QED
    BY <1>5, <2>2, <2>3, <2>4, <2>5 DEF TxOK
<1> QED
  BY <1>2, <1>3, <1>8, <1>9 DEF NInv

\* What a step of the other queue leaves alone.
LEMMA TxSame ==
    ASSUME TxOK, UNCHANGED <<tx, sent, wire, tx_buf_idx>>, pc' = "notify" <=> pc = "notify"
    PROVE  TxOK'
BY DEF TxOK, TxA

LEMMA RxSame ==
    ASSUME RxOK, UNCHANGED <<rx, rxbuf, packet, received, arrived>>,
           \A s \in {"requeue", "process"} : pc' = s <=> pc = s
    PROVE  RxOK'
<1>1. Ahead' = Ahead /\ RxL' = RxL /\ RxE' = RxE /\ RxA' = RxA
  BY DEF Ahead, RxL, RxE, RxA
<1> QED
  BY <1>1 DEF RxOK, Owned, Held

LEMMA BufferNumber == \A d \in Desc : d < RxBuffers => d \in 0..(RxBuffers - 1)
BY Sizes DEF Desc

LEMMA DeviceReceiveStep ==
    ASSUME NInv, NEW kind \in Kinds, DeviceReceive(kind)
    PROVE  NInv'
<1>1. /\ status = "up" /\ NTypeOK /\ RxOK /\ TxOK /\ status' = "up" /\ rx.seen # rx.avail_idx
      /\ UNCHANGED <<tx, txbuf, tx_buf_idx, pc, packet, received, sent, wire>>
  BY DEF NInv, DeviceReceive, driver
<1> DEFINE U == Len(arrived)
           d == rx.avail[rx.seen % Size]
           frame == [id |-> U + 1, kind |-> kind]
           b == rx.desc[d].buf
<1>2. /\ rxbuf' = [rxbuf EXCEPT ![b] = frame] /\ rx' = GiveBack(rx)
      /\ arrived' = Append(arrived, frame)
  BY DEF DeviceReceive, GiveBack
<1>3. U \in Nat /\ RxL \in Nat /\ RxE \in Nat /\ arrived \in Seq(Frames)
  BY <1>1, CounterTypes DEF NTypeOK
<1>4. frame \in Frames
  BY <1>3, FrameTypes
<1>5. Ahead' = Ahead /\ RxL' = RxL /\ RxE' = RxE /\ RxA' = RxA
  BY <1>1 DEF Ahead, RxL, RxE, RxA
<1>6. QueueOK(rx, RxL, U, RxA, RxE)
  BY <1>1 DEF RxOK
<1>7. U < RxA /\ RxL <= U /\ RxA <= RxE /\ RxA \in Nat
  <2>1. U <= RxA /\ RxL <= U /\ RxA <= RxE /\ RxA \in Nat
    BY <1>6, QueueFacts
  <2>2. U # RxA
    BY <1>1, <1>6 DEF QueueOK, Counts
  <2> QED
    BY <1>3, <2>1, <2>2
<1>8. /\ QueueOK(GiveBack(rx), RxL, U + 1, RxA, RxE) /\ d = Av(rx, U)
      /\ GiveBack(rx).desc = rx.desc /\ GiveBack(rx).avail = rx.avail
  BY <1>6, <1>7, GiveBackOK
<1>9. b = d /\ d < RxBuffers /\ d \in 0..(RxBuffers - 1)
  <2>1. U \in RxL..(RxE - 1)
    BY <1>3, <1>7
  <2>2. d \in Desc
    BY <1>3, <1>6, <1>8, QueueFacts
  <2>3. b = d /\ d < RxBuffers
    BY <1>1, <1>8, <2>1 DEF RxOK, Owned
  <2> QED
    BY <2>2, <2>3, BufferNumber
<1> HIDE DEF frame, d, b
<1>10. /\ arrived' \in Seq(Frames) /\ Len(arrived)' = U + 1 /\ arrived'[U + 1] = frame
       /\ \A i \in 1..U : arrived'[i] = arrived[i]
  BY <1>2, <1>3, <1>4
<1>11. /\ rxbuf' \in [0..(RxBuffers - 1) -> Frames] /\ rxbuf'[d] = frame
       /\ \A x \in 0..(RxBuffers - 1) : x # d => rxbuf'[x] = rxbuf[x]
  <2>1. rxbuf \in [0..(RxBuffers - 1) -> Frames]
    BY <1>1 DEF NTypeOK
  <2> QED
    BY <1>2, <1>4, <1>9, <2>1
<1>12. NTypeOK'
  BY <1>1, <1>10, <1>11 DEF NTypeOK
<1>13. QueueOK(rx, RxL, Len(arrived), RxA, RxE)'
  BY <1>2, <1>5, <1>8, <1>10
<1>14. rx'.desc = rx.desc /\ rx'.avail = rx.avail /\ \A k : Av(rx', k) = Av(rx, k)
  BY <1>2, <1>8 DEF Av
<1>15. Owned'
  BY <1>1, <1>5, <1>14 DEF RxOK, Owned
<1>16. Held'
  <2>0. Held /\ Owned /\ Rings(rx, RxL, U, RxE)
    BY <1>1 DEF RxOK, QueueOK
  <2>1. ASSUME NEW k \in RxL..((U + 1) - 1) PROVE rxbuf'[Av(rx, k)] = arrived'[k + 1]
    <3>1. CASE k = U
      BY <1>8, <1>10, <1>11, <3>1
    <3>2. CASE k # U
      <4>1. k \in RxL..(U - 1) /\ k \in RxL..(RxE - 1) /\ U \in RxL..(RxE - 1) /\ k + 1 \in 1..U /\ k \in Nat
        BY <1>3, <1>7, <3>2
      <4>2. Av(rx, k) # d
        BY <1>8, <2>0, <3>2, <4>1 DEF Rings
      <4>3. Av(rx, k) \in 0..(RxBuffers - 1)
        <5>1. Av(rx, k) < RxBuffers /\ Av(rx, k) \in Desc
          BY <1>6, <2>0, <4>1, QueueFacts DEF Owned
        <5> QED
          BY <5>1, BufferNumber
      <4>4. rxbuf[Av(rx, k)] = arrived[k + 1]
        BY <2>0, <4>1 DEF Held
      <4> QED
        BY <1>10, <1>11, <4>1, <4>2, <4>3, <4>4
    <3> QED
      BY <3>1, <3>2
  <2>2. ASSUME Ahead = 1 PROVE RxL <= U + 1 /\ packet = arrived'[RxL]
    <3>1. RxL <= U /\ packet = arrived[RxL]
      BY <2>0, <2>2 DEF Held
    <3>2. RxL \in 1..U
      BY <1>1, <1>3, <2>2, <3>1, CounterTypes DEF RxL
    <3> QED
      BY <1>3, <1>10, <3>1, <3>2
  <2>3. ASSUME NEW i \in 1..Len(received) PROVE received[i] = arrived'[i]
    <3>1. Len(received) <= U /\ Len(received) \in Nat
      BY <1>1, <1>3, <1>7, CounterTypes DEF RxL
    <3>2. i \in 1..U
      BY <1>3, <3>1
    <3> QED
      BY <1>10, <2>0, <3>2 DEF Held
  <2> QED
    BY <1>1, <1>5, <1>10, <1>14, <2>1, <2>2, <2>3 DEF Held
<1>17. RxOK'
  BY <1>13, <1>15, <1>16 DEF RxOK
<1>18. TxOK'
  BY <1>1, TxSame
<1> QED
  BY <1>1, <1>12, <1>17, <1>18 DEF NInv

\* The device transmits a buffer that the driver has filled.
LEMMA DeviceTransmitStep ==
    ASSUME NInv, DeviceTransmit
    PROVE  /\ NInv' /\ Len(wire) < Len(sent) /\ Len(wire)' = Len(wire) + 1
           /\ wire' = Append(wire, txbuf[Len(wire) % TxBuffers])
<1>1. /\ status = "up" /\ NTypeOK /\ RxOK /\ TxOK /\ status' = "up" /\ tx.seen # tx.avail_idx
      /\ UNCHANGED <<rx, rxbuf, txbuf, tx_buf_idx, pc, packet, received, sent, arrived>>
  BY DEF NInv, DeviceTransmit, driver
<1> DEFINE U == Len(wire)
           E == Len(sent)
           d == tx.avail[tx.seen % Size]
           f == txbuf[tx.desc[d].buf]
<1>2. wire' = Append(wire, f) /\ tx' = GiveBack(tx)
  BY DEF DeviceTransmit, GiveBack
<1>3. U \in Nat /\ E \in Nat /\ wire \in Seq(Frames \cup Replies)
  BY <1>1, CounterTypes DEF NTypeOK
<1>4. QueueOK(tx, 0, U, TxA, E)
  BY <1>1 DEF TxOK
<1>5. U < TxA /\ TxA <= E /\ TxA \in Nat
  <2>1. U <= TxA /\ TxA <= E /\ TxA \in Nat
    BY <1>4, QueueFacts
  <2>2. U # TxA
    BY <1>1, <1>4 DEF QueueOK, Counts
  <2> QED
    BY <1>3, <2>1, <2>2
<1>6. /\ QueueOK(GiveBack(tx), 0, U + 1, TxA, E) /\ d = Av(tx, U)
      /\ GiveBack(tx).desc = tx.desc /\ GiveBack(tx).avail = tx.avail
      /\ GiveBack(tx).num_free = tx.num_free
  BY <1>4, <1>5, GiveBackOK
<1>7. f = txbuf[U % TxBuffers]
  <2>1. U \in 0..(E - 1)
    BY <1>3, <1>5
  <2> QED
    BY <1>1, <1>6, <2>1 DEF TxOK
<1>8. U % TxBuffers \in 0..(TxBuffers - 1)
  BY <1>3, Sizes, Division
<1>9. f \in Frames \cup Replies
  BY <1>1, <1>7, <1>8 DEF NTypeOK
<1> HIDE DEF f, d
<1>10. wire' \in Seq(Frames \cup Replies) /\ Len(wire)' = U + 1
  BY <1>2, <1>3, <1>9
<1>11. NTypeOK'
  BY <1>1, <1>10 DEF NTypeOK
<1>12. TxA' = TxA /\ tx'.desc = tx.desc /\ tx'.num_free = tx.num_free /\ \A k : Av(tx', k) = Av(tx, k)
  BY <1>1, <1>2, <1>6 DEF TxA, Av
<1>13. QueueOK(tx, 0, Len(wire), TxA, Len(sent))'
  BY <1>1, <1>2, <1>6, <1>10, <1>12
<1>14. TxOK'
  BY <1>1, <1>12, <1>13 DEF TxOK
<1>15. RxOK'
  BY <1>1, RxSame
<1>16. U < E
  BY <1>3, <1>5
<1> QED
  BY <1>1, <1>2, <1>7, <1>10, <1>11, <1>14, <1>15, <1>16 DEF NInv

LEMMA RecvStep ==
    ASSUME NInv, Recv
    PROVE  NInv'
<1>1. /\ status = "up" /\ NTypeOK /\ RxOK /\ TxOK /\ status' = "up" /\ pc = "poll" /\ pc' = "requeue"
      /\ UNCHANGED <<tx, rxbuf, txbuf, tx_buf_idx, received, sent, arrived, wire>>
      /\ rx.last_used # rx.used_idx
  BY DEF NInv, Recv
<1> DEFINE L == Len(received)
           U == Len(arrived)
           A == RxE
           d == rx.used[rx.last_used % Size]
           g == GetUsed(rx)
<1>2. packet' = rxbuf[d] /\ rx' = AddBuffer(g, d)
  BY DEF Recv
<1>3. /\ L \in Nat /\ U \in Nat /\ A \in Nat /\ A = L + RxBuffers /\ Ahead = 0 /\ RxL = L /\ RxA = A
      /\ Ahead' = 1 /\ RxL' = L + 1 /\ RxE' = A + 1 /\ RxA' = A /\ RxBuffers \in Nat
  <2>1. L \in Nat /\ U \in Nat /\ A \in Nat /\ A = RxL + RxBuffers /\ RxBuffers \in Nat
    BY <1>1, CounterTypes, Sizes
  <2>2. Ahead = 0 /\ RxL = L
    BY <1>1, <2>1 DEF Ahead, RxL
  <2>3. RxA = A
    BY <1>1, <2>1 DEF RxA
  <2>4. Ahead' = 1 /\ RxL' = L + 1
    BY <1>1, <2>1 DEF Ahead, RxL
  <2>5. RxE' = A + 1
    BY <2>1, <2>2, <2>4 DEF RxE
  <2>6. RxA' = A
    BY <1>1, <2>1, <2>5 DEF RxA
  <2> QED
    BY <2>1, <2>2, <2>3, <2>4, <2>5, <2>6
<1>4. QueueOK(rx, L, U, A, A) /\ Owned /\ Held
  BY <1>1, <1>3 DEF RxOK
<1> HIDE DEF A
<1>5. L < U
  <2>1. L <= U
    BY <1>4, QueueFacts
  <2>2. L # U
    BY <1>1, <1>4 DEF QueueOK, Counts
  <2> QED
    BY <1>3, <2>1, <2>2
<1>6. /\ QueueOK(g, L + 1, U, A, A) /\ g.num_free = rx.num_free + 1
      /\ d = Av(rx, L) /\ g.free_head = Av(rx, L) /\ g.avail = rx.avail
      /\ \A x \in Desc : g.desc[x].buf = rx.desc[x].buf
  BY <1>4, <1>5, GetUsedOK
<1>7. rx.num_free \in Nat /\ d \in Desc /\ d \in Nat /\ \A k \in Nat : Av(rx, k) \in Desc
  <2>1. rx.num_free \in Nat /\ \A k \in Nat : Av(rx, k) \in Desc
    BY <1>4, QueueFacts
  <2> QED
    BY <1>3, <1>6, <2>1, Sizes
<1>8. \A k : Av(g, k) = Av(rx, k)
  BY <1>6 DEF Av
<1>9. g.num_free >= 1 /\ g.free_head = d
  BY <1>6, <1>7
<1> HIDE DEF g, d
<1>10. /\ QueueOK(rx', L + 1, U, A, A + 1) /\ Av(rx', A) = d /\ rx'.desc[d].buf = d
       /\ \A k \in (L + 1)..(A - 1) : Av(rx', k) = Av(g, k) /\ rx'.desc[Av(g, k)] = g.desc[Av(g, k)]
  <2>1. LET r == AddBuffer(g, d)
           IN /\ QueueOK(r, L + 1, U, A, A + 1)
              /\ Av(r, A) = g.free_head /\ r.desc[g.free_head].buf = d
              /\ r.num_free = g.num_free - 1
              /\ \A k \in (L + 1)..(A - 1) : /\ Av(r, k) = Av(g, k) /\ Av(g, k) # g.free_head
                                       /\ r.desc[Av(g, k)] = g.desc[Av(g, k)]
    BY <1>6, <1>7, <1>9, AddOK
  <2> QED
    BY <1>2, <1>9, <2>1
<1>11. L \in L..(U - 1) /\ L \in L..(A - 1) /\ L + 1 \in 1..U
  <2>1. U <= A
    BY <1>4, QueueFacts
  <2> QED
    BY <1>3, <1>5, <2>1
<1>12. d < RxBuffers /\ d \in 0..(RxBuffers - 1)
  <2>1. d < RxBuffers
    BY <1>3, <1>4, <1>6, <1>11 DEF Owned, A
  <2> QED
    BY <1>7, <2>1, BufferNumber
<1>13. packet' = arrived[L + 1] /\ packet' \in Frames
  <2>1. rxbuf[Av(rx, L)] = arrived[L + 1]
    BY <1>3, <1>4, <1>11 DEF Held
  <2> QED
    BY <1>1, <1>2, <1>6, <1>12, <2>1 DEF NTypeOK
<1>14. NTypeOK'
  BY <1>1, <1>13 DEF NTypeOK
<1>15. QueueOK(rx, RxL, Len(arrived), RxA, RxE)'
  BY <1>1, <1>3, <1>10
<1>16. ASSUME NEW k \in (L + 1)..(A - 1)
       PROVE  Av(rx', k) = Av(rx, k) /\ rx'.desc[Av(rx, k)].buf = rx.desc[Av(rx, k)].buf /\ k \in L..(A - 1)
  <2>1. k \in Nat /\ k \in L..(A - 1)
    BY <1>3
  <2> QED
    BY <1>6, <1>7, <1>8, <1>10, <2>1
<1>17. Owned'
  <2>1. ASSUME NEW k \in (L + 1)..((A + 1) - 1)
        PROVE  Av(rx', k) < RxBuffers /\ rx'.desc[Av(rx', k)].buf = Av(rx', k)
    <3>1. CASE k = A
      BY <1>10, <1>12, <3>1
    <3>2. CASE k # A
      <4>1. k \in (L + 1)..(A - 1)
        BY <1>3, <3>2
      <4> QED
        BY <1>3, <1>4, <1>16, <4>1 DEF Owned, A
    <3> QED
      BY <3>1, <3>2
  <2> QED
    BY <1>3, <2>1 DEF Owned
<1>18. Held'
  <2>1. ASSUME NEW k \in (L + 1)..(U - 1) PROVE rxbuf'[Av(rx', k)] = arrived'[k + 1]
    <3>1. U <= A
      BY <1>4, QueueFacts
    <3>2. k \in (L + 1)..(A - 1) /\ k \in L..(U - 1)
      BY <1>3, <3>1
    <3> QED
      BY <1>1, <1>3, <1>4, <1>16, <3>2 DEF Held
  <2>2. RxL' <= Len(arrived)' /\ packet' = arrived'[RxL']
    BY <1>1, <1>3, <1>5, <1>13
  <2>3. \A i \in 1..Len(received)' : received'[i] = arrived'[i]
    BY <1>1, <1>4 DEF Held
  <2> QED
    BY <1>1, <1>3, <2>1, <2>2, <2>3 DEF Held
<1>19. RxOK'
  BY <1>15, <1>17, <1>18 DEF RxOK
<1>20. TxOK'
  BY <1>1, TxSame
<1> QED
  BY <1>1, <1>14, <1>19, <1>20 DEF NInv

LEMMA RecvPublishStep ==
    ASSUME NInv, RecvPublish
    PROVE  NInv'
<1>1. /\ status = "up" /\ NTypeOK /\ RxOK /\ TxOK /\ status' = "up" /\ pc = "requeue" /\ pc' = "process"
      /\ UNCHANGED <<tx, rxbuf, txbuf, tx_buf_idx, packet, received, sent, arrived, wire>>
      /\ rx' = Publish(rx)
  BY DEF NInv, RecvPublish, Down
<1> DEFINE A == RxE - 1
<1>2. /\ RxE \in Nat /\ A \in Int /\ RxA = A /\ A + 1 = RxE
      /\ Ahead' = Ahead /\ RxL' = RxL /\ RxE' = RxE /\ RxA' = RxE
  <2>1. RxE \in Nat
    BY <1>1, CounterTypes
  <2>2. Ahead' = Ahead
    BY <1>1 DEF Ahead
  <2>3. RxL' = RxL
    BY <1>1, <2>2 DEF RxL
  <2>4. RxE' = RxE
    BY <2>3 DEF RxE
  <2>5. RxA = RxE - 1 /\ RxA' = RxE
    BY <1>1, <2>1, <2>4 DEF RxA
  <2> QED
    BY <2>1, <2>2, <2>3, <2>4, <2>5
<1> HIDE DEF A
<1>3. QueueOK(rx, RxL, Len(arrived), A, A + 1)
  BY <1>1, <1>2 DEF RxOK
<1>4. /\ QueueOK(rx', RxL, Len(arrived), A + 1, A + 1)
      /\ rx'.desc = rx.desc /\ rx'.avail = rx.avail
  BY <1>1, <1>3, PublishOK
<1>5. \A k : Av(rx', k) = Av(rx, k)
  BY <1>4 DEF Av
<1>6. RxOK'
  BY <1>1, <1>2, <1>4, <1>5 DEF RxOK, Owned, Held
<1>7. NTypeOK' /\ TxOK'
  BY <1>1, TxSame DEF NTypeOK
<1> QED
  BY <1>1, <1>6, <1>7 DEF NInv

LEMMA SendPublishStep ==
    ASSUME NInv, SendPublish
    PROVE  NInv'
<1>1. /\ status = "up" /\ NTypeOK /\ RxOK /\ TxOK /\ status' = "up" /\ pc = "notify" /\ pc' = "poll"
      /\ UNCHANGED <<rx, rxbuf, txbuf, tx_buf_idx, packet, received, sent, arrived, wire>>
      /\ tx' = Publish(tx)
  BY DEF NInv, SendPublish, Down
<1> DEFINE A == Len(sent) - 1
<1>2. Len(sent) \in Nat /\ TxA = A /\ A + 1 = Len(sent) /\ TxA' = Len(sent)
  <2>1. Len(sent) \in Nat
    BY <1>1, CounterTypes
  <2> QED
    BY <1>1, <2>1 DEF TxA
<1> HIDE DEF A
<1>3. QueueOK(tx, 0, Len(wire), A, A + 1)
  BY <1>1, <1>2 DEF TxOK
<1>4. /\ QueueOK(tx', 0, Len(wire), A + 1, A + 1)
      /\ tx'.desc = tx.desc /\ tx'.avail = tx.avail /\ tx'.num_free = tx.num_free
  BY <1>1, <1>3, PublishOK
<1>5. \A k : Av(tx', k) = Av(tx, k)
  BY <1>4 DEF Av
<1>6. TxOK'
  BY <1>1, <1>2, <1>4, <1>5 DEF TxOK
<1>7. NTypeOK' /\ RxOK'
  BY <1>1, RxSame DEF NTypeOK
<1> QED
  BY <1>1, <1>6, <1>7 DEF NInv

LEMMA ProcessRx ==
    ASSUME NInv, Process
    PROVE  RxOK' /\ received' \in Seq(Frames)
<1>1. /\ status = "up" /\ NTypeOK /\ RxOK /\ pc = "process" /\ pc' \in {"notify", "poll", "wild"}
      /\ UNCHANGED <<rx, rxbuf, packet, arrived>> /\ received' = Append(received, packet)
  BY DEF NInv, Process, AfterDrop, Down
<1> DEFINE n == Len(received)
<1>2. n \in Nat /\ received \in Seq(Frames) /\ packet \in Frames /\ Len(arrived) \in Nat
  BY <1>1, CounterTypes DEF NTypeOK
<1>3. /\ received' \in Seq(Frames) /\ Len(received)' = n + 1 /\ received'[n + 1] = packet
      /\ \A i \in 1..n : received'[i] = received[i]
  BY <1>1, <1>2
<1>4. Ahead = 1 /\ RxL = n + 1 /\ Ahead' = 0 /\ RxL' = RxL /\ RxE' = RxE /\ RxA' = RxA
  <2>1. Ahead = 1 /\ RxL = n + 1 /\ Ahead' = 0
    BY <1>1 DEF Ahead, RxL
  <2>2. RxL' = n + 1
    BY <1>2, <1>3, <2>1 DEF RxL
  <2>3. RxE' = RxE
    BY <2>1, <2>2 DEF RxE
  <2> QED
    BY <1>1, <2>1, <2>2, <2>3 DEF RxA
<1>5. QueueOK(rx, RxL, Len(arrived), RxA, RxE)' /\ Owned'
  BY <1>1, <1>4 DEF RxOK, Owned
<1>6. Held'
  <2>1. Held
    BY <1>1 DEF RxOK
  <2>2. ASSUME NEW i \in 1..(n + 1) PROVE received'[i] = arrived[i]
    <3>1. CASE i = n + 1
      BY <1>3, <1>4, <2>1, <3>1 DEF Held
    <3>2. CASE i # n + 1
      <4>1. i \in 1..n
        BY <1>2, <3>2
      <4> QED
        BY <1>3, <2>1, <4>1 DEF Held
    <3> QED
      BY <3>1, <3>2
  <2>3. Ahead' # 1
    BY <1>4
  <2> QED
    BY <1>1, <1>3, <1>4, <2>1, <2>2, <2>3 DEF Held
<1> QED
  BY <1>3, <1>5, <1>6 DEF RxOK

LEMMA ProcessStep ==
    ASSUME NInv, Process
    PROVE  /\ NInv' /\ wire' = wire
           /\ \/ UNCHANGED <<txbuf, sent>>
              \/ /\ sent' = Append(sent, ReplyTo(packet)) /\ ReplyTo(packet) \in Replies
                 /\ txbuf' = [txbuf EXCEPT ![Len(sent) % TxBuffers] = ReplyTo(packet)]
<1>1. /\ status = "up" /\ NTypeOK /\ RxOK /\ TxOK /\ status' = "up" /\ pc = "process"
      /\ UNCHANGED <<rx, rxbuf, packet, arrived, wire>>
  BY DEF NInv, Process, Down
<1>2. RxOK' /\ received' \in Seq(Frames)
  BY ProcessRx
<1> DEFINE E == Len(sent)
           i == tx_buf_idx
           f == ReplyTo(packet)
<1>3. /\ E \in Nat /\ i = E % TxBuffers /\ i \in 0..(TxBuffers - 1) /\ i \in Nat /\ f \in Replies
      /\ sent \in Seq(Replies) /\ txbuf \in [0..(TxBuffers - 1) -> Frames \cup Replies]
  <2>1. E \in Nat /\ packet \in Frames
    BY <1>1, CounterTypes DEF NTypeOK
  <2>2. i = E % TxBuffers
    BY <1>1 DEF TxOK
  <2>3. E % TxBuffers \in 0..(TxBuffers - 1)
    BY <2>1, Sizes, Division
  <2>4. i \in Nat
    BY <2>2, <2>3, Sizes
  <2> QED
    BY <1>1, <2>1, <2>2, <2>3, <2>4, FrameTypes DEF NTypeOK
<1>4. CASE UNCHANGED <<tx, txbuf, tx_buf_idx, sent>> /\ pc' \in {"poll", "wild"}
  <2>1. TxOK'
    BY <1>1, <1>4, TxSame
  <2>2. NTypeOK'
    BY <1>1, <1>2, <1>4 DEF NTypeOK
  <2> QED
    BY <1>1, <1>2, <1>4, <2>1, <2>2 DEF NInv
<1>5. CASE /\ tx.num_free >= 2 /\ txbuf' = [txbuf EXCEPT ![i] = f] /\ tx_buf_idx' = NextBuffer(i)
           /\ tx' = AddBuffer(tx, i) /\ sent' = Append(sent, f) /\ pc' = "notify"
  <2>1. TxA = E /\ QueueOK(tx, 0, Len(wire), E, E)
    <3>1. TxA = E
      BY <1>1, <1>3 DEF TxA
    <3> QED
      BY <1>1, <3>1 DEF TxOK
  <2>2. tx.num_free \in Nat /\ tx.num_free >= 1 /\ \A k \in Nat : Av(tx, k) \in Desc
    BY <1>5, <2>1, QueueFacts
  <2> HIDE DEF f
  <2>3. sent' \in Seq(Replies) /\ Len(sent)' = E + 1
    BY <1>3, <1>5
  <2>4. TxA' = E
    BY <1>3, <1>5, <2>3 DEF TxA
  <2>5. /\ QueueOK(tx', 0, Len(wire), E, E + 1)
        /\ Av(tx', E) = tx.free_head /\ tx'.desc[tx.free_head].buf = i
        /\ tx'.num_free = tx.num_free - 1
        /\ \A k \in 0..(E - 1) : Av(tx', k) = Av(tx, k) /\ tx'.desc[Av(tx, k)] = tx.desc[Av(tx, k)]
    <3>1. LET r == AddBuffer(tx, i)
           IN /\ QueueOK(r, 0, Len(wire), E, E + 1)
              /\ Av(r, E) = tx.free_head /\ r.desc[tx.free_head].buf = i
              /\ r.num_free = tx.num_free - 1
              /\ \A k \in 0..(E - 1) : /\ Av(r, k) = Av(tx, k) /\ Av(tx, k) # tx.free_head
                                       /\ r.desc[Av(tx, k)] = tx.desc[Av(tx, k)]
      <4>1. i \in Nat
        BY <1>3
      <4> HIDE DEF i
      <4> QED
        BY <2>1, <2>2, <4>1, AddOK
    <3> QED
      BY <1>5, <3>1
  <2>6. QueueOK(tx, 0, Len(wire), TxA, Len(sent))'
    BY <1>1, <2>3, <2>4, <2>5
  <2>7. tx_buf_idx' = (E + 1) % TxBuffers
    <3>1. ((E % TxBuffers) + 1) % TxBuffers = (E + 1) % TxBuffers
      BY <1>3, Sizes, NextRemainder
    <3> QED
      BY <1>3, <1>5, <3>1 DEF NextBuffer
  <2>8. ASSUME NEW k \in 0..((E + 1) - 1) PROVE tx'.desc[Av(tx', k)].buf = k % TxBuffers
    <3>1. CASE k = E
      BY <1>3, <2>5, <3>1
    <3>2. CASE k # E
      <4>1. k \in 0..(E - 1)
        BY <1>3, <3>2
      <4> QED
        BY <1>1, <2>5, <4>1 DEF TxOK
    <3> QED
      BY <3>1, <3>2
  <2>9. tx'.num_free >= 1
    BY <1>5, <2>2, <2>5
  <2>10. TxOK'
    BY <2>3, <2>6, <2>7, <2>8, <2>9 DEF TxOK
  <2>11. txbuf' \in [0..(TxBuffers - 1) -> Frames \cup Replies]
    BY <1>3, <1>5
  <2>12. NTypeOK'
    BY <1>1, <1>2, <1>5, <2>3, <2>11 DEF NTypeOK
  <2> QED
    BY <1>1, <1>2, <1>3, <1>5, <2>10, <2>12 DEF NInv, f
<1> QED
  BY <1>4, <1>5 DEF Process, Sendable, AfterDrop

LEMMA StutterStep ==
    ASSUME NInv, UNCHANGED vars
    PROVE  NInv'
<1>1. /\ UNCHANGED <<status, rx, tx, rxbuf, txbuf, tx_buf_idx>>
      /\ UNCHANGED <<pc, packet, received, sent, arrived, wire>>
  BY DEF vars, queues, driver
<1>2. NTypeOK => NTypeOK'
  BY <1>1 DEF NTypeOK
<1>3. Down => Down'
  BY <1>1 DEF Down
<1> QED
  BY <1>1, <1>2, <1>3, RxSame, TxSame DEF NInv

LEMMA NextInv == NInv /\ [Next]_vars => NInv'
<1> SUFFICES ASSUME NInv, [Next]_vars PROVE NInv'
  OBVIOUS
<1>1. CASE \E kind \in Kinds : DeviceReceive(kind)
  BY <1>1, DeviceReceiveStep
<1>2. CASE RecvNothing \/ Wild \/ UNCHANGED vars
  BY <1>2, StutterStep DEF RecvNothing, Wild
<1> QED
  BY <1>1, <1>2, InitStep, TooEarlyStep, SetUpStep, DeviceTransmitStep, RecvStep, RecvPublishStep, ProcessStep,
     SendPublishStep DEF Next, Driver

LEMMA NetInvariant == Spec => []NInv
BY InitInv, NextInv, PTL DEF Spec

-----------------------------------------------------------------------------
(***************************************************************************)
(* Free list and rings share out the descriptors.                          *)
(***************************************************************************)

\* The list read off the next fields is the chain of the invariant.
LEMMA FreeListIs ==
    ASSUME NEW q, q.num_free \in Nat, NEW fl \in [1..q.num_free -> Desc], Chain(q, fl)
    PROVE  FreeList(q) = {fl[k] : k \in 1..q.num_free}
<1> DEFINE D == 1..q.num_free
           node[k \in D] == IF k = 1 THEN q.free_head ELSE q.desc[node[k - 1]].next
<1>1. \A k \in D : fl[k] = IF k = 1 THEN q.free_head ELSE q.desc[fl[k - 1]].next
  <2>1. ASSUME NEW k \in D, k # 1 PROVE fl[k] = q.desc[fl[k - 1]].next
    <3>1. k - 1 \in 1..(q.num_free - 1) /\ (k - 1) + 1 = k
      BY <2>1
    <3> QED
      BY <3>1 DEF Chain
  <2>2. ASSUME NEW k \in D, k = 1 PROVE fl[k] = q.free_head
    BY <2>2 DEF Chain
  <2> QED
    BY <2>1, <2>2
<1>2. fl = [k \in D |-> IF k = 1 THEN q.free_head ELSE q.desc[fl[k - 1]].next]
  BY <1>1
<1>3. \E g : g = [k \in D |-> IF k = 1 THEN q.free_head ELSE q.desc[g[k - 1]].next]
  BY <1>2
<1>4. node = [k \in D |-> IF k = 1 THEN q.free_head ELSE q.desc[node[k - 1]].next]
  BY <1>3 DEF node
<1>5. FreeList(q) = {node[k] : k \in D}
  BY DEF FreeList, node, D
<1> HIDE DEF node
<1>6. \A k \in D : node[k] = IF k = 1 THEN q.free_head ELSE q.desc[node[k - 1]].next
  BY <1>4
<1>7. ASSUME NEW k \in D, node[k] # fl[k] PROVE FALSE
  <2> DEFINE T == {m \in D : node[m] # fl[m]}
  <2>1. T \in SUBSET Nat /\ T # {}
    BY <1>7
  <2>2. PICK m \in T : \A y \in T : m <= y
    BY <2>1, LeastNatural
  <2>3. m \in D /\ m # 1 /\ node[m] # fl[m]
    BY <1>1, <1>6, <2>2
  <2>4. m - 1 \in D /\ ~(m <= m - 1)
    BY <2>3
  <2>5. node[m - 1] = fl[m - 1]
    BY <2>2, <2>4
  <2> QED
    BY <1>1, <1>6, <2>3, <2>5
<1> QED
  BY <1>5, <1>7

LEMMA WindowIs ==
    ASSUME NEW l \in Nat, NEW a \in Nat, NEW e \in {0, 1}, l <= a + e, (a + e) - l <= Size
    PROVE  Window(l % IdxMod, (a % IdxMod) + e) = [i \in 1..((a + e) - l) |-> Slot((l + i) - 1)]
<1> DEFINE f == l % IdxMod
           n == (a + e) - l
<1>1. (((a % IdxMod) + e) - (l % IdxMod)) % IdxMod = n
  BY IndexDistance
<1>2. f \in Nat
  BY Sizes, Division
<1>3. ASSUME NEW i \in 1..n PROVE (f + i - 1) % Size = Slot((l + i) - 1)
  <2>1. i - 1 \in Nat /\ f + i - 1 = f + (i - 1) /\ (l + i) - 1 = l + (i - 1)
    BY <1>2
  <2>2. (f + (i - 1)) % Size = Slot(l + (i - 1))
    BY <2>1, IndexSlot
  <2> QED
    BY <2>1, <2>2
<1> QED
  BY <1>1, <1>3 DEF Window

LEMMA InUseIs ==
    ASSUME NEW q, NEW L, NEW U, NEW A, NEW E, QueueOK(q, L, U, A, E), NEW adding \in BOOLEAN,
           E = A + IF adding THEN 1 ELSE 0
    PROVE  InUse(q, adding) = {Av(q, k) : k \in L..(E - 1)}
<1> DEFINE e == IF adding THEN 1 ELSE 0
           W == Window(q.last_used, (q.avail_idx + e))
<1>1. /\ L \in Nat /\ A \in Nat /\ E \in Nat /\ L <= E /\ E - L <= Size
      /\ q.last_used = L % IdxMod /\ q.avail_idx = A % IdxMod
  <2>1. /\ L \in Nat /\ A \in Nat /\ E \in Nat /\ L <= U /\ U <= A /\ A <= E /\ U \in Nat
        /\ (E - L) + q.num_free = Size /\ q.num_free \in Nat
    BY QueueFacts
  <2>2. q.last_used = L % IdxMod /\ q.avail_idx = A % IdxMod
    BY DEF QueueOK, Counts
  <2> QED
    BY <2>1, <2>2
<1>2. e \in {0, 1} /\ A + e = E
  OBVIOUS
<1> HIDE DEF e
<1>3. W = [i \in 1..(E - L) |-> Slot((L + i) - 1)]
  <2>1. L <= A + e /\ (A + e) - L <= Size
    BY <1>1, <1>2
  <2>2. Window(L % IdxMod, (A % IdxMod) + e) = [i \in 1..((A + e) - L) |-> Slot((L + i) - 1)]
    BY <1>1, <1>2, <2>1, WindowIs
  <2> QED
    BY <1>1, <1>2, <2>2
<1>4. InUse(q, adding) = {q.avail[s] : s \in Range(W)}
  BY DEF InUse, e
<1> HIDE DEF W
<1>5. Range(W) = {Slot((L + i) - 1) : i \in 1..(E - L)}
  BY <1>3 DEF Range
<1>6. \A i \in 1..(E - L) : (L + i) - 1 \in L..(E - 1)
  BY <1>1
<1>7. \A k \in L..(E - 1) : (k - L) + 1 \in 1..(E - L) /\ (L + ((k - L) + 1)) - 1 = k
  BY <1>1
<1>8. ASSUME NEW s \in Range(W) PROVE \E k \in L..(E - 1) : q.avail[s] = Av(q, k)
  <2>1. PICK i \in 1..(E - L) : s = Slot((L + i) - 1)
    BY <1>5
  <2> QED
    BY <1>6, <2>1 DEF Av
<1>9. ASSUME NEW k \in L..(E - 1) PROVE \E s \in Range(W) : q.avail[s] = Av(q, k)
  <2>1. Slot(k) \in Range(W)
    BY <1>5, <1>7
  <2> QED
    BY <2>1 DEF Av
<1> QED
  BY <1>4, <1>8, <1>9

LEMMA QueueShares ==
    ASSUME NEW q, NEW L, NEW U, NEW A, NEW E, QueueOK(q, L, U, A, E), NEW adding \in BOOLEAN,
           E = A + IF adding THEN 1 ELSE 0
    PROVE  /\ FreeList(q) = Desc \ InUse(q, adding)
           /\ Cardinality(FreeList(q)) = q.num_free
<1>1. q.num_free \in Nat
  BY QueueFacts
<1>2. PICK fl \in [1..q.num_free -> Desc] : Chain(q, fl) /\ Parted(q, fl, L, E)
  BY DEF QueueOK
<1>3. FreeList(q) = {fl[k] : k \in 1..q.num_free}
  BY <1>1, <1>2, FreeListIs
<1>4. InUse(q, adding) = {Av(q, k) : k \in L..(E - 1)}
  BY InUseIs
<1>5. FreeList(q) = Desc \ InUse(q, adding)
  BY <1>2, <1>3, <1>4 DEF Parted
<1>6. Cardinality(FreeList(q)) = q.num_free
  <2> DEFINE D == 1..q.num_free
             T == {fl[k] : k \in D}
  <2>1. fl \in [D -> T] /\ \A t \in T : \E k \in D : fl[k] = t
    BY <1>2
  <2>2. \A i, j \in D : fl[i] = fl[j] => i = j
    BY <1>2 DEF Chain
  <2>3. IsFiniteSet(D) /\ Cardinality(D) = q.num_free
    BY <1>1, FS_Interval
  <2> HIDE DEF D, T
  <2>4. fl \in Surjection(D, T) /\ fl \in Injection(D, T)
    BY <2>1, <2>2 DEF Surjection, Injection, IsInjective
  <2>5. Cardinality(T) = Cardinality(D)
    BY <2>3, <2>4, FS_Surjection
  <2> QED
    BY <1>3, <2>3, <2>5 DEF T, D
<1> QED
  BY <1>5, <1>6

\* Free list and rings share out the descriptors of both queues, whatever the
\* driver and the device do in between and however often the ring indices
\* wrap around: virtq_get_used and virtq_add_buffer neither lose a descriptor
\* nor hand one out twice.
THEOREM FreeListCorrect == Spec => []FreeListSound
<1>1. ASSUME NInv PROVE FreeListSound
  <2> SUFFICES ASSUME status = "up"
               PROVE  /\ FreeList(rx) = Desc \ InUse(rx, pc = "requeue")
                      /\ Cardinality(FreeList(rx)) = rx.num_free
                      /\ FreeList(tx) = Desc \ InUse(tx, pc = "notify")
                      /\ Cardinality(FreeList(tx)) = tx.num_free
    BY DEF FreeListSound
  <2>1. /\ QueueOK(rx, RxL, Len(arrived), RxA, RxE) /\ QueueOK(tx, 0, Len(wire), TxA, Len(sent))
        /\ NTypeOK
    BY <1>1 DEF NInv, RxOK, TxOK
  <2>2. RxE = RxA + IF pc = "requeue" THEN 1 ELSE 0
    BY <2>1, CounterTypes DEF RxA
  <2>3. Len(sent) = TxA + IF pc = "notify" THEN 1 ELSE 0
    BY <2>1, CounterTypes DEF TxA
  <2>4. (pc = "requeue") \in BOOLEAN /\ (pc = "notify") \in BOOLEAN
    OBVIOUS
  <2>5. /\ FreeList(rx) = Desc \ InUse(rx, pc = "requeue")
        /\ Cardinality(FreeList(rx)) = rx.num_free
    BY <2>1, <2>2, <2>4, QueueShares
  <2>6. /\ FreeList(tx) = Desc \ InUse(tx, pc = "notify")
        /\ Cardinality(FreeList(tx)) = tx.num_free
    <3>1. PICK U, A, E : U = Len(wire) /\ A = TxA /\ E = Len(sent)
      OBVIOUS
    <3>2. QueueOK(tx, 0, U, A, E) /\ E = A + IF pc = "notify" THEN 1 ELSE 0
      BY <2>1, <2>3, <3>1
    <3> QED
      BY <2>4, <3>2, QueueShares
  <2> QED
    BY <2>5, <2>6
<1> QED
  BY <1>1, NetInvariant, PTL

-----------------------------------------------------------------------------
(***************************************************************************)
(* Receiving.                                                              *)
(***************************************************************************)

\* A sequence is put together of three parts.
LEMMA ThreeParts ==
    ASSUME NEW S, NEW a \in Seq(S), NEW r \in Seq(S), NEW p \in Seq(S), NEW w \in Seq(S),
           \A i \in 1..Len(w) : w[i] = a[(Len(r) + Len(p)) + i],
           Len(a) = (Len(r) + Len(p)) + Len(w),
           \A i \in 1..Len(r) : a[i] = r[i],
           \A i \in 1..Len(p) : a[Len(r) + i] = p[i]
    PROVE  a = (r \o p) \o w
<1>1. Len(a) \in Nat /\ Len(r) \in Nat /\ Len(p) \in Nat /\ Len(w) \in Nat
  OBVIOUS
<1>2. /\ r \o p \in Seq(S) /\ Len(r \o p) = Len(r) + Len(p)
      /\ \A i \in 1..(Len(r) + Len(p)) : (r \o p)[i] = IF i <= Len(r) THEN r[i] ELSE p[i - Len(r)]
  BY <1>1
<1> DEFINE x == r \o p
<1> HIDE DEF x
<1>3. /\ x \in Seq(S) /\ Len(x) = Len(r) + Len(p)
      /\ \A i \in 1..(Len(r) + Len(p)) : x[i] = IF i <= Len(r) THEN r[i] ELSE p[i - Len(r)]
  BY <1>2 DEF x
<1>4. /\ x \o w \in Seq(S) /\ Len(x \o w) = Len(x) + Len(w)
      /\ \A i \in 1..(Len(x) + Len(w)) : (x \o w)[i] = IF i <= Len(x) THEN x[i] ELSE w[i - Len(x)]
  <2>1. x \in Seq(S)
    BY <1>3
  <2> QED
    BY <2>1
<1> DEFINE y == x \o w
<1> HIDE DEF y
<1>5. y \in Seq(S) /\ Len(y) = Len(a)
  BY <1>1, <1>3, <1>4 DEF y
<1>6. ASSUME NEW i \in 1..Len(a) PROVE a[i] = y[i]
  <2>1. y[i] = IF i <= Len(x) THEN x[i] ELSE w[i - Len(x)]
    BY <1>3, <1>4 DEF y
  <2>2. CASE i <= Len(r)
    <3>1. i \in 1..Len(r) /\ i \in 1..(Len(r) + Len(p)) /\ i <= Len(x)
      BY <1>1, <1>3, <2>2
    <3> QED
      BY <1>3, <2>1, <2>2, <3>1
  <2>3. CASE ~(i <= Len(r)) /\ i <= Len(x)
    <3>1. i - Len(r) \in 1..Len(p) /\ i \in 1..(Len(r) + Len(p)) /\ Len(r) + (i - Len(r)) = i
      BY <1>1, <1>3, <2>3
    <3>2. a[Len(r) + (i - Len(r))] = p[i - Len(r)]
      BY <3>1
    <3> QED
      BY <1>3, <2>1, <2>3, <3>1, <3>2
  <2>4. CASE ~(i <= Len(x))
    <3>1. i - Len(x) \in 1..Len(w) /\ (Len(r) + Len(p)) + (i - Len(x)) = i
      BY <1>1, <1>3, <2>4
    <3>2. w[i - Len(x)] = a[(Len(r) + Len(p)) + (i - Len(x))]
      BY <3>1
    <3> QED
      BY <2>1, <2>4, <3>1, <3>2
  <2> QED
    BY <2>2, <2>3, <2>4
<1>7. a = y
  BY <1>5, <1>6
<1> QED
  BY <1>7 DEF x, y

\* net_poll processes the frames in the order in which the device received
\* them.  None is lost, repeated or overwritten in its buffer before
\* virtio_net_recv has copied it out, for every size of the receive queue.
THEOREM RxCorrect == Spec => []RxLossless
<1>1. ASSUME NInv, status # "up" PROVE RxLossless
  <2>1. Down
    BY <1>1 DEF NInv
  <2>2. rx.last_used = 0 /\ rx.used_idx = 0
    BY <2>1 DEF Down, VirtqInit
  <2>3. (0 - 0) % IdxMod = 0
    BY Sizes, SmallRemainder
  <2>4. Window(rx.last_used, rx.used_idx) = <<>>
    BY <2>2, <2>3 DEF Window
  <2>5. Waiting = <<>>
    BY <2>4 DEF Waiting
  <2> QED
    BY <2>1, <2>5 DEF Down, RxLossless
<1>2. ASSUME NInv, status = "up" PROVE RxLossless
  <2> DEFINE L == RxL
             U == Len(arrived)
             p == IF pc \in {"requeue", "process"} THEN <<packet>> ELSE <<>>
             W == Window(rx.last_used, rx.used_idx)
  <2>1. NTypeOK /\ QueueOK(rx, L, U, RxA, RxE) /\ Owned /\ Held
    BY <1>2 DEF NInv, RxOK
  <2>2. /\ L \in Nat /\ U \in Nat /\ RxA \in Nat /\ RxE \in Nat /\ L <= U /\ U <= RxA /\ RxA <= RxE
        /\ U - L <= Size /\ \A k \in Nat : Av(rx, k) \in Desc
    <3>1. /\ L \in Nat /\ U \in Nat /\ RxA \in Nat /\ RxE \in Nat /\ L <= U /\ U <= RxA /\ RxA <= RxE
          /\ (RxE - L) + rx.num_free = Size /\ rx.num_free \in Nat
          /\ \A k \in Nat : Av(rx, k) \in Desc
      BY <2>1, QueueFacts
    <3> QED
      BY <3>1, Sizes
  <2>3. rx.last_used = L % IdxMod /\ rx.used_idx = U % IdxMod /\ Rings(rx, L, U, RxE)
    BY <2>1 DEF QueueOK, Counts
  <2>4. received \in Seq(Frames) /\ arrived \in Seq(Frames) /\ packet \in Frames /\ Len(received) \in Nat
    BY <2>1, CounterTypes DEF NTypeOK
  <2>5. p \in Seq(Frames) /\ Len(p) = Ahead /\ Ahead \in {0, 1} /\ L = Len(received) + Len(p)
    <3>1. p \in Seq(Frames) /\ Len(p) = Ahead
      BY <2>4 DEF Ahead
    <3> QED
      BY <3>1, <2>1, CounterTypes DEF RxL
  <2>6. Ahead = 1 => p[1] = packet
    BY DEF Ahead
  <2> HIDE DEF L, p
  <2>7. W = [i \in 1..(U - L) |-> Slot((L + i) - 1)] /\ U - L \in Nat
    <3>1. 0 \in {0, 1} /\ L <= U + 0 /\ (U + 0) - L <= Size /\ (U + 0) - L = U - L /\ U - L \in Nat
      BY <2>2
    <3>2. U % IdxMod \in Int
      BY <2>2, Sizes, Division
    <3>3. (U % IdxMod) + 0 = U % IdxMod
      BY <3>2
    <3>4. Window(L % IdxMod, (U % IdxMod) + 0) = [i \in 1..((U + 0) - L) |-> Slot((L + i) - 1)]
      BY <2>2, <3>1, WindowIs
    <3> QED
      BY <2>3, <3>1, <3>3, <3>4
  <2>8. Waiting = [i \in 1..Len(W) |-> rxbuf[rx.desc[rx.used[W[i]]].buf]]
    BY DEF Waiting
  <2> HIDE DEF W
  <2>9. Len(W) = U - L /\ \A i \in 1..(U - L) : W[i] = Slot((L + i) - 1)
    BY <2>7
  <2>10. ASSUME NEW i \in 1..(U - L)
         PROVE  rxbuf[rx.desc[rx.used[W[i]]].buf] = arrived[L + i]
    <3> DEFINE k == (L + i) - 1
    <3>1. k \in L..(U - 1) /\ k \in L..(RxE - 1) /\ k + 1 = L + i
      BY <2>2
    <3>2. W[i] = Slot(k)
      BY <2>9
    <3> HIDE DEF k
    <3>3. rx.used[Slot(k)] = Av(rx, k)
      BY <2>3, <3>1 DEF Rings
    <3>4. rx.desc[Av(rx, k)].buf = Av(rx, k)
      BY <2>1, <3>1 DEF Owned, L
    <3>5. rxbuf[Av(rx, k)] = arrived[k + 1]
      BY <2>1, <3>1 DEF Held, L
    <3> QED
      BY <3>1, <3>2, <3>3, <3>4, <3>5
  <2>11. Waiting = [i \in 1..(U - L) |-> arrived[(Len(received) + Len(p)) + i]]
    BY <2>5, <2>8, <2>9, <2>10
  <2>12. /\ U = (Len(received) + Len(p)) + (U - L)
         /\ \A i \in 1..Len(received) : arrived[i] = received[i]
    <3>1. U = L + (U - L)
      BY <2>2
    <3> QED
      BY <2>1, <2>5, <3>1 DEF Held
  <2>13. \A i \in 1..Len(p) : arrived[Len(received) + i] = p[i]
    <3>1. CASE Ahead = 0
      BY <2>5, <3>1
    <3>2. CASE Ahead = 1
      <4>1. packet = arrived[L] /\ L = Len(received) + 1 /\ \A i \in 1..Len(p) : i = 1
        BY <2>1, <2>5, <3>2 DEF Held, L
      <4> QED
        BY <2>6, <3>2, <4>1
    <3> QED
      BY <2>5, <3>1, <3>2
  <2>14. Waiting \in Seq(Frames) /\ Len(Waiting) = U - L
    <3>1. \A i \in 1..(U - L) : (Len(received) + Len(p)) + i \in 1..U
      BY <2>2, <2>4, <2>5
    <3>2. \A i \in 1..(U - L) : arrived[(Len(received) + Len(p)) + i] \in Frames
      BY <2>4, <3>1
    <3> QED
      BY <2>7, <2>11, <3>2
  <2>15. PICK a, r, w : a = arrived /\ r = received /\ w = Waiting
    OBVIOUS
  <2>16. /\ a \in Seq(Frames) /\ r \in Seq(Frames)
         /\ w \in Seq(Frames)
         /\ \A i \in 1..Len(w) : w[i] = a[(Len(r) + Len(p)) + i]
         /\ Len(a) = (Len(r) + Len(p)) + Len(w)
         /\ \A i \in 1..Len(r) : a[i] = r[i]
         /\ \A i \in 1..Len(p) : a[Len(r) + i] = p[i]
    BY <2>4, <2>7, <2>11, <2>12, <2>13, <2>15, <2>14
  <2>17. p \in Seq(Frames)
    BY <2>5
  <2>18. a = (r \o p) \o w
    BY <2>16, <2>17, ThreeParts
  <2> QED
    BY <2>15, <2>18 DEF RxLossless, p
<1>3. NInv => RxLossless
  BY <1>1, <1>2
<1> QED
  BY <1>3, NetInvariant, PTL

-----------------------------------------------------------------------------
(***************************************************************************)
(* Transmitting.                                                           *)
(***************************************************************************)

LEMMA SentBound ==
    ASSUME NInv
    PROVE  /\ Len(wire) \in Nat /\ Len(sent) \in Nat /\ Len(wire) <= Len(sent)
           /\ Len(sent) <= Size - 1
<1>1. NTypeOK
  BY DEF NInv
<1>2. Len(wire) \in Nat /\ Len(sent) \in Nat
  BY <1>1, CounterTypes
<1>3. CASE status = "up"
  <2>1. QueueOK(tx, 0, Len(wire), TxA, Len(sent)) /\ tx.num_free >= 1
    BY <1>3 DEF NInv, TxOK
  <2>2. /\ Len(wire) <= TxA /\ TxA <= Len(sent) /\ TxA \in Nat /\ tx.num_free \in Nat
        /\ (Len(sent) - 0) + tx.num_free = Size
    BY <2>1, QueueFacts
  <2> QED
    BY <1>2, <2>1, <2>2
<1>4. CASE status # "up"
  BY <1>4, Sizes DEF NInv, Down
<1> QED
  BY <1>2, <1>3, <1>4

LEMMA TxHeldStep ==
    ASSUME NInv, TxHeld, KeepsUp', [Next]_vars
    PROVE  TxHeld'
<1> DEFINE U == Len(wire)
           E == Len(sent)
           T == TxBuffers
<1>1. /\ U \in Nat /\ E \in Nat /\ U <= E /\ T \in Nat \ {0}
      /\ sent \in Seq(Replies) /\ wire \in Seq(Frames \cup Replies)
      /\ txbuf \in [0..(T - 1) -> Frames \cup Replies]
  BY SentBound, Sizes DEF NInv, NTypeOK
<1>2. /\ \A k \in U..(E - 1) : txbuf[k % T] = sent[k + 1]
      /\ \A i \in 1..U : wire[i] = sent[i]
  BY DEF TxHeld
<1>3. CASE UNCHANGED <<wire, sent, txbuf>>
  BY <1>3 DEF TxHeld
<1>4. CASE DeviceTransmit
  <2>1. U < E /\ Len(wire)' = U + 1 /\ wire' = Append(wire, txbuf[U % T])
    BY <1>4, DeviceTransmitStep
  <2>2. txbuf' = txbuf /\ sent' = sent
    BY <1>4 DEF DeviceTransmit, driver
  <2>3. U \in U..(E - 1)
    BY <1>1, <2>1
  <2>4. ASSUME NEW i \in 1..(U + 1) PROVE wire'[i] = sent[i]
    <3>1. CASE i = U + 1
      <4>1. wire'[U + 1] = txbuf[U % T]
        BY <1>1, <2>1
      <4> QED
        BY <1>2, <2>3, <3>1, <4>1
    <3>2. CASE i # U + 1
      <4>1. i \in 1..U
        BY <1>1, <3>2
      <4>2. wire'[i] = wire[i]
        BY <1>1, <2>1, <4>1
      <4> QED
        BY <1>2, <4>1, <4>2
    <3> QED
      BY <3>1, <3>2
  <2>5. \A k \in (U + 1)..(E - 1) : k \in U..(E - 1)
    BY <1>1
  <2> QED
    BY <1>2, <2>1, <2>2, <2>4, <2>5 DEF TxHeld
<1>5. CASE Process
  <2> DEFINE f == ReplyTo(packet)
  <2>1. CASE wire' = wire /\ UNCHANGED <<txbuf, sent>>
    BY <1>3, <2>1
  <2>2. CASE /\ wire' = wire /\ sent' = Append(sent, f) /\ f \in Replies
             /\ txbuf' = [txbuf EXCEPT ![E % T] = f]
    <3> HIDE DEF f
    <3>1. /\ Len(sent)' = E + 1 /\ sent'[E + 1] = f /\ \A i \in 1..E : sent'[i] = sent[i]
      BY <1>1, <2>2
    <3>2. (E + 1) - U <= T
      BY <2>2, <3>1 DEF KeepsUp
    <3>3. E % T \in 0..(T - 1)
      BY <1>1, Division
    <3>4. txbuf'[E % T] = f /\ \A b \in 0..(T - 1) : b # E % T => txbuf'[b] = txbuf[b]
      BY <1>1, <2>2, <3>3
    <3>5. ASSUME NEW k \in U..((E + 1) - 1) PROVE txbuf'[k % T] = sent'[k + 1]
      <4>1. CASE k = E
        BY <3>1, <3>4, <4>1
      <4>2. CASE k # E
        <5>1. k \in U..(E - 1) /\ k \in Nat /\ k < E /\ E - k < T /\ k + 1 \in 1..E
          BY <1>1, <3>2, <4>2
        <5>2. k % T # E % T
          BY <1>1, <5>1, RemaindersDiffer
        <5>3. k % T \in 0..(T - 1)
          BY <1>1, <5>1, Division
        <5> QED
          BY <1>2, <3>1, <3>4, <5>1, <5>2, <5>3
      <4> QED
        BY <4>1, <4>2
    <3>6. ASSUME NEW i \in 1..U PROVE wire'[i] = sent'[i]
      <4>1. i \in 1..E
        BY <1>1
      <4> QED
        BY <1>2, <2>2, <3>1, <4>1
    <3> QED
      BY <2>2, <3>1, <3>5, <3>6 DEF TxHeld
  <2> QED
    BY <1>5, <2>1, <2>2, ProcessStep
<1> QED
  BY <1>3, <1>4, <1>5 DEF Next, Driver, VirtioNetInit, SetUpQueues, DeviceReceive, Recv, RecvPublish,
     SendPublish, RecvNothing, RecvTooEarly, Wild, vars, queues, driver

LEMMA HeldIntact ==
    ASSUME NInv, TxHeld
    PROVE  TxIntact
<1>1. /\ Len(wire) \in Nat /\ Len(sent) \in Nat /\ Len(wire) <= Len(sent)
      /\ wire \in Seq(Frames \cup Replies) /\ sent \in Seq(Replies)
  BY SentBound DEF NInv, NTypeOK
<1>2. \A i \in 1..Len(wire) : wire[i] = sent[i]
  BY DEF TxHeld
<1>3. SubSeq(wire, 1, Len(wire)) = [i \in 1..Len(wire) |-> wire[i]]
  BY <1>1
<1>4. SubSeq(sent, 1, Len(wire)) = [i \in 1..Len(wire) |-> sent[i]]
  BY <1>1
<1> QED
  BY <1>1, <1>2, <1>3, <1>4 DEF TxIntact, IsPrefix

\* As long as the device is never more than VIRTIO_NET_TX_BUFFERS frames
\* behind, it transmits what virtio_net_send was given, in that order.
THEOREM TxBehind == Spec /\ []KeepsUp => []TxIntact
<1>1. Init => TxHeld
  <2> SUFFICES ASSUME Init PROVE TxHeld
    OBVIOUS
  <2>1. Len(wire) = 0 /\ Len(sent) = 0
    BY DEF Init
  <2> QED
    BY <2>1 DEF TxHeld
<1>2. NInv /\ TxHeld /\ KeepsUp' /\ [Next]_vars => TxHeld'
  BY TxHeldStep
<1>3. NInv /\ TxHeld => TxIntact
  BY HeldIntact
<1> QED
  BY <1>1, <1>2, <1>3, NetInvariant, PTL DEF Spec

\* The last TxBuffers frames are in their buffers; each buffer that waits for
\* the device has a frame that was sent in its turn or later; and so had those
\* transmitted.
TxFresh ==
    /\ \A k \in 0..(Len(sent) - 1) : Len(sent) - k <= TxBuffers => txbuf[k % TxBuffers] = sent[k + 1]
    /\ \A k \in Len(wire)..(Len(sent) - 1) : \E j \in (k + 1)..Len(sent) : txbuf[k % TxBuffers] = sent[j]
    /\ \A i \in 1..Len(wire) : \E j \in i..Len(sent) : wire[i] = sent[j]

LEMMA TxFreshStep ==
    ASSUME NInv, TxFresh, [Next]_vars
    PROVE  TxFresh'
<1> DEFINE U == Len(wire)
           E == Len(sent)
           T == TxBuffers
<1>1. /\ U \in Nat /\ E \in Nat /\ U <= E /\ T \in Nat \ {0}
      /\ sent \in Seq(Replies) /\ wire \in Seq(Frames \cup Replies)
      /\ txbuf \in [0..(T - 1) -> Frames \cup Replies]
  BY SentBound, Sizes DEF NInv, NTypeOK
<1>2. /\ \A k \in 0..(E - 1) : E - k <= T => txbuf[k % T] = sent[k + 1]
      /\ \A k \in U..(E - 1) : \E j \in (k + 1)..E : txbuf[k % T] = sent[j]
      /\ \A i \in 1..U : \E j \in i..E : wire[i] = sent[j]
  BY DEF TxFresh
<1>3. CASE UNCHANGED <<wire, sent, txbuf>>
  BY <1>3 DEF TxFresh
<1>4. CASE DeviceTransmit
  <2>1. U < E /\ Len(wire)' = U + 1 /\ wire' = Append(wire, txbuf[U % T])
    BY <1>4, DeviceTransmitStep
  <2>2. txbuf' = txbuf /\ sent' = sent
    BY <1>4 DEF DeviceTransmit, driver
  <2>3. ASSUME NEW i \in 1..(U + 1) PROVE \E j \in i..E : wire'[i] = sent[j]
    <3>1. CASE i = U + 1
      <4>1. wire'[U + 1] = txbuf[U % T] /\ U \in U..(E - 1)
        BY <1>1, <2>1
      <4> QED
        BY <1>2, <3>1, <4>1
    <3>2. CASE i # U + 1
      <4>1. i \in 1..U
        BY <1>1, <3>2
      <4>2. wire'[i] = wire[i]
        BY <1>1, <2>1, <4>1
      <4> QED
        BY <1>2, <4>1, <4>2
    <3> QED
      BY <3>1, <3>2
  <2>4. \A k \in (U + 1)..(E - 1) : k \in U..(E - 1)
    BY <1>1
  <2> QED
    BY <1>2, <2>1, <2>2, <2>3, <2>4 DEF TxFresh
<1>5. CASE Process
  <2> DEFINE f == ReplyTo(packet)
  <2>1. CASE wire' = wire /\ UNCHANGED <<txbuf, sent>>
    BY <1>3, <2>1
  <2>2. CASE /\ wire' = wire /\ sent' = Append(sent, f) /\ f \in Replies
             /\ txbuf' = [txbuf EXCEPT ![E % T] = f]
    <3> HIDE DEF f
    <3>1. /\ Len(sent)' = E + 1 /\ sent'[E + 1] = f /\ \A i \in 1..E : sent'[i] = sent[i]
      BY <1>1, <2>2
    <3>2. E % T \in 0..(T - 1)
      BY <1>1, Division
    <3>3. txbuf'[E % T] = f /\ \A b \in 0..(T - 1) : b # E % T => txbuf'[b] = txbuf[b]
      BY <1>1, <2>2, <3>2
    <3>4. ASSUME NEW k \in 0..((E + 1) - 1), (E + 1) - k <= T PROVE txbuf'[k % T] = sent'[k + 1]
      <4>1. CASE k = E
        BY <3>1, <3>3, <4>1
      <4>2. CASE k # E
        <5>1. k \in 0..(E - 1) /\ k \in Nat /\ k < E /\ E - k < T /\ E - k <= T /\ k + 1 \in 1..E
          BY <1>1, <3>4, <4>2
        <5>2. k % T # E % T
          BY <1>1, <5>1, RemaindersDiffer
        <5>3. k % T \in 0..(T - 1)
          BY <1>1, <5>1, Division
        <5> QED
          BY <1>2, <3>1, <3>3, <5>1, <5>2, <5>3
      <4> QED
        BY <4>1, <4>2
    <3>5. ASSUME NEW k \in U..((E + 1) - 1)
          PROVE  \E j \in (k + 1)..(E + 1) : txbuf'[k % T] = sent'[j]
      <4>1. CASE k % T = E % T
        <5>1. E + 1 \in (k + 1)..(E + 1)
          BY <1>1
        <5>2. txbuf'[k % T] = sent'[E + 1]
          BY <3>1, <3>3, <4>1
        <5> QED
          BY <5>1, <5>2
      <4>2. CASE k % T # E % T
        <5>1. k \in U..(E - 1) /\ k \in Int
          BY <1>1, <4>2
        <5>2. PICK j \in (k + 1)..E : txbuf[k % T] = sent[j]
          BY <1>2, <5>1
        <5>3. j \in 1..E /\ j \in (k + 1)..(E + 1)
          BY <1>1, <5>1
        <5>4. k % T \in 0..(T - 1)
          BY <1>1, <5>1, Division
        <5>5. txbuf'[k % T] = sent'[j]
          BY <3>1, <3>3, <4>2, <5>2, <5>3, <5>4
        <5> QED
          BY <5>3, <5>5
      <4> QED
        BY <4>1, <4>2
    <3>6. ASSUME NEW i \in 1..U PROVE \E j \in i..(E + 1) : wire'[i] = sent'[j]
      <4>1. PICK j \in i..E : wire[i] = sent[j]
        BY <1>2
      <4>2. j \in 1..E /\ j \in i..(E + 1)
        BY <1>1
      <4> QED
        BY <2>2, <3>1, <4>1, <4>2
    <3> QED
      BY <2>2, <3>1, <3>4, <3>5, <3>6 DEF TxFresh
  <2> QED
    BY <1>5, <2>1, <2>2, ProcessStep
<1> QED
  BY <1>3, <1>4, <1>5 DEF Next, Driver, VirtioNetInit, SetUpQueues, DeviceReceive, Recv, RecvPublish,
     SendPublish, RecvNothing, RecvTooEarly, Wild, vars, queues, driver

LEMMA FreshRecent ==
    ASSUME NInv, TxFresh
    PROVE  TxRecent
<1>1. Len(wire) \in Nat /\ Len(sent) \in Nat
  BY SentBound
<1>2. ASSUME NEW i \in (Len(wire) + 1)..Len(sent), Len(sent) - i < TxBuffers
      PROVE  txbuf[tx.desc[tx.avail[(i - 1) % Size]].buf] = sent[i]
  <2> DEFINE k == i - 1
  <2>1. /\ k \in 0..(Len(sent) - 1) /\ Len(sent) - k <= TxBuffers /\ k + 1 = i /\ Len(sent) # 0
    BY <1>1, <1>2, Sizes
  <2>2. status = "up"
    BY <2>1 DEF NInv, Down
  <2>3. tx.desc[Av(tx, k)].buf = k % TxBuffers
    BY <2>1, <2>2 DEF NInv, TxOK
  <2>4. Av(tx, k) = tx.avail[k % Size]
    BY DEF Av, Slot
  <2> HIDE DEF k
  <2>5. txbuf[tx.desc[tx.avail[k % Size]].buf] = sent[i]
    BY <2>1, <2>3, <2>4 DEF TxFresh
  <2> QED
    BY <2>5 DEF k
<1> QED
  BY <1>2 DEF TxRecent, TxFresh

\* However late the device reads and however few buffers the driver has for
\* the descriptors of the queue: what is transmitted is the frame whose turn it
\* is or a later one, and the last VIRTIO_NET_TX_BUFFERS frames given to
\* virtio_net_send wait intact.
THEOREM TxCorrect == Spec => []TxRecent
<1>1. Init => TxFresh
  <2> SUFFICES ASSUME Init PROVE TxFresh
    OBVIOUS
  <2>1. Len(wire) = 0 /\ Len(sent) = 0
    BY DEF Init
  <2> QED
    BY <2>1 DEF TxFresh
<1>2. NInv /\ TxFresh /\ [Next]_vars => TxFresh'
  BY TxFreshStep
<1>3. NInv /\ TxFresh => TxRecent
  BY FreshRecent
<1> QED
  BY <1>1, <1>2, <1>3, NetInvariant, PTL DEF Spec
=============================================================================
