-------------------------- MODULE SchedulerProofs --------------------------
(***************************************************************************)
(* Theorems about Scheduler, and about Preemption, which composes it with  *)
(* interrupts, for every number of processes, levels, slice lengths and    *)
(* every set of calls: types and states, the queues, the owed EOI.         *)
(*                                                                         *)
(* The C functions are operators from kernel state to kernel state, so     *)
(* each one has a lemma of its own, about any state s; the theorems about  *)
(* the specification put the lemmas together, one step per action.         *)
(***************************************************************************)
EXTENDS Preemption, FiniteSetTheorems, WellFoundedInduction, TLAPS

\* The safety invariants as predicates of a kernel state, so that the lemmas
\* can speak of the states inside a call.
BitmapOf(s) == \A q \in Level : q \in s.bitmap <=> s.heads[q] # NULL

RunningOf(s) == \A p \in Procs : s.state[p] = "RUNNING" => p = s.current

\* The step from s to t gives up no slot.
AliveOf(s, t) == \A r \in Procs : s.state[r] # "UNUSED" => t.state[r] # "UNUSED"

-----------------------------------------------------------------------------
\* Every set of naturals that is not empty has a least element.
LEMMA LeastNatural ==
    ASSUME NEW T \in SUBSET Nat, T # {}
    PROVE  \E x \in T : \A y \in T : x <= y
<1>1. PICK x \in T : \A y \in T : ~ (<<y, x>> \in OpToRel(<, Nat))
  BY NatLessThanWellFounded, WFMin
<1>2. \A y \in T : ~(y < x)
  BY <1>1 DEF OpToRel
<1> QED
  BY <1>2

\* Clamp yields a level.
LEMMA ClampLevel == \A p \in Int : Clamp(p) \in Level
BY SizeAssumption DEF Clamp, Level

\* Slice yields a natural number.
LEMMA SliceNat == \A q \in Level : Slice(q) \in Nat
BY SizeAssumption, SliceAssumption DEF Slice, Level

\* A pointer is a process or NULL, and NULL is not a process.
LEMMA PtrFacts == /\ \A p \in Procs : p \in Ptr /\ p # NULL
                  /\ \A p \in Ptr : p # NULL => p \in Procs
                  /\ NULL \in Ptr
BY DEF Ptr, Procs, NULL

\* The state field is a function on the process slots.
LEMMA StateFcn == \A s \in KernelState : s.state \in [Procs -> States]
BY DEF KernelState

\* Storing a back link changes no field but prev.
LEMMA SetPrevType ==
    ASSUME NEW s \in KernelState, NEW p \in Ptr, NEW v \in Ptr
    PROVE  /\ SetPrev(s, p, v) \in KernelState
           /\ SetPrev(s, p, v).heads = s.heads
           /\ SetPrev(s, p, v).bitmap = s.bitmap
           /\ SetPrev(s, p, v).current = s.current
           /\ SetPrev(s, p, v).idle = s.idle
           /\ SetPrev(s, p, v).state = s.state
<1>1. CASE p = NULL
  BY <1>1 DEF SetPrev
<1>2. CASE p # NULL
  <2>1. p \in Procs /\ SetPrev(s, p, v) = [s EXCEPT !.prev[p] = v]
    BY <1>2, PtrFacts DEF SetPrev
  <2> QED
    BY <2>1 DEF KernelState
<1> QED
  BY <1>1, <1>2

-----------------------------------------------------------------------------
\* scheduler_add keeps the state well typed and the bitmap exact, and marks
\* nothing RUNNING.
LEMMA AddType ==
    ASSUME NEW s \in KernelState, NEW p \in Procs
    PROVE  /\ Add(s, p) \in KernelState
           /\ BitmapOf(s) => BitmapOf(Add(s, p))
           /\ Add(s, p).current = s.current
           /\ Add(s, p).idle = s.idle
           /\ \A r \in Procs : Add(s, p).state[r] = "RUNNING" => s.state[r] = "RUNNING"
           /\ AliveOf(s, Add(s, p))
<1> DEFINE q == Clamp(s.prio[p])
           cut == [s EXCEPT !.next[p] = NULL, !.prev[p] = NULL]
           tails == Tails(cut.next, cut.heads[q])
           tail == CHOOSE t \in tails : TRUE
           Linked(t) == [t EXCEPT !.state[p] = "READY", !.slice[p] = Slice(q)]
<1>1. q \in Level /\ Slice(q) \in Nat
  BY ClampLevel, SliceNat DEF KernelState
<1>2. cut \in KernelState /\ cut.heads = s.heads /\ cut.bitmap = s.bitmap
      /\ cut.current = s.current /\ cut.idle = s.idle /\ cut.state = s.state
  BY PtrFacts DEF KernelState
<1>3. ASSUME NEW t \in KernelState
      PROVE  /\ Linked(t) \in KernelState
             /\ Linked(t).heads = t.heads /\ Linked(t).bitmap = t.bitmap
             /\ Linked(t).current = t.current /\ Linked(t).idle = t.idle
             /\ Linked(t).state = [t.state EXCEPT ![p] = "READY"]
  BY <1>1 DEF KernelState, States
<1> HIDE DEF cut, Linked
<1>4. CASE s.state[p] = "UNUSED"
  BY <1>4 DEF Add, AliveOf
<1>5. CASE s.state[p] # "UNUSED" /\ s.heads[q] = NULL
  <2> DEFINE t == [cut EXCEPT !.heads[q] = p, !.bitmap = @ \cup {q}]
  <2>1. Add(s, p) = Linked(t)
    BY <1>5 DEF Add, cut, Linked
  <2>2. t \in KernelState /\ t.heads = [s.heads EXCEPT ![q] = p]
        /\ t.bitmap = s.bitmap \cup {q}
        /\ t.current = s.current /\ t.idle = s.idle /\ t.state = s.state
    BY <1>1, <1>2, PtrFacts DEF KernelState
  <2> HIDE DEF t
  <2>3. /\ Add(s, p) \in KernelState
        /\ Add(s, p).heads = [s.heads EXCEPT ![q] = p]
        /\ Add(s, p).bitmap = s.bitmap \cup {q}
        /\ Add(s, p).current = s.current /\ Add(s, p).idle = s.idle
        /\ Add(s, p).state = [s.state EXCEPT ![p] = "READY"]
    BY <2>1, <2>2, <1>3
  <2>4. s.heads \in [Level -> Ptr]
    BY DEF KernelState
  <2>5. BitmapOf(s) => BitmapOf(Add(s, p))
    BY <2>3, <2>4, <1>1, PtrFacts DEF BitmapOf
  <2> QED
    BY <2>3, <2>5, StateFcn DEF AliveOf
<1>6. CASE s.state[p] # "UNUSED" /\ s.heads[q] # NULL /\ tails = {}
  <2>1. Add(s, p) = [cut EXCEPT !.hung = TRUE]
    BY <1>6 DEF Add, cut
  <2> QED
    BY <2>1, <1>2 DEF KernelState, BitmapOf, AliveOf
<1>7. CASE s.state[p] # "UNUSED" /\ s.heads[q] # NULL /\ tails # {}
  <2> DEFINE t == [cut EXCEPT !.next[tail] = p, !.prev[p] = tail]
  <2>1. Add(s, p) = Linked(t)
    BY <1>7 DEF Add, cut, Linked
  <2>2. tail \in Procs
    BY <1>7 DEF Tails, Members
  <2> HIDE DEF tail, tails
  <2>3. t \in KernelState /\ t.heads = s.heads /\ t.bitmap = s.bitmap
        /\ t.current = s.current /\ t.idle = s.idle /\ t.state = s.state
    BY <2>2, <1>2, PtrFacts DEF KernelState
  <2> HIDE DEF t
  <2>4. /\ Add(s, p) \in KernelState
        /\ Add(s, p).heads = s.heads /\ Add(s, p).bitmap = s.bitmap
        /\ Add(s, p).current = s.current /\ Add(s, p).idle = s.idle
        /\ Add(s, p).state = [s.state EXCEPT ![p] = "READY"]
    BY <2>1, <2>3, <1>3
  <2>5. BitmapOf(s) => BitmapOf(Add(s, p))
    BY <2>4 DEF BitmapOf
  <2> QED
    BY <2>4, <2>5, StateFcn DEF AliveOf
<1> QED
  BY <1>4, <1>5, <1>6, <1>7

\* scheduler_remove keeps the state well typed, and the bitmap exact unless
\* the process is linked as if it were the first of an empty queue.
LEMMA RemoveType ==
    ASSUME NEW s \in KernelState, NEW p \in Procs
    PROVE  /\ Remove(s, p) \in KernelState
           /\ BitmapOf(s) /\ (s.prev[p] = NULL /\ s.next[p] # NULL
                                => s.heads[Clamp(s.prio[p])] # NULL)
                => BitmapOf(Remove(s, p))
           /\ Remove(s, p).current = s.current
           /\ Remove(s, p).idle = s.idle
           /\ Remove(s, p).state = s.state
<1> DEFINE q == Clamp(s.prio[p])
           before == IF s.prev[p] # NULL
                     THEN [s EXCEPT !.next[s.prev[p]] = s.next[p]]
                     ELSE [s EXCEPT !.heads[q] = s.next[p]]
           after == SetPrev(before, before.next[p], before.prev[p])
           out == [after EXCEPT !.next[p] = NULL, !.prev[p] = NULL]
           Safe == BitmapOf(s) /\ (s.prev[p] = NULL /\ s.next[p] # NULL
                                     => s.heads[q] # NULL)
<1>1. q \in Level
  BY ClampLevel DEF KernelState
<1>2. s.next[p] \in Ptr /\ s.prev[p] \in Ptr
  BY DEF KernelState
<1>3. /\ before \in KernelState /\ before.bitmap = s.bitmap
      /\ before.current = s.current /\ before.idle = s.idle
      /\ before.state = s.state
      /\ Safe => /\ \A r \in Level : r # q => before.heads[r] = s.heads[r]
                 /\ before.heads[q] # NULL => s.heads[q] # NULL
  <2>1. CASE s.prev[p] # NULL
    <3>1. s.prev[p] \in Procs /\ before = [s EXCEPT !.next[s.prev[p]] = s.next[p]]
      BY <2>1, <1>2, PtrFacts
    <3> HIDE DEF before, q
    <3> QED
      BY <3>1, <2>1, <1>1, <1>2 DEF KernelState
  <2>2. CASE s.prev[p] = NULL
    <3>1. before = [s EXCEPT !.heads[q] = s.next[p]]
      BY <2>2
    <3> HIDE DEF before, q
    <3> QED
      BY <3>1, <2>2, <1>1, <1>2 DEF KernelState
  <2> QED
    BY <2>1, <2>2
<1> HIDE DEF before
<1>4. /\ after \in KernelState /\ after.bitmap = before.bitmap
      /\ after.current = before.current /\ after.idle = before.idle
      /\ after.state = before.state /\ after.heads = before.heads
  <2>1. before.next[p] \in Ptr /\ before.prev[p] \in Ptr
    BY <1>3 DEF KernelState
  <2> QED
    BY <2>1, <1>3, SetPrevType
<1> HIDE DEF after
<1>5. /\ out \in KernelState /\ out.bitmap = s.bitmap /\ out.heads = before.heads
      /\ out.current = s.current /\ out.idle = s.idle /\ out.state = s.state
  BY <1>3, <1>4, PtrFacts DEF KernelState
<1>6. Remove(s, p) = IF out.heads[q] = NULL THEN [out EXCEPT !.bitmap = @ \ {q}] ELSE out
  BY DEF Remove, out, after, before
<1> HIDE DEF out, q
<1>7. CASE out.heads[q] = NULL
  <2>1. /\ Remove(s, p) \in KernelState /\ Remove(s, p).bitmap = s.bitmap \ {q}
        /\ Remove(s, p).heads = before.heads
        /\ Remove(s, p).current = s.current /\ Remove(s, p).idle = s.idle
        /\ Remove(s, p).state = s.state
    BY <1>5, <1>6, <1>7 DEF KernelState
  <2>2. Safe => BitmapOf(Remove(s, p))
    BY <2>1, <1>1, <1>3, <1>5, <1>7 DEF BitmapOf
  <2> QED
    BY <2>1, <2>2 DEF q
<1>8. CASE out.heads[q] # NULL
  <2>1. Safe => BitmapOf(out)
    BY <1>1, <1>3, <1>5, <1>8 DEF BitmapOf
  <2> QED
    BY <2>1, <1>5, <1>6, <1>8 DEF q
<1> QED
  BY <1>7, <1>8

\* find_next_process returns a pointer: the head of a queue whose bit is set,
\* or the idle process.
LEMMA FindNextType ==
    ASSUME NEW s \in KernelState
    PROVE  /\ FindNext(s) \in Ptr
           /\ s.bitmap = {} => FindNext(s) = s.idle
           /\ s.bitmap # {} => \E q \in s.bitmap : /\ FindNext(s) = s.heads[q]
                                                  /\ \A r \in s.bitmap : q <= r
<1>1. CASE s.bitmap = {}
  BY <1>1 DEF FindNext, KernelState
<1>2. CASE s.bitmap # {}
  <2>1. s.bitmap \subseteq Nat /\ s.bitmap \subseteq Level
    BY DEF KernelState, Level
  <2>2. \E q \in s.bitmap : \A r \in s.bitmap : q <= r
    BY <1>2, <2>1, LeastNatural
  <2> QED
    BY <1>2, <2>1, <2>2 DEF FindNext, KernelState
<1> QED
  BY <1>1, <1>2

\* The assignments of a dispatch.
LEMMA DispatchType ==
    ASSUME NEW g \in KernelState, NEW n \in Procs, NEW d,
           d = [g EXCEPT !.state[n] = "RUNNING", !.current = n]
    PROVE  /\ d \in KernelState /\ d.current = n
           /\ d.state = [g.state EXCEPT ![n] = "RUNNING"]
<1>1. n \in Ptr
  BY PtrFacts
<1> QED
  BY <1>1 DEF KernelState, States

\* schedule keeps the state well typed and leaves at most the current process
\* RUNNING.
LEMMA ScheduleType ==
    ASSUME NEW s \in KernelState
    PROVE  /\ Schedule(s) \in KernelState
           /\ RunningOf(s) => RunningOf(Schedule(s))
           /\ AliveOf(s, Schedule(s))
           /\ Schedule(s).current # s.current => Schedule(s).current \in Procs
<1> DEFINE next == FindNext(s)
           c == s.current
           mark == [s EXCEPT !.state[c] = "READY"]
           put == IF c # NULL /\ s.state[c] = "RUNNING" THEN Add(mark, c) ELSE s
           got == Remove(put, next)
<1>1. next \in Ptr /\ c \in Ptr
  BY FindNextType DEF KernelState
<1>2. /\ put \in KernelState /\ put.current = c
      /\ RunningOf(s) => \A r \in Procs : put.state[r] # "RUNNING"
      /\ AliveOf(s, put)
  <2>1. CASE c # NULL /\ s.state[c] = "RUNNING"
    <3>1. c \in Procs
      BY <2>1, <1>1, PtrFacts
    <3>2. mark \in KernelState /\ mark.state = [s.state EXCEPT ![c] = "READY"]
          /\ mark.current = c
      BY <3>1 DEF KernelState, States
    <3> HIDE DEF mark
    <3>3. /\ Add(mark, c) \in KernelState /\ Add(mark, c).current = c
          /\ \A r \in Procs : Add(mark, c).state[r] = "RUNNING"
                                 => mark.state[r] = "RUNNING"
          /\ AliveOf(mark, Add(mark, c))
      BY <3>1, <3>2, AddType
    <3> QED
      BY <2>1, <3>1, <3>2, <3>3, StateFcn DEF RunningOf, AliveOf
  <2>2. CASE ~(c # NULL /\ s.state[c] = "RUNNING")
    BY <2>2, PtrFacts DEF RunningOf, AliveOf
  <2> QED
    BY <2>1, <2>2
<1>3. Schedule(s) = IF next = NULL \/ next = c THEN s
                    ELSE IF put.hung THEN put
                    ELSE [got EXCEPT !.state[next] = "RUNNING", !.current = next]
  BY DEF Schedule
<1> HIDE DEF put, next
<1>4. CASE next = NULL \/ next = c
  BY <1>3, <1>4 DEF AliveOf
<1>5. CASE ~(next = NULL \/ next = c) /\ put.hung
  BY <1>2, <1>3, <1>5 DEF RunningOf
<1>6. CASE ~(next = NULL \/ next = c) /\ ~put.hung
  <2>1. next \in Procs
    BY <1>1, <1>6, PtrFacts
  <2>2. got \in KernelState /\ got.state = put.state
    BY <2>1, <1>2, RemoveType
  <2> HIDE DEF got
  <2>3. Schedule(s) = [got EXCEPT !.state[next] = "RUNNING", !.current = next]
    BY <1>3, <1>6
  <2>4. /\ Schedule(s) \in KernelState /\ Schedule(s).current = next
        /\ Schedule(s).state = [got.state EXCEPT ![next] = "RUNNING"]
    BY <2>1, <2>2, <2>3, DispatchType
  <2> QED
    BY <2>1, <2>2, <2>4, <1>2, StateFcn DEF RunningOf, AliveOf
<1> QED
  BY <1>4, <1>5, <1>6

\* The insertion into the sleep queue keeps the state well typed and changes
\* no process state.
LEMMA InsertSleeperType ==
    ASSUME NEW s \in KernelState, NEW p \in Procs
    PROVE  /\ InsertSleeper(s, p) \in KernelState
           /\ InsertSleeper(s, p).current = s.current
           /\ InsertSleeper(s, p).state = s.state
<1> DEFINE Stop(x) == s.next[x] = NULL \/ s.wake[s.next[x]] > s.wake[p]
           stops == Tails([x \in Procs |-> IF Stop(x) THEN NULL ELSE s.next[x]], s.sleepq)
           pos == CHOOSE x \in stops : TRUE
           first == [s EXCEPT !.next[p] = s.sleepq, !.prev[p] = NULL]
           inner == [s EXCEPT !.next[p] = s.next[pos], !.prev[p] = pos]
<1>1. s.sleepq \in Ptr /\ p \in Ptr
  BY PtrFacts DEF KernelState
<1>2. CASE s.sleepq = NULL \/ s.wake[p] < s.wake[s.sleepq]
  <2>1. InsertSleeper(s, p) = [SetPrev(first, s.sleepq, p) EXCEPT !.sleepq = p]
    BY <1>2 DEF InsertSleeper
  <2>2. first \in KernelState /\ first.current = s.current /\ first.state = s.state
    BY <1>1, PtrFacts DEF KernelState
  <2> HIDE DEF first
  <2>3. /\ SetPrev(first, s.sleepq, p) \in KernelState
        /\ SetPrev(first, s.sleepq, p).current = s.current
        /\ SetPrev(first, s.sleepq, p).state = s.state
    BY <1>1, <2>2, SetPrevType
  <2> QED
    BY <2>1, <2>3, PtrFacts DEF KernelState
<1>3. CASE ~(s.sleepq = NULL \/ s.wake[p] < s.wake[s.sleepq]) /\ stops = {}
  <2>1. InsertSleeper(s, p) = [s EXCEPT !.hung = TRUE]
    BY <1>3 DEF InsertSleeper
  <2> QED
    BY <2>1 DEF KernelState
<1>4. CASE ~(s.sleepq = NULL \/ s.wake[p] < s.wake[s.sleepq]) /\ stops # {}
  <2>1. InsertSleeper(s, p) = [SetPrev(inner, s.next[pos], p) EXCEPT !.next[pos] = p]
    BY <1>4 DEF InsertSleeper
  <2>2. pos \in Procs
    BY <1>4 DEF Tails, Members
  <2> HIDE DEF pos, stops
  <2>3. s.next[pos] \in Ptr
    BY <2>2 DEF KernelState
  <2>4. inner \in KernelState /\ inner.current = s.current /\ inner.state = s.state
    BY <2>2, <2>3, PtrFacts DEF KernelState
  <2> HIDE DEF inner
  <2>5. /\ SetPrev(inner, s.next[pos], p) \in KernelState
        /\ SetPrev(inner, s.next[pos], p).current = s.current
        /\ SetPrev(inner, s.next[pos], p).state = s.state
    BY <1>1, <2>3, <2>4, SetPrevType
  <2> DEFINE back == SetPrev(inner, s.next[pos], p)
  <2>6. InsertSleeper(s, p) = [back EXCEPT !.next[pos] = p]
    BY <2>1
  <2> HIDE DEF back
  <2>7. back \in KernelState /\ back.current = s.current /\ back.state = s.state
    BY <2>5 DEF back
  <2> QED
    BY <1>1, <2>2, <2>6, <2>7 DEF KernelState
<1> QED
  BY <1>2, <1>3, <1>4

\* Waking the first sleeper keeps the state well typed and marks nothing
\* RUNNING.
LEMMA WakeHeadType ==
    ASSUME NEW s \in KernelState, s.sleepq # NULL
    PROVE  /\ WakeHead(s) \in KernelState
           /\ WakeHead(s).current = s.current
           /\ \A r \in Procs : WakeHead(s).state[r] = "RUNNING" => s.state[r] = "RUNNING"
           /\ AliveOf(s, WakeHead(s))
<1> DEFINE p == s.sleepq
           head == [s EXCEPT !.sleepq = s.next[p]]
           popped == SetPrev(head, s.next[p], NULL)
           clear == [popped EXCEPT !.next[p] = NULL, !.prev[p] = NULL]
<1>1. p \in Procs /\ s.next[p] \in Ptr
  BY PtrFacts DEF KernelState
<1>2. head \in KernelState /\ head.current = s.current /\ head.state = s.state
  BY <1>1 DEF KernelState
<1> HIDE DEF head, p
<1>3. popped \in KernelState /\ popped.current = s.current /\ popped.state = s.state
  <2>1. NULL \in Ptr
    BY PtrFacts
  <2> QED
    BY <1>1, <1>2, <2>1, SetPrevType
<1>4. WakeHead(s) = Add(clear, p)
  BY DEF WakeHead, head, p
<1> HIDE DEF popped
<1>5. clear \in KernelState /\ clear.current = s.current /\ clear.state = s.state
  BY <1>1, <1>3, PtrFacts DEF KernelState
<1> HIDE DEF clear
<1> QED
  BY <1>1, <1>4, <1>5, AddType DEF AliveOf

\* Charging the running process keeps the state well typed: a time slice
\* never goes below zero.
LEMMA ChargeCurrentType ==
    ASSUME NEW s \in KernelState
    PROVE  /\ ChargeCurrent(s) \in KernelState
           /\ RunningOf(s) => RunningOf(ChargeCurrent(s))
           /\ AliveOf(s, ChargeCurrent(s))
           /\ ChargeCurrent(s).current # s.current =>
                 s.current \in Procs /\ ChargeCurrent(s).current \in Procs
<1> DEFINE c == s.current
           left == IF s.slice[c] > 0 THEN s.slice[c] - 1 ELSE 0
           charged == [s EXCEPT !.slice[c] = left]
<1>1. CASE c = NULL \/ s.state[c] # "RUNNING"
  BY <1>1 DEF ChargeCurrent, AliveOf
<1>2. CASE ~(c = NULL \/ s.state[c] # "RUNNING")
  <2>1. c \in Procs
    BY <1>2, PtrFacts DEF KernelState
  <2>2. left \in Nat
    BY <2>1 DEF KernelState
  <2>3. ChargeCurrent(s) = IF left = 0 THEN Schedule(charged) ELSE charged
    BY <1>2 DEF ChargeCurrent
  <2> HIDE DEF left
  <2>4. charged \in KernelState /\ charged.current = s.current /\ charged.state = s.state
    BY <2>1, <2>2 DEF KernelState
  <2> HIDE DEF charged
  <2> QED
    BY <2>1, <2>3, <2>4, ScheduleType DEF RunningOf, AliveOf
<1> QED
  BY <1>1, <1>2

\* A new process keeps the state well typed.
LEMMA CreatedType ==
    ASSUME NEW s \in KernelState, NEW p \in Procs, NEW pr \in Int
    PROVE  /\ Created(s, p, pr) \in KernelState
           /\ Created(s, p, pr).current = s.current
           /\ Created(s, p, pr).state = [s.state EXCEPT ![p] = "READY"]
BY SliceAssumption, PtrFacts DEF Created, KernelState, States

\* A free slot is a slot.
LEMMA FreeSlotType ==
    ASSUME NEW s \in KernelState, FreeSlot(s) # NULL
    PROVE  FreeSlot(s) \in Procs /\ s.state[FreeSlot(s)] = "UNUSED"
<1> DEFINE T == {p \in Procs : s.state[p] = "UNUSED"}
<1>1. T # {}
  BY DEF FreeSlot
<1>2. T \in SUBSET Nat
  BY DEF Procs
<1>3. \E p \in T : \A r \in T : p <= r
  BY <1>1, <1>2, LeastNatural
<1> QED
  BY <1>1, <1>3 DEF FreeSlot

-----------------------------------------------------------------------------
\* The initial state is well typed and nothing runs.
LEMMA InitType == Init => TypeOK /\ RunningOf(k)
<1> SUFFICES ASSUME Init PROVE TypeOK /\ RunningOf(k)
  OBVIOUS
<1>1. Empty \in KernelState /\ Empty.state = [p \in Procs |-> "UNUSED"]
  BY PtrFacts DEF Empty, KernelState, States
<1>2. 1 \in Procs /\ IdlePrio \in Int
  BY SizeAssumption DEF Procs, IdlePrio
<1> DEFINE idle == Created(Empty, 1, IdlePrio)
<1>3. idle \in KernelState /\ idle.state = [Empty.state EXCEPT ![1] = "READY"]
  BY <1>1, <1>2, CreatedType
<1> HIDE DEF idle
<1>4. k = Empty \/ k = [idle EXCEPT !.idle = 1]
  BY DEF Init, idle
<1>5. /\ k \in KernelState
      /\ k.state = Empty.state \/ k.state = [Empty.state EXCEPT ![1] = "READY"]
  <2>1. 1 \in Ptr
    BY <1>2, PtrFacts
  <2>2. /\ [idle EXCEPT !.idle = 1] \in KernelState
        /\ [idle EXCEPT !.idle = 1].state = idle.state
    BY <2>1, <1>3 DEF KernelState
  <2> QED
    BY <2>2, <1>1, <1>3, <1>4
<1>6. stage = "boot" /\ irq = "off" /\ deadline \in [Procs -> Int]
  BY DEF Init, Awake
<1> QED
  BY <1>1, <1>2, <1>5, <1>6 DEF TypeOK, RunningOf

\* Each action keeps the state well typed and at most the current process
\* RUNNING.
LEMMA NextType == TypeOK /\ RunningOf(k) /\ [Next]_vars => TypeOK' /\ RunningOf(k)'
<1> SUFFICES ASSUME TypeOK, RunningOf(k), [Next]_vars
             PROVE  TypeOK' /\ RunningOf(k')
  BY DEF RunningOf
<1> USE DEF TypeOK
<1>0. k.current \in Ptr /\ k.sleepq \in Ptr /\ k.tick \in Nat
  BY DEF KernelState
<1>1. ASSUME NEW pr \in Priorities, Spawn(pr) PROVE TypeOK' /\ RunningOf(k')
  <2> DEFINE p == FreeSlot(k)
             new == Created(k, p, pr)
  <2>1. p \in Procs /\ pr \in Int /\ k.state[p] = "UNUSED"
    BY <1>1, FreeSlotType, CallAssumption DEF Spawn
  <2> HIDE DEF p
  <2>2. /\ new \in KernelState /\ new.current = k.current
        /\ new.state = [k.state EXCEPT ![p] = "READY"]
    BY <2>1, CreatedType
  <2>3. k' = Add(new, p)
    BY <1>1 DEF Spawn, p
  <2> HIDE DEF new
  <2>4. /\ k' \in KernelState /\ k'.current = k.current
        /\ \A r \in Procs : k'.state[r] = "RUNNING" => new.state[r] = "RUNNING"
    BY <2>1, <2>2, <2>3, AddType
  <2> QED
    BY <1>1, <2>1, <2>2, <2>4, StateFcn DEF Spawn, RunningOf
<1>2. ASSUME SchedulerStart PROVE TypeOK' /\ RunningOf(k')
  BY <1>2 DEF SchedulerStart
<1>3. ASSUME FirstSchedule PROVE TypeOK' /\ RunningOf(k')
  BY <1>3, ScheduleType DEF FirstSchedule
<1>4. ASSUME SchedulerYield PROVE TypeOK' /\ RunningOf(k')
  <2> DEFINE s == [k EXCEPT !.slice[k.current] = 0]
  <2>1. k.current \in Procs
    BY <1>0, <1>4, PtrFacts DEF SchedulerYield, ThreadRuns
  <2>2. s \in KernelState /\ s.current = k.current /\ s.state = k.state
    BY <2>1 DEF KernelState
  <2>3. k' = Schedule(s)
    BY <1>4 DEF SchedulerYield
  <2> HIDE DEF s
  <2>4. RunningOf(s)
    BY <2>2 DEF RunningOf
  <2> QED
    BY <1>4, <2>2, <2>3, <2>4, ScheduleType DEF SchedulerYield
<1>5. ASSUME NEW d \in Delays, SchedulerSleep(d) PROVE TypeOK' /\ RunningOf(k')
  <2> DEFINE c == k.current
             w == (k.tick + d) % TickMod
             blocked == [k EXCEPT !.wake[c] = w, !.state[c] = "BLOCKED"]
             removed == Remove(blocked, c)
             asleep == InsertSleeper(removed, c)
  <2>1. c \in Procs /\ d \in Nat
    BY <1>0, <1>5, PtrFacts, CallAssumption DEF SchedulerSleep, ThreadRuns
  <2>2. w \in Nat
    BY <1>0, <2>1, TimeAssumption
  <2> HIDE DEF w
  <2>3. /\ blocked \in KernelState /\ blocked.current = c
        /\ blocked.state = [k.state EXCEPT ![c] = "BLOCKED"]
    BY <2>1, <2>2 DEF KernelState, States
  <2> HIDE DEF blocked
  <2>4. removed \in KernelState /\ removed.current = c /\ removed.state = blocked.state
    BY <2>1, <2>3, RemoveType
  <2> HIDE DEF removed
  <2>5. asleep \in KernelState /\ asleep.current = c /\ asleep.state = blocked.state
    BY <2>1, <2>4, InsertSleeperType
  <2>6. k' = IF asleep.hung THEN asleep ELSE Schedule(asleep)
    BY <1>5 DEF SchedulerSleep, asleep, removed, blocked, w
  <2> HIDE DEF asleep
  <2>7. RunningOf(asleep)
    BY <2>1, <2>3, <2>5, StateFcn DEF RunningOf
  <2>8. k' \in KernelState /\ RunningOf(k')
    BY <2>5, <2>6, <2>7, ScheduleType
  <2>9. deadline' \in [Procs -> Int]
    BY <1>0, <1>5, <2>1 DEF SchedulerSleep
  <2> QED
    BY <1>5, <2>8, <2>9 DEF SchedulerSleep
<1>6. ASSUME NEW p \in Procs, SchedulerBlock(p) PROVE TypeOK' /\ RunningOf(k')
  <2> DEFINE marked == [k EXCEPT !.state[p] = "BLOCKED"]
             blocked == Remove(marked, p)
  <2>1. /\ marked \in KernelState /\ marked.current = k.current
        /\ marked.state = [k.state EXCEPT ![p] = "BLOCKED"]
    BY DEF KernelState, States
  <2> HIDE DEF marked
  <2>2. /\ blocked \in KernelState /\ blocked.current = k.current
        /\ blocked.state = marked.state
    BY <2>1, RemoveType
  <2>3. k' = IF p = k.current THEN Schedule(blocked) ELSE blocked
    BY <1>6 DEF SchedulerBlock, marked
  <2> HIDE DEF blocked
  <2>4. RunningOf(blocked)
    BY <2>1, <2>2, StateFcn DEF RunningOf
  <2> QED
    BY <1>6, <2>2, <2>3, <2>4, ScheduleType DEF SchedulerBlock
<1>7. ASSUME NEW p \in Procs, SchedulerUnblock(p) PROVE TypeOK' /\ RunningOf(k')
  <2>1. /\ k' \in KernelState /\ k'.current = k.current
        /\ \A r \in Procs : k'.state[r] = "RUNNING" => k.state[r] = "RUNNING"
    BY <1>7, AddType DEF SchedulerUnblock
  <2> QED
    BY <1>7, <2>1 DEF SchedulerUnblock, RunningOf
<1>8. ASSUME ProcessExit PROVE TypeOK' /\ RunningOf(k')
  <2>1. k.current \in Procs
    BY <1>0, <1>8, PtrFacts DEF ProcessExit, ThreadRuns
  <2>2. /\ k' \in KernelState /\ k'.current = k.current
        /\ k'.state = [k.state EXCEPT ![k.current] = "ZOMBIE"]
    BY <1>8, <2>1 DEF ProcessExit, KernelState, States
  <2> QED
    BY <1>8, <2>1, <2>2, StateFcn DEF ProcessExit, RunningOf
<1>9. ASSUME NEW p \in Procs, ProcessDestroy(p) PROVE TypeOK' /\ RunningOf(k')
  <2>1. /\ k' \in KernelState /\ k'.current = k.current
        /\ k'.state = [k.state EXCEPT ![p] = "UNUSED"]
    BY <1>9 DEF ProcessDestroy, KernelState, States
  <2> QED
    BY <1>9, <2>1, StateFcn DEF ProcessDestroy, RunningOf
<1>10. ASSUME TickBegin PROVE TypeOK' /\ RunningOf(k')
  <2>1. (k.tick + 1) % TickMod \in Nat
    BY <1>0, TimeAssumption
  <2>2. k' = [k EXCEPT !.tick = (k.tick + 1) % TickMod]
    BY <1>10 DEF TickBegin
  <2>3. k' \in KernelState /\ k'.current = k.current /\ k'.state = k.state
    BY <2>1, <2>2 DEF KernelState
  <2> QED
    BY <1>10, <2>3 DEF TickBegin, RunningOf
<1>11. ASSUME TickWake PROVE TypeOK' /\ RunningOf(k')
  <2>1. k.sleepq # NULL /\ k' = WakeHead(k)
    BY <1>11 DEF TickWake, HeadIsDue
  <2>2. /\ k' \in KernelState /\ k'.current = k.current
        /\ \A r \in Procs : k'.state[r] = "RUNNING" => k.state[r] = "RUNNING"
    BY <2>1, WakeHeadType
  <2>3. deadline' \in [Procs -> Int]
    <3>1. Awake \in Int
      BY DEF Awake
    <3>2. deadline' = [deadline EXCEPT ![k.sleepq] = Awake]
      BY <1>11 DEF TickWake
    <3> QED
      BY <3>1, <3>2
  <2> QED
    BY <1>11, <2>2, <2>3 DEF TickWake, RunningOf
<1>12. ASSUME TickEnd PROVE TypeOK' /\ RunningOf(k')
  BY <1>12, ChargeCurrentType DEF TickEnd
<1>13. ASSUME UNCHANGED vars PROVE TypeOK' /\ RunningOf(k')
  BY <1>13 DEF vars
<1> QED
  BY <1>1, <1>2, <1>3, <1>4, <1>5, <1>6, <1>7, <1>8, <1>9, <1>10, <1>11, <1>12,
     <1>13 DEF Next

\* Type correctness of the scheduler, whatever calls the threads make.
THEOREM TypeCorrect == Spec => []TypeOK
<1>1. Init => TypeOK /\ RunningOf(k)
  BY InitType
<1>2. TypeOK /\ RunningOf(k) /\ [Next]_vars => TypeOK' /\ RunningOf(k)'
  BY NextType
<1> QED
  BY <1>1, <1>2, PTL DEF Spec

\* At most one PCB is marked RUNNING, that of the current process, whatever
\* calls the threads make and even when they break the contract.
THEOREM RunningCorrect == Spec => []RunningIsCurrent
<1>1. Init => TypeOK /\ RunningOf(k)
  BY InitType
<1>2. TypeOK /\ RunningOf(k) /\ [Next]_vars => TypeOK' /\ RunningOf(k)'
  BY NextType
<1>3. RunningOf(k) => RunningIsCurrent
  BY DEF RunningOf, RunningIsCurrent
<1> QED
  BY <1>1, <1>2, <1>3, PTL DEF Spec

-----------------------------------------------------------------------------
(***************************************************************************)
(* Lists.  Members is the smallest closed set that holds the head, so that *)
(* what an operation does to a list is shown with closed sets alone.       *)
(***************************************************************************)

Links == [Procs -> Ptr]

ClosedList(nx, h, S) == /\ h \in S \cup {NULL}
                        /\ \A x \in S : nx[x] \in S \cup {NULL}

\* The members form a closed set, and every closed set holds them.
LEMMA MembersClosed ==
    ASSUME NEW nx \in Links, NEW h \in Ptr
    PROVE  /\ Members(nx, h) \subseteq Procs
           /\ ClosedList(nx, h, Members(nx, h))
           /\ \A S \in SUBSET Procs : ClosedList(nx, h, S) => Members(nx, h) \subseteq S
<1> DEFINE closed == {S \in SUBSET Procs : ClosedList(nx, h, S)}
           M == {p \in Procs : \A S \in closed : p \in S}
<1>1. Members(nx, h) = M
  BY DEF Members, ClosedList
<1>2. h \in M \cup {NULL}
  BY PtrFacts DEF ClosedList
<1>3. ASSUME NEW x \in M PROVE nx[x] \in M \cup {NULL}
  <2>1. nx[x] \in Ptr
    BY DEF Links
  <2>2. \A S \in closed : nx[x] \in S \cup {NULL}
    BY DEF ClosedList
  <2> QED
    BY <2>1, <2>2, PtrFacts
<1> QED
  BY <1>1, <1>2, <1>3 DEF ClosedList

\* A closed set that every closed set holds is the set of members.
LEMMA MembersAre ==
    ASSUME NEW nx \in Links, NEW h \in Ptr, NEW M \in SUBSET Procs, ClosedList(nx, h, M),
           \A S \in SUBSET Procs : ClosedList(nx, h, S) => M \subseteq S
    PROVE  Members(nx, h) = M
BY MembersClosed

LEMMA MembersOfNull ==
    ASSUME NEW nx \in Links
    PROVE  Members(nx, NULL) = {}
<1>1. ClosedList(nx, NULL, {})
  BY DEF ClosedList
<1> QED
  BY <1>1, MembersAre, PtrFacts

\* The head of a list is a member; so is the successor of a member.
LEMMA MembersStep ==
    ASSUME NEW nx \in Links, NEW h \in Ptr
    PROVE  /\ h # NULL => h \in Members(nx, h)
           /\ \A x \in Members(nx, h) : nx[x] # NULL => nx[x] \in Members(nx, h)
BY MembersClosed DEF ClosedList

\* A list does not change when the links of its members do not.
LEMMA MembersFrame ==
    ASSUME NEW nx \in Links, NEW ny \in Links, NEW h \in Ptr,
           \A x \in Members(nx, h) : ny[x] = nx[x]
    PROVE  Members(ny, h) = Members(nx, h)
<1> DEFINE M == Members(nx, h)
<1>1. M \in SUBSET Procs /\ ClosedList(nx, h, M)
  BY MembersClosed
<1>2. ClosedList(ny, h, M)
  BY <1>1 DEF ClosedList
<1>3. ASSUME NEW S \in SUBSET Procs, ClosedList(ny, h, S) PROVE M \subseteq S
  <2>1. ClosedList(nx, h, S \cap M)
    BY <1>1, <1>3 DEF ClosedList
  <2> QED
    BY <2>1, MembersClosed
<1> HIDE DEF M
<1> QED
  BY <1>1, <1>2, <1>3, MembersAre DEF M

\* Linking p behind the member t.
LEMMA MembersInsert ==
    ASSUME NEW nx \in Links, NEW ny \in Links, NEW h \in Ptr,
           NEW t \in Members(nx, h), NEW p \in Procs \ Members(nx, h),
           ny[t] = p, ny[p] = nx[t], \A x \in Members(nx, h) \ {t} : ny[x] = nx[x]
    PROVE  Members(ny, h) = Members(nx, h) \cup {p}
<1> DEFINE M == Members(nx, h)
<1>1. M \in SUBSET Procs /\ ClosedList(nx, h, M)
  BY MembersClosed
<1>2. ClosedList(ny, h, M \cup {p})
  BY <1>1 DEF ClosedList
<1>3. ASSUME NEW S \in SUBSET Procs, ClosedList(ny, h, S) PROVE M \cup {p} \subseteq S
  <2>1. ClosedList(nx, h, S \cap M)
    BY <1>1, <1>3, PtrFacts DEF ClosedList
  <2>2. M \subseteq S
    BY <2>1, MembersClosed
  <2> QED
    BY <2>2, <1>3, PtrFacts DEF ClosedList
<1>4. M \cup {p} \in SUBSET Procs
  BY <1>1
<1> HIDE DEF M
<1> QED
  BY <1>2, <1>3, <1>4, MembersAre DEF M

\* Linking p in front.
LEMMA MembersPush ==
    ASSUME NEW nx \in Links, NEW ny \in Links, NEW h \in Ptr, NEW p \in Procs \ Members(nx, h),
           ny[p] = h, \A x \in Members(nx, h) : ny[x] = nx[x]
    PROVE  Members(ny, p) = Members(nx, h) \cup {p}
<1> DEFINE M == Members(nx, h)
<1>1. M \in SUBSET Procs /\ ClosedList(nx, h, M)
  BY MembersClosed
<1>2. ClosedList(ny, p, M \cup {p})
  BY <1>1 DEF ClosedList
<1>3. ASSUME NEW S \in SUBSET Procs, ClosedList(ny, p, S) PROVE M \cup {p} \subseteq S
  <2>0. p \in S
    BY <1>3, PtrFacts DEF ClosedList
  <2>1. ClosedList(nx, h, S \cap M)
    BY <1>1, <1>3, <2>0 DEF ClosedList
  <2> QED
    BY <2>0, <2>1, MembersClosed
<1>4. M \cup {p} \in SUBSET Procs /\ p \in Ptr
  BY <1>1, PtrFacts
<1> HIDE DEF M
<1> QED
  BY <1>2, <1>3, <1>4, MembersAre DEF M

\* Unlinking the head.
LEMMA MembersPop ==
    ASSUME NEW nx \in Links, NEW ny \in Links, NEW h \in Procs,
           \A x \in Members(nx, h) : nx[x] # h,
           \A x \in Members(nx, h) \ {h} : ny[x] = nx[x]
    PROVE  Members(ny, nx[h]) = Members(nx, h) \ {h}
<1> DEFINE M == Members(nx, h)
<1>1. M \in SUBSET Procs /\ ClosedList(nx, h, M) /\ h \in M /\ h \in Ptr
  BY MembersClosed, MembersStep, PtrFacts
<1>2. ClosedList(ny, nx[h], M \ {h})
  BY <1>1 DEF ClosedList
<1>3. ASSUME NEW S \in SUBSET Procs, ClosedList(ny, nx[h], S) PROVE M \ {h} \subseteq S
  <2>1. ClosedList(nx, h, (S \cap M) \cup {h})
    BY <1>1, <1>3 DEF ClosedList
  <2>2. M \subseteq (S \cap M) \cup {h}
    BY <1>1, <2>1, MembersClosed
  <2> QED
    BY <2>2
<1>4. M \ {h} \in SUBSET Procs /\ nx[h] \in Ptr
  BY <1>1 DEF Links
<1> HIDE DEF M
<1> QED
  BY <1>2, <1>3, <1>4, MembersAre DEF M

\* A list whose links agree in both directions ends: a walk along it stops at
\* a NULL link.  (Otherwise next would map the members one to one to the
\* members but the head, and there are only finitely many.)
LEMMA TailExists ==
    ASSUME NEW nx \in Links, NEW pv \in Links, NEW h \in Procs, pv[h] = NULL,
           \A x \in Members(nx, h) : nx[x] # NULL => pv[nx[x]] = x
    PROVE  Tails(nx, h) # {}
<1> DEFINE M == Members(nx, h)
           f == [x \in M |-> nx[x]]
<1> SUFFICES ASSUME \A x \in M : nx[x] # NULL PROVE FALSE
  BY DEF Tails
<1>1. M \subseteq Procs /\ h \in M /\ \A x \in M : nx[x] \in M /\ pv[nx[x]] = x
  BY MembersClosed, MembersStep, PtrFacts
<1>2. IsFiniteSet(Procs)
  BY SizeAssumption, FS_Interval DEF Procs
<1>3. IsFiniteSet(M) /\ IsFiniteSet(M \ {h})
  BY <1>1, <1>2, FS_Subset
<1>4. Cardinality(M \ {h}) = Cardinality(M) - 1 /\ Cardinality(M) \in Nat
  BY <1>1, <1>3, FS_RemoveElement, FS_CardinalityType
<1>5. \A x \in M : nx[x] # h
  BY <1>1, PtrFacts
<1> HIDE DEF M
<1>6. f \in [M -> M \ {h}]
  BY <1>1, <1>5
<1>7. Cardinality(M \ {h}) < Cardinality(M)
  BY <1>4
<1> HIDE DEF f
<1>8. PICK x \in M, y \in M : x # y /\ f[x] = f[y]
  BY <1>3, <1>6, <1>7, FS_PigeonHole
<1> QED
  BY <1>1, <1>8 DEF f

-----------------------------------------------------------------------------
(***************************************************************************)
(* The invariant of the queues, as predicates of a kernel state.  e is a   *)
(* process in transit between two queues, or NULL.                         *)
(***************************************************************************)

Queued(s, q) == Members(s.next, s.heads[q])

\* The links of the list at h agree in both directions.
Linked(s, h) ==
    /\ h # NULL => s.prev[h] = NULL
    /\ \A x \in Members(s.next, h) : s.next[x] # NULL => s.prev[s.next[x]] = x

\* The ready queues hold the ready processes of their level, the sleep queue
\* holds blocked ones in the order of their wake-up times.
QueuesOf(s) ==
    \A q \in Level :
       /\ Linked(s, s.heads[q])
       /\ \A x \in Queued(s, q) : s.state[x] = "READY" /\ Clamp(s.prio[x]) = q

SleepersOf(s) ==
    /\ Linked(s, s.sleepq)
    /\ \A x \in Sleepers(s) : /\ s.state[x] = "BLOCKED"
                              /\ s.next[x] # NULL => s.wake[x] <= s.wake[s.next[x]]

\* No ready process but idle and e is off its queue.
FoundOf(s, e) ==
    \A p \in Procs \ {s.idle, e} :
       s.state[p] = "READY" => p \in Queued(s, Clamp(s.prio[p]))

TransitOf(s, e) == e \notin Sleepers(s) /\ \A q \in Level : e \notin Queued(s, q)

\* scheduler_remove, applied to a running process or to the idle process off
\* its queue, finds no links.
LooseOf(s, e) ==
    \A p \in Procs \ {e} :
       (s.state[p] = "RUNNING" \/ (p = s.idle /\ p \notin Queued(s, IdlePrio)))
          => s.next[p] = NULL /\ s.prev[p] = NULL

\* The lowest level is the idle process's alone.
IdleOf(s) ==
    /\ s.idle \in Procs /\ Clamp(s.prio[s.idle]) = IdlePrio
    /\ s.state[s.idle] \in {"READY", "RUNNING"}
    /\ \A p \in Procs \ {s.idle} : s.state[p] # "UNUSED" => Clamp(s.prio[p]) # IdlePrio

Core(s, e) ==
    /\ s \in KernelState /\ ~s.hung
    /\ BitmapOf(s) /\ QueuesOf(s) /\ SleepersOf(s)
    /\ FoundOf(s, e) /\ TransitOf(s, e) /\ LooseOf(s, e) /\ IdleOf(s)

LEMMA Fields ==
    ASSUME NEW s \in KernelState
    PROVE  /\ s.heads \in [Level -> Ptr] /\ s.bitmap \in SUBSET Level
           /\ s.sleepq \in Ptr /\ s.current \in Ptr /\ s.idle \in Ptr /\ s.tick \in Nat
           /\ s.state \in [Procs -> States] /\ s.prio \in [Procs -> Int]
           /\ s.wake \in [Procs -> Nat] /\ s.next \in Links /\ s.prev \in Links
           /\ s.hung \in BOOLEAN
BY DEF KernelState, Links

\* What two states agree on that differ by the position of one process.
SameBut(s, t, p) ==
    /\ t.sleepq = s.sleepq /\ t.tick = s.tick /\ t.current = s.current
    /\ t.idle = s.idle /\ t.prio = s.prio /\ t.wake = s.wake
    /\ \A x \in Procs \ {p} : t.state[x] = s.state[x]

-----------------------------------------------------------------------------
(***************************************************************************)
(* scheduler_add.                                                          *)
(***************************************************************************)

\* The assignments of scheduler_add to an empty queue, and to one that ends.
LEMMA AddToEmpty ==
    ASSUME NEW s \in KernelState, NEW p \in Procs, s.state[p] # "UNUSED",
           s.heads[Clamp(s.prio[p])] = NULL
    PROVE  LET q == Clamp(s.prio[p])
               t == Add(s, p)
           IN /\ SameBut(s, t, p) /\ t.state[p] = "READY" /\ t.hung = s.hung
              /\ t.heads = [s.heads EXCEPT ![q] = p] /\ t.bitmap = s.bitmap \cup {q}
              /\ \A x \in Procs \ {p} : t.next[x] = s.next[x] /\ t.prev[x] = s.prev[x]
              /\ t.next[p] = NULL /\ t.prev[p] = NULL
<1> DEFINE q == Clamp(s.prio[p])
           cut == [s EXCEPT !.next[p] = NULL, !.prev[p] = NULL]
           u == [cut EXCEPT !.heads[q] = p, !.bitmap = @ \cup {q}]
           t == [u EXCEPT !.state[p] = "READY", !.slice[p] = Slice(q)]
<1>1. Add(s, p) = t
  BY DEF Add
<1>2. q \in Level /\ Slice(q) \in Nat
  BY ClampLevel, SliceNat DEF KernelState
<1> HIDE DEF q
<1>3. /\ cut \in KernelState /\ cut.heads = s.heads /\ cut.bitmap = s.bitmap
      /\ SameBut(s, cut, p) /\ cut.state = s.state /\ cut.hung = s.hung
      /\ \A x \in Procs \ {p} : cut.next[x] = s.next[x] /\ cut.prev[x] = s.prev[x]
      /\ cut.next[p] = NULL /\ cut.prev[p] = NULL
  BY PtrFacts DEF KernelState, SameBut
<1> HIDE DEF cut
<1>4. /\ u \in KernelState /\ u.heads = [s.heads EXCEPT ![q] = p] /\ u.bitmap = s.bitmap \cup {q}
      /\ SameBut(s, u, p) /\ u.state = s.state /\ u.hung = s.hung
      /\ u.next = cut.next /\ u.prev = cut.prev
  BY <1>2, <1>3, PtrFacts DEF KernelState, SameBut
<1> HIDE DEF u
<1>5. /\ t.heads = u.heads /\ t.bitmap = u.bitmap /\ t.hung = u.hung
      /\ t.next = u.next /\ t.prev = u.prev
      /\ SameBut(s, t, p) /\ t.state[p] = "READY"
  BY <1>2, <1>4 DEF KernelState, SameBut
<1> QED
  BY <1>1, <1>3, <1>4, <1>5 DEF q

LEMMA AddToTail ==
    ASSUME NEW s \in KernelState, NEW p \in Procs, s.state[p] # "UNUSED",
           s.heads[Clamp(s.prio[p])] # NULL,
           NEW nx \in Links, nx[p] = NULL, \A x \in Procs \ {p} : nx[x] = s.next[x],
           Tails(nx, s.heads[Clamp(s.prio[p])]) # {}
    PROVE  LET t == Add(s, p)
           IN /\ SameBut(s, t, p) /\ t.state[p] = "READY" /\ t.hung = s.hung
              /\ t.heads = s.heads /\ t.bitmap = s.bitmap
              /\ \E tail \in Tails(nx, s.heads[Clamp(s.prio[p])]) :
                   /\ t.next[tail] = p /\ \A x \in Procs \ {tail} : t.next[x] = nx[x]
                   /\ t.prev[p] = tail /\ \A x \in Procs \ {p} : t.prev[x] = s.prev[x]
<1> DEFINE q == Clamp(s.prio[p])
           cut == [s EXCEPT !.next[p] = NULL, !.prev[p] = NULL]
           tails == Tails(cut.next, cut.heads[q])
           tail == CHOOSE x \in tails : TRUE
           u == [cut EXCEPT !.next[tail] = p, !.prev[p] = tail]
           t == [u EXCEPT !.state[p] = "READY", !.slice[p] = Slice(q)]
<1>2. q \in Level /\ Slice(q) \in Nat
  BY ClampLevel, SliceNat DEF KernelState
<1>0. nx = [s.next EXCEPT ![p] = NULL]
  BY Fields DEF Links
<1>3. /\ cut \in KernelState /\ cut.heads = s.heads /\ cut.bitmap = s.bitmap
      /\ SameBut(s, cut, p) /\ cut.state = s.state /\ cut.hung = s.hung
      /\ cut.next = nx /\ cut.prev = [s.prev EXCEPT ![p] = NULL]
  BY <1>0, PtrFacts DEF KernelState, SameBut
<1>4. tails = Tails(nx, s.heads[q]) /\ tails # {}
  BY <1>3
<1>1. Add(s, p) = t
  BY <1>4 DEF Add
<1> HIDE DEF q, cut
<1>5. tail \in tails
  BY <1>4
<1>6. tail \in Procs
  BY <1>5 DEF Tails, Members
<1> HIDE DEF tail, tails
<1>7. /\ u \in KernelState /\ u.heads = s.heads /\ u.bitmap = s.bitmap
      /\ SameBut(s, u, p) /\ u.state = s.state /\ u.hung = s.hung
      /\ u.next = [nx EXCEPT ![tail] = p] /\ u.prev = [s.prev EXCEPT ![p] = tail]
  <2>1. u.prev = [cut.prev EXCEPT ![p] = tail] /\ u.next = [cut.next EXCEPT ![tail] = p]
    BY <1>3 DEF KernelState
  <2>2. u.prev = [s.prev EXCEPT ![p] = tail]
    BY <2>1, <1>3 DEF KernelState
  <2>3. /\ u \in KernelState /\ u.heads = s.heads /\ u.bitmap = s.bitmap
        /\ SameBut(s, u, p) /\ u.state = s.state /\ u.hung = s.hung
    BY <1>3, <1>6, PtrFacts DEF KernelState, SameBut
  <2> QED
    BY <2>1, <2>2, <2>3, <1>3
<1> HIDE DEF u
<1>8. /\ t.heads = u.heads /\ t.bitmap = u.bitmap /\ t.hung = u.hung
      /\ t.next = u.next /\ t.prev = u.prev
      /\ SameBut(s, t, p) /\ t.state[p] = "READY"
  BY <1>2, <1>7 DEF KernelState, SameBut
<1>9. /\ t.next[tail] = p /\ \A x \in Procs \ {tail} : t.next[x] = nx[x]
      /\ t.prev[p] = tail /\ \A x \in Procs \ {p} : t.prev[x] = s.prev[x]
  BY <1>6, <1>7, <1>8, Fields DEF Links
<1> HIDE DEF t
<1> QED
  BY <1>1, <1>4, <1>5, <1>7, <1>8, <1>9 DEF q

\* A list whose members' links do not change stays linked.
LEMMA LinkedFrame ==
    ASSUME NEW s \in KernelState, NEW t \in KernelState, NEW h \in Ptr, Linked(s, h),
           \A x \in Members(s.next, h) : t.next[x] = s.next[x] /\ t.prev[x] = s.prev[x]
    PROVE  Members(t.next, h) = Members(s.next, h) /\ Linked(t, h)
<1>1. Members(t.next, h) = Members(s.next, h)
  BY Fields, MembersFrame
<1>2. /\ h # NULL => h \in Members(s.next, h)
      /\ \A x \in Members(s.next, h) : s.next[x] # NULL => s.next[x] \in Members(s.next, h)
  BY Fields, MembersStep
<1> QED
  BY <1>1, <1>2 DEF Linked

\* scheduler_add puts a process that is on no queue on its queue, last, and
\* leaves the other queues alone.
LEMMA AddQueues ==
    ASSUME NEW s, NEW p \in Procs, Core(s, p), s.state[p] # "UNUSED"
    PROVE  LET t == Add(s, p)
               q == Clamp(s.prio[p])
           IN /\ SameBut(s, t, p) /\ t.state[p] = "READY" /\ ~t.hung
              /\ \A r \in Level : /\ Linked(t, t.heads[r])
                                  /\ Queued(t, r) = IF r = q THEN Queued(s, q) \cup {p}
                                                    ELSE Queued(s, r)
                                  /\ s.heads[r] # NULL \/ r # q => t.heads[r] = s.heads[r]
              /\ Sleepers(t) = Sleepers(s) /\ Linked(t, t.sleepq)
              /\ \A x \in Sleepers(s) : t.next[x] = s.next[x]
              /\ \A x \in Procs \ (Queued(s, q) \cup {p}) :
                    t.next[x] = s.next[x] /\ t.prev[x] = s.prev[x]
<1> DEFINE t == Add(s, p)
           q == Clamp(s.prio[p])
<1>0. s \in KernelState /\ ~s.hung /\ QueuesOf(s) /\ SleepersOf(s) /\ TransitOf(s, p)
  BY DEF Core
<1>1. /\ t \in KernelState /\ q \in Level
      /\ s.next \in Links /\ s.prev \in Links /\ t.next \in Links /\ t.prev \in Links
      /\ s.heads \in [Level -> Ptr] /\ s.sleepq \in Ptr
  BY <1>0, AddType, Fields, ClampLevel
<1>2. /\ \A r \in Level : p \notin Queued(s, r) /\ Queued(s, r) \subseteq Procs
      /\ p \notin Sleepers(s) /\ Sleepers(s) \subseteq Procs
  BY <1>0, <1>1, MembersClosed DEF TransitOf, Queued, Sleepers
<1>3. /\ \A r \in Level : r # q => Queued(s, r) \cap Queued(s, q) = {}
      /\ Sleepers(s) \cap Queued(s, q) = {}
  BY <1>0, <1>1 DEF QueuesOf, SleepersOf
<1>4. SUFFICES
        /\ SameBut(s, t, p) /\ t.state[p] = "READY" /\ ~t.hung
        /\ \A r \in Level : s.heads[r] # NULL \/ r # q => t.heads[r] = s.heads[r]
        /\ Queued(t, q) = Queued(s, q) \cup {p} /\ Linked(t, t.heads[q])
        /\ \A x \in Procs \ (Queued(s, q) \cup {p}) :
              t.next[x] = s.next[x] /\ t.prev[x] = s.prev[x]
  <2>1. \A x \in Procs \ (Queued(s, q) \cup {p}) : t.next[x] = s.next[x] /\ t.prev[x] = s.prev[x]
    BY <1>4
  <2>2. t.sleepq = s.sleepq /\ \A r \in Level : r # q => t.heads[r] = s.heads[r]
    BY <1>4 DEF SameBut
  <2>3. ASSUME NEW r \in Level, r # q
        PROVE  Queued(t, r) = Queued(s, r) /\ Linked(t, t.heads[r])
    <3>1. s.heads[r] \in Ptr /\ Linked(s, s.heads[r])
      BY <1>0, <1>1 DEF QueuesOf
    <3>2. \A x \in Members(s.next, s.heads[r]) : t.next[x] = s.next[x] /\ t.prev[x] = s.prev[x]
      BY <1>2, <1>3, <2>1, <2>3 DEF Queued
    <3>3. Members(t.next, s.heads[r]) = Members(s.next, s.heads[r]) /\ Linked(t, s.heads[r])
      BY <1>0, <1>1, <3>1, <3>2, LinkedFrame
    <3> QED
      BY <2>2, <2>3, <3>3 DEF Queued
  <2>4. \A x \in Sleepers(s) : t.next[x] = s.next[x] /\ t.prev[x] = s.prev[x]
    BY <1>2, <1>3, <2>1
  <2>5. Sleepers(t) = Sleepers(s) /\ Linked(t, t.sleepq)
    <3>1. Linked(s, s.sleepq)
      BY <1>0 DEF SleepersOf
    <3> QED
      BY <1>0, <1>1, <2>2, <2>4, <3>1, LinkedFrame DEF Sleepers
  <2> HIDE DEF t, q
  <2> QED
    BY <1>4, <2>1, <2>3, <2>4, <2>5 DEF t, q
<1>5. CASE s.heads[q] = NULL
  <2>1. /\ SameBut(s, t, p) /\ t.state[p] = "READY" /\ t.hung = s.hung
        /\ t.heads = [s.heads EXCEPT ![q] = p]
        /\ \A x \in Procs \ {p} : t.next[x] = s.next[x] /\ t.prev[x] = s.prev[x]
        /\ t.next[p] = NULL /\ t.prev[p] = NULL
    BY <1>0, <1>5, AddToEmpty
  <2> HIDE DEF t, q
  <2>2. t.heads[q] = p /\ \A r \in Level : r # q => t.heads[r] = s.heads[r]
    BY <2>1, <1>1
  <2>3. Queued(s, q) = {}
    BY <1>1, <1>5, MembersOfNull DEF Queued
  <2>4. Members(t.next, p) = {p}
    <3>1. Members(s.next, NULL) = {} /\ NULL \in Ptr
      BY <1>1, MembersOfNull, PtrFacts
    <3>3. /\ NULL \in Ptr /\ p \in Procs \ Members(s.next, NULL)
          /\ \A x \in Members(s.next, NULL) : t.next[x] = s.next[x]
      BY <3>1
    <3>2. Members(t.next, p) = Members(s.next, NULL) \cup {p}
      BY <1>1, <2>1, <3>3, MembersPush
    <3> QED
      BY <3>1, <3>2
  <2> QED
    BY <1>0, <1>5, <2>1, <2>2, <2>3, <2>4 DEF Queued, Linked
<1>6. CASE s.heads[q] # NULL
  <2> DEFINE h == s.heads[q]
             nx == [s.next EXCEPT ![p] = NULL]
             M == Members(s.next, h)
  <2>1. h \in Procs /\ Linked(s, h) /\ p \notin M /\ h \in M /\ M \subseteq Procs /\ M = Queued(s, q)
    BY <1>0, <1>1, <1>2, <1>6, PtrFacts, MembersStep DEF QueuesOf, Queued
  <2>2. nx \in Links /\ nx[p] = NULL /\ \A x \in Procs \ {p} : nx[x] = s.next[x]
    BY <1>1, PtrFacts DEF Links
  <2> HIDE DEF nx
  <2>3. Members(nx, h) = M
    <3>1. h \in Ptr /\ \A x \in Members(s.next, h) : nx[x] = s.next[x]
      BY <2>1, <2>2, PtrFacts
    <3> QED
      BY <1>1, <2>2, <3>1, MembersFrame
  <2>4. Tails(nx, h) # {}
    <3>1. s.prev[h] = NULL /\ \A x \in Members(nx, h) : nx[x] # NULL => s.prev[nx[x]] = x
      BY <2>1, <2>2, <2>3, PtrFacts DEF Linked
    <3> QED
      BY <1>1, <2>1, <2>2, <3>1, TailExists
  <2>5. PICK tail \in Tails(nx, h) :
                   /\ t.next[tail] = p /\ \A x \in Procs \ {tail} : t.next[x] = nx[x]
                   /\ t.prev[p] = tail /\ \A x \in Procs \ {p} : t.prev[x] = s.prev[x]
    BY <1>0, <1>6, <2>2, <2>4, AddToTail
  <2>6. /\ SameBut(s, t, p) /\ t.state[p] = "READY" /\ t.hung = s.hung
        /\ t.heads = s.heads
    BY <1>0, <1>6, <2>2, <2>4, AddToTail
  <2>7. tail \in M /\ s.next[tail] = NULL /\ tail # p
    BY <2>1, <2>2, <2>3, <2>5 DEF Tails
  <2> HIDE DEF t, q, h, M
  <2>8. /\ t.next[tail] = p /\ t.next[p] = NULL /\ t.prev[p] = tail
        /\ \A x \in Procs \ {p, tail} : t.next[x] = s.next[x]
        /\ \A x \in Procs \ {p} : t.prev[x] = s.prev[x]
    BY <1>1, <2>1, <2>2, <2>5, <2>7 DEF Links
  <2>9. Members(t.next, h) = M \cup {p}
    <3>1. tail \in Members(s.next, h) /\ p \in Procs \ Members(s.next, h) /\ h \in Ptr
      BY <2>1, <2>7, PtrFacts DEF M
    <3>2. \A x \in Members(s.next, h) \ {tail} : t.next[x] = s.next[x]
      BY <2>1, <2>8 DEF M
    <3>3. t.next[tail] = p /\ t.next[p] = s.next[tail]
      BY <2>7, <2>8
    <3> QED
      BY <1>1, <3>1, <3>2, <3>3, MembersInsert DEF M
  <2>10. Linked(t, h)
    <3>1. \A x \in M : s.next[x] # NULL => s.next[x] \in M /\ s.prev[s.next[x]] = x
      BY <1>1, <2>1, PtrFacts, MembersStep DEF M, Linked
    <3>2. s.prev[h] = NULL
      BY <2>1, PtrFacts DEF Linked
    <3> QED
      BY <2>1, <2>7, <2>8, <2>9, <3>1, <3>2 DEF Linked
  <2> QED
    BY <1>0, <2>1, <2>6, <2>7, <2>8, <2>9, <2>10 DEF Queued, h
<1> QED
  BY <1>5, <1>6

\* It ends the transit of the process.
LEMMA AddCore ==
    ASSUME NEW s, NEW p \in Procs, Core(s, p), s.state[p] # "UNUSED"
    PROVE  Core(Add(s, p), NULL)
<1> DEFINE t == Add(s, p)
           q == Clamp(s.prio[p])
<1>0. /\ s \in KernelState /\ BitmapOf(s) /\ QueuesOf(s) /\ SleepersOf(s) /\ FoundOf(s, p)
      /\ LooseOf(s, p) /\ IdleOf(s)
  BY DEF Core
<1>1. t \in KernelState /\ BitmapOf(t) /\ q \in Level
  BY <1>0, AddType, ClampLevel, Fields
<1>2. /\ SameBut(s, t, p) /\ t.state[p] = "READY" /\ ~t.hung
      /\ \A r \in Level : /\ Linked(t, t.heads[r])
                          /\ Queued(t, r) = IF r = q THEN Queued(s, q) \cup {p}
                                            ELSE Queued(s, r)
      /\ Sleepers(t) = Sleepers(s) /\ Linked(t, t.sleepq)
      /\ \A x \in Sleepers(s) : t.next[x] = s.next[x]
      /\ \A x \in Procs \ (Queued(s, q) \cup {p}) :
            t.next[x] = s.next[x] /\ t.prev[x] = s.prev[x]
  BY AddQueues
<1>3. /\ t.idle = s.idle /\ t.prio = s.prio /\ t.wake = s.wake
      /\ \A x \in Procs \ {p} : t.state[x] = s.state[x]
  BY <1>2 DEF SameBut
<1>4. /\ \A r \in Level : Queued(t, r) \subseteq Procs
      /\ Sleepers(t) \subseteq Procs /\ p \notin Sleepers(t)
  <2>1. t.next \in Links /\ t.sleepq \in Ptr /\ \A r \in Level : t.heads[r] \in Ptr
    BY <1>1, Fields
  <2>2. p \notin Sleepers(s)
    BY DEF Core, TransitOf
  <2> QED
    BY <1>2, <2>1, <2>2, MembersClosed DEF Queued, Sleepers
<1>5. \A x \in Procs : Clamp(s.prio[x]) \in Level
  BY <1>0, Fields, ClampLevel
<1>6. p \in Queued(t, q) /\ \A r \in Level : Queued(s, r) \subseteq Queued(t, r)
  BY <1>1, <1>2
<1> HIDE DEF t, q
<1>7. QueuesOf(t)
  BY <1>0, <1>2, <1>3, <1>4 DEF QueuesOf, q
<1>8. SleepersOf(t)
  BY <1>0, <1>2, <1>3, <1>4 DEF SleepersOf
<1>9. FoundOf(t, NULL)
  BY <1>0, <1>3, <1>5, <1>6 DEF FoundOf, q
<1>10. TransitOf(t, NULL)
  BY <1>4, PtrFacts DEF TransitOf
<1>11. IdleOf(t)
  BY <1>0, <1>2, <1>3 DEF IdleOf
<1>12. LooseOf(t, NULL)
  <2> SUFFICES ASSUME NEW x \in Procs, t.state[x] = "RUNNING" \/ (x = t.idle /\ x \notin Queued(t, IdlePrio))
               PROVE  t.next[x] = NULL /\ t.prev[x] = NULL
    BY DEF LooseOf
  <2>1. x # p
    BY <1>2, <1>3, <1>0, <1>6 DEF IdleOf, q
  <2>2. IdlePrio \in Level
    BY <1>0, <1>5 DEF IdleOf
  <2>3. x \notin Queued(s, q)
    BY <1>0, <1>1, <1>3, <1>6, <2>1, <2>2 DEF QueuesOf, IdleOf
  <2>4. s.state[x] = "RUNNING" \/ (x = s.idle /\ x \notin Queued(s, IdlePrio))
    BY <1>3, <1>6, <2>1, <2>2
  <2> QED
    BY <1>0, <1>2, <2>1, <2>3, <2>4 DEF LooseOf
<1> QED
  BY <1>1, <1>2, <1>7, <1>8, <1>9, <1>10, <1>11, <1>12 DEF Core, t

-----------------------------------------------------------------------------
(***************************************************************************)
(* A process on no queue.                                                  *)
(***************************************************************************)

\* Assignments to the fields of a process that is on no queue do not touch the
\* queues.
LEMMA Detached ==
    ASSUME NEW s, NEW e, Core(s, e), NEW p \in Procs, TransitOf(s, p), e \in {NULL, p},
           NEW t \in KernelState, t.heads = s.heads, BitmapOf(t), t.sleepq = s.sleepq,
           t.idle = s.idle, ~t.hung,
           \A x \in Procs \ {p} : /\ t.state[x] = s.state[x] /\ t.prio[x] = s.prio[x]
                                  /\ t.wake[x] = s.wake[x]
                                  /\ t.next[x] = s.next[x] /\ t.prev[x] = s.prev[x],
           p = s.idle => t.state[p] \in {"READY", "RUNNING"} /\ Clamp(t.prio[p]) = IdlePrio,
           p # s.idle => t.state[p] = "UNUSED" \/ Clamp(t.prio[p]) # IdlePrio
    PROVE  /\ Core(t, p) /\ Sleepers(t) = Sleepers(s)
           /\ \A r \in Level : Queued(t, r) = Queued(s, r)
<1>0. /\ s \in KernelState /\ QueuesOf(s) /\ SleepersOf(s) /\ FoundOf(s, e)
      /\ LooseOf(s, e) /\ IdleOf(s)
  BY DEF Core
<1>1. /\ s.next \in Links /\ t.next \in Links /\ s.sleepq \in Ptr
      /\ \A r \in Level : s.heads[r] \in Ptr
  BY <1>0, Fields
<1>2. /\ \A r \in Level : Queued(s, r) \subseteq Procs \ {p}
      /\ Sleepers(s) \subseteq Procs \ {p}
  BY <1>1, MembersClosed DEF TransitOf, Queued, Sleepers
<1>3. ASSUME NEW r \in Level PROVE Queued(t, r) = Queued(s, r) /\ Linked(t, t.heads[r])
  <2>1. Linked(s, s.heads[r])
    BY <1>0 DEF QueuesOf
  <2>2. \A x \in Members(s.next, s.heads[r]) : t.next[x] = s.next[x] /\ t.prev[x] = s.prev[x]
    BY <1>2 DEF Queued
  <2>3. Members(t.next, s.heads[r]) = Members(s.next, s.heads[r]) /\ Linked(t, s.heads[r])
    BY <1>0, <1>1, <2>1, <2>2, LinkedFrame
  <2> QED
    BY <2>3 DEF Queued
<1>4. Sleepers(t) = Sleepers(s) /\ Linked(t, t.sleepq)
  <2>1. Linked(s, s.sleepq)
    BY <1>0 DEF SleepersOf
  <2>2. \A x \in Members(s.next, s.sleepq) : t.next[x] = s.next[x] /\ t.prev[x] = s.prev[x]
    BY <1>2 DEF Sleepers
  <2>3. Members(t.next, s.sleepq) = Members(s.next, s.sleepq) /\ Linked(t, s.sleepq)
    BY <1>0, <1>1, <2>1, <2>2, LinkedFrame
  <2> QED
    BY <2>3 DEF Sleepers
<1>5. QueuesOf(t)
  BY <1>0, <1>2, <1>3 DEF QueuesOf
<1>6. SleepersOf(t)
  <2>1. \A x \in Sleepers(s) : s.next[x] # NULL => s.next[x] \in Sleepers(s)
    BY <1>1, MembersStep DEF Sleepers
  <2> QED
    BY <1>0, <1>2, <1>4, <2>1 DEF SleepersOf
<1>7. FoundOf(t, p)
  <2>1. \A x \in Procs : Clamp(s.prio[x]) \in Level
    BY <1>0, Fields, ClampLevel
  <2> QED
    BY <1>0, <1>3, <2>1, PtrFacts DEF FoundOf
<1>8. TransitOf(t, p)
  BY <1>3, <1>4 DEF TransitOf
<1>9. LooseOf(t, p)
  <2>1. IdlePrio \in Level
    BY SizeAssumption DEF IdlePrio, Level
  <2> QED
    BY <1>0, <1>3, <2>1, PtrFacts DEF LooseOf
<1>10. IdleOf(t)
  BY <1>0 DEF IdleOf
<1> QED
  BY <1>3, <1>4, <1>5, <1>6, <1>7, <1>8, <1>9, <1>10 DEF Core

\* The transit of a process that need not be on a queue ends.
LEMMA Settled ==
    ASSUME NEW s, NEW p \in Procs, Core(s, p),
           s.state[p] = "READY" => p = s.idle,
           s.state[p] = "RUNNING" \/ p = s.idle => s.next[p] = NULL /\ s.prev[p] = NULL
    PROVE  Core(s, NULL)
<1>1. s \in KernelState /\ FoundOf(s, p) /\ LooseOf(s, p)
  BY DEF Core
<1>2. FoundOf(s, NULL)
  BY <1>1 DEF FoundOf
<1>3. LooseOf(s, NULL)
  BY <1>1 DEF LooseOf
<1>4. TransitOf(s, NULL)
  <2>1. s.next \in Links /\ s.sleepq \in Ptr /\ \A r \in Level : s.heads[r] \in Ptr
    BY <1>1, Fields
  <2> QED
    BY <2>1, MembersClosed, PtrFacts DEF TransitOf, Queued, Sleepers
<1> QED
  BY <1>2, <1>3, <1>4 DEF Core

\* A process in a state other than READY, or BLOCKED and not asleep, is on no
\* queue.
LEMMA OffQueues ==
    ASSUME NEW s, NEW e, Core(s, e), NEW p \in Procs,
           s.state[p] # "READY", s.state[p] = "BLOCKED" => p \notin Sleepers(s)
    PROVE  TransitOf(s, p)
BY DEF Core, QueuesOf, SleepersOf, TransitOf

-----------------------------------------------------------------------------
(***************************************************************************)
(* scheduler_remove.                                                       *)
(***************************************************************************)

\* The assignments of scheduler_remove to a process without predecessor.
LEMMA RemoveFirst ==
    ASSUME NEW s \in KernelState, NEW p \in Procs, s.prev[p] = NULL
    PROVE  LET q == Clamp(s.prio[p])
               n == s.next[p]
               t == Remove(s, p)
           IN /\ SameBut(s, t, p) /\ t.state = s.state /\ t.hung = s.hung
              /\ t.heads = [s.heads EXCEPT ![q] = n]
              /\ t.next[p] = NULL /\ t.prev[p] = NULL
              /\ \A x \in Procs \ {p} : /\ t.next[x] = s.next[x]
                                        /\ t.prev[x] = IF x = n THEN NULL ELSE s.prev[x]
<1> DEFINE q == Clamp(s.prio[p])
           n == s.next[p]
           b == [s EXCEPT !.heads[q] = n]
           a == SetPrev(b, b.next[p], b.prev[p])
           o == [a EXCEPT !.next[p] = NULL, !.prev[p] = NULL]
           t == Remove(s, p)
<1>1. t = IF o.heads[q] = NULL THEN [o EXCEPT !.bitmap = @ \ {q}] ELSE o
  BY DEF Remove
<1>2. q \in Level /\ n \in Ptr
  BY ClampLevel DEF KernelState
<1> HIDE DEF q, n
<1>3. /\ b \in KernelState /\ b.heads = [s.heads EXCEPT ![q] = n]
      /\ b.next = s.next /\ b.prev = s.prev /\ b.state = s.state /\ b.hung = s.hung
      /\ SameBut(s, b, p)
  BY <1>2 DEF KernelState, SameBut
<1>4. b.next[p] = n /\ b.prev[p] = NULL
  BY <1>3 DEF n
<1> HIDE DEF b
<1>5. /\ a \in KernelState /\ a.heads = b.heads /\ a.next = s.next
      /\ a.state = s.state /\ a.hung = s.hung /\ SameBut(s, a, p)
      /\ \A x \in Procs : a.prev[x] = IF x = n THEN NULL ELSE s.prev[x]
  <2>1. CASE n = NULL
    BY <1>3, <1>4, <2>1, PtrFacts DEF SetPrev
  <2>2. CASE n # NULL
    <3>1. n \in Procs /\ a = [b EXCEPT !.prev[n] = NULL]
      BY <1>2, <1>4, <2>2, PtrFacts DEF SetPrev
    <3> HIDE DEF a
    <3> QED
      BY <1>3, <3>1, PtrFacts DEF KernelState, SameBut
  <2> QED
    BY <2>1, <2>2
<1> HIDE DEF a
<1>6. /\ o \in KernelState /\ o.heads = b.heads
      /\ o.state = s.state /\ o.hung = s.hung /\ SameBut(s, o, p)
      /\ o.next[p] = NULL /\ o.prev[p] = NULL
      /\ \A x \in Procs \ {p} : o.next[x] = s.next[x] /\ o.prev[x] = a.prev[x]
  BY <1>5, PtrFacts DEF KernelState, SameBut
<1> HIDE DEF o
<1>7. /\ t.heads = o.heads /\ t.next = o.next /\ t.prev = o.prev
      /\ t.state = o.state /\ t.hung = o.hung /\ SameBut(s, t, p)
  <2>1. CASE o.heads[q] = NULL
    <3>1. t = [o EXCEPT !.bitmap = @ \ {q}]
      BY <1>1, <2>1
    <3> HIDE DEF t
    <3> QED
      BY <1>6, <3>1 DEF KernelState, SameBut
  <2>2. CASE o.heads[q] # NULL
    BY <1>1, <1>6, <2>2
  <2> QED
    BY <2>1, <2>2
<1> HIDE DEF t
<1> QED
  BY <1>3, <1>5, <1>6, <1>7 DEF q, n, t

\* A process without links whose queue is empty is removed from nothing.
LEMMA RemoveLoose ==
    ASSUME NEW s, NEW e, Core(s, e), NEW p \in Procs, TransitOf(s, p), e \in {NULL, p},
           s.next[p] = NULL, s.prev[p] = NULL, s.heads[Clamp(s.prio[p])] = NULL
    PROVE  LET t == Remove(s, p)
           IN /\ Core(t, p) /\ SameBut(s, t, p) /\ t.state = s.state /\ t.heads = s.heads
              /\ t.next[p] = NULL /\ t.prev[p] = NULL
              /\ Sleepers(t) = Sleepers(s) /\ \A r \in Level : Queued(t, r) = Queued(s, r)
<1> DEFINE t == Remove(s, p)
           q == Clamp(s.prio[p])
<1>0. s \in KernelState /\ BitmapOf(s) /\ ~s.hung /\ IdleOf(s)
  BY DEF Core
<1>1. t \in KernelState /\ BitmapOf(t)
  BY <1>0, RemoveType
<1>2. /\ SameBut(s, t, p) /\ t.state = s.state /\ t.hung = s.hung
      /\ t.heads = [s.heads EXCEPT ![q] = s.next[p]]
      /\ t.next[p] = NULL /\ t.prev[p] = NULL
      /\ \A x \in Procs \ {p} : /\ t.next[x] = s.next[x]
                                /\ t.prev[x] = IF x = s.next[p] THEN NULL ELSE s.prev[x]
  BY <1>0, RemoveFirst
<1>3. q \in Level /\ s.heads \in [Level -> Ptr]
  BY <1>0, Fields, ClampLevel
<1> HIDE DEF t, q
<1>4. t.heads = s.heads
  BY <1>2, <1>3 DEF q
<1>5. \A x \in Procs \ {p} : t.next[x] = s.next[x] /\ t.prev[x] = s.prev[x]
  BY <1>2, PtrFacts
<1>6. p # s.idle => t.state[p] = "UNUSED" \/ Clamp(t.prio[p]) # IdlePrio
  BY <1>0, <1>2 DEF IdleOf, SameBut
<1>7. p = s.idle => t.state[p] \in {"READY", "RUNNING"} /\ Clamp(t.prio[p]) = IdlePrio
  BY <1>0, <1>2 DEF IdleOf, SameBut
<1>8. /\ Core(t, p) /\ Sleepers(t) = Sleepers(s)
      /\ \A r \in Level : Queued(t, r) = Queued(s, r)
  <2>1. /\ t.sleepq = s.sleepq /\ t.idle = s.idle /\ ~t.hung
        /\ \A x \in Procs \ {p} : /\ t.state[x] = s.state[x] /\ t.prio[x] = s.prio[x]
                                  /\ t.wake[x] = s.wake[x]
    BY <1>0, <1>2 DEF SameBut
  <2> QED
    BY <1>1, <1>4, <1>5, <1>6, <1>7, <2>1, Detached
<1> QED
  BY <1>2, <1>4, <1>8 DEF t

\* The first process of a ready queue is taken off it.
LEMMA RemoveHead ==
    ASSUME NEW s, Core(s, NULL), NEW q \in Level, NEW p \in Procs, p = s.heads[q]
    PROVE  LET t == Remove(s, p)
           IN /\ Core(t, p) /\ SameBut(s, t, p) /\ t.state = s.state
              /\ t.next[p] = NULL /\ t.prev[p] = NULL
              /\ Sleepers(t) = Sleepers(s)
              /\ \A r \in Level : r # q => t.heads[r] = s.heads[r]
<1> DEFINE t == Remove(s, p)
           n == s.next[p]
           M == Queued(s, q)
<1>0. /\ s \in KernelState /\ BitmapOf(s) /\ QueuesOf(s) /\ SleepersOf(s) /\ FoundOf(s, NULL)
      /\ LooseOf(s, NULL) /\ IdleOf(s) /\ ~s.hung
  BY DEF Core
<1>1. /\ s.next \in Links /\ s.prev \in Links /\ s.sleepq \in Ptr
      /\ s.heads \in [Level -> Ptr] /\ n \in Ptr
  BY <1>0, Fields DEF Links
<1>2. /\ p \in M /\ M \subseteq Procs /\ Linked(s, p)
      /\ \A x \in M : s.next[x] # NULL => s.next[x] \in M
  BY <1>0, <1>1, MembersStep, MembersClosed, PtrFacts DEF Queued, QueuesOf
<1>3. /\ Clamp(s.prio[p]) = q /\ s.state[p] = "READY" /\ s.prev[p] = NULL
      /\ \A x \in M : s.next[x] # NULL => s.prev[s.next[x]] = x
  BY <1>0, <1>2, PtrFacts DEF QueuesOf, Linked, Queued
<1>4. t \in KernelState /\ BitmapOf(t) /\ t.next \in Links /\ t.heads \in [Level -> Ptr]
  BY <1>0, <1>3, RemoveType, PtrFacts, Fields
<1>5. /\ SameBut(s, t, p) /\ t.state = s.state /\ t.hung = s.hung
      /\ t.heads = [s.heads EXCEPT ![q] = n]
      /\ t.next[p] = NULL /\ t.prev[p] = NULL
      /\ \A x \in Procs \ {p} : /\ t.next[x] = s.next[x]
                                /\ t.prev[x] = IF x = n THEN NULL ELSE s.prev[x]
  BY <1>0, <1>3, RemoveFirst
<1> HIDE DEF t
<1>6. t.heads[q] = n /\ \A r \in Level : r # q => t.heads[r] = s.heads[r]
  BY <1>1, <1>5
<1>7. \A x \in M : s.next[x] # p
  BY <1>2, <1>3, PtrFacts
<1>8. Queued(t, q) = M \ {p}
  <2>1. \A x \in Members(s.next, p) \ {p} : t.next[x] = s.next[x]
    BY <1>2, <1>5 DEF Queued
  <2>2. \A x \in Members(s.next, p) : s.next[x] # p
    BY <1>7 DEF Queued
  <2>3. Members(t.next, s.next[p]) = Members(s.next, p) \ {p}
    <3>1. ASSUME NEW h \in Procs, \A x \in Members(s.next, h) : s.next[x] # h,
                 \A x \in Members(s.next, h) \ {h} : t.next[x] = s.next[x]
          PROVE  Members(t.next, s.next[h]) = Members(s.next, h) \ {h}
      BY <1>1, <1>4, <3>1, MembersPop
    <3> QED
      BY <2>1, <2>2, <3>1
  <2>4. Queued(t, q) = Members(t.next, s.next[p]) /\ M = Members(s.next, p)
    BY <1>6 DEF Queued
  <2> QED
    BY <2>3, <2>4
<1>9. n # NULL => n \in M \ {p}
  BY <1>2, <1>7
<1>10. Linked(t, t.heads[q])
  <2>1. n # NULL => t.prev[n] = NULL
    BY <1>2, <1>5, <1>9
  <2>2. ASSUME NEW x \in M \ {p}, t.next[x] # NULL PROVE t.prev[t.next[x]] = x
    <3>1. t.next[x] = s.next[x] /\ s.next[x] \in M /\ s.next[x] # p /\ s.prev[s.next[x]] = x
      BY <1>2, <1>3, <1>5, <1>7, <2>2
    <3>2. s.next[x] # n
      BY <1>2, <1>3, <2>2, <3>1
    <3> QED
      BY <1>2, <1>5, <3>1, <3>2
  <2>3. Members(t.next, t.heads[q]) = M \ {p}
    BY <1>8 DEF Queued
  <2> HIDE DEF M, n
  <2> QED
    BY <1>6, <2>1, <2>2, <2>3 DEF Linked
<1>11. \A x \in Procs \ M : t.next[x] = s.next[x] /\ t.prev[x] = s.prev[x]
  BY <1>2, <1>5, <1>9, PtrFacts
<1>12. /\ \A r \in Level : r # q => Queued(s, r) \subseteq Procs \ M
       /\ Sleepers(s) \subseteq Procs \ M
  <2>1. /\ \A r \in Level : Queued(s, r) \subseteq Procs
        /\ Sleepers(s) \subseteq Procs
    BY <1>1, MembersClosed DEF Queued, Sleepers
  <2> QED
    BY <1>0, <2>1 DEF QueuesOf, SleepersOf
<1> HIDE DEF M, n
<1>13. ASSUME NEW r \in Level, r # q
       PROVE  Queued(t, r) = Queued(s, r) /\ Linked(t, t.heads[r])
  <2>1. Linked(s, s.heads[r]) /\ s.heads[r] \in Ptr
    BY <1>0, <1>1 DEF QueuesOf
  <2>2. \A x \in Members(s.next, s.heads[r]) : t.next[x] = s.next[x] /\ t.prev[x] = s.prev[x]
    BY <1>11, <1>12, <1>13 DEF Queued
  <2>3. Members(t.next, s.heads[r]) = Members(s.next, s.heads[r]) /\ Linked(t, s.heads[r])
    BY <1>0, <1>4, <2>1, <2>2, LinkedFrame
  <2> QED
    BY <1>6, <1>13, <2>3 DEF Queued
<1>14. Sleepers(t) = Sleepers(s) /\ Linked(t, t.sleepq) /\ t.sleepq = s.sleepq
  <2>1. Linked(s, s.sleepq) /\ t.sleepq = s.sleepq
    BY <1>0, <1>5 DEF SleepersOf, SameBut
  <2>2. \A x \in Members(s.next, s.sleepq) : t.next[x] = s.next[x] /\ t.prev[x] = s.prev[x]
    BY <1>11, <1>12 DEF Sleepers
  <2>3. Members(t.next, s.sleepq) = Members(s.next, s.sleepq) /\ Linked(t, s.sleepq)
    BY <1>0, <1>1, <1>4, <2>1, <2>2, LinkedFrame
  <2> QED
    BY <2>1, <2>3 DEF Sleepers
<1>15. t.prio = s.prio /\ t.wake = s.wake /\ t.idle = s.idle
  BY <1>5 DEF SameBut
<1>16. QueuesOf(t)
  <2> SUFFICES ASSUME NEW r \in Level
               PROVE  /\ Linked(t, t.heads[r])
                      /\ \A x \in Queued(t, r) : t.state[x] = "READY" /\ Clamp(t.prio[x]) = r
    BY DEF QueuesOf
  <2>1. Queued(t, r) \subseteq Queued(s, r)
    BY <1>8, <1>13 DEF M
  <2> QED
    BY <1>0, <1>5, <1>10, <1>13, <1>15, <2>1 DEF QueuesOf
<1>17. SleepersOf(t)
  BY <1>0, <1>5, <1>11, <1>12, <1>14, <1>15 DEF SleepersOf
<1>18. FoundOf(t, p)
  <2> SUFFICES ASSUME NEW x \in Procs \ {t.idle, p}, t.state[x] = "READY"
               PROVE  x \in Queued(t, Clamp(t.prio[x]))
    BY DEF FoundOf
  <2>1. x \in Queued(s, Clamp(s.prio[x])) /\ Clamp(s.prio[x]) \in Level
    BY <1>0, <1>5, <1>15, PtrFacts, Fields, ClampLevel DEF FoundOf
  <2> QED
    BY <1>8, <1>13, <1>15, <2>1 DEF M
<1>19. TransitOf(t, p)
  <2>1. p \notin Sleepers(s) /\ \A r \in Level : r # q => p \notin Queued(s, r)
    BY <1>2, <1>12
  <2> QED
    BY <1>8, <1>13, <1>14, <2>1 DEF TransitOf
<1>20. LooseOf(t, p)
  <2> SUFFICES ASSUME NEW x \in Procs \ {p},
                      t.state[x] = "RUNNING" \/ (x = t.idle /\ x \notin Queued(t, IdlePrio))
               PROVE  t.next[x] = NULL /\ t.prev[x] = NULL
    BY DEF LooseOf
  <2>0. IdlePrio \in Level
    BY SizeAssumption DEF IdlePrio, Level
  <2>1. s.state[x] = "RUNNING" \/ (x = s.idle /\ x \notin Queued(s, IdlePrio))
    BY <1>5, <1>8, <1>13, <1>15, <2>0 DEF M
  <2>2. s.next[x] = NULL /\ s.prev[x] = NULL
    BY <1>0, <2>1, PtrFacts DEF LooseOf
  <2> QED
    BY <1>5, <2>2
<1>21. IdleOf(t)
  BY <1>0, <1>5, <1>15 DEF IdleOf
<1> QED
  BY <1>0, <1>4, <1>5, <1>6, <1>14, <1>16, <1>17, <1>18, <1>19, <1>20, <1>21 DEF Core, t

-----------------------------------------------------------------------------
(***************************************************************************)
(* schedule.                                                               *)
(***************************************************************************)

LEMMA IdleLevel == IdlePrio \in Level
BY SizeAssumption DEF IdlePrio, Level

LEMMA HeadOfQueued ==
    ASSUME NEW s \in KernelState, NEW q \in Level, NEW x \in Queued(s, q)
    PROVE  s.heads[q] # NULL
<1>1. s.next \in Links
  BY Fields
<1>2. Members(s.next, NULL) = {}
  BY <1>1, MembersOfNull
<1> QED
  BY <1>2 DEF Queued

\* A ready process other than idle makes its level's bit set.
LEMMA ReadyBit ==
    ASSUME NEW s, Core(s, NULL), NEW x \in Procs \ {s.idle}, s.state[x] = "READY"
    PROVE  Clamp(s.prio[x]) \in s.bitmap
<1>1. s \in KernelState /\ FoundOf(s, NULL) /\ BitmapOf(s)
  BY DEF Core
<1>2. x \in Members(s.next, s.heads[Clamp(s.prio[x])]) /\ Clamp(s.prio[x]) \in Level
  BY <1>1, PtrFacts, Fields, ClampLevel DEF FoundOf, Queued
<1>3. s.next \in Links
  BY <1>1, Fields
<1>4. s.heads[Clamp(s.prio[x])] # NULL
  BY <1>2, <1>3, MembersOfNull
<1> QED
  BY <1>1, <1>2, <1>4 DEF BitmapOf

\* The process find_next_process selects.
LEMMA FindNextCore ==
    ASSUME NEW s, Core(s, NULL)
    PROVE  LET n == FindNext(s)
           IN /\ n \in Procs /\ s.state[n] # "UNUSED"
              /\ \/ n = s.idle /\ s.bitmap = {}
                 \/ /\ s.bitmap # {} /\ s.state[n] = "READY"
                    /\ \E q \in s.bitmap : /\ n = s.heads[q] /\ Clamp(s.prio[n]) = q
                                           /\ \A r \in s.bitmap : q <= r
              /\ \A x \in Procs \ {s.idle} :
                    s.state[x] = "READY" => Clamp(s.prio[n]) <= Clamp(s.prio[x])
<1> DEFINE n == FindNext(s)
<1>0. s \in KernelState /\ BitmapOf(s) /\ QueuesOf(s) /\ IdleOf(s)
  BY DEF Core
<1>1. CASE s.bitmap = {}
  <2>1. n = s.idle
    BY <1>0, <1>1, FindNextType
  <2>2. \A x \in Procs \ {s.idle} : s.state[x] # "READY"
    BY <1>1, ReadyBit
  <2> QED
    BY <1>0, <1>1, <2>1, <2>2 DEF IdleOf
<1>2. CASE s.bitmap # {}
  <2>1. PICK q \in s.bitmap : n = s.heads[q] /\ \A r \in s.bitmap : q <= r
    BY <1>0, <1>2, FindNextType
  <2>2. q \in Level /\ s.heads[q] \in Ptr /\ s.next \in Links
    BY <1>0, <2>1, Fields
  <2>3. s.heads[q] # NULL
    BY <1>0, <2>1, <2>2 DEF BitmapOf
  <2>4. s.heads[q] \in Procs /\ s.heads[q] \in Queued(s, q)
    BY <2>2, <2>3, PtrFacts, MembersStep DEF Queued
  <2>5. s.state[n] = "READY" /\ Clamp(s.prio[n]) = q
    BY <1>0, <2>1, <2>2, <2>4 DEF QueuesOf
  <2>6. \A x \in Procs \ {s.idle} : s.state[x] = "READY" => q <= Clamp(s.prio[x])
    BY <2>1, ReadyBit
  <2> HIDE DEF n
  <2> QED
    BY <1>2, <2>1, <2>4, <2>5, <2>6 DEF n
<1> QED
  BY <1>1, <1>2

\* The outgoing process, still running, goes to the end of its queue.
LEMMA PutCore ==
    ASSUME NEW s, Core(s, NULL), NEW c \in Procs, s.state[c] = "RUNNING"
    PROVE  LET t == Add([s EXCEPT !.state[c] = "READY"], c)
           IN /\ Core(t, NULL) /\ SameBut(s, t, c) /\ t.state[c] = "READY"
              /\ Sleepers(t) = Sleepers(s)
              /\ \A r \in Level : s.heads[r] # NULL \/ r # Clamp(s.prio[c])
                                     => t.heads[r] = s.heads[r]
              /\ t.heads[Clamp(s.prio[c])] # NULL
<1> DEFINE m == [s EXCEPT !.state[c] = "READY"]
<1>0. s \in KernelState /\ BitmapOf(s) /\ ~s.hung /\ IdleOf(s)
  BY DEF Core
<1>1. /\ m \in KernelState /\ m.heads = s.heads /\ m.bitmap = s.bitmap /\ m.hung = s.hung
      /\ SameBut(s, m, c) /\ m.next = s.next /\ m.prev = s.prev /\ m.state[c] = "READY"
  BY <1>0 DEF KernelState, SameBut, States
<1> HIDE DEF m
<1>2. /\ m.sleepq = s.sleepq /\ m.idle = s.idle /\ m.prio = s.prio /\ BitmapOf(m)
      /\ \A x \in Procs \ {c} : /\ m.state[x] = s.state[x] /\ m.prio[x] = s.prio[x]
                                /\ m.wake[x] = s.wake[x]
                                /\ m.next[x] = s.next[x] /\ m.prev[x] = s.prev[x]
  BY <1>0, <1>1 DEF SameBut, BitmapOf
<1>3. TransitOf(s, c)
  BY OffQueues
<1>4. /\ c = s.idle => m.state[c] \in {"READY", "RUNNING"} /\ Clamp(m.prio[c]) = IdlePrio
      /\ c # s.idle => m.state[c] = "UNUSED" \/ Clamp(m.prio[c]) # IdlePrio
  BY <1>0, <1>1, <1>2 DEF IdleOf
<1>5. Core(m, c) /\ Sleepers(m) = Sleepers(s)
  BY <1>0, <1>1, <1>2, <1>3, <1>4, Detached
<1>6. Core(Add(m, c), NULL)
  BY <1>1, <1>5, AddCore
<1>7. /\ SameBut(m, Add(m, c), c) /\ Add(m, c).state[c] = "READY"
      /\ Sleepers(Add(m, c)) = Sleepers(m)
      /\ \A r \in Level : m.heads[r] # NULL \/ r # Clamp(m.prio[c])
                             => Add(m, c).heads[r] = m.heads[r]
  BY <1>1, <1>5, AddQueues
<1>8. SameBut(s, Add(m, c), c)
  BY <1>1, <1>7 DEF SameBut
<1>9. Add(m, c).heads[Clamp(s.prio[c])] # NULL
  <2>1. Clamp(m.prio[c]) \in Level /\ Add(m, c) \in KernelState
    BY <1>1, <1>6, Fields, ClampLevel DEF Core
  <2>2. c \in Queued(Add(m, c), Clamp(m.prio[c]))
    BY <1>1, <1>5, <2>1, AddQueues
  <2> QED
    BY <1>2, <2>1, <2>2, HeadOfQueued
<1> QED
  BY <1>1, <1>2, <1>5, <1>6, <1>7, <1>8, <1>9 DEF m

\* The incoming process is on no queue and runs.
LEMMA DispatchCore ==
    ASSUME NEW g, NEW n \in Procs, Core(g, n), g.next[n] = NULL, g.prev[n] = NULL,
           g.state[n] # "UNUSED",
           NEW t \in KernelState, t.heads = g.heads, t.bitmap = g.bitmap, t.hung = g.hung,
           t.next = g.next, t.prev = g.prev, t.sleepq = g.sleepq, t.idle = g.idle,
           t.prio = g.prio, t.wake = g.wake, t.state[n] = "RUNNING",
           \A x \in Procs \ {n} : t.state[x] = g.state[x]
    PROVE  Core(t, NULL) /\ Sleepers(t) = Sleepers(g)
<1>0. g \in KernelState /\ BitmapOf(g) /\ ~g.hung /\ IdleOf(g) /\ TransitOf(g, n)
  BY DEF Core
<1>2. /\ n = g.idle => t.state[n] \in {"READY", "RUNNING"} /\ Clamp(t.prio[n]) = IdlePrio
      /\ n # g.idle => t.state[n] = "UNUSED" \/ Clamp(t.prio[n]) # IdlePrio
  BY <1>0 DEF IdleOf
<1>3. BitmapOf(t)
  BY <1>0 DEF BitmapOf
<1>4. Core(t, n) /\ Sleepers(t) = Sleepers(g)
  BY <1>0, <1>2, <1>3, Detached
<1>5. Core(t, NULL)
  BY <1>4, Settled
<1> QED
  BY <1>4, <1>5

\* Who may be current when schedule is called, and when it has returned.
MayLeave(s) ==
    s.current # NULL => /\ s.state[s.current] \in {"RUNNING", "BLOCKED"}
                        /\ s.current = s.idle => s.state[s.current] = "RUNNING"

CurrentOf(s) ==
    s.current # NULL => /\ s.state[s.current] \in {"RUNNING", "ZOMBIE"}
                        /\ s.current = s.idle => s.state[s.current] = "RUNNING"

\* A ready process other than the one dispatched stays ready, and the idle
\* process, the only one of its level, stays on its queue.
KeptOf(s, t) ==
    /\ t.idle = s.idle
    /\ \A x \in Procs \ {t.current} : s.state[x] = "READY" => t.state[x] = "READY"
    /\ s.heads[IdlePrio] # NULL /\ t.current # s.idle => t.heads[IdlePrio] # NULL

\* A running process that is switched away from is queued.
LeftOf(s, t) ==
    t.current # s.current /\ s.current # NULL /\ s.state[s.current] = "RUNNING" =>
       /\ t.state[s.current] = "READY"
       /\ s.current = s.idle => t.heads[IdlePrio] # NULL

\* schedule keeps the queues and dispatches a process of the best level among
\* the ready ones.
LEMMA ScheduleCore ==
    ASSUME NEW s, Core(s, NULL), MayLeave(s)
    PROVE  LET t == Schedule(s)
           IN /\ Core(t, NULL) /\ CurrentOf(t) /\ Sleepers(t) = Sleepers(s)
              /\ t.prio = s.prio /\ t.wake = s.wake /\ t.tick = s.tick /\ t.idle = s.idle
              /\ t.current # s.current =>
                   \A x \in Procs \ {s.idle} :
                      s.state[x] = "READY" => Clamp(s.prio[t.current]) <= Clamp(s.prio[x])
              /\ KeptOf(s, t) /\ LeftOf(s, t)
<1> DEFINE n == FindNext(s)
           c == s.current
           put == IF c # NULL /\ s.state[c] = "RUNNING"
                  THEN Add([s EXCEPT !.state[c] = "READY"], c) ELSE s
           got == Remove(put, n)
           t == Schedule(s)
<1>0. s \in KernelState /\ BitmapOf(s) /\ ~s.hung /\ IdleOf(s) /\ c \in Ptr
  BY Fields DEF Core
<1>1. /\ n \in Procs /\ s.state[n] # "UNUSED"
      /\ \/ n = s.idle /\ s.bitmap = {}
         \/ /\ s.bitmap # {} /\ s.state[n] = "READY"
            /\ \E q \in s.bitmap : n = s.heads[q] /\ Clamp(s.prio[n]) = q
      /\ \A x \in Procs \ {s.idle} :
            s.state[x] = "READY" => Clamp(s.prio[n]) <= Clamp(s.prio[x])
  BY FindNextCore
<1>2. t = IF n = NULL \/ n = c THEN s
          ELSE IF put.hung THEN put
          ELSE [got EXCEPT !.state[n] = "RUNNING", !.current = n]
  BY DEF Schedule
<1>3. /\ Core(put, NULL) /\ SameBut(s, put, c) /\ Sleepers(put) = Sleepers(s)
      /\ \A r \in Level : s.heads[r] # NULL \/ c = NULL \/ s.state[c] # "RUNNING"
                            \/ r # Clamp(s.prio[c]) => put.heads[r] = s.heads[r]
      /\ c # NULL /\ s.state[c] = "RUNNING" => /\ put.state[c] = "READY"
                                              /\ put.heads[Clamp(s.prio[c])] # NULL
  <2>1. CASE c # NULL /\ s.state[c] = "RUNNING"
    <3>1. c \in Procs
      BY <1>0, <2>1, PtrFacts
    <3>2. put = Add([s EXCEPT !.state[c] = "READY"], c)
      BY <2>1
    <3> HIDE DEF put, c
    <3> QED
      BY <2>1, <3>1, <3>2, PutCore
  <2>2. CASE ~(c # NULL /\ s.state[c] = "RUNNING")
    BY <2>2 DEF SameBut
  <2> QED
    BY <2>1, <2>2
<1> HIDE DEF n, c, put, got, t
<1>4. CASE n = c
  <2>1. t = s /\ t.current = s.current
    BY <1>2, <1>4
  <2>2. s.current # NULL => s.state[s.current] = "RUNNING"
    BY <1>0, <1>1, <1>4 DEF c, IdleOf, MayLeave
  <2> QED
    BY <2>1, <2>2 DEF CurrentOf, KeptOf, LeftOf, t
<1>5. CASE n # c
  <2>1. ~put.hung /\ n # NULL
    BY <1>1, <1>3, PtrFacts DEF Core
  <2>2. t = [got EXCEPT !.state[n] = "RUNNING", !.current = n]
    BY <1>2, <1>5, <2>1
  <2>3. put.state[n] # "UNUSED" /\ put.prio = s.prio /\ put.idle = s.idle /\ put.tick = s.tick
        /\ put.wake = s.wake /\ put.state[n] = s.state[n]
    BY <1>1, <1>3, <1>5 DEF SameBut
  <2>4. /\ Core(got, n) /\ SameBut(put, got, n) /\ got.state = put.state
        /\ got.next[n] = NULL /\ got.prev[n] = NULL
        /\ Sleepers(got) = Sleepers(put)
        /\ n # s.idle => got.heads[IdlePrio] = put.heads[IdlePrio]
    <3>1. CASE s.bitmap # {}
      <4>1. PICK q \in s.bitmap : n = s.heads[q] /\ Clamp(s.prio[n]) = q
        BY <1>1, <3>1
      <4>2. q \in Level /\ s.heads[q] # NULL
        BY <1>0, <4>1, Fields DEF BitmapOf
      <4>3. put.heads[q] = n
        BY <1>3, <4>1, <4>2
      <4>4. n # s.idle => q # IdlePrio
        BY <1>0, <1>1, <4>1 DEF IdleOf
      <4> QED
        BY <1>1, <1>3, <4>2, <4>3, <4>4, RemoveHead, IdleLevel DEF got
    <3>2. CASE s.bitmap = {}
      <4>1. n = s.idle /\ Clamp(s.prio[n]) = IdlePrio
        BY <1>0, <1>1, <3>2 DEF IdleOf
      <4>2. IdlePrio \in Level
        BY SizeAssumption DEF IdlePrio, Level
      <4>3. s.heads[IdlePrio] = NULL
        BY <1>0, <3>2, <4>2 DEF BitmapOf
      <4>4. c = NULL \/ s.state[c] # "RUNNING" \/ IdlePrio # Clamp(s.prio[c])
        BY <1>0, <1>5, <4>1, PtrFacts DEF IdleOf
      <4>5. put.heads[IdlePrio] = NULL
        BY <1>3, <4>2, <4>3, <4>4
      <4>6. Queued(put, IdlePrio) = {}
        BY <1>3, <4>5, Fields, MembersOfNull DEF Core, Queued
      <4>7. put.state[n] \in {"READY", "RUNNING"} /\ Clamp(put.prio[n]) = IdlePrio
        BY <1>0, <2>3, <4>1 DEF IdleOf
      <4>8. TransitOf(put, n)
        BY <1>3, <4>2, <4>6, <4>7 DEF Core, QueuesOf, SleepersOf, TransitOf
      <4>9. put.next[n] = NULL /\ put.prev[n] = NULL
        BY <1>1, <1>3, <2>3, <4>1, <4>6, PtrFacts DEF Core, LooseOf
      <4>10. put.heads[Clamp(put.prio[n])] = NULL
        BY <4>5, <4>7
      <4> QED
        BY <1>1, <1>3, <4>8, <4>9, <4>10, RemoveLoose DEF got
    <3> QED
      BY <3>1, <3>2
  <2>5. got.state[n] # "UNUSED"
    BY <2>3, <2>4
  <2>6. /\ Core(t, NULL) /\ Sleepers(t) = Sleepers(got)
        /\ t.current = n /\ t.state[n] = "RUNNING"
        /\ t.idle = got.idle /\ t.prio = got.prio /\ t.wake = got.wake /\ t.tick = got.tick
        /\ t.heads = got.heads /\ \A x \in Procs \ {n} : t.state[x] = got.state[x]
    <3>1. /\ Core(got, n) /\ got.next[n] = NULL /\ got.prev[n] = NULL
          /\ got \in KernelState /\ n \in Procs
      BY <1>1, <2>4 DEF Core
    <3>2. /\ t \in KernelState /\ t.heads = got.heads /\ t.bitmap = got.bitmap
          /\ t.hung = got.hung /\ t.next = got.next /\ t.prev = got.prev
          /\ t.sleepq = got.sleepq /\ t.tick = got.tick /\ t.idle = got.idle
          /\ t.prio = got.prio /\ t.wake = got.wake
          /\ t.current = n /\ t.state[n] = "RUNNING"
          /\ \A x \in Procs \ {n} : t.state[x] = got.state[x]
      BY <2>2, <3>1, PtrFacts DEF KernelState, States
    <3> QED
      BY <2>5, <3>1, <3>2, DispatchCore
  <2>7. t.idle = s.idle /\ t.prio = s.prio /\ t.wake = s.wake /\ t.tick = s.tick
    BY <2>3, <2>4, <2>6 DEF SameBut
  <2>8. CurrentOf(t)
    BY <2>6 DEF CurrentOf
  <2>9. t.heads = got.heads /\ \A x \in Procs \ {n} : t.state[x] = got.state[x]
    BY <2>6
  <2>10. KeptOf(s, t)
    <3>1. ASSUME NEW x \in Procs \ {n}, s.state[x] = "READY" PROVE t.state[x] = "READY"
      <4>1. x # c
        BY <3>1, PtrFacts DEF MayLeave, c
      <4> QED
        BY <1>3, <2>4, <2>9, <3>1, <4>1 DEF SameBut
    <3>2. s.heads[IdlePrio] # NULL => put.heads[IdlePrio] # NULL
      BY <1>3, IdleLevel
    <3> QED
      BY <2>4, <2>6, <2>7, <2>9, <3>1, <3>2 DEF KeptOf
  <2>11. LeftOf(s, t)
    <3>1. c # NULL /\ s.state[c] = "RUNNING" => t.state[c] = "READY"
      BY <1>0, <1>3, <1>5, <2>4, <2>9, PtrFacts
    <3>2. c = s.idle /\ s.state[c] = "RUNNING" => t.heads[IdlePrio] # NULL
      BY <1>0, <1>3, <1>5, <2>4, <2>9, PtrFacts DEF IdleOf
    <3> QED
      BY <3>1, <3>2 DEF LeftOf, c
  <2> QED
    BY <1>1, <1>3, <2>4, <2>6, <2>7, <2>8, <2>10, <2>11 DEF t, c
<1> QED
  BY <1>4, <1>5

-----------------------------------------------------------------------------
(***************************************************************************)
(* scheduler_sleep and the wake-up loop.                                   *)
(***************************************************************************)

\* What an operation on the sleep queue leaves alone.
SameReady(s, t) ==
    /\ t.heads = s.heads /\ t.bitmap = s.bitmap /\ t.state = s.state /\ t.prio = s.prio
    /\ t.wake = s.wake /\ t.idle = s.idle /\ t.tick = s.tick /\ t.current = s.current
    /\ t.hung = s.hung

\* The assignments of the insertion in front and behind another sleeper.
LEMMA InsertFront ==
    ASSUME NEW s \in KernelState, NEW p \in Procs, s.sleepq # p,
           s.sleepq = NULL \/ s.wake[p] < s.wake[s.sleepq]
    PROVE  LET t == InsertSleeper(s, p)
           IN /\ t \in KernelState /\ SameReady(s, t) /\ t.sleepq = p
              /\ t.next[p] = s.sleepq /\ t.prev[p] = NULL
              /\ \A x \in Procs \ {p} : /\ t.next[x] = s.next[x]
                                        /\ t.prev[x] = IF x = s.sleepq THEN p ELSE s.prev[x]
<1> DEFINE h == s.sleepq
           a == [s EXCEPT !.next[p] = h, !.prev[p] = NULL]
           b == SetPrev(a, h, p)
           t == [b EXCEPT !.sleepq = p]
<1>1. InsertSleeper(s, p) = t
  BY DEF InsertSleeper
<1>2. h \in Ptr /\ p \in Ptr
  BY Fields, PtrFacts
<1> HIDE DEF h
<1>3. /\ a \in KernelState /\ SameReady(s, a) /\ a.next[p] = h /\ a.prev[p] = NULL
      /\ \A x \in Procs \ {p} : a.next[x] = s.next[x] /\ a.prev[x] = s.prev[x]
  BY <1>2, PtrFacts DEF KernelState, SameReady
<1> HIDE DEF a
<1>4. /\ b \in KernelState /\ SameReady(s, b) /\ b.next = a.next
      /\ \A x \in Procs : b.prev[x] = IF x = h THEN p ELSE a.prev[x]
  <2>1. CASE h = NULL
    BY <1>3, <2>1, PtrFacts DEF SetPrev
  <2>2. CASE h # NULL
    <3>1. h \in Procs /\ b = [a EXCEPT !.prev[h] = p]
      BY <1>2, <2>2, PtrFacts DEF SetPrev
    <3> HIDE DEF b
    <3> QED
      BY <1>2, <1>3, <3>1 DEF KernelState, SameReady
  <2> QED
    BY <2>1, <2>2
<1> HIDE DEF b
<1>5. t \in KernelState /\ SameReady(s, t) /\ t.sleepq = p /\ t.next = b.next /\ t.prev = b.prev
  BY <1>2, <1>4 DEF KernelState, SameReady
<1>6. h # p
  BY DEF h
<1> HIDE DEF t
<1> QED
  BY <1>1, <1>3, <1>4, <1>5, <1>6 DEF h

LEMMA InsertBehind ==
    ASSUME NEW s \in KernelState, NEW p \in Procs,
           s.sleepq # NULL, s.wake[p] >= s.wake[s.sleepq],
           NEW nx \in Links,
           \A x \in Procs : nx[x] = IF s.next[x] = NULL \/ s.wake[s.next[x]] > s.wake[p]
                                    THEN NULL ELSE s.next[x],
           Tails(nx, s.sleepq) # {},
           \A x \in Tails(nx, s.sleepq) : x # p /\ s.next[x] # p
    PROVE  LET t == InsertSleeper(s, p)
           IN /\ t \in KernelState /\ SameReady(s, t) /\ t.sleepq = s.sleepq
              /\ \E pos \in Tails(nx, s.sleepq) :
                    /\ t.next[pos] = p /\ t.next[p] = s.next[pos] /\ t.prev[p] = pos
                    /\ \A x \in Procs \ {p} :
                          /\ x # pos => t.next[x] = s.next[x]
                          /\ t.prev[x] = IF x = s.next[pos] THEN p ELSE s.prev[x]
<1> DEFINE Stop(x) == s.next[x] = NULL \/ s.wake[s.next[x]] > s.wake[p]
           stops == Tails([x \in Procs |-> IF Stop(x) THEN NULL ELSE s.next[x]], s.sleepq)
           pos == CHOOSE x \in stops : TRUE
           n == s.next[pos]
           a == [s EXCEPT !.next[p] = n, !.prev[p] = pos]
           b == SetPrev(a, n, p)
           t == [b EXCEPT !.next[pos] = p]
<1>1. nx = [x \in Procs |-> IF Stop(x) THEN NULL ELSE s.next[x]]
  BY DEF Links
<1>2. stops = Tails(nx, s.sleepq) /\ stops # {}
  BY <1>1
<1>3. pos \in stops
  BY <1>2
<1>4. pos \in Procs /\ pos # p /\ n # p
  BY <1>2, <1>3 DEF Tails, Members
<1>5. ~(s.sleepq = NULL \/ s.wake[p] < s.wake[s.sleepq])
  <2>1. s.wake[p] \in Nat /\ s.wake[s.sleepq] \in Nat
    BY Fields, PtrFacts
  <2> QED
    BY <2>1
<1>6. InsertSleeper(s, p) = t
  BY <1>2, <1>5 DEF InsertSleeper
<1> HIDE DEF stops, pos
<1>7. n \in Ptr /\ p \in Ptr /\ pos \in Ptr
  BY <1>4, Fields, PtrFacts DEF Links
<1>8. n = s.next[pos]
  OBVIOUS
<1> HIDE DEF n
<1>9. /\ a \in KernelState /\ SameReady(s, a) /\ a.sleepq = s.sleepq
      /\ a.next[p] = n /\ a.prev[p] = pos
      /\ \A x \in Procs \ {p} : a.next[x] = s.next[x] /\ a.prev[x] = s.prev[x]
  BY <1>7, PtrFacts DEF KernelState, SameReady
<1> HIDE DEF a
<1>10. /\ b \in KernelState /\ SameReady(s, b) /\ b.next = a.next /\ b.sleepq = s.sleepq
       /\ \A x \in Procs : b.prev[x] = IF x = n THEN p ELSE a.prev[x]
  <2>1. CASE n = NULL
    BY <1>9, <2>1, PtrFacts DEF SetPrev
  <2>2. CASE n # NULL
    <3>1. n \in Procs /\ b = [a EXCEPT !.prev[n] = p]
      BY <1>7, <2>2, PtrFacts DEF SetPrev
    <3> HIDE DEF b
    <3> QED
      BY <1>7, <1>9, <3>1 DEF KernelState, SameReady
  <2> QED
    BY <2>1, <2>2
<1> HIDE DEF b
<1>11. /\ t \in KernelState /\ SameReady(s, t) /\ t.sleepq = s.sleepq /\ t.prev = b.prev
       /\ t.next[pos] = p /\ \A x \in Procs \ {pos} : t.next[x] = b.next[x]
  BY <1>4, <1>7, <1>10 DEF KernelState, SameReady
<1> HIDE DEF t
<1>12. /\ t.next[pos] = p /\ t.next[p] = s.next[pos] /\ t.prev[p] = pos
       /\ \A x \in Procs \ {p} : /\ x # pos => t.next[x] = s.next[x]
                                 /\ t.prev[x] = IF x = s.next[pos] THEN p ELSE s.prev[x]
  BY <1>4, <1>8, <1>9, <1>10, <1>11
<1> QED
  BY <1>2, <1>3, <1>6, <1>11, <1>12

\* A change confined to the sleep queue and to a blocked process that goes on
\* it ends the transit of this process.
LEMMA SleepPut ==
    ASSUME NEW s, NEW p \in Procs, Core(s, p), s.state[p] = "BLOCKED",
           NEW t \in KernelState, SameReady(s, t),
           Sleepers(t) = Sleepers(s) \cup {p}, Linked(t, t.sleepq),
           \A x \in Sleepers(t) : t.next[x] # NULL => t.wake[x] <= t.wake[t.next[x]],
           \A x \in Procs \ (Sleepers(s) \cup {p}) :
              t.next[x] = s.next[x] /\ t.prev[x] = s.prev[x]
    PROVE  Core(t, NULL)
<1>0. /\ s \in KernelState /\ BitmapOf(s) /\ QueuesOf(s) /\ SleepersOf(s) /\ FoundOf(s, p)
      /\ TransitOf(s, p) /\ LooseOf(s, p) /\ IdleOf(s) /\ ~s.hung
  BY DEF Core
<1>1. /\ s.next \in Links /\ t.next \in Links /\ s.sleepq \in Ptr /\ t.sleepq \in Ptr
      /\ \A r \in Level : s.heads[r] \in Ptr
  BY <1>0, Fields
<1>2. /\ \A r \in Level : Queued(s, r) \subseteq Procs \ (Sleepers(s) \cup {p})
      /\ Sleepers(s) \subseteq Procs /\ Sleepers(t) \subseteq Procs
  <2>1. /\ \A r \in Level : Queued(s, r) \subseteq Procs
        /\ Sleepers(s) \subseteq Procs /\ Sleepers(t) \subseteq Procs
    BY <1>1, MembersClosed DEF Queued, Sleepers
  <2> QED
    BY <1>0, <2>1 DEF QueuesOf, SleepersOf, TransitOf
<1>3. ASSUME NEW r \in Level PROVE Queued(t, r) = Queued(s, r) /\ Linked(t, t.heads[r])
  <2>1. Linked(s, s.heads[r])
    BY <1>0 DEF QueuesOf
  <2>2. \A x \in Members(s.next, s.heads[r]) : t.next[x] = s.next[x] /\ t.prev[x] = s.prev[x]
    BY <1>2 DEF Queued
  <2>3. Members(t.next, s.heads[r]) = Members(s.next, s.heads[r]) /\ Linked(t, s.heads[r])
    BY <1>0, <1>1, <2>1, <2>2, LinkedFrame
  <2> QED
    BY <2>3 DEF Queued, SameReady
<1>4. BitmapOf(t) /\ IdleOf(t) /\ ~t.hung
  BY <1>0 DEF BitmapOf, IdleOf, SameReady
<1>5. QueuesOf(t)
  BY <1>0, <1>3 DEF QueuesOf, SameReady
<1>6. SleepersOf(t)
  BY <1>0 DEF SleepersOf, SameReady
<1>7. FoundOf(t, NULL)
  <2>1. \A x \in Procs : Clamp(s.prio[x]) \in Level
    BY <1>0, Fields, ClampLevel
  <2> QED
    BY <1>0, <1>3, <2>1 DEF FoundOf, SameReady
<1>8. TransitOf(t, NULL)
  BY <1>2, <1>3, PtrFacts DEF TransitOf
<1>9. LooseOf(t, NULL)
  <2> SUFFICES ASSUME NEW x \in Procs,
                      t.state[x] = "RUNNING" \/ (x = t.idle /\ x \notin Queued(t, IdlePrio))
               PROVE  t.next[x] = NULL /\ t.prev[x] = NULL
    BY DEF LooseOf
  <2>0. IdlePrio \in Level
    BY SizeAssumption DEF IdlePrio, Level
  <2>1. s.state[x] = "RUNNING" \/ (x = s.idle /\ x \notin Queued(s, IdlePrio))
    BY <1>3, <2>0 DEF SameReady
  <2>2. s.state[x] # "BLOCKED"
    BY <1>0, <2>1 DEF IdleOf
  <2>3. x \notin Sleepers(s) \cup {p}
    BY <1>0, <2>2 DEF SleepersOf
  <2> QED
    BY <1>0, <2>1, <2>3 DEF LooseOf
<1> QED
  BY <1>4, <1>5, <1>6, <1>7, <1>8, <1>9 DEF Core

\* scheduler_sleep's insertion keeps the sleep queue linked and sorted.
LEMMA InsertCore ==
    ASSUME NEW s, NEW p \in Procs, Core(s, p), s.state[p] = "BLOCKED"
    PROVE  LET t == InsertSleeper(s, p)
           IN /\ Core(t, NULL) /\ SameReady(s, t)
              /\ Sleepers(t) = Sleepers(s) \cup {p}
<1> DEFINE t == InsertSleeper(s, p)
           h == s.sleepq
           M == Sleepers(s)
<1>0. s \in KernelState /\ SleepersOf(s) /\ p \notin M
  BY DEF Core, TransitOf
<1>1. /\ s.next \in Links /\ s.prev \in Links /\ h \in Ptr /\ M \subseteq Procs
      /\ s.wake \in [Procs -> Nat]
  BY <1>0, Fields, MembersClosed DEF Sleepers
<1>2. /\ h # NULL => h \in M
      /\ \A x \in M : s.next[x] # NULL => s.next[x] \in M
  BY <1>1, MembersStep DEF Sleepers
<1>3. /\ h # NULL => s.prev[h] = NULL
      /\ \A x \in M : s.next[x] # NULL => /\ s.prev[s.next[x]] = x
                                          /\ s.wake[x] <= s.wake[s.next[x]]
  BY <1>0 DEF SleepersOf, Linked, Sleepers
<1>4. h # p
  BY <1>0, <1>2, PtrFacts
<1>5. CASE h = NULL \/ s.wake[p] < s.wake[h]
  <2>1. /\ t \in KernelState /\ SameReady(s, t) /\ t.sleepq = p
        /\ t.next[p] = h /\ t.prev[p] = NULL
        /\ \A x \in Procs \ {p} : /\ t.next[x] = s.next[x]
                                  /\ t.prev[x] = IF x = h THEN p ELSE s.prev[x]
    BY <1>0, <1>4, <1>5, InsertFront
  <2> HIDE DEF t, h
  <2>2. Members(t.next, p) = M \cup {p}
    <3>1. p \in Procs \ Members(s.next, h) /\ \A x \in Members(s.next, h) : t.next[x] = s.next[x]
      BY <1>0, <1>1, <2>1 DEF Sleepers, h
    <3>2. t.next \in Links
      BY <2>1, Fields
    <3>3. Members(t.next, p) = Members(s.next, h) \cup {p}
      BY <1>1, <2>1, <3>1, <3>2, MembersPush
    <3> QED
      BY <3>3 DEF Sleepers, h
  <2>3. Sleepers(t) = M \cup {p}
    BY <2>1, <2>2 DEF Sleepers
  <2> HIDE DEF M
  <2>4. ASSUME NEW x \in M \cup {p}, t.next[x] # NULL
        PROVE  t.prev[t.next[x]] = x /\ t.wake[x] <= t.wake[t.next[x]]
    <3>1. CASE x = p
      BY <1>0, <1>1, <1>2, <1>5, <2>1, <2>4, <3>1 DEF SameReady
    <3>2. CASE x # p
      <4>1. x \in M /\ t.next[x] = s.next[x] /\ s.next[x] \in M
        BY <1>1, <1>2, <2>1, <2>4, <3>2
      <4>2. s.next[x] # h /\ s.next[x] # p
        BY <1>0, <1>1, <1>3, <2>4, <4>1, PtrFacts
      <4> QED
        BY <1>1, <1>3, <2>1, <2>4, <4>1, <4>2 DEF SameReady
    <3> QED
      BY <3>1, <3>2
  <2>5. Linked(t, t.sleepq)
    BY <2>1, <2>2, <2>4 DEF Linked
  <2>6. \A x \in Procs \ (M \cup {p}) : t.next[x] = s.next[x] /\ t.prev[x] = s.prev[x]
    BY <1>2, <2>1, PtrFacts
  <2>7. Core(t, NULL)
    <3>1. \A x \in Sleepers(t) : t.next[x] # NULL => t.wake[x] <= t.wake[t.next[x]]
      BY <2>3, <2>4
    <3> QED
      BY <2>1, <2>3, <2>5, <2>6, <3>1, SleepPut DEF M
  <2> QED
    BY <2>1, <2>3, <2>7 DEF t, M
<1>6. CASE ~(h = NULL \/ s.wake[p] < s.wake[h])
  <2> DEFINE nx == [x \in Procs |-> IF s.next[x] = NULL \/ s.wake[s.next[x]] > s.wake[p]
                                    THEN NULL ELSE s.next[x]]
  <2>0. h \in Procs /\ s.wake[p] >= s.wake[h] /\ h \in M
    BY <1>1, <1>2, <1>6, PtrFacts
  <2>1. nx \in Links /\ \A x \in Procs : nx[x] = IF s.next[x] = NULL \/ s.wake[s.next[x]] > s.wake[p]
                                                 THEN NULL ELSE s.next[x]
    BY <1>1, PtrFacts DEF Links
  <2> HIDE DEF nx
  <2>2. Members(nx, h) \subseteq {x \in M : s.wake[x] <= s.wake[p]}
    <3> DEFINE W == {x \in M : s.wake[x] <= s.wake[p]}
    <3>1. W \in SUBSET Procs /\ h \in W
      BY <1>1, <2>0
    <3>2. ASSUME NEW x \in W PROVE nx[x] \in W \cup {NULL}
      <4>1. CASE s.next[x] = NULL \/ s.wake[s.next[x]] > s.wake[p]
        BY <1>1, <2>1, <4>1
      <4>2. CASE ~(s.next[x] = NULL \/ s.wake[s.next[x]] > s.wake[p])
        BY <1>1, <1>2, <2>1, <4>2
      <4> QED
        BY <4>1, <4>2
    <3>3. ClosedList(nx, h, W)
      BY <3>1, <3>2 DEF ClosedList
    <3> HIDE DEF W
    <3>4. Members(nx, h) \subseteq W
      BY <1>1, <2>1, <3>1, <3>3, MembersClosed
    <3> QED
      BY <3>4 DEF W
  <2>3. Tails(nx, h) # {}
    <3>1. \A x \in Members(nx, h) : nx[x] # NULL => s.prev[nx[x]] = x
      BY <1>1, <1>3, <2>1, <2>2
    <3>2. s.prev[h] = NULL
      BY <1>3, <1>6
    <3> HIDE DEF h
    <3> QED
      BY <1>1, <2>0, <2>1, <3>1, <3>2, TailExists
  <2>4. \A x \in Tails(nx, h) : /\ x \in M /\ s.wake[x] <= s.wake[p]
                                /\ s.next[x] # NULL => s.wake[s.next[x]] > s.wake[p]
                                /\ x # p /\ s.next[x] # p
    BY <1>0, <1>1, <1>2, <2>1, <2>2, PtrFacts DEF Tails
  <2>5. /\ t \in KernelState /\ SameReady(s, t) /\ t.sleepq = h
        /\ \E pos \in Tails(nx, h) :
                    /\ t.next[pos] = p /\ t.next[p] = s.next[pos] /\ t.prev[p] = pos
                    /\ \A x \in Procs \ {p} :
                          /\ x # pos => t.next[x] = s.next[x]
                          /\ t.prev[x] = IF x = s.next[pos] THEN p ELSE s.prev[x]
    BY <1>0, <1>6, <2>0, <2>1, <2>3, <2>4, InsertBehind
  <2>6. PICK pos \in Tails(nx, h) :
                    /\ t.next[pos] = p /\ t.next[p] = s.next[pos] /\ t.prev[p] = pos
                    /\ \A x \in Procs \ {p} :
                          /\ x # pos => t.next[x] = s.next[x]
                          /\ t.prev[x] = IF x = s.next[pos] THEN p ELSE s.prev[x]
    BY <2>5
  <2>7. /\ pos \in M /\ s.wake[pos] <= s.wake[p] /\ pos # p /\ s.next[pos] # p
        /\ s.next[pos] # NULL => s.wake[s.next[pos]] > s.wake[p]
    BY <2>4
  <2> HIDE DEF t, h
  <2>8. Members(t.next, h) = M \cup {p}
    <3>1. /\ pos \in Members(s.next, h) /\ p \in Procs \ Members(s.next, h)
          /\ \A x \in Members(s.next, h) \ {pos} : t.next[x] = s.next[x]
      BY <1>0, <1>1, <2>6, <2>7 DEF Sleepers, h
    <3>2. t.next \in Links /\ t.next[pos] = p /\ t.next[p] = s.next[pos]
      BY <2>5, <2>6, Fields
    <3>3. Members(t.next, h) = Members(s.next, h) \cup {p}
      BY <1>1, <3>1, <3>2, MembersInsert
    <3> QED
      BY <3>3 DEF Sleepers, h
  <2>9. Sleepers(t) = M \cup {p}
    BY <2>5, <2>8 DEF Sleepers
  <2> HIDE DEF M
  <2>10. ASSUME NEW x \in M \cup {p}, t.next[x] # NULL
         PROVE  t.prev[t.next[x]] = x /\ t.wake[x] <= t.wake[t.next[x]]
    <3>0. t.wake = s.wake
      BY <2>5 DEF SameReady
    <3>1. CASE x = p
      <4>1. t.next[x] = s.next[pos] /\ s.next[pos] \in M /\ s.next[pos] # p
        BY <1>0, <1>2, <2>6, <2>7, <2>10, <3>1
      <4> QED
        BY <1>1, <2>6, <2>7, <2>10, <3>0, <3>1, <4>1
    <3>2. CASE x = pos
      BY <1>1, <2>6, <2>7, <3>0, <3>2
    <3>3. CASE x # p /\ x # pos
      <4>1. x \in M /\ t.next[x] = s.next[x] /\ s.next[x] \in M /\ s.prev[s.next[x]] = x
        BY <1>1, <1>2, <1>3, <2>6, <2>10, <3>3
      <4>2. s.next[x] # p
        BY <1>0, <4>1
      <4>3. s.next[x] # s.next[pos]
        BY <1>3, <2>7, <2>10, <3>3, <4>1
      <4> QED
        BY <1>1, <1>3, <2>6, <2>10, <3>0, <4>1, <4>2, <4>3
    <3> QED
      BY <3>1, <3>2, <3>3
  <2>11. t.prev[h] = NULL
    <3>1. s.prev[h] = NULL /\ h \in Procs /\ h # p
      BY <1>3, <1>4, <2>0, PtrFacts
    <3>2. h # s.next[pos]
      BY <1>1, <1>3, <2>7, <3>1, PtrFacts
    <3> QED
      BY <2>6, <3>1, <3>2
  <2>12. Linked(t, t.sleepq)
    BY <2>5, <2>8, <2>10, <2>11 DEF Linked
  <2>13. \A x \in Procs \ (M \cup {p}) : t.next[x] = s.next[x] /\ t.prev[x] = s.prev[x]
    BY <1>2, <2>6, <2>7, PtrFacts
  <2>14. Core(t, NULL)
    <3>1. \A x \in Sleepers(t) : t.next[x] # NULL => t.wake[x] <= t.wake[t.next[x]]
      BY <2>9, <2>10
    <3> QED
      BY <2>5, <2>9, <2>12, <2>13, <3>1, SleepPut DEF M
  <2> QED
    BY <2>5, <2>9, <2>14 DEF t, M
<1> QED
  BY <1>5, <1>6

\* The head of the sleep queue is taken off.
LEMMA PopSleeper ==
    ASSUME NEW s, Core(s, NULL), NEW p \in Procs, p = s.sleepq,
           NEW t \in KernelState, SameReady(s, t), t.sleepq = s.next[p],
           t.next[p] = NULL, t.prev[p] = NULL,
           \A x \in Procs \ {p} : /\ t.next[x] = s.next[x]
                                  /\ t.prev[x] = IF x = s.next[p] THEN NULL ELSE s.prev[x]
    PROVE  Core(t, p) /\ Sleepers(t) = Sleepers(s) \ {p} /\ s.state[p] = "BLOCKED"
<1> DEFINE n == s.next[p]
           M == Sleepers(s)
<1>0. /\ s \in KernelState /\ BitmapOf(s) /\ QueuesOf(s) /\ SleepersOf(s) /\ FoundOf(s, NULL)
      /\ LooseOf(s, NULL) /\ IdleOf(s) /\ ~s.hung
  BY DEF Core
<1>1. /\ s.next \in Links /\ t.next \in Links /\ s.sleepq \in Ptr
      /\ \A r \in Level : s.heads[r] \in Ptr
  BY <1>0, Fields
<1>2. /\ p \in M /\ M \subseteq Procs
      /\ \A x \in M : s.next[x] # NULL => s.next[x] \in M
  BY <1>1, MembersStep, MembersClosed, PtrFacts DEF Sleepers
<1>3. /\ s.state[p] = "BLOCKED" /\ s.prev[p] = NULL
      /\ \A x \in M : s.next[x] # NULL => /\ s.prev[s.next[x]] = x
                                          /\ s.wake[x] <= s.wake[s.next[x]]
  BY <1>0, <1>2, PtrFacts DEF SleepersOf, Linked, Sleepers
<1>4. \A x \in M : s.next[x] # p
  BY <1>2, <1>3, PtrFacts
<1>5. Sleepers(t) = M \ {p}
  <2>1. ASSUME NEW h \in Procs, \A x \in Members(s.next, h) : s.next[x] # h,
               \A x \in Members(s.next, h) \ {h} : t.next[x] = s.next[x]
        PROVE  Members(t.next, s.next[h]) = Members(s.next, h) \ {h}
    BY <1>1, <2>1, MembersPop
  <2>2. M = Members(s.next, p) /\ Sleepers(t) = Members(t.next, s.next[p])
    BY DEF Sleepers
  <2> QED
    BY <1>2, <1>4, <2>1, <2>2
<1>6. n # NULL => n \in M \ {p}
  BY <1>2, <1>4
<1>7. Linked(t, t.sleepq)
  <2>1. n # NULL => t.prev[n] = NULL
    BY <1>2, <1>6
  <2>2. ASSUME NEW x \in M \ {p}, t.next[x] # NULL PROVE t.prev[t.next[x]] = x
    <3>1. t.next[x] = s.next[x] /\ s.next[x] \in M /\ s.next[x] # p /\ s.prev[s.next[x]] = x
      BY <1>2, <1>3, <1>4, <2>2
    <3>2. s.next[x] # n
      BY <1>2, <1>3, <2>2, <3>1
    <3> QED
      BY <1>2, <3>1, <3>2
  <2>3. Members(t.next, t.sleepq) = M \ {p} /\ t.sleepq = n
    BY <1>5 DEF Sleepers
  <2> HIDE DEF M, n
  <2> QED
    BY <2>1, <2>2, <2>3 DEF Linked
<1>8. \A x \in Procs \ M : t.next[x] = s.next[x] /\ t.prev[x] = s.prev[x]
  BY <1>2, <1>6, PtrFacts
<1>9. \A r \in Level : Queued(s, r) \subseteq Procs \ M
  <2>1. \A r \in Level : Queued(s, r) \subseteq Procs
    BY <1>1, MembersClosed DEF Queued
  <2> QED
    BY <1>0, <2>1 DEF QueuesOf, SleepersOf
<1> HIDE DEF M, n
<1>10. ASSUME NEW r \in Level PROVE Queued(t, r) = Queued(s, r) /\ Linked(t, t.heads[r])
  <2>1. Linked(s, s.heads[r]) /\ t.heads = s.heads
    BY <1>0 DEF QueuesOf, SameReady
  <2>2. \A x \in Members(s.next, s.heads[r]) : t.next[x] = s.next[x] /\ t.prev[x] = s.prev[x]
    BY <1>8, <1>9 DEF Queued
  <2>3. Members(t.next, s.heads[r]) = Members(s.next, s.heads[r]) /\ Linked(t, s.heads[r])
    BY <1>0, <1>1, <2>1, <2>2, LinkedFrame
  <2> QED
    BY <2>1, <2>3 DEF Queued
<1>11. BitmapOf(t) /\ IdleOf(t) /\ ~t.hung
  BY <1>0 DEF BitmapOf, IdleOf, SameReady
<1>12. QueuesOf(t)
  BY <1>0, <1>10 DEF QueuesOf, SameReady
<1>13. SleepersOf(t)
  BY <1>0, <1>2, <1>3, <1>5, <1>7 DEF SleepersOf, SameReady, M
<1>14. FoundOf(t, p)
  <2>1. \A x \in Procs : Clamp(s.prio[x]) \in Level
    BY <1>0, Fields, ClampLevel
  <2> QED
    BY <1>0, <1>10, <2>1, PtrFacts DEF FoundOf, SameReady
<1>15. TransitOf(t, p)
  BY <1>2, <1>5, <1>9, <1>10 DEF TransitOf
<1>16. LooseOf(t, p)
  <2> SUFFICES ASSUME NEW x \in Procs \ {p},
                      t.state[x] = "RUNNING" \/ (x = t.idle /\ x \notin Queued(t, IdlePrio))
               PROVE  t.next[x] = NULL /\ t.prev[x] = NULL
    BY DEF LooseOf
  <2>0. IdlePrio \in Level
    BY SizeAssumption DEF IdlePrio, Level
  <2>1. s.state[x] = "RUNNING" \/ (x = s.idle /\ x \notin Queued(s, IdlePrio))
    BY <1>10, <2>0 DEF SameReady
  <2>2. s.next[x] = NULL /\ s.prev[x] = NULL
    BY <1>0, <2>1, PtrFacts DEF LooseOf
  <2> QED
    BY <2>2
<1> QED
  BY <1>3, <1>5, <1>11, <1>12, <1>13, <1>14, <1>15, <1>16 DEF Core, M

\* One iteration of the wake-up loop moves the first sleeper to its ready queue.
LEMMA WakeHeadCore ==
    ASSUME NEW s, Core(s, NULL), s.sleepq # NULL
    PROVE  LET t == WakeHead(s)
           IN /\ Core(t, NULL) /\ SameBut([s EXCEPT !.sleepq = t.sleepq], t, s.sleepq)
              /\ s.state[s.sleepq] = "BLOCKED" /\ s.sleepq \in Sleepers(s)
              /\ Sleepers(t) = Sleepers(s) \ {s.sleepq}
              /\ t.state[s.sleepq] = "READY"
              /\ s.heads[IdlePrio] # NULL => t.heads[IdlePrio] # NULL
<1> DEFINE p == s.sleepq
           n == s.next[p]
           a == [s EXCEPT !.sleepq = n]
           b == SetPrev(a, n, NULL)
           u == [b EXCEPT !.next[p] = NULL, !.prev[p] = NULL]
           t == Add(u, p)
<1>0. s \in KernelState /\ p \in Procs
  BY Fields, PtrFacts DEF Core
<1>1. WakeHead(s) = t
  BY DEF WakeHead
<1>2. n \in Ptr /\ NULL \in Ptr
  BY <1>0, Fields, PtrFacts DEF Links
<1>3. n = s.next[p] /\ p = s.sleepq
  OBVIOUS
<1> HIDE DEF n, p
<1>4. /\ a \in KernelState /\ SameReady(s, a) /\ a.sleepq = n /\ a.next = s.next /\ a.prev = s.prev
  BY <1>0, <1>2 DEF KernelState, SameReady
<1> HIDE DEF a
<1>5. /\ b \in KernelState /\ SameReady(s, b) /\ b.sleepq = n /\ b.next = s.next
      /\ \A x \in Procs : b.prev[x] = IF x = n THEN NULL ELSE s.prev[x]
  <2>1. CASE n = NULL
    BY <1>4, <2>1, PtrFacts DEF SetPrev
  <2>2. CASE n # NULL
    <3>1. n \in Procs /\ b = [a EXCEPT !.prev[n] = NULL]
      BY <1>2, <2>2, PtrFacts DEF SetPrev
    <3> HIDE DEF b
    <3> QED
      BY <1>2, <1>4, <3>1 DEF KernelState, SameReady
  <2> QED
    BY <2>1, <2>2
<1> HIDE DEF b
<1>6. /\ u \in KernelState /\ SameReady(s, u) /\ u.sleepq = n
      /\ u.next[p] = NULL /\ u.prev[p] = NULL
      /\ \A x \in Procs \ {p} : /\ u.next[x] = s.next[x]
                                /\ u.prev[x] = IF x = n THEN NULL ELSE s.prev[x]
  BY <1>0, <1>2, <1>5 DEF KernelState, SameReady
<1> HIDE DEF u
<1>7. Core(u, p) /\ Sleepers(u) = Sleepers(s) \ {p} /\ s.state[p] = "BLOCKED"
  BY <1>0, <1>3, <1>6, PopSleeper
<1>8. u.state[p] # "UNUSED"
  BY <1>6, <1>7 DEF SameReady
<1>9. Core(t, NULL)
  BY <1>0, <1>7, <1>8, AddCore
<1>10. /\ SameBut(u, t, p) /\ Sleepers(t) = Sleepers(u) /\ t.state[p] = "READY"
       /\ u.heads[IdlePrio] # NULL => t.heads[IdlePrio] # NULL
  BY <1>0, <1>7, <1>8, AddQueues, IdleLevel
<1>11. p \in Sleepers(s)
  BY <1>0, <1>3, Fields, MembersStep, PtrFacts DEF Sleepers
<1> HIDE DEF t
<1>12. SameBut([s EXCEPT !.sleepq = t.sleepq], t, p)
  BY <1>0, <1>6, <1>10 DEF SameBut, SameReady, KernelState
<1>13. u.heads = s.heads
  BY <1>6 DEF SameReady
<1> QED
  BY <1>1, <1>3, <1>7, <1>9, <1>10, <1>11, <1>12, <1>13

-----------------------------------------------------------------------------
(***************************************************************************)
(* The calls.  SafeUse is how the queues may be used: the handles satisfy  *)
(* the contract, a thread waits only while no other thread of its level is *)
(* ready, the idle thread exists and has the lowest level for itself.      *)
(* NoWrap says that no wake-up time wraps around.                          *)
(***************************************************************************)

SafeUse ==
    /\ Contract /\ Alone /\ IdleOutcomes \subseteq {TRUE}
    /\ \A pr \in Priorities : Clamp(pr) # IdlePrio

NoWrap == \A d \in Delays \cup {0} : MaxTick + d < TickMod

\* Exactly the processes on the sleep queue have a deadline.
DeadlinesOf(s, dl) == \A p \in Procs : dl[p] # Awake <=> p \in Sleepers(s)

\* Their wake-up times are the deadlines themselves.
ClockOf(s, dl) == s.tick <= MaxTick /\ \A p \in Sleepers(s) : dl[p] = s.wake[p]

QInv ==
    /\ Core(k, NULL) /\ CurrentOf(k)
    /\ stage # "started" => k.current = NULL
    /\ deadline \in [Procs -> Int] /\ DeadlinesOf(k, deadline)
    /\ NoWrap => ClockOf(k, deadline)

\* The step from s to t dispatches nobody, or a process of the best level.
BestOf(s, t) ==
    t.current # s.current =>
       \A p \in Procs \ {s.idle} :
          s.state[p] = "READY" => Clamp(s.prio[t.current]) <= Clamp(s.prio[p])

StepOf(s, t) == BestOf(s, t) /\ KeptOf(s, t)

\* The queues do not depend on the time slices, the clock and current_process.
LEMMA CoreSame ==
    ASSUME NEW s, Core(s, NULL), NEW t \in KernelState,
           t.heads = s.heads, t.bitmap = s.bitmap, t.sleepq = s.sleepq, t.idle = s.idle,
           t.state = s.state, t.prio = s.prio, t.wake = s.wake, t.next = s.next,
           t.prev = s.prev, t.hung = s.hung
    PROVE  Core(t, NULL) /\ Sleepers(t) = Sleepers(s)
<1>1. Sleepers(t) = Sleepers(s) /\ \A q \in Level : Queued(t, q) = Queued(s, q)
  BY DEF Sleepers, Queued
<1>2. \A h : Linked(s, h) => Linked(t, h)
  BY DEF Linked
<1>3. BitmapOf(t) /\ FoundOf(t, NULL) /\ TransitOf(t, NULL) /\ IdleOf(t) /\ ~t.hung
  BY <1>1, ClampLevel, Fields DEF Core, BitmapOf, FoundOf, TransitOf, IdleOf
<1>4. LooseOf(t, NULL)
  <2>1. IdlePrio \in Level
    BY SizeAssumption DEF IdlePrio, Level
  <2> QED
    BY <1>1, <2>1 DEF Core, LooseOf
<1>5. QueuesOf(t) /\ SleepersOf(t)
  BY <1>1, <1>2 DEF Core, QueuesOf, SleepersOf
<1> QED
  BY <1>1, <1>3, <1>4, <1>5 DEF Core

\* A call that leaves the sleep queue and the clock alone keeps the deadlines.
LEMMA TimesKept ==
    ASSUME NEW s, NEW t, NEW dl, Sleepers(t) = Sleepers(s), t.tick = s.tick,
           \A x \in Sleepers(s) : t.wake[x] = s.wake[x],
           DeadlinesOf(s, dl), NoWrap => ClockOf(s, dl)
    PROVE  DeadlinesOf(t, dl) /\ (NoWrap => ClockOf(t, dl))
BY DEF DeadlinesOf, ClockOf

LEMMA StepKept ==
    ASSUME QInv, Core(k', NULL), CurrentOf(k'), Sleepers(k') = Sleepers(k),
           k'.tick = k.tick, \A x \in Sleepers(k) : k'.wake[x] = k.wake[x],
           deadline' = deadline, stage' # "started" => k'.current = NULL
    PROVE  QInv'
<1>1. DeadlinesOf(k', deadline) /\ (NoWrap => ClockOf(k', deadline))
  BY TimesKept DEF QInv
<1> QED
  BY <1>1 DEF QInv

\* The idle thread is the only process after scheduler_init.
LEMMA InitQueues ==
    ASSUME SafeUse, Init
    PROVE  QInv
<1> DEFINE new == Created(Empty, 1, IdlePrio)
<1>1. k = [new EXCEPT !.idle = 1] /\ k \in KernelState
  BY InitType DEF Init, SafeUse, TypeOK
<1>2. 1 \in Procs /\ IdlePrio \in Level /\ Clamp(IdlePrio) = IdlePrio
  BY SizeAssumption DEF Procs, IdlePrio, Level, Clamp
<1>3. /\ k.heads = [q \in Level |-> NULL] /\ k.bitmap = {} /\ k.sleepq = NULL
      /\ k.tick = 0 /\ k.current = NULL /\ k.idle = 1 /\ k.hung = FALSE
      /\ k.state = [[p \in Procs |-> "UNUSED"] EXCEPT ![1] = "READY"]
      /\ k.prio = [[p \in Procs |-> 0] EXCEPT ![1] = IdlePrio]
      /\ k.next = [[p \in Procs |-> NULL] EXCEPT ![1] = NULL]
      /\ k.prev = [[p \in Procs |-> NULL] EXCEPT ![1] = NULL]
  BY <1>1 DEF Created, Empty
<1>4. Sleepers(k) = {} /\ \A q \in Level : Queued(k, q) = {}
  <2>1. k.sleepq = NULL /\ \A q \in Level : k.heads[q] = NULL
    BY <1>3
  <2>2. Members(k.next, NULL) = {}
    <3>1. k \in KernelState
      BY <1>1
    <3>2. k.next \in Links
      BY <3>1, Fields
    <3> QED
      BY <3>2, MembersOfNull
  <2> QED
    BY <2>1, <2>2 DEF Sleepers, Queued
<1>5. BitmapOf(k) /\ ~k.hung /\ CurrentOf(k)
  BY <1>3 DEF BitmapOf, CurrentOf
<1>6. QueuesOf(k) /\ SleepersOf(k)
  <2>1. Linked(k, NULL)
    BY <1>1, Fields, MembersOfNull DEF Linked
  <2> QED
    BY <1>3, <1>4, <2>1 DEF QueuesOf, SleepersOf
<1>7. FoundOf(k, NULL) /\ TransitOf(k, NULL)
  BY <1>2, <1>3, <1>4 DEF FoundOf, TransitOf
<1>8. LooseOf(k, NULL) /\ IdleOf(k)
  BY <1>2, <1>3 DEF LooseOf, IdleOf
<1>9. deadline = [p \in Procs |-> Awake] /\ Awake \in Int
  BY DEF Init, Awake
<1>10. deadline \in [Procs -> Int] /\ DeadlinesOf(k, deadline) /\ ClockOf(k, deadline)
  BY <1>3, <1>4, <1>9, TimeAssumption DEF DeadlinesOf, ClockOf
<1> QED
  BY <1>1, <1>3, <1>5, <1>6, <1>7, <1>8, <1>10 DEF QInv, Core

\* process_create_kernel_thread and scheduler_add: the free slot is on no
\* queue, whatever links its last owner left behind.
LEMMA SpawnQueues ==
    ASSUME SafeUse, QInv, NEW pr \in Priorities, Spawn(pr)
    PROVE  QInv' /\ StepOf(k, k')
<1> DEFINE p == FreeSlot(k)
           new == Created(k, p, pr)
<1>0. Core(k, NULL) /\ k \in KernelState /\ BitmapOf(k) /\ ~k.hung /\ IdleOf(k) /\ CurrentOf(k)
  BY DEF QInv, Core
<1>1. p \in Procs /\ pr \in Int /\ k.state[p] = "UNUSED" /\ Clamp(pr) # IdlePrio
  BY <1>0, FreeSlotType, CallAssumption DEF Spawn, SafeUse
<1>2. k' = Add(new, p)
  BY DEF Spawn
<1> HIDE DEF p
<1>3. TransitOf(k, p) /\ p # k.idle /\ p # k.current
  <2>1. TransitOf(k, p)
    BY <1>0, <1>1, OffQueues
  <2>2. p # k.idle /\ p # k.current
    BY <1>0, <1>1, PtrFacts DEF IdleOf, CurrentOf
  <2> QED
    BY <2>1, <2>2
<1>4. /\ new \in KernelState /\ new.state[p] = "READY" /\ new.prio[p] = pr
      /\ new.heads = k.heads /\ new.bitmap = k.bitmap /\ new.sleepq = k.sleepq
      /\ new.idle = k.idle /\ new.hung = k.hung /\ new.tick = k.tick
      /\ new.current = k.current
      /\ \A x \in Procs \ {p} : /\ new.state[x] = k.state[x] /\ new.prio[x] = k.prio[x]
                                /\ new.wake[x] = k.wake[x]
                                /\ new.next[x] = k.next[x] /\ new.prev[x] = k.prev[x]
  <2>1. new = [k EXCEPT !.state[p] = "READY", !.prio[p] = pr, !.slice[p] = DefaultSlice,
                        !.wake[p] = 0, !.next[p] = NULL, !.prev[p] = NULL]
    BY DEF Created
  <2>2. new \in KernelState
    BY <1>0, <1>1, CreatedType
  <2> HIDE DEF new
  <2>3. /\ new.heads = k.heads /\ new.bitmap = k.bitmap /\ new.sleepq = k.sleepq
        /\ new.idle = k.idle /\ new.hung = k.hung /\ new.tick = k.tick
        /\ new.current = k.current
        /\ new.state = [k.state EXCEPT ![p] = "READY"]
        /\ new.prio = [k.prio EXCEPT ![p] = pr] /\ new.wake = [k.wake EXCEPT ![p] = 0]
        /\ new.next = [k.next EXCEPT ![p] = NULL] /\ new.prev = [k.prev EXCEPT ![p] = NULL]
    BY <1>0, <2>1 DEF KernelState
  <2>4. /\ k.state \in [Procs -> States] /\ k.prio \in [Procs -> Int]
        /\ k.wake \in [Procs -> Nat] /\ k.next \in [Procs -> Ptr] /\ k.prev \in [Procs -> Ptr]
    BY <1>0 DEF KernelState
  <2> QED
    BY <1>1, <2>2, <2>3, <2>4
<1> HIDE DEF new
<1>5. BitmapOf(new) /\ ~new.hung
  BY <1>0, <1>4 DEF BitmapOf
<1>6. Core(new, p) /\ Sleepers(new) = Sleepers(k)
  BY <1>0, <1>1, <1>3, <1>4, <1>5, Detached
<1>7. /\ Core(k', NULL) /\ SameBut(new, k', p) /\ Sleepers(k') = Sleepers(new)
      /\ k'.state[p] = "READY" /\ (new.heads[IdlePrio] # NULL => k'.heads[IdlePrio] # NULL)
  BY <1>1, <1>2, <1>4, <1>6, AddCore, AddQueues, IdleLevel
<1>8. p \notin Sleepers(k)
  BY <1>3 DEF TransitOf
<1>9. /\ k'.current = k.current /\ k'.idle = k.idle /\ k'.tick = k.tick
      /\ \A x \in Procs \ {p} : k'.state[x] = k.state[x] /\ k'.wake[x] = k.wake[x]
  BY <1>4, <1>7 DEF SameBut
<1>10. CurrentOf(k') /\ StepOf(k, k')
  <2>1. k.current \in Ptr
    BY <1>0, Fields
  <2> QED
    BY <1>0, <1>3, <1>4, <1>7, <1>9, <2>1, PtrFacts DEF CurrentOf, StepOf, BestOf, KeptOf
<1>11. \A x \in Sleepers(k) : k'.wake[x] = k.wake[x]
  <2>1. Sleepers(k) \subseteq Procs
    BY <1>0, Fields, MembersClosed DEF Sleepers
  <2> QED
    BY <1>8, <1>9, <2>1
<1>12. deadline' = deadline /\ (stage' # "started" => k'.current = NULL)
  BY <1>9 DEF Spawn, QInv
<1> QED
  BY <1>6, <1>7, <1>9, <1>10, <1>11, <1>12, StepKept

\* scheduler_start touches no queue.
LEMMA StartQueues ==
    ASSUME SafeUse, QInv, SchedulerStart
    PROVE  QInv' /\ StepOf(k, k')
<1>1. k' = k /\ deadline' = deadline /\ stage = "boot"
  BY DEF SchedulerStart
<1>2. k'.current = NULL
  BY <1>1 DEF QInv
<1> QED
  BY <1>1, <1>2 DEF QInv, StepOf, BestOf, KeptOf

\* The first schedule finds no current process.
LEMMA FirstQueues ==
    ASSUME SafeUse, QInv, FirstSchedule
    PROVE  QInv' /\ StepOf(k, k')
<1>1. k' = Schedule(k) /\ deadline' = deadline /\ stage = "armed" /\ stage' = "started"
  BY DEF FirstSchedule
<1>2. Core(k, NULL) /\ MayLeave(k)
  BY <1>1 DEF QInv, MayLeave
<1>3. /\ Core(k', NULL) /\ CurrentOf(k') /\ Sleepers(k') = Sleepers(k)
      /\ k'.wake = k.wake /\ k'.tick = k.tick /\ StepOf(k, k')
  BY <1>1, <1>2, ScheduleCore DEF StepOf, BestOf
<1> QED
  BY <1>1, <1>3, StepKept

\* The thread that runs is marked RUNNING, is on no queue and has no links.
LEMMA CallerLoose ==
    ASSUME QInv, ThreadRuns
    PROVE  /\ k.current \in Procs /\ k.current # k.idle
           /\ k.state[k.current] = "RUNNING" /\ TransitOf(k, k.current)
           /\ k.next[k.current] = NULL /\ k.prev[k.current] = NULL
           /\ stage = "started" /\ deadline[k.current] = Awake
<1>0. Core(k, NULL) /\ k \in KernelState /\ CurrentOf(k) /\ LooseOf(k, NULL)
  BY DEF QInv, Core
<1>1. k.current \in Procs /\ k.current # k.idle /\ k.state[k.current] = "RUNNING"
  BY <1>0, Fields, PtrFacts DEF ThreadRuns, CurrentOf
<1>2. TransitOf(k, k.current)
  BY <1>0, <1>1, OffQueues
<1>3. k.next[k.current] = NULL /\ k.prev[k.current] = NULL
  BY <1>0, <1>1, PtrFacts DEF LooseOf
<1>4. stage = "started" /\ deadline[k.current] = Awake
  BY <1>1, <1>2, PtrFacts DEF QInv, TransitOf, DeadlinesOf
<1> QED
  BY <1>1, <1>2, <1>3, <1>4

\* scheduler_yield: the caller goes to the end of its queue.
LEMMA YieldQueues ==
    ASSUME SafeUse, QInv, SchedulerYield
    PROVE  QInv' /\ StepOf(k, k')
<1> DEFINE s == [k EXCEPT !.slice[k.current] = 0]
<1>0. Core(k, NULL) /\ k \in KernelState
  BY DEF QInv, Core
<1>1. /\ k.current \in Procs /\ k.current # k.idle /\ k.state[k.current] = "RUNNING"
      /\ stage = "started"
  BY CallerLoose DEF SchedulerYield
<1>2. /\ s \in KernelState /\ s.heads = k.heads /\ s.bitmap = k.bitmap
      /\ s.sleepq = k.sleepq /\ s.idle = k.idle /\ s.state = k.state /\ s.prio = k.prio
      /\ s.wake = k.wake /\ s.next = k.next /\ s.prev = k.prev /\ s.hung = k.hung
      /\ s.current = k.current /\ s.tick = k.tick
  BY <1>0, <1>1 DEF KernelState
<1>3. k' = Schedule(s) /\ deadline' = deadline /\ stage' = stage
  BY DEF SchedulerYield
<1> HIDE DEF s
<1>4. Core(s, NULL) /\ Sleepers(s) = Sleepers(k)
  BY <1>0, <1>2, CoreSame
<1>5. MayLeave(s)
  BY <1>1, <1>2 DEF MayLeave
<1>6. /\ Core(k', NULL) /\ CurrentOf(k') /\ Sleepers(k') = Sleepers(k)
      /\ k'.wake = k.wake /\ k'.tick = k.tick /\ StepOf(s, k')
  BY <1>2, <1>3, <1>4, <1>5, ScheduleCore DEF StepOf, BestOf
<1>7. StepOf(k, k')
  BY <1>2, <1>6 DEF StepOf, BestOf, KeptOf
<1> QED
  BY <1>1, <1>3, <1>6, <1>7, StepKept

\* Marking the running thread BLOCKED and removing it, which finds no links
\* and an empty queue, puts it in transit.
LEMMA GiveUpQueues ==
    ASSUME Core(k, NULL), NEW c \in Procs, TransitOf(k, c), c # k.idle,
           k.state[c] = "RUNNING", k.next[c] = NULL, k.prev[c] = NULL,
           k.heads[Clamp(k.prio[c])] = NULL,
           NEW s \in KernelState, s.state[c] = "BLOCKED", s.heads = k.heads,
           s.bitmap = k.bitmap, s.sleepq = k.sleepq, s.idle = k.idle, s.hung = k.hung,
           s.current = k.current, s.tick = k.tick, s.prio = k.prio,
           s.next = k.next, s.prev = k.prev,
           \A x \in Procs \ {c} : s.state[x] = k.state[x] /\ s.wake[x] = k.wake[x]
    PROVE  LET t == Remove(s, c)
           IN /\ Core(t, c) /\ SameBut(s, t, c) /\ t.state = s.state
              /\ Sleepers(t) = Sleepers(k) /\ t.heads = k.heads
<1>0. /\ k \in KernelState /\ BitmapOf(k) /\ ~k.hung /\ IdleOf(k)
  BY DEF Core
<1>1. BitmapOf(s) /\ ~s.hung /\ Clamp(s.prio[c]) # IdlePrio
  BY <1>0 DEF BitmapOf, IdleOf
<1>2. Core(s, c) /\ Sleepers(s) = Sleepers(k)
  BY <1>0, <1>1, Detached
<1>3. TransitOf(s, c)
  BY <1>2 DEF Core
<1>4. s.next[c] = NULL /\ s.prev[c] = NULL /\ s.heads[Clamp(s.prio[c])] = NULL
  OBVIOUS
<1> QED
  BY <1>2, <1>3, <1>4, RemoveLoose

\* A schedule call made by a caller that has given up the CPU.
LEMMA LeaveQueues ==
    ASSUME Core(k, NULL), NEW c \in Procs, c = k.current, c # k.idle, k.state[c] = "RUNNING",
           NEW t, Core(t, NULL), t.current = k.current, t.idle = k.idle, t.prio = k.prio, t.heads = k.heads,
           t.state[c] = "BLOCKED", \A x \in Procs \ {c} : t.state[x] = k.state[x]
    PROVE  LET u == Schedule(t)
           IN /\ Core(u, NULL) /\ CurrentOf(u) /\ Sleepers(u) = Sleepers(t)
              /\ u.wake = t.wake /\ u.tick = t.tick /\ StepOf(k, u)
<1> DEFINE u == Schedule(t)
<1>1. MayLeave(t)
  BY DEF MayLeave
<1>2. /\ Core(u, NULL) /\ CurrentOf(u) /\ Sleepers(u) = Sleepers(t)
      /\ u.wake = t.wake /\ u.tick = t.tick
      /\ u.current # t.current =>
                   \A x \in Procs \ {t.idle} :
                      t.state[x] = "READY" => Clamp(t.prio[u.current]) <= Clamp(t.prio[x])
      /\ KeptOf(t, u)
  BY <1>1, ScheduleCore
<1> HIDE DEF u
<1>3. StepOf(k, u)
  <2>1. \A x \in Procs : k.state[x] = "READY" => t.state[x] = "READY"
    OBVIOUS
  <2> QED
    BY <1>2, <2>1 DEF StepOf, BestOf, KeptOf
<1> QED
  BY <1>2, <1>3 DEF u

\* scheduler_block applied to the caller.
LEMMA BlockQueues ==
    ASSUME SafeUse, QInv, NEW p \in Procs, SchedulerBlock(p)
    PROVE  QInv' /\ StepOf(k, k')
<1> DEFINE s == [k EXCEPT !.state[p] = "BLOCKED"]
           t == Remove(s, p)
<1>0. Core(k, NULL) /\ k \in KernelState
  BY DEF QInv, Core
<1>1. p = k.current /\ k.heads[Clamp(k.prio[p])] = NULL
  BY DEF SchedulerBlock, SafeUse, MayWait
<1>2. /\ p # k.idle /\ k.state[p] = "RUNNING" /\ TransitOf(k, p)
      /\ k.next[p] = NULL /\ k.prev[p] = NULL /\ stage = "started"
  BY <1>1, CallerLoose DEF SchedulerBlock
<1>3. /\ s \in KernelState /\ s.heads = k.heads /\ s.bitmap = k.bitmap
      /\ s.sleepq = k.sleepq /\ s.idle = k.idle /\ s.prio = k.prio /\ s.wake = k.wake
      /\ s.next = k.next /\ s.prev = k.prev /\ s.hung = k.hung
      /\ s.current = k.current /\ s.tick = k.tick
      /\ s.state = [k.state EXCEPT ![p] = "BLOCKED"]
  BY <1>0 DEF KernelState, States
<1>4. k' = Schedule(t) /\ deadline' = deadline /\ stage' = stage
  BY <1>1 DEF SchedulerBlock
<1> HIDE DEF s
<1>5. s.state[p] = "BLOCKED" /\ \A x \in Procs \ {p} : s.state[x] = k.state[x]
  BY <1>0, <1>3, StateFcn
<1>6. Core(t, p) /\ SameBut(s, t, p) /\ t.state = s.state /\ Sleepers(t) = Sleepers(k)
      /\ t.heads = k.heads
  BY <1>0, <1>1, <1>2, <1>3, <1>5, GiveUpQueues
<1> HIDE DEF t
<1>7. t.state[p] = "BLOCKED" /\ \A x \in Procs \ {p} : t.state[x] = k.state[x]
  BY <1>5, <1>6
<1>8. /\ t.current = k.current /\ t.idle = k.idle /\ t.prio = k.prio /\ t.wake = k.wake
      /\ t.tick = k.tick
  BY <1>3, <1>6 DEF SameBut
<1>9. Core(t, NULL)
  BY <1>2, <1>6, <1>7, <1>8, Settled
<1>10. /\ Core(k', NULL) /\ CurrentOf(k') /\ Sleepers(k') = Sleepers(k)
       /\ k'.wake = k.wake /\ k'.tick = k.tick /\ StepOf(k, k')
  BY <1>0, <1>1, <1>2, <1>4, <1>6, <1>7, <1>8, <1>9, LeaveQueues
<1> QED
  BY <1>2, <1>4, <1>10, StepKept

\* scheduler_sleep: the caller goes from no queue to its place in the sleep
\* queue.
LEMMA SleepQueues ==
    ASSUME SafeUse, QInv, NEW d \in Delays, SchedulerSleep(d)
    PROVE  QInv' /\ StepOf(k, k')
<1> DEFINE c == k.current
           w == (k.tick + d) % TickMod
           s == [k EXCEPT !.wake[c] = w, !.state[c] = "BLOCKED"]
           g == Remove(s, c)
           t == InsertSleeper(g, c)
<1>0. Core(k, NULL) /\ k \in KernelState /\ k.tick \in Nat
  BY Fields DEF QInv, Core
<1>1. /\ c \in Procs /\ c # k.idle /\ k.state[c] = "RUNNING" /\ TransitOf(k, c)
      /\ k.next[c] = NULL /\ k.prev[c] = NULL /\ stage = "started"
      /\ k.heads[Clamp(k.prio[c])] = NULL
  BY CallerLoose DEF SchedulerSleep, SafeUse, MayWait
<1>2. w \in Nat /\ d \in Nat
  BY <1>0, CallAssumption, TimeAssumption
<1>3. /\ k' = IF t.hung THEN t ELSE Schedule(t)
      /\ deadline' = [deadline EXCEPT ![c] = k.tick + d] /\ stage' = stage
  BY DEF SchedulerSleep
<1>w. NoWrap => w = k.tick + d
  <2>1. NoWrap => k.tick + d \in Nat /\ k.tick + d < TickMod
    BY <1>0, <1>2, TimeAssumption DEF NoWrap, QInv, ClockOf
  <2>2. \A a \in Nat : a < TickMod => a % TickMod = a
    BY TimeAssumption
  <2> QED
    BY <2>1, <2>2
<1> HIDE DEF w
<1>4. /\ s \in KernelState /\ s.heads = k.heads /\ s.bitmap = k.bitmap
      /\ s.sleepq = k.sleepq /\ s.idle = k.idle /\ s.prio = k.prio
      /\ s.next = k.next /\ s.prev = k.prev /\ s.hung = k.hung
      /\ s.current = k.current /\ s.tick = k.tick
      /\ s.state = [k.state EXCEPT ![c] = "BLOCKED"] /\ s.wake = [k.wake EXCEPT ![c] = w]
  BY <1>0, <1>1, <1>2 DEF KernelState, States
<1> HIDE DEF s
<1>5. /\ s.state[c] = "BLOCKED" /\ s.wake[c] = w
      /\ \A x \in Procs \ {c} : s.state[x] = k.state[x] /\ s.wake[x] = k.wake[x]
  BY <1>0, <1>1, <1>2, <1>4, Fields
<1>6. Core(g, c) /\ SameBut(s, g, c) /\ g.state = s.state /\ Sleepers(g) = Sleepers(k)
      /\ g.heads = k.heads
  BY <1>0, <1>1, <1>4, <1>5, GiveUpQueues
<1> HIDE DEF g
<1>7. Core(t, NULL) /\ SameReady(g, t) /\ Sleepers(t) = Sleepers(k) \cup {c}
  <2>1. g.state[c] = "BLOCKED"
    BY <1>5, <1>6
  <2> QED
    BY <1>1, <1>6, <2>1, InsertCore
<1> HIDE DEF t
<1>8. /\ t.current = k.current /\ t.idle = k.idle /\ t.prio = k.prio /\ t.tick = k.tick
      /\ t.wake = s.wake /\ t.state = s.state /\ t.heads = k.heads /\ ~t.hung
  BY <1>4, <1>6, <1>7 DEF SameBut, SameReady, Core
<1>9. t.state[c] = "BLOCKED" /\ \A x \in Procs \ {c} : t.state[x] = k.state[x]
  BY <1>5, <1>8
<1>10. /\ Core(k', NULL) /\ CurrentOf(k') /\ Sleepers(k') = Sleepers(k) \cup {c}
       /\ k'.wake = s.wake /\ k'.tick = k.tick /\ StepOf(k, k')
  <2>1. k' = Schedule(t)
    BY <1>3, <1>8
  <2>2. c = k.current
    OBVIOUS
  <2> HIDE DEF c
  <2> QED
    BY <1>0, <1>1, <1>7, <1>8, <1>9, <2>1, <2>2, LeaveQueues
<1> HIDE DEF c
<1>11. deadline \in [Procs -> Int] /\ deadline' \in [Procs -> Int]
  BY <1>0, <1>1, <1>2, <1>3 DEF QInv
<1>12. DeadlinesOf(k', deadline')
  <2>1. deadline'[c] # Awake /\ \A x \in Procs \ {c} : deadline'[x] = deadline[x]
    BY <1>0, <1>1, <1>2, <1>3, <1>11 DEF Awake
  <2> QED
    BY <1>10, <2>1 DEF QInv, DeadlinesOf
<1>13. NoWrap => ClockOf(k', deadline')
  <2>1. deadline'[c] = k.tick + d /\ \A x \in Procs \ {c} : deadline'[x] = deadline[x]
    BY <1>0, <1>1, <1>2, <1>3, <1>11
  <2>2. Sleepers(k) \subseteq Procs
    BY <1>0, Fields, MembersClosed DEF Sleepers
  <2>3. k'.wake[c] = w /\ \A x \in Procs \ {c} : k'.wake[x] = k.wake[x]
    BY <1>5, <1>10
  <2>4. c \notin Sleepers(k)
    BY <1>1 DEF TransitOf
  <2> QED
    BY <1>10, <1>w, <2>1, <2>2, <2>3, <2>4 DEF QInv, ClockOf
<1> QED
  BY <1>1, <1>3, <1>10, <1>11, <1>12, <1>13 DEF QInv

\* scheduler_unblock: a blocked process that is not asleep is on no queue.
LEMMA UnblockQueues ==
    ASSUME SafeUse, QInv, NEW p \in Procs, SchedulerUnblock(p)
    PROVE  QInv' /\ StepOf(k, k')
<1>0. /\ Core(k, NULL) /\ k \in KernelState /\ CurrentOf(k)
      /\ BitmapOf(k) /\ ~k.hung /\ IdleOf(k)
  BY DEF QInv, Core
<1>1. k.state[p] = "BLOCKED" /\ p \notin Sleepers(k) /\ k' = Add(k, p)
  BY DEF SchedulerUnblock, SafeUse, Waiting, QInv, DeadlinesOf
<1>2. TransitOf(k, p) /\ p # k.idle
  BY <1>0, <1>1, OffQueues DEF IdleOf
<1>3. Core(k, p)
  BY <1>0, <1>1, <1>2, Detached DEF IdleOf
<1>4. /\ Core(k', NULL) /\ SameBut(k, k', p) /\ Sleepers(k') = Sleepers(k)
      /\ k'.state[p] = "READY" /\ (k.heads[IdlePrio] # NULL => k'.heads[IdlePrio] # NULL)
  BY <1>1, <1>3, AddCore, AddQueues, IdleLevel
<1>5. CurrentOf(k') /\ StepOf(k, k')
  <2>1. k.current \in Ptr
    BY <1>0, Fields
  <2> QED
    BY <1>0, <1>1, <1>4, <2>1, PtrFacts DEF CurrentOf, StepOf, BestOf, KeptOf, SameBut
<1>6. k'.tick = k.tick /\ k'.wake = k.wake /\ k'.current = k.current
  BY <1>4 DEF SameBut
<1>7. deadline' = deadline /\ (stage' # "started" => k'.current = NULL)
  BY <1>6 DEF SchedulerUnblock, QInv
<1> QED
  BY <1>4, <1>5, <1>6, <1>7, StepKept

\* A process off the queues that is given up, dead or free, disturbs none.
LEMMA GoneQueues ==
    ASSUME QInv, NEW p \in Procs, TransitOf(k, p), p # k.idle,
           NEW st \in {"ZOMBIE", "UNUSED"}, k' = [k EXCEPT !.state[p] = st],
           st = "UNUSED" => p # k.current,
           deadline' = deadline, stage' = stage, k.state[p] \in {"RUNNING", "BLOCKED"}
    PROVE  QInv' /\ StepOf(k, k')
<1> DEFINE t == [k EXCEPT !.state[p] = st]
<1>0. /\ Core(k, NULL) /\ k \in KernelState /\ CurrentOf(k)
      /\ BitmapOf(k) /\ ~k.hung /\ IdleOf(k)
  BY DEF QInv, Core
<1>1. /\ t \in KernelState /\ t.heads = k.heads /\ t.bitmap = k.bitmap
      /\ t.sleepq = k.sleepq /\ t.idle = k.idle /\ t.prio = k.prio /\ t.wake = k.wake
      /\ t.next = k.next /\ t.prev = k.prev /\ t.hung = k.hung
      /\ t.current = k.current /\ t.tick = k.tick
      /\ t.state = [k.state EXCEPT ![p] = st]
  BY <1>0 DEF KernelState, States
<1> HIDE DEF t
<1>2. t.state[p] = st /\ \A x \in Procs \ {p} : t.state[x] = k.state[x]
  BY <1>0, <1>1, StateFcn
<1>3. BitmapOf(t) /\ ~t.hung /\ Clamp(t.prio[p]) # IdlePrio
  BY <1>0, <1>1 DEF BitmapOf, IdleOf
<1>4. Core(t, p) /\ Sleepers(t) = Sleepers(k)
  <2>1. \A x \in Procs \ {p} : /\ t.state[x] = k.state[x] /\ t.prio[x] = k.prio[x]
                               /\ t.wake[x] = k.wake[x]
                               /\ t.next[x] = k.next[x] /\ t.prev[x] = k.prev[x]
    BY <1>1, <1>2
  <2>2. /\ t \in KernelState /\ t.heads = k.heads /\ t.sleepq = k.sleepq
        /\ t.idle = k.idle
    BY <1>1
  <2> QED
    BY <1>0, <1>3, <2>1, <2>2, Detached
<1>5. Core(t, NULL)
  BY <1>1, <1>2, <1>4, Settled
<1>6. CurrentOf(t) /\ StepOf(k, t)
  <2>1. k.current \in Ptr
    BY <1>0, Fields
  <2> QED
    BY <1>0, <1>1, <1>2, <2>1, PtrFacts DEF CurrentOf, StepOf, BestOf, KeptOf
<1>7. k' = t
  BY DEF t
<1>8. stage' # "started" => k'.current = NULL
  BY <1>1, <1>7 DEF QInv
<1> QED
  BY <1>1, <1>4, <1>5, <1>6, <1>7, <1>8, StepKept

LEMMA ExitQueues ==
    ASSUME SafeUse, QInv, ProcessExit
    PROVE  QInv' /\ StepOf(k, k')
<1>1. /\ k.current \in Procs /\ k.current # k.idle /\ k.state[k.current] = "RUNNING"
      /\ TransitOf(k, k.current)
  BY CallerLoose DEF ProcessExit
<1> QED
  BY <1>1, GoneQueues DEF ProcessExit

LEMMA DestroyQueues ==
    ASSUME SafeUse, QInv, NEW p \in Procs, ProcessDestroy(p)
    PROVE  QInv' /\ StepOf(k, k')
<1>1. k.state[p] = "BLOCKED" /\ p \notin Sleepers(k) /\ p \notin {k.current, k.idle}
  BY DEF ProcessDestroy, SafeUse, Waiting, QInv, DeadlinesOf
<1>2. TransitOf(k, p)
  BY <1>1, OffQueues DEF QInv
<1> QED
  BY <1>1, <1>2, GoneQueues DEF ProcessDestroy

\* The clock advances.
LEMMA BeginQueues ==
    ASSUME SafeUse, QInv, TickBegin
    PROVE  QInv' /\ StepOf(k, k')
<1> DEFINE n == (k.tick + 1) % TickMod
<1>0. Core(k, NULL) /\ k \in KernelState /\ k.tick \in Nat
  BY Fields DEF QInv, Core
<1>1. k' = [k EXCEPT !.tick = n] /\ n \in Nat /\ deadline' = deadline /\ stage' = stage
  BY <1>0, TimeAssumption DEF TickBegin
<1>2. NoWrap => n <= MaxTick
  BY <1>0, TimeAssumption DEF TickBegin, NoWrap
<1> HIDE DEF n
<1>3. /\ k' \in KernelState /\ k'.heads = k.heads /\ k'.bitmap = k.bitmap
      /\ k'.sleepq = k.sleepq /\ k'.idle = k.idle /\ k'.state = k.state /\ k'.prio = k.prio
      /\ k'.wake = k.wake /\ k'.next = k.next /\ k'.prev = k.prev /\ k'.hung = k.hung
      /\ k'.current = k.current /\ k'.tick = n
  BY <1>0, <1>1 DEF KernelState
<1>4. Core(k', NULL) /\ Sleepers(k') = Sleepers(k)
  BY <1>0, <1>3, CoreSame
<1>5. CurrentOf(k') /\ StepOf(k, k')
  BY <1>3 DEF QInv, CurrentOf, StepOf, BestOf, KeptOf
<1>6. DeadlinesOf(k', deadline) /\ (NoWrap => ClockOf(k', deadline))
  BY <1>2, <1>3, <1>4 DEF QInv, DeadlinesOf, ClockOf
<1> QED
  BY <1>1, <1>3, <1>4, <1>5, <1>6 DEF QInv

\* The wake-up loop moves the first sleeper to its ready queue.
LEMMA WakeQueues ==
    ASSUME SafeUse, QInv, TickWake
    PROVE  QInv' /\ StepOf(k, k')
<1> DEFINE h == k.sleepq
<1>0. Core(k, NULL) /\ k \in KernelState /\ CurrentOf(k)
  BY DEF QInv, Core
<1>1. h \in Procs /\ k' = WakeHead(k) /\ deadline' = [deadline EXCEPT ![h] = Awake]
      /\ stage' = stage
  BY <1>0, Fields, PtrFacts DEF TickWake, HeadIsDue
<1>2. /\ Core(k', NULL) /\ SameBut([k EXCEPT !.sleepq = k'.sleepq], k', h)
      /\ k.state[h] = "BLOCKED" /\ Sleepers(k') = Sleepers(k) \ {h}
      /\ k.heads[IdlePrio] # NULL => k'.heads[IdlePrio] # NULL
  BY <1>0, <1>1, WakeHeadCore, PtrFacts
<1>3. /\ k'.current = k.current /\ k'.idle = k.idle /\ k'.tick = k.tick /\ k'.wake = k.wake
      /\ \A x \in Procs \ {h} : k'.state[x] = k.state[x]
  <2>1. k' \in KernelState
    BY <1>2 DEF Core
  <2> QED
    BY <1>0, <1>2, <2>1 DEF SameBut, KernelState
<1> HIDE DEF h
<1>4. CurrentOf(k') /\ StepOf(k, k')
  <2>1. k.current \in Ptr
    BY <1>0, Fields
  <2> QED
    BY <1>0, <1>2, <1>3, <2>1, PtrFacts DEF CurrentOf, StepOf, BestOf, KeptOf
<1>5. /\ deadline' \in [Procs -> Int] /\ deadline'[h] = Awake
      /\ \A x \in Procs \ {h} : deadline'[x] = deadline[x]
  <2>1. deadline \in [Procs -> Int] /\ Awake \in Int
    BY DEF QInv, Awake
  <2> QED
    BY <1>1, <2>1
<1>6. DeadlinesOf(k', deadline')
  BY <1>2, <1>5 DEF QInv, DeadlinesOf
<1>7. NoWrap => ClockOf(k', deadline')
  <2>1. Sleepers(k) \subseteq Procs
    BY <1>0, Fields, MembersClosed DEF Sleepers
  <2> QED
    BY <1>2, <1>3, <1>5, <2>1 DEF QInv, ClockOf
<1> QED
  BY <1>1, <1>2, <1>3, <1>4, <1>5, <1>6, <1>7 DEF QInv

\* The rest of scheduler_tick charges the running process, and preempts it
\* when its time slice is used up; the sleep queue stays as it is.
LEMMA EndQueues ==
    ASSUME SafeUse, QInv, TickEnd
    PROVE  /\ QInv' /\ StepOf(k, k')
           /\ Sleepers(k') = Sleepers(k) /\ k'.wake = k.wake /\ k'.tick = k.tick
           /\ LeftOf(k, k')
           /\ k'.current # k.current => k.current # NULL /\ k.state[k.current] = "RUNNING"
<1> DEFINE c == k.current
           left == IF k.slice[c] > 0 THEN k.slice[c] - 1 ELSE 0
           s == [k EXCEPT !.slice[c] = left]
<1>0. Core(k, NULL) /\ k \in KernelState /\ CurrentOf(k)
  BY DEF QInv, Core
<1>1. k' = ChargeCurrent(k) /\ deadline' = deadline /\ stage' = stage
  BY DEF TickEnd
<1>2. CASE c = NULL \/ k.state[c] # "RUNNING"
  <2>1. k' = k
    BY <1>1, <1>2 DEF ChargeCurrent
  <2> QED
    BY <1>1, <2>1 DEF QInv, StepOf, BestOf, KeptOf, LeftOf
<1>3. CASE ~(c = NULL \/ k.state[c] # "RUNNING")
  <2>1. c \in Procs /\ k.state[c] = "RUNNING" /\ stage = "started"
    BY <1>0, <1>3, Fields, PtrFacts DEF QInv
  <2>2. left \in Nat
    BY <1>0, <2>1 DEF KernelState
  <2>3. k' = IF left = 0 THEN Schedule(s) ELSE s
    BY <1>1, <1>3 DEF ChargeCurrent
  <2> HIDE DEF left
  <2>4. /\ s \in KernelState /\ s.heads = k.heads /\ s.bitmap = k.bitmap
        /\ s.sleepq = k.sleepq /\ s.idle = k.idle /\ s.state = k.state /\ s.prio = k.prio
        /\ s.wake = k.wake /\ s.next = k.next /\ s.prev = k.prev /\ s.hung = k.hung
        /\ s.current = k.current /\ s.tick = k.tick
    BY <1>0, <2>1, <2>2 DEF KernelState
  <2> HIDE DEF s
  <2>5. Core(s, NULL) /\ Sleepers(s) = Sleepers(k)
    BY <1>0, <2>4, CoreSame
  <2>6. MayLeave(s) /\ CurrentOf(s)
    BY <2>1, <2>4 DEF MayLeave, CurrentOf
  <2>7. /\ Core(k', NULL) /\ CurrentOf(k') /\ Sleepers(k') = Sleepers(k)
        /\ k'.wake = k.wake /\ k'.tick = k.tick /\ StepOf(k, k') /\ LeftOf(k, k')
    <3>1. CASE left = 0
      <4>1. /\ Core(k', NULL) /\ CurrentOf(k') /\ Sleepers(k') = Sleepers(k)
            /\ k'.wake = k.wake /\ k'.tick = k.tick /\ StepOf(s, k') /\ LeftOf(s, k')
        BY <2>3, <2>4, <2>5, <2>6, <3>1, ScheduleCore DEF StepOf, BestOf
      <4> QED
        BY <2>4, <4>1 DEF StepOf, BestOf, KeptOf, LeftOf
    <3>2. CASE left # 0
      BY <2>3, <2>4, <2>5, <2>6, <3>2 DEF StepOf, BestOf, KeptOf, LeftOf
    <3> QED
      BY <3>1, <3>2
  <2> QED
    BY <1>1, <1>3, <2>1, <2>7, StepKept
<1> QED
  BY <1>2, <1>3

\* Every step keeps the invariant of the queues, and dispatches nobody or a
\* process of the best level.
LEMMA NextQueues ==
    ASSUME SafeUse, QInv, [Next]_vars
    PROVE  QInv' /\ StepOf(k, k')
<1>1. ASSUME UNCHANGED vars PROVE QInv' /\ StepOf(k, k')
  BY <1>1 DEF vars, QInv, StepOf, BestOf, KeptOf
<1> QED
  BY <1>1, SpawnQueues, StartQueues, FirstQueues, YieldQueues, SleepQueues, BlockQueues,
     UnblockQueues, ExitQueues, DestroyQueues, BeginQueues, WakeQueues, EndQueues DEF Next

\* The invariant of the queues holds of every use that respects SafeUse.
THEOREM QueuesInvariant ==
    ASSUME SafeUse
    PROVE  Spec => []QInv
<1>1. Init => QInv
  BY InitQueues
<1>2. QInv /\ [Next]_vars => QInv'
  BY NextQueues
<1> QED
  BY <1>1, <1>2, PTL DEF Spec

\* ready_bitmap is exactly the set of queues that are not empty.
THEOREM BitmapCorrect ==
    ASSUME SafeUse
    PROVE  Spec => []BitmapMatches
<1>1. QInv => BitmapMatches
  BY DEF QInv, Core, BitmapOf, BitmapMatches
<1> QED
  BY <1>1, QueuesInvariant, PTL

\* The links of every ready queue agree in both directions, and its members
\* are READY and of its level.
THEOREM QueuesCorrect ==
    ASSUME SafeUse
    PROVE  Spec => []QueuesWellFormed
<1>1. QInv => QueuesWellFormed
  BY DEF QInv, Core, QueuesOf, Linked, Queued, QueuesWellFormed, ReadyQueue
<1> QED
  BY <1>1, QueuesInvariant, PTL

\* find_next_process can find every READY process: none is ever dropped from
\* its queue.
THEOREM ReadyCorrect ==
    ASSUME SafeUse
    PROVE  Spec => []NoLostProcess
<1>1. QInv => NoLostProcess
  <2> SUFFICES ASSUME QInv, NEW p \in Procs \ {k.idle}, k.state[p] = "READY"
               PROVE  p \in ReadyQueue(Clamp(k.prio[p]))
    BY DEF NoLostProcess
  <2>1. p \in Procs \ {k.idle, NULL}
    BY PtrFacts
  <2> QED
    BY <2>1 DEF QInv, Core, FoundOf, Queued, ReadyQueue
<1> QED
  BY <1>1, QueuesInvariant, PTL

\* A process that called scheduler_sleep is on the sleep queue until a tick
\* wakes it.
THEOREM SleeperCorrect ==
    ASSUME SafeUse
    PROVE  Spec => []NoLostSleeper
<1>1. QInv => NoLostSleeper
  BY DEF QInv, DeadlinesOf, NoLostSleeper
<1> QED
  BY <1>1, QueuesInvariant, PTL

\* The sleep queue is sorted by wake-up time and holds blocked processes only;
\* and no list walk of the kernel meets a cycle.
THEOREM WalksCorrect ==
    ASSUME SafeUse
    PROVE  Spec => [](SleepQueueSorted /\ NoHang)
<1>1. QInv => SleepQueueSorted /\ NoHang
  BY DEF QInv, Core, SleepersOf, SleepQueueSorted, NoHang
<1> QED
  BY <1>1, QueuesInvariant, PTL

\* schedule gives the CPU to a process of the best level among the ready ones.
THEOREM DispatchCorrect ==
    ASSUME SafeUse
    PROVE  Spec => DispatchTop
<1>1. QInv /\ [Next]_vars =>
        [ k.current' # k.current =>
            \A p \in Procs \ {k.idle} :
               k.state[p] = "READY" => Clamp(k.prio[k'.current]) <= Clamp(k.prio[p]) ]_vars
  BY NextQueues DEF StepOf, BestOf
<1> QED
  BY <1>1, QueuesInvariant, PTL DEF Spec, DispatchTop

\* When the head of the sleep queue is not due, no sleeper is.
LEMMA NoneDue ==
    ASSUME NEW s, Core(s, NULL), ~HeadIsDue(s)
    PROVE  \A p \in Sleepers(s) : s.wake[p] > s.tick
<1>0. s \in KernelState /\ SleepersOf(s)
  BY DEF Core
<1>1. /\ s.next \in Links /\ s.sleepq \in Ptr /\ s.wake \in [Procs -> Nat] /\ s.tick \in Nat
  BY <1>0, Fields
<1> DEFINE S == {x \in Sleepers(s) : s.wake[x] > s.tick}
<1>2. /\ Sleepers(s) \subseteq Procs
      /\ ClosedList(s.next, s.sleepq, Sleepers(s))
      /\ \A T \in SUBSET Procs : ClosedList(s.next, s.sleepq, T) => Sleepers(s) \subseteq T
  BY <1>1, MembersClosed DEF Sleepers
<1>3. s.sleepq \in S \cup {NULL}
  BY <1>1, <1>2, PtrFacts DEF HeadIsDue, ClosedList
<1>4. ASSUME NEW x \in S PROVE s.next[x] \in S \cup {NULL}
  <2>1. s.next[x] \in Sleepers(s) \cup {NULL}
    BY <1>2 DEF ClosedList
  <2>2. s.next[x] # NULL => s.wake[x] <= s.wake[s.next[x]]
    BY <1>0 DEF SleepersOf
  <2> QED
    BY <1>1, <1>2, <2>1, <2>2
<1>5. Sleepers(s) \subseteq S
  BY <1>2, <1>3, <1>4 DEF ClosedList
<1> QED
  BY <1>5

\* When the wake-up loop has ended, no sleeper anywhere in the queue is due.
THEOREM WakeCorrect ==
    ASSUME SafeUse
    PROVE  Spec => WokenOnTime
<1>1. QInv /\ [Next]_vars =>
        [ irq = "wake" /\ irq' = "off" => \A p \in Sleepers(k') : k'.wake[p] > k'.tick ]_vars
  <2> SUFFICES ASSUME QInv, Next, irq = "wake", irq' = "off"
               PROVE  \A p \in Sleepers(k') : k'.wake[p] > k'.tick
    OBVIOUS
  <2>1. TickEnd
    BY DEF Next, Spawn, SchedulerStart, FirstSchedule, SchedulerYield, SchedulerSleep,
           SchedulerBlock, SchedulerUnblock, ProcessExit, ProcessDestroy, TickBegin,
           TickWake, CanCall
  <2>2. Sleepers(k') = Sleepers(k) /\ k'.wake = k.wake /\ k'.tick = k.tick
    BY <2>1, EndQueues
  <2>3. \A p \in Sleepers(k) : k.wake[p] > k.tick
    BY <2>1, NoneDue DEF QInv, TickEnd
  <2> QED
    BY <2>2, <2>3
<1> QED
  BY <1>1, QueuesInvariant, PTL DEF Spec, WokenOnTime

\* scheduler_sleep(n) lasts n ticks, as long as no wake-up time wraps around.
THEOREM SleepCorrect ==
    ASSUME SafeUse, NoWrap
    PROVE  Spec => NoEarlyWake
<1>1. QInv /\ [Next]_vars =>
        [ \A p \in Procs : deadline[p] # Awake /\ deadline'[p] = Awake
                              => k.tick >= deadline[p] ]_vars
  <2> SUFFICES ASSUME QInv, Next, NEW p \in Procs,
                      deadline[p] # Awake, deadline'[p] = Awake
               PROVE  k.tick >= deadline[p]
    OBVIOUS
  <2>0. Core(k, NULL) /\ k \in KernelState /\ deadline \in [Procs -> Int] /\ k.tick \in Nat
    BY Fields DEF QInv, Core
  <2>1. ASSUME NEW d \in Delays, SchedulerSleep(d) PROVE FALSE
    <3>1. deadline' = [deadline EXCEPT ![k.current] = k.tick + d] /\ d \in Nat
      BY <2>1, CallAssumption DEF SchedulerSleep
    <3> QED
      BY <2>0, <3>1 DEF Awake
  <2>2. CASE TickWake
    <3>1. deadline' = [deadline EXCEPT ![k.sleepq] = Awake] /\ HeadIsDue(k)
      BY <2>2 DEF TickWake
    <3>2. p = k.sleepq
      BY <2>0, <3>1
    <3>3. p \in Sleepers(k) /\ k.wake[p] <= k.tick
      BY <3>1, <3>2 DEF QInv, DeadlinesOf, HeadIsDue
    <3> QED
      BY <2>0, <3>3 DEF QInv, ClockOf
  <2>3. ~(deadline' = deadline)
    OBVIOUS
  <2> QED
    BY <2>1, <2>2, <2>3 DEF Next, Spawn, SchedulerStart, FirstSchedule, SchedulerYield,
       SchedulerBlock, SchedulerUnblock, ProcessExit, ProcessDestroy, TickBegin, TickEnd
<1> QED
  BY <1>1, QueuesInvariant, PTL DEF Spec, NoEarlyWake

-----------------------------------------------------------------------------
(***************************************************************************)
(* Preemption: who owes the EOI of the timer interrupt.                    *)
(***************************************************************************)

\* While the handler runs, IRQ0 is in service and nobody has left the rest of
\* the handler on its stack: a second interrupt cannot have come in between.
InHandler ==
    irq = "wake" => /\ inService /\ ~intFlag
                    /\ \A p \in Procs : resume[p] # "handler"

\* The process that owes the EOI is suspended and its slot in use, so that no
\* new thread is given the slot.
HolderWaits ==
    \A p \in Procs : resume[p] = "handler" => p # k.current /\ k.state[p] # "UNUSED"

Points == {"thread", "handler", "none"}

EoiType == intFlag \in BOOLEAN /\ inService \in BOOLEAN /\ resume \in [Procs -> Points]

EoiInv == EoiType /\ EoiOwedByOne /\ InHandler /\ HolderWaits

-----------------------------------------------------------------------------
\* A call of Scheduler gives up no slot, and switches to a process.
LEMMA CallAlive ==
    ASSUME TypeOK, Call
    PROVE  AliveOf(k, k') /\ (k'.current # k.current => k'.current \in Procs)
<1>0. k \in KernelState /\ k.current \in Ptr /\ k.tick \in Nat
  BY DEF TypeOK, KernelState
<1>1. CASE FirstSchedule
  BY <1>0, <1>1, ScheduleType DEF FirstSchedule
<1>2. CASE SchedulerYield
  <2> DEFINE s == [k EXCEPT !.slice[k.current] = 0]
  <2>1. k.current \in Procs
    BY <1>0, <1>2, PtrFacts DEF SchedulerYield, ThreadRuns
  <2>2. s \in KernelState /\ s.current = k.current /\ s.state = k.state
    BY <1>0, <2>1 DEF KernelState
  <2>3. k' = Schedule(s)
    BY <1>2 DEF SchedulerYield
  <2> HIDE DEF s
  <2> QED
    BY <2>2, <2>3, ScheduleType DEF AliveOf
<1>3. ASSUME NEW d \in Delays, SchedulerSleep(d)
      PROVE  AliveOf(k, k') /\ (k'.current # k.current => k'.current \in Procs)
  <2> DEFINE c == k.current
             w == (k.tick + d) % TickMod
             blocked == [k EXCEPT !.wake[c] = w, !.state[c] = "BLOCKED"]
             removed == Remove(blocked, c)
             asleep == InsertSleeper(removed, c)
  <2>1. c \in Procs /\ d \in Nat
    BY <1>0, <1>3, PtrFacts, CallAssumption DEF SchedulerSleep, ThreadRuns
  <2>2. w \in Nat
    BY <1>0, <2>1, TimeAssumption
  <2>3. k' = IF asleep.hung THEN asleep ELSE Schedule(asleep)
    BY <1>3 DEF SchedulerSleep
  <2> HIDE DEF w
  <2>4. /\ blocked \in KernelState /\ blocked.current = c
        /\ blocked.state = [k.state EXCEPT ![c] = "BLOCKED"]
    BY <1>0, <2>1, <2>2 DEF KernelState, States
  <2> HIDE DEF blocked
  <2>5. removed \in KernelState /\ removed.current = c /\ removed.state = blocked.state
    BY <2>1, <2>4, RemoveType
  <2> HIDE DEF removed
  <2>6. asleep \in KernelState /\ asleep.current = c /\ asleep.state = blocked.state
    BY <2>1, <2>5, InsertSleeperType
  <2> HIDE DEF asleep
  <2>7. AliveOf(k, asleep)
    BY <1>0, <2>1, <2>4, <2>6, StateFcn DEF AliveOf
  <2> QED
    BY <2>3, <2>6, <2>7, ScheduleType DEF AliveOf
<1>4. ASSUME NEW p \in Procs, SchedulerBlock(p)
      PROVE  AliveOf(k, k') /\ (k'.current # k.current => k'.current \in Procs)
  <2> DEFINE marked == [k EXCEPT !.state[p] = "BLOCKED"]
             blocked == Remove(marked, p)
  <2>1. k' = IF p = k.current THEN Schedule(blocked) ELSE blocked
    BY <1>4 DEF SchedulerBlock
  <2>2. /\ marked \in KernelState /\ marked.current = k.current
        /\ marked.state = [k.state EXCEPT ![p] = "BLOCKED"]
    BY <1>0 DEF KernelState, States
  <2> HIDE DEF marked
  <2>3. /\ blocked \in KernelState /\ blocked.current = k.current
        /\ blocked.state = marked.state
    BY <2>2, RemoveType
  <2> HIDE DEF blocked
  <2>4. AliveOf(k, blocked)
    BY <1>0, <2>2, <2>3, StateFcn DEF AliveOf
  <2> QED
    BY <2>1, <2>3, <2>4, ScheduleType DEF AliveOf
<1>5. ASSUME NEW p \in Procs, SchedulerUnblock(p)
      PROVE  AliveOf(k, k') /\ (k'.current # k.current => k'.current \in Procs)
  BY <1>0, <1>5, AddType DEF SchedulerUnblock
<1> QED
  BY <1>1, <1>2, <1>3, <1>4, <1>5 DEF Call

\* The calls run outside the handler.
LEMMA CallOutside ==
    ASSUME Call
    PROVE  irq = "off" /\ irq' = "off"
BY DEF Call, FirstSchedule, SchedulerYield, SchedulerSleep, SchedulerBlock,
       SchedulerUnblock, CanCall

\* A switch made by a thread hands the CPU over together with the duty of
\* the EOI, if the thread switched to has it.
LEMMA SwitchOutside ==
    ASSUME EoiInv, irq = "off", irq' = "off", Switch("thread"), AliveOf(k, k'),
           k'.current # k.current => k'.current \in Procs
    PROVE  EoiInv'
<1>1. CASE k'.current = k.current
  <2>1. resume' = [p \in Procs |-> resume[p]] /\ UNCHANGED <<intFlag, inService>>
    BY <1>1 DEF Switch
  <2>2. resume' = resume
    BY <2>1 DEF EoiInv, EoiType
  <2> QED
    BY <1>1, <2>1, <2>2
    DEF EoiInv, EoiType, EoiOwedByOne, InHandler, HolderWaits, AliveOf
<1>2. CASE k'.current # k.current
  <2> DEFINE new == k'.current
             old == k.current
  <2>1. new \in Procs
    BY <1>2
  <2>2. /\ resume' \in [Procs -> Points] /\ resume'[new] = "none"
        /\ old \in Procs => resume'[old] = "thread"
        /\ \A p \in Procs \ {old, new} : resume'[p] = resume[p]
    BY <1>2, <2>1 DEF Switch, EoiInv, EoiType, Points
  <2>3. /\ resume[new] = "handler" => intFlag' = TRUE /\ inService' = FALSE
        /\ resume[new] # "handler" => intFlag' = intFlag /\ inService' = inService
    BY <1>2 DEF Switch, EndOfHandler
  <2>4. /\ \A p \in Procs : resume[p] = "handler" => p # old /\ k.state[p] # "UNUSED"
        /\ \A p \in Procs : resume'[p] = "handler" => p # new /\ p # old /\ resume[p] = "handler"
    BY <2>2 DEF EoiInv, HolderWaits
  <2>5. HolderWaits' /\ InHandler'
    BY <2>4 DEF HolderWaits, InHandler, AliveOf
  <2>6. EoiType'
    BY <2>2, <2>3 DEF EoiInv, EoiType
  <2> HIDE DEF new, old
  <2>7. EoiOwedByOne'
    <3>1. CASE resume[new] = "handler"
      <4>1. \A p \in Procs : resume'[p] # "handler"
        BY <2>1, <2>4, <3>1 DEF EoiInv, EoiOwedByOne
      <4> QED
        BY <2>3, <3>1, <4>1 DEF EoiOwedByOne
    <3>2. CASE resume[new] # "handler"
      <4>1. \A p \in Procs : resume'[p] = "handler" <=> resume[p] = "handler"
        BY <2>1, <2>2, <2>4, <3>2
      <4> QED
        BY <2>3, <3>2, <4>1 DEF EoiInv, EoiOwedByOne
    <3> QED
      BY <3>1, <3>2
  <2> QED
    BY <2>5, <2>6, <2>7 DEF EoiInv
<1> QED
  BY <1>1, <1>2

\* At the end of the handler the EOI is sent, or the process preempted is the
\* only one that owes it.
LEMMA SwitchInHandler ==
    ASSUME TypeOK, EoiInv, TickEnd, Switch("handler")
    PROVE  EoiInv'
<1>1. irq = "wake" /\ irq' = "off" /\ k \in KernelState /\ k' = ChargeCurrent(k)
  BY DEF TickEnd, TypeOK
<1>2. AliveOf(k, k') /\ (k'.current # k.current => k.current \in Procs /\ k'.current \in Procs)
  BY <1>1, ChargeCurrentType
<1>3. inService = TRUE /\ intFlag = FALSE /\ \A p \in Procs : resume[p] # "handler"
  BY <1>1 DEF EoiInv, EoiType, InHandler
<1>4. CASE k'.current = k.current
  <2>1. resume' = [p \in Procs |-> resume[p]] /\ intFlag' = TRUE /\ inService' = FALSE
    BY <1>4 DEF Switch, EndOfHandler
  <2>2. resume' = resume
    BY <2>1 DEF EoiInv, EoiType
  <2> QED
    BY <1>1, <1>3, <2>1, <2>2 DEF EoiInv, EoiType, EoiOwedByOne, InHandler, HolderWaits
<1>5. CASE k'.current # k.current
  <2> DEFINE new == k'.current
             old == k.current
  <2>1. /\ resume' \in [Procs -> Points] /\ resume'[old] = "handler"
        /\ \A p \in Procs \ {old} : resume'[p] # "handler"
    BY <1>2, <1>3, <1>5 DEF Switch, EoiInv, EoiType, Points
  <2>2. intFlag' = FALSE /\ inService' = TRUE
    BY <1>2, <1>3, <1>5 DEF Switch
  <2>3. k.state[old] # "UNUSED"
    <3>1. CASE k.state[old] # "RUNNING"
      BY <1>1, <1>5, <3>1 DEF ChargeCurrent
    <3> QED
      BY <3>1
  <2>4. HolderWaits'
    BY <1>2, <1>5, <2>1, <2>3 DEF HolderWaits, AliveOf
  <2>5. EoiType' /\ InHandler'
    BY <1>1, <2>1, <2>2 DEF EoiType, InHandler
  <2> HIDE DEF old
  <2>6. EoiOwedByOne'
    BY <1>2, <1>5, <2>1, <2>2 DEF EoiOwedByOne, old
  <2> QED
    BY <2>4, <2>5, <2>6 DEF EoiInv
<1> QED
  BY <1>4, <1>5

\* A new thread is given a slot whose last owner owes no EOI.
LEMMA SpawnEoi ==
    ASSUME TypeOK, EoiInv, NEW pr \in Priorities, SpawnThread(pr)
    PROVE  EoiInv'
<1> DEFINE p == FreeSlot(k)
           new == Created(k, p, pr)
<1>0. k \in KernelState /\ FreeSlot(k) # NULL /\ pr \in Int
  BY CallAssumption DEF TypeOK, SpawnThread, Spawn
<1>1. p \in Procs /\ k.state[p] = "UNUSED"
  BY <1>0, FreeSlotType
<1>2. k' = Add(new, p) /\ irq' = irq /\ resume' = [resume EXCEPT ![p] = "thread"]
      /\ intFlag' = intFlag /\ inService' = inService
  BY DEF SpawnThread, Spawn
<1> HIDE DEF p
<1>3. /\ new \in KernelState /\ new.current = k.current
      /\ new.state = [k.state EXCEPT ![p] = "READY"]
  BY <1>0, <1>1, CreatedType
<1> HIDE DEF new
<1>4. k'.current = k.current /\ AliveOf(k, k')
  <2>1. k'.current = new.current /\ AliveOf(new, k')
    BY <1>1, <1>2, <1>3, AddType
  <2> QED
    BY <1>0, <1>1, <1>3, <2>1, StateFcn DEF AliveOf
<1>5. resume[p] # "handler"
  BY <1>1 DEF EoiInv, HolderWaits
<1>6. /\ resume' \in [Procs -> Points]
      /\ \A x \in Procs : resume'[x] = "handler" <=> resume[x] = "handler"
  <2>1. resume \in [Procs -> Points] /\ "thread" \in Points
    BY DEF EoiInv, EoiType, Points
  <2> QED
    BY <1>1, <1>2, <1>5, <2>1
<1>7. EoiType'
  BY <1>2, <1>6 DEF EoiInv, EoiType
<1> QED
  BY <1>2, <1>4, <1>6, <1>7 DEF EoiInv, EoiOwedByOne, InHandler, HolderWaits, AliveOf

\* Every step of the machine keeps the invariant.
LEMMA NextEoi ==
    ASSUME TypeOK, EoiInv, [PNext]_pvars
    PROVE  EoiInv'
<1>0. k \in KernelState
  BY DEF TypeOK
<1>1. ASSUME NEW pr \in Priorities, SpawnThread(pr) PROVE EoiInv'
  BY <1>1, SpawnEoi
<1>2. CASE StartScheduler
  <2>1. UNCHANGED <<k, irq, intFlag, inService, resume>>
    BY <1>2 DEF StartScheduler, SchedulerStart
  <2> QED
    BY <2>1 DEF EoiInv, EoiType, EoiOwedByOne, InHandler, HolderWaits
<1>3. CASE ThreadCall
  BY <1>3, CallAlive, CallOutside, SwitchOutside DEF ThreadCall
<1>4. CASE TimerInterrupt
  <2>1. /\ irq = "off" /\ irq' = "wake" /\ intFlag = TRUE /\ inService = FALSE
        /\ intFlag' = FALSE /\ inService' = TRUE /\ resume' = resume
    BY <1>4 DEF TimerInterrupt, TickBegin, EoiInv, EoiType
  <2>2. k'.current = k.current /\ k'.state = k.state
    BY <1>0, <1>4 DEF TimerInterrupt, TickBegin, KernelState
  <2>3. \A p \in Procs : resume[p] # "handler"
    BY <2>1 DEF EoiInv, EoiOwedByOne
  <2>4. EoiType' /\ HolderWaits' /\ InHandler'
    BY <2>1, <2>3 DEF EoiInv, EoiType, HolderWaits, InHandler
  <2> QED
    BY <2>1, <2>4 DEF EoiInv, EoiOwedByOne
<1>5. CASE TimerWake
  <2>1. k.sleepq # NULL /\ k' = WakeHead(k) /\ UNCHANGED <<irq, intFlag, inService, resume>>
    BY <1>5 DEF TimerWake, TickWake, HeadIsDue
  <2>2. k'.current = k.current /\ AliveOf(k, k')
    BY <1>0, <2>1, WakeHeadType
  <2> QED
    BY <2>1, <2>2 DEF EoiInv, EoiType, EoiOwedByOne, InHandler, HolderWaits, AliveOf
<1>6. CASE TimerEnd
  BY <1>6, SwitchInHandler DEF TimerEnd
<1>7. CASE UNCHANGED pvars
  BY <1>7 DEF pvars, EoiInv, EoiType, EoiOwedByOne, InHandler, HolderWaits
<1> QED
  BY <1>1, <1>2, <1>3, <1>4, <1>5, <1>6, <1>7 DEF PNext, TimerStep

\* A step of the machine is a step of the scheduler.
LEMMA PNextNext == [PNext]_pvars => [Next]_vars
BY DEF PNext, SpawnThread, StartScheduler, ThreadCall, Call, TimerStep, TimerInterrupt,
       TimerWake, TimerEnd, Next, pvars, vars

LEMMA PInitEoi == PInit => Init /\ EoiInv
<1> SUFFICES ASSUME PInit PROVE Init /\ EoiInv
  OBVIOUS
<1>1. resume = [p \in Procs |-> IF p = k.idle THEN "thread" ELSE "none"]
  BY DEF PInit
<1>2. resume \in [Procs -> Points] /\ \A p \in Procs : resume[p] # "handler"
  BY <1>1 DEF Points
<1>3. irq = "off" /\ intFlag = TRUE /\ inService = FALSE
  BY DEF PInit, Init
<1> QED
  BY <1>2, <1>3 DEF PInit, EoiInv, EoiType, EoiOwedByOne, InHandler, HolderWaits

\* interrupt_handler sends the EOI after schedule() has switched away: it is
\* owed by exactly one suspended process, or by nobody, and interrupts are on
\* exactly when nobody owes it, whatever calls the threads make.
THEOREM EoiCorrect == PSafety => []EoiOwedByOne
<1>1. PInit => TypeOK /\ RunningOf(k) /\ EoiInv
  BY PInitEoi, InitType
<1>2. TypeOK /\ RunningOf(k) /\ EoiInv /\ [PNext]_pvars => TypeOK' /\ RunningOf(k)' /\ EoiInv'
  BY NextEoi, NextType, PNextNext
<1>3. EoiInv => EoiOwedByOne
  BY DEF EoiInv
<1> QED
  BY <1>1, <1>2, <1>3, PTL DEF PSafety

-----------------------------------------------------------------------------
(***************************************************************************)
(* The EOI is sent at last only if its holder is dispatched again, which   *)
(* the invariant of the queues makes possible.                             *)
(***************************************************************************)

HolderInv ==
    \A p \in Procs : resume[p] = "handler" =>
       k.state[p] = "READY" /\ (p = k.idle => k.heads[IdlePrio] # NULL)

\* A suspended process that owed the EOI before the step.
LEMMA HolderKept ==
    ASSUME QInv, HolderInv, HolderWaits, KeptOf(k, k'),
           NEW p \in Procs, resume[p] = "handler", p # k'.current
    PROVE  k'.state[p] = "READY" /\ (p = k'.idle => k'.heads[IdlePrio] # NULL)
<1>1. k.state[p] = "READY" /\ (p = k.idle => k.heads[IdlePrio] # NULL)
  BY DEF HolderInv
<1> QED
  BY <1>1 DEF KeptOf

LEMMA NextHolder ==
    ASSUME SafeUse, TypeOK, QInv, EoiInv, HolderInv, [PNext]_pvars
    PROVE  HolderInv'
<1>1. KeptOf(k, k')
  BY PNextNext, NextQueues DEF StepOf
<1>2. HolderWaits /\ HolderWaits' /\ resume \in [Procs -> Points]
  BY NextEoi DEF EoiInv, EoiType
<1>3. SUFFICES ASSUME NEW p \in Procs, resume'[p] = "handler"
               PROVE  k'.state[p] = "READY" /\ (p = k'.idle => k'.heads[IdlePrio] # NULL)
  BY DEF HolderInv
<1>4. p # k'.current
  BY <1>2, <1>3 DEF HolderWaits
<1>5. CASE resume[p] = "handler"
  BY <1>1, <1>2, <1>4, <1>5, HolderKept
<1>6. CASE resume[p] # "handler"
  <2>1. TimerEnd
    <3>1. ASSUME NEW pr \in Priorities, SpawnThread(pr) PROVE FALSE
      BY <1>2, <1>3, <1>6, <3>1 DEF SpawnThread
    <3>2. ASSUME ThreadCall PROVE FALSE
      BY <1>3, <1>6, <3>2 DEF ThreadCall, Switch
    <3>3. resume' # resume
      BY <1>3, <1>6
    <3> QED
      BY <3>1, <3>2, <3>3 DEF PNext, TimerStep, StartScheduler, TimerInterrupt, TimerWake, pvars
  <2>2. p = k.current /\ k'.current # k.current
    BY <1>3, <1>6, <2>1 DEF TimerEnd, Switch
  <2>3. LeftOf(k, k') /\ k.state[k.current] = "RUNNING"
    BY <2>1, <2>2, EndQueues DEF TimerEnd
  <2> QED
    BY <1>1, <2>2, <2>3, PtrFacts DEF LeftOf, KeptOf
<1> QED
  BY <1>5, <1>6

\* A holder is on its ready queue.
LEMMA HolderQueued == QInv /\ HolderInv => EoiHolderIsReady
<1> SUFFICES ASSUME QInv, HolderInv, NEW p \in Procs, resume[p] = "handler"
             PROVE  k.state[p] = "READY" /\ p \in ReadyQueue(Clamp(k.prio[p]))
  BY DEF EoiHolderIsReady
<1>0. /\ k \in KernelState /\ FoundOf(k, NULL) /\ QueuesOf(k) /\ IdleOf(k)
  BY DEF QInv, Core
<1>1. k.state[p] = "READY"
  BY DEF HolderInv
<1>2. CASE p # k.idle
  BY <1>0, <1>1, <1>2, PtrFacts DEF FoundOf, Queued, ReadyQueue
<1>3. CASE p = k.idle
  <2> DEFINE h == k.heads[IdlePrio]
  <2>1. h # NULL /\ h \in Ptr /\ k.next \in Links
    BY <1>0, <1>3, IdleLevel, Fields DEF HolderInv
  <2>2. h \in Procs /\ h \in Queued(k, IdlePrio)
    BY <2>1, PtrFacts, MembersStep DEF Queued
  <2>3. k.state[h] = "READY" /\ Clamp(k.prio[h]) = IdlePrio
    BY <1>0, <2>2, IdleLevel DEF QueuesOf
  <2>4. h = p
    BY <1>0, <1>3, <2>2, <2>3 DEF IdleOf
  <2> QED
    BY <1>1, <2>2, <2>3, <2>4 DEF Queued, ReadyQueue
<1> QED
  BY <1>1, <1>2, <1>3

\* The process that owes the EOI is READY and on its ready queue, so that
\* schedule() comes back to it: the duty is never lost with the process.
THEOREM EoiHolderCorrect ==
    ASSUME SafeUse
    PROVE  PSafety => []EoiHolderIsReady
<1> DEFINE Inv == TypeOK /\ RunningOf(k) /\ EoiInv /\ QInv /\ HolderInv
<1>1. PInit => Inv
  <2>1. PInit => HolderInv
    BY DEF PInit, HolderInv
  <2> QED
    BY <2>1, PInitEoi, InitType, InitQueues
<1>2. Inv /\ [PNext]_pvars => Inv'
  BY NextEoi, NextType, PNextNext, NextQueues, NextHolder
<1>3. Inv => EoiHolderIsReady
  BY HolderQueued
<1> QED
  BY <1>1, <1>2, <1>3, PTL DEF PSafety
=============================================================================
