----------------------------- MODULE Scheduler -----------------------------
(***************************************************************************)
(* The priority scheduler (kernel/proc/scheduler.c) together with the      *)
(* process table it works on (kernel/proc/process.c).                      *)
(*                                                                         *)
(* The queues are modelled as the code builds them, from the next/prev     *)
(* links inside the PCBs: a ready queue and the sleep queue share the same *)
(* two links, and scheduler_remove trusts them, so that a process removed  *)
(* while it is on no queue, or on the other one, has the effect it has in  *)
(* the code.  The C functions that others call are operators from kernel   *)
(* state to kernel state (Add, Remove, Schedule ...), the entry points are *)
(* actions built from them.                                                *)
(***************************************************************************)
EXTENDS Integers

CONSTANTS
    NProcs,        \* MAX_PROCESSES: slots 1..NProcs of the process table
    Levels,        \* SCHED_PRIORITY_LEVELS
    SliceBase,     \* SCHED_TIME_SLICE_BASE
    DefaultSlice,  \* time_slice of a process never put on a ready queue
    TickMod,       \* 2^64 in the code: width of current_tick and wake_time
    MaxTick,       \* bound of the model: no tick at or after this time
    Priorities,    \* priorities (C ints) that callers ask for
    Delays,        \* arguments of scheduler_sleep
    ClientOps,     \* the calls the threads make, see OpNames
    Contract,      \* TRUE: handles passed to the API satisfy the contract below
    Alone,         \* TRUE: a thread gives up the CPU to wait only if no other
                   \* thread of its level is ready, see MayWait
    IdleOutcomes   \* possible results of creating the idle thread

OpNames == {"spawn", "yield", "sleep", "block", "unblock", "exit", "destroy"}

ASSUME SizeAssumption == NProcs \in Nat \ {0} /\ Levels \in Nat \ {0}
ASSUME SliceAssumption == SliceBase \in Nat /\ DefaultSlice \in Nat
ASSUME TimeAssumption == TickMod \in Nat \ {0} /\ MaxTick \in Nat
ASSUME CallAssumption == /\ Priorities \subseteq Int /\ Delays \subseteq Nat
                         /\ ClientOps \subseteq OpNames
                         /\ Contract \in BOOLEAN /\ Alone \in BOOLEAN
                         /\ IdleOutcomes \subseteq BOOLEAN

Procs == 1..NProcs
NULL == 0
Ptr == Procs \cup {NULL}
Level == 0..(Levels - 1)
IdlePrio == Levels - 1
States == {"UNUSED", "READY", "RUNNING", "BLOCKED", "ZOMBIE"}

VARIABLES
    k,        \* the kernel's scheduling state, a record: see KernelState
    stage,    \* boot code: "boot", "armed" (timer callback set), "started"
    irq,      \* "wake" while the timer interrupt runs the wake-up loop
    deadline  \* history: the tick each sleeper asked for, without wraparound,
              \* or Awake

Awake == -1

vars == <<k, stage, irq, deadline>>

\* hung: a list walk met a cycle, the C loop never ends.
KernelState ==
    [heads: [Level -> Ptr], bitmap: SUBSET Level, sleepq: Ptr, tick: Nat,
     current: Ptr, idle: Ptr, state: [Procs -> States], prio: [Procs -> Int],
     slice: [Procs -> Nat], wake: [Procs -> Nat],
     next: [Procs -> Ptr], prev: [Procs -> Ptr], hung: BOOLEAN]

-----------------------------------------------------------------------------
(***************************************************************************)
(* Lists.                                                                  *)
(***************************************************************************)

\* The processes on the list that starts at h: the smallest set that holds h
\* and is closed under the next links.
Members(nx, h) ==
    LET closed == {S \in SUBSET Procs : /\ h \in S \cup {NULL}
                                       /\ \A x \in S : nx[x] \in S \cup {NULL}}
    IN {p \in Procs : \A S \in closed : p \in S}

\* Where a walk along the list that starts at h and ends at a NULL link ends:
\* nowhere if the list is cyclic.
Tails(nx, h) == {t \in Members(nx, h) : nx[t] = NULL}

SetPrev(s, p, v) == IF p = NULL THEN s ELSE [s EXCEPT !.prev[p] = v]

Clamp(p) == IF p < 0 THEN 0 ELSE IF p >= Levels THEN Levels - 1 ELSE p

Slice(q) == SliceBase + (Levels - q)

-----------------------------------------------------------------------------
(***************************************************************************)
(* The scheduler's functions.  An operator commented "Fault" is a faulty   *)
(* variant of the operator that follows it; nothing else uses it.          *)
(***************************************************************************)

\* Fault: the new tail is not linked back.
AddOneWay(s, p) ==
    LET q == Clamp(s.prio[p])
        cut == [s EXCEPT !.next[p] = NULL, !.prev[p] = NULL,
                         !.state[p] = "READY", !.slice[p] = Slice(q)]
    IN IF s.heads[q] = NULL
       THEN [cut EXCEPT !.heads[q] = p, !.bitmap = @ \cup {q}]
       ELSE [cut EXCEPT !.next[CHOOSE t \in Tails(cut.next, cut.heads[q]) : TRUE] = p]

\* Fault: the process is marked ready but put on no queue.
AddNowhere(s, p) == [s EXCEPT !.state[p] = "READY", !.slice[p] = SliceBase]

\* scheduler_add.
Add(s, p) ==
    LET q == Clamp(s.prio[p])
        cut == [s EXCEPT !.next[p] = NULL, !.prev[p] = NULL]
        tails == Tails(cut.next, cut.heads[q])
        Linked(t) == [t EXCEPT !.state[p] = "READY", !.slice[p] = Slice(q)]
    IN IF s.state[p] = "UNUSED" THEN s
       ELSE IF s.heads[q] = NULL
       THEN Linked([cut EXCEPT !.heads[q] = p, !.bitmap = @ \cup {q}])
       ELSE IF tails = {} THEN [cut EXCEPT !.hung = TRUE]
       ELSE LET tail == CHOOSE t \in tails : TRUE
            IN Linked([cut EXCEPT !.next[tail] = p, !.prev[p] = tail])

\* Fault: the bit of a queue that becomes empty stays set.
RemoveKeepsBit(s, p) ==
    LET before == IF s.prev[p] # NULL
                  THEN [s EXCEPT !.next[s.prev[p]] = s.next[p]]
                  ELSE [s EXCEPT !.heads[Clamp(s.prio[p])] = s.next[p]]
    IN [SetPrev(before, before.next[p], before.prev[p])
          EXCEPT !.next[p] = NULL, !.prev[p] = NULL]

\* scheduler_remove: a process without predecessor is taken for the head of
\* its ready queue.
Remove(s, p) ==
    LET q == Clamp(s.prio[p])
        before == IF s.prev[p] # NULL
                  THEN [s EXCEPT !.next[s.prev[p]] = s.next[p]]
                  ELSE [s EXCEPT !.heads[q] = s.next[p]]
        after == SetPrev(before, before.next[p], before.prev[p])
        out == [after EXCEPT !.next[p] = NULL, !.prev[p] = NULL]
    IN IF out.heads[q] = NULL THEN [out EXCEPT !.bitmap = @ \ {q}] ELSE out

\* Fault: the highest set bit instead of the lowest.
FindNextLowest(s) ==
    IF s.bitmap = {} THEN s.idle
    ELSE s.heads[CHOOSE q \in s.bitmap : \A r \in s.bitmap : q >= r]

\* find_next_process.
FindNext(s) ==
    IF s.bitmap = {} THEN s.idle
    ELSE s.heads[CHOOSE q \in s.bitmap : \A r \in s.bitmap : q <= r]

\* Fault: the outgoing process keeps its state.
ScheduleKeepsState(s) ==
    LET next == FindNext(s)
    IN IF next = NULL \/ next = s.current THEN s
       ELSE [Remove(s, next) EXCEPT !.state[next] = "RUNNING", !.current = next]

\* Fault: the outgoing process is marked ready but not queued.
ScheduleForgetsOld(s) ==
    LET next == FindNext(s)
        put == IF s.current # NULL /\ s.state[s.current] = "RUNNING"
               THEN [s EXCEPT !.state[s.current] = "READY"] ELSE s
    IN IF next = NULL \/ next = s.current THEN s
       ELSE [Remove(put, next) EXCEPT !.state[next] = "RUNNING", !.current = next]

\* schedule: next is chosen before the current process is queued again.
Schedule(s) ==
    LET next == FindNext(s)
        put == IF s.current # NULL /\ s.state[s.current] = "RUNNING"
               THEN Add([s EXCEPT !.state[s.current] = "READY"], s.current)
               ELSE s
    IN IF next = NULL \/ next = s.current THEN s
       ELSE IF put.hung THEN put
       ELSE [Remove(put, next) EXCEPT !.state[next] = "RUNNING", !.current = next]

\* The insertion part of scheduler_sleep: after the last entry that wakes no
\* later than p.
InsertSleeper(s, p) ==
    LET Stop(x) == s.next[x] = NULL \/ s.wake[s.next[x]] > s.wake[p]
        stops == Tails([x \in Procs |-> IF Stop(x) THEN NULL ELSE s.next[x]], s.sleepq)
        pos == CHOOSE x \in stops : TRUE
    IN IF s.sleepq = NULL \/ s.wake[p] < s.wake[s.sleepq]
       THEN [SetPrev([s EXCEPT !.next[p] = s.sleepq, !.prev[p] = NULL],
                     s.sleepq, p) EXCEPT !.sleepq = p]
       ELSE IF stops = {} THEN [s EXCEPT !.hung = TRUE]
       ELSE [SetPrev([s EXCEPT !.next[p] = s.next[pos], !.prev[p] = pos],
                     s.next[pos], p) EXCEPT !.next[pos] = p]

\* Fault: the link is cleared before the next head is read.
WakeHeadDropsRest(s) ==
    Add([s EXCEPT !.sleepq = NULL, !.next[s.sleepq] = NULL, !.prev[s.sleepq] = NULL],
        s.sleepq)

\* One iteration of the wake-up loop of scheduler_tick.
WakeHead(s) ==
    LET p == s.sleepq
        popped == SetPrev([s EXCEPT !.sleepq = s.next[p]], s.next[p], NULL)
    IN Add([popped EXCEPT !.next[p] = NULL, !.prev[p] = NULL], p)

\* Faults: due one tick too early, and one too late.
HeadIsDueEarly(s) == s.sleepq # NULL /\ s.wake[s.sleepq] <= s.tick + 1
HeadIsDueLate(s) == s.sleepq # NULL /\ s.wake[s.sleepq] < s.tick

HeadIsDue(s) == s.sleepq # NULL /\ s.wake[s.sleepq] <= s.tick

\* Fault: the time slice is decremented below zero.
ChargeNoFloor(s) ==
    LET c == s.current
        charged == [s EXCEPT !.slice[c] = @ - 1]
    IN IF c = NULL \/ s.state[c] # "RUNNING" THEN s
       ELSE IF charged.slice[c] <= 0 THEN Schedule(charged) ELSE charged

\* The rest of scheduler_tick: charge the running process, preempt at zero.
ChargeCurrent(s) ==
    LET c == s.current
        left == IF s.slice[c] > 0 THEN s.slice[c] - 1 ELSE 0
        charged == [s EXCEPT !.slice[c] = left]
    IN IF c = NULL \/ s.state[c] # "RUNNING" THEN s
       ELSE IF left = 0 THEN Schedule(charged) ELSE charged

\* process_create_kernel_thread on slot p.
Created(s, p, pr) ==
    [s EXCEPT !.state[p] = "READY", !.prio[p] = pr, !.slice[p] = DefaultSlice,
              !.wake[p] = 0, !.next[p] = NULL, !.prev[p] = NULL]

\* alloc_process_slot: the first unused slot, NULL if the table is full.
FreeSlot(s) ==
    IF \A p \in Procs : s.state[p] # "UNUSED" THEN NULL
    ELSE CHOOSE p \in Procs : /\ s.state[p] = "UNUSED"
                              /\ \A r \in Procs : s.state[r] = "UNUSED" => p <= r

-----------------------------------------------------------------------------
(***************************************************************************)
(* Who may call what.  Outside the interrupt handler the code of the       *)
(* current process runs; the idle thread and a process that has exited     *)
(* only halt.  Before the first dispatch the boot code runs.               *)
(***************************************************************************)

BootRuns == k.current = NULL /\ stage # "armed"

ThreadRuns == /\ k.current \notin {NULL, k.idle}
              /\ k.state[k.current] # "ZOMBIE"

CanCall(op) == op \in ClientOps /\ irq = "off" /\ ~k.hung

\* The contract: scheduler_block is applied to the caller ("Block current
\* process"), scheduler_unblock and process_destroy to a process that is
\* blocked and not asleep.
Waiting(p) == k.state[p] = "BLOCKED" /\ deadline[p] = Awake

\* scheduler_sleep and scheduler_block empty the ready queue of the caller's
\* level: callers are safe only while it is empty.
MayWait == Alone => k.heads[Clamp(k.prio[k.current])] = NULL

-----------------------------------------------------------------------------
(***************************************************************************)
(* Actions.                                                                *)
(***************************************************************************)

\* process_create_kernel_thread followed by scheduler_add, as every creator
\* of a thread has to do.  (A full table or a failed stack allocation returns
\* NULL and changes nothing.)
Spawn(pr) ==
    /\ CanCall("spawn")
    /\ BootRuns \/ ThreadRuns
    /\ FreeSlot(k) # NULL
    /\ k' = Add(Created(k, FreeSlot(k), pr), FreeSlot(k))
    /\ UNCHANGED <<stage, irq, deadline>>

\* scheduler_start up to timer_set_callback.
SchedulerStart ==
    /\ stage = "boot" /\ irq = "off" /\ ~k.hung
    /\ stage' = "armed"
    /\ UNCHANGED <<k, irq, deadline>>

\* The call of schedule at the end of scheduler_start: a timer interrupt may
\* come first.
FirstSchedule ==
    /\ stage = "armed" /\ irq = "off" /\ ~k.hung
    /\ stage' = "started"
    /\ k' = Schedule(k)
    /\ UNCHANGED <<irq, deadline>>

SchedulerYield ==
    /\ CanCall("yield") /\ ThreadRuns
    /\ k' = Schedule([k EXCEPT !.slice[k.current] = 0])
    /\ UNCHANGED <<stage, irq, deadline>>

SchedulerSleep(d) ==
    LET c == k.current
        blocked == [k EXCEPT !.wake[c] = (k.tick + d) % TickMod,
                             !.state[c] = "BLOCKED"]
        asleep == InsertSleeper(Remove(blocked, c), c)
    IN /\ CanCall("sleep") /\ ThreadRuns /\ MayWait
       /\ k' = IF asleep.hung THEN asleep ELSE Schedule(asleep)
       /\ deadline' = [deadline EXCEPT ![c] = k.tick + d]
       /\ UNCHANGED <<stage, irq>>

SchedulerBlock(p) ==
    LET blocked == Remove([k EXCEPT !.state[p] = "BLOCKED"], p)
    IN /\ CanCall("block") /\ ThreadRuns /\ (p = k.current => MayWait)
       /\ Contract => p = k.current
       /\ k' = IF p = k.current THEN Schedule(blocked) ELSE blocked
       /\ UNCHANGED <<stage, irq, deadline>>

SchedulerUnblock(p) ==
    /\ CanCall("unblock") /\ ThreadRuns
    /\ k.state[p] = "BLOCKED"
    /\ Contract => Waiting(p)
    /\ k' = Add(k, p)
    /\ UNCHANGED <<stage, irq, deadline>>

\* process_exit: the process halts and stays current.
ProcessExit ==
    /\ CanCall("exit") /\ ThreadRuns
    /\ k' = [k EXCEPT !.state[k.current] = "ZOMBIE"]
    /\ UNCHANGED <<stage, irq, deadline>>

\* process_destroy: the slot is given up, the links are left as they are.
ProcessDestroy(p) ==
    /\ CanCall("destroy") /\ ThreadRuns
    /\ k.state[p] # "UNUSED" /\ p \notin {k.current, k.idle}
    /\ Contract => Waiting(p)
    /\ k' = [k EXCEPT !.state[p] = "UNUSED"]
    /\ UNCHANGED <<stage, irq, deadline>>

\* scheduler_tick, called by timer_handler once the callback is set.  The
\* handler runs with interrupts off: nothing else happens before TickEnd.
TickBegin ==
    /\ stage # "boot" /\ irq = "off" /\ ~k.hung /\ k.tick < MaxTick
    /\ k' = [k EXCEPT !.tick = (@ + 1) % TickMod]
    /\ irq' = "wake"
    /\ UNCHANGED <<stage, deadline>>

TickWake ==
    /\ irq = "wake" /\ ~k.hung /\ HeadIsDue(k)
    /\ k' = WakeHead(k)
    /\ deadline' = [deadline EXCEPT ![k.sleepq] = Awake]
    /\ UNCHANGED <<stage, irq>>

TickEnd ==
    /\ irq = "wake" /\ ~k.hung /\ ~HeadIsDue(k)
    /\ k' = ChargeCurrent(k)
    /\ irq' = "off"
    /\ UNCHANGED <<stage, deadline>>

-----------------------------------------------------------------------------
\* scheduler_init (with process_init): everything empty, the idle thread
\* created on the first slot but put on no queue.
Empty ==
    [heads |-> [q \in Level |-> NULL], bitmap |-> {}, sleepq |-> NULL, tick |-> 0,
     current |-> NULL, idle |-> NULL, state |-> [p \in Procs |-> "UNUSED"],
     prio |-> [p \in Procs |-> 0], slice |-> [p \in Procs |-> 0],
     wake |-> [p \in Procs |-> 0], next |-> [p \in Procs |-> NULL],
     prev |-> [p \in Procs |-> NULL], hung |-> FALSE]

Init ==
    /\ \E created \in IdleOutcomes :
         k = IF created THEN [Created(Empty, 1, IdlePrio) EXCEPT !.idle = 1]
             ELSE Empty
    /\ stage = "boot"
    /\ irq = "off"
    /\ deadline = [p \in Procs |-> Awake]

Next ==
    \/ \E pr \in Priorities : Spawn(pr)
    \/ SchedulerStart
    \/ FirstSchedule
    \/ SchedulerYield
    \/ \E d \in Delays : SchedulerSleep(d)
    \/ \E p \in Procs : SchedulerBlock(p)
    \/ \E p \in Procs : SchedulerUnblock(p)
    \/ ProcessExit
    \/ \E p \in Procs : ProcessDestroy(p)
    \/ TickBegin
    \/ TickWake
    \/ TickEnd

Spec == Init /\ [][Next]_vars

-----------------------------------------------------------------------------
(***************************************************************************)
(* Properties.                                                             *)
(***************************************************************************)

Sleepers(s) == Members(s.next, s.sleepq)

ReadyQueue(q) == Members(k.next, k.heads[q])

\* Every link of the PCBs is a slot or NULL, slices stay unsigned, and no call
\* dispatches a NULL process.
TypeOK ==
    /\ k \in KernelState
    /\ stage \in {"boot", "armed", "started"}
    /\ irq \in {"off", "wake"}
    /\ deadline \in [Procs -> Int]

\* ready_bitmap is the "bitmap of non-empty queues" after every call, which
\* find_next_process relies on when it dereferences the head it selects.
BitmapMatches == \A q \in Level : q \in k.bitmap <=> k.heads[q] # NULL

\* At most one process is marked RUNNING, and it is the one current_process
\* points to: no context switch leaves a second PCB marked RUNNING.
RunningIsCurrent == \A p \in Procs : k.state[p] = "RUNNING" => p = k.current

\* The links of every ready queue agree in both directions, its members are
\* READY and belong to its level: no call splices one queue into another.
QueuesWellFormed ==
    \A q \in Level :
       /\ k.heads[q] # NULL => k.prev[k.heads[q]] = NULL
       /\ \A p \in ReadyQueue(q) :
            /\ k.state[p] = "READY" /\ Clamp(k.prio[p]) = q
            /\ k.next[p] # NULL => k.prev[k.next[p]] = p

\* A READY process can be found by find_next_process: no sequence of calls
\* drops it from its ready queue (the idle process needs no queue).
NoLostProcess ==
    \A p \in Procs \ {k.idle} :
       k.state[p] = "READY" => p \in ReadyQueue(Clamp(k.prio[p]))

\* The queues stay acyclic: the walks of scheduler_add and scheduler_sleep
\* always end.
NoHang == ~k.hung

\* schedule() gives the CPU to a process of the best level among those that
\* were READY when it was called (the outgoing process not counted).
DispatchTop ==
    [][ k.current' # k.current =>
          \A p \in Procs \ {k.idle} :
             k.state[p] = "READY" => Clamp(k.prio[k'.current]) <= Clamp(k.prio[p]) ]_vars

\* The sleep queue is "sorted by wake time" and holds blocked processes
\* only, although its links are those of the ready queues.
SleepQueueSorted ==
    \A p \in Sleepers(k) :
       /\ k.state[p] = "BLOCKED"
       /\ k.next[p] # NULL => k.wake[p] <= k.wake[k.next[p]]

\* A process that called scheduler_sleep stays on the sleep queue until a
\* tick wakes it.
NoLostSleeper == \A p \in Procs : deadline[p] # Awake => p \in Sleepers(k)

\* When the wake-up loop, which stops at the first head that is not due, has
\* ended, no sleeper anywhere in the queue is due.
WokenOnTime ==
    [][ irq = "wake" /\ irq' = "off" =>
          \A p \in Sleepers(k') : k'.wake[p] > k'.tick ]_vars

\* scheduler_sleep(n) lasts n ticks: no process is woken before the tick it
\* asked for ("Sleep for N ticks").
NoEarlyWake ==
    [][ \A p \in Procs : deadline[p] # Awake /\ deadline'[p] = Awake
                            => k.tick >= deadline[p] ]_vars

\* What the comment in scheduler_init says of the idle process: "Don't add to
\* ready queue - it's special".
IdleNeverQueued == \A q \in Level : k.idle \notin ReadyQueue(q)

\* What process.c says of the idle process: it "runs when no other process is
\* ready"; here, whenever it is dispatched.
IdleOnlyWhenNothingReady ==
    [][ k'.current = k.idle /\ k.current # k.idle =>
          \A p \in Procs \ {k.idle} : k'.state[p] # "READY" ]_vars

\* The design's "always run highest-priority ready process": after a switch
\* no ready process, the outgoing one included, has a better level than the
\* thread that runs.
DispatchHighest ==
    [][ k'.current # k.current /\ k'.current # k.idle =>
          \A p \in Procs \ {k.idle} :
             k'.state[p] = "READY" => Clamp(k'.prio[k'.current]) <= Clamp(k'.prio[p]) ]_vars
=============================================================================
