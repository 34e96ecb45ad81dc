--------------------------- MODULE SchedulerRace ---------------------------
(***************************************************************************)
(* The scheduler's calls as an interrupt sees them.  Threads call          *)
(* scheduler_yield, scheduler_sleep and scheduler_block with interrupts on,*)
(* and schedule() keeps the process it has chosen in a local variable: a   *)
(* tick may come, and switch to other threads and back, before it acts on  *)
(* its choice.  Each call is two steps here, up to the choice of the next  *)
(* process and from there on; ticks stay as they are in Scheduler.         *)
(***************************************************************************)
EXTENDS Scheduler

VARIABLE picked  \* the local variable next of each thread inside schedule(),
                 \* NULL for a thread that is not in it

raceVars == <<vars, picked>>

\* Ready to call: not inside schedule() already.
Outside == ThreadRuns /\ picked[k.current] = NULL

\* A call that has brought the kernel into state s enters schedule() and
\* chooses; it returns at once if there is nothing to switch to.
Enter(s) ==
    /\ k' = s
    /\ picked' = [picked EXCEPT ![s.current] = IF FindNext(s) = s.current THEN NULL
                                               ELSE FindNext(s)]

YieldEnter ==
    /\ CanCall("yield") /\ Outside
    /\ Enter([k EXCEPT !.slice[k.current] = 0])
    /\ UNCHANGED <<stage, irq, deadline>>

SleepEnter(d) ==
    LET c == k.current
        blocked == [k EXCEPT !.wake[c] = (k.tick + d) % TickMod, !.state[c] = "BLOCKED"]
    IN /\ CanCall("sleep") /\ Outside /\ MayWait
       /\ Enter(InsertSleeper(Remove(blocked, c), c))
       /\ deadline' = [deadline EXCEPT ![c] = k.tick + d]
       /\ UNCHANGED <<stage, irq>>

BlockEnter ==
    /\ CanCall("block") /\ Outside /\ MayWait
    /\ Enter(Remove([k EXCEPT !.state[k.current] = "BLOCKED"], k.current))
    /\ UNCHANGED <<stage, irq, deadline>>

\* The rest of schedule(), once its thread runs with interrupts on again.
Act ==
    LET c == k.current
        next == picked[c]
        put == IF k.state[c] = "RUNNING" THEN Add([k EXCEPT !.state[c] = "READY"], c) ELSE k
    IN /\ irq = "off" /\ ~k.hung /\ c # NULL /\ next # NULL
       /\ k' = IF put.hung THEN put
               ELSE [Remove(put, next) EXCEPT !.state[next] = "RUNNING", !.current = next]
       /\ picked' = [picked EXCEPT ![c] = NULL]
       /\ UNCHANGED <<stage, irq, deadline>>

RaceInit == Init /\ picked = [p \in Procs |-> NULL]

RaceNext ==
    \/ YieldEnter
    \/ \E d \in Delays : SleepEnter(d)
    \/ BlockEnter
    \/ Act
    \/ /\ (k.current # NULL => picked[k.current] = NULL)
       /\ (\E pr \in Priorities : Spawn(pr)) \/ (\E p \in Procs : SchedulerUnblock(p))
       /\ UNCHANGED picked
    \/ /\ SchedulerStart \/ FirstSchedule \/ TickBegin \/ TickWake \/ TickEnd
       /\ UNCHANGED picked

RaceSpec == RaceInit /\ [][RaceNext]_raceVars

-----------------------------------------------------------------------------
(***************************************************************************)
(* Properties.                                                             *)
(***************************************************************************)

\* "Sleep for N ticks": a thread in scheduler_sleep does not run again until
\* a tick has taken it off the sleep queue.
SleepLasts == \A p \in Procs : k.state[p] = "RUNNING" => deadline[p] = Awake
=============================================================================
