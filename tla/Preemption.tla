---------------------------- MODULE Preemption -----------------------------
(***************************************************************************)
(* The scheduler driven by real timer interrupts: kernel/cpu/isr.S and     *)
(* idt.c around scheduler_tick, the PIC's in-service bit, the CPU's        *)
(* interrupt flag, and context_switch, which saves neither.                *)
(*                                                                         *)
(* interrupt_handler calls timer_handler, hence schedule(), before it      *)
(* sends the EOI.  A process preempted there keeps the rest of the handler *)
(* (pic_eoi and iretq) on its stack; the process switched to returns from  *)
(* its own context_switch, into thread code or into the rest of its own    *)
(* interrupt handler.                                                      *)
(***************************************************************************)
EXTENDS Scheduler, FiniteSets

CONSTANT BootThreads  \* threads created before scheduler_start is called

ASSUME BootAssumption == BootThreads \in Nat

VARIABLES
    intFlag,    \* RFLAGS.IF of the CPU
    inService,  \* IRQ0 delivered and no EOI sent: the PIC holds back IRQ0
    resume      \* where context_switch returns to in each suspended process:
                \* "thread" code, the rest of the "handler", or "none"

pvars == <<k, stage, irq, deadline, intFlag, inService, resume>>

\* Fault: the handler returns without an EOI.
EndWithoutEoi == intFlag' = TRUE /\ UNCHANGED inService

\* What is left of interrupt_handler and isr_common_stub after timer_handler
\* has returned: EOI, then iretq restores the flag, which was on.
EndOfHandler == intFlag' = TRUE /\ inService' = FALSE

\* The CPU continues in k'.current; suspendedIn tells where schedule() was
\* called, in a "thread" or in the "handler".
Switch(suspendedIn) ==
    LET old == k.current
        new == k'.current
        cont == IF new = old THEN suspendedIn ELSE resume[new]
    IN /\ resume' = [p \in Procs |->
                       IF new = old THEN resume[p]
                       ELSE IF p = old THEN suspendedIn
                       ELSE IF p = new THEN "none" ELSE resume[p]]
       /\ IF cont = "handler" THEN EndOfHandler
                              ELSE UNCHANGED <<intFlag, inService>>

-----------------------------------------------------------------------------
\* A call made by boot code or by the current thread.  (process_exit and
\* process_destroy switch to nobody and are left to Scheduler.)
Call == \/ FirstSchedule
        \/ SchedulerYield
        \/ \E d \in Delays : SchedulerSleep(d)
        \/ \E p \in Procs : SchedulerBlock(p)
        \/ \E p \in Procs : SchedulerUnblock(p)

ThreadCall == Call /\ Switch("thread")

SpawnThread(pr) ==
    /\ Spawn(pr)
    /\ resume' = [resume EXCEPT ![FreeSlot(k)] = "thread"]
    /\ UNCHANGED <<intFlag, inService>>

StartScheduler ==
    /\ SchedulerStart
    /\ Cardinality({p \in Procs \ {k.idle} : k.state[p] # "UNUSED"}) >= BootThreads
    /\ UNCHANGED <<intFlag, inService, resume>>

\* The interrupt gate clears the flag; a second IRQ0 waits for the EOI.
TimerInterrupt ==
    /\ intFlag /\ ~inService
    /\ TickBegin
    /\ intFlag' = FALSE /\ inService' = TRUE
    /\ UNCHANGED resume

TimerWake == TickWake /\ UNCHANGED <<intFlag, inService, resume>>

TimerEnd == TickEnd /\ Switch("handler")

TimerStep == TimerInterrupt \/ TimerWake \/ TimerEnd

PInit ==
    /\ Init
    /\ intFlag = TRUE /\ inService = FALSE
    /\ resume = [p \in Procs |-> IF p = k.idle THEN "thread" ELSE "none"]

PNext ==
    \/ \E pr \in Priorities : SpawnThread(pr)
    \/ StartScheduler
    \/ ThreadCall
    \/ TimerStep

\* The hardware delivers a pending IRQ0 whenever it may, and the handler runs
\* to its end.
HardwareFairness == WF_pvars(TimerStep)

\* The demo threads of kernel.c: each one comes back to scheduler_yield.
YieldFairness == WF_pvars(SchedulerYield /\ Switch("thread"))

PSafety == PInit /\ [][PNext]_pvars

PSpec == PSafety /\ HardwareFairness

DemoSpec == PSpec /\ YieldFairness

-----------------------------------------------------------------------------
(***************************************************************************)
(* Properties.                                                             *)
(***************************************************************************)

\* An EOI is owed by exactly one process, the one that was preempted: while
\* IRQ0 is in service outside the handler, one suspended process (never the
\* running one) holds the rest of the handler, and otherwise none does.
EoiOwedByOne ==
    irq = "off" =>
       /\ inService <=> \E p \in Procs : resume[p] = "handler"
       /\ \A p, r \in Procs : resume[p] = "handler" /\ resume[r] = "handler" => p = r
       /\ intFlag <=> ~inService

\* The process that owes the EOI can still be dispatched: it sits on a ready
\* queue, so that interrupts come back when its turn comes.
EoiHolderIsReady ==
    \A p \in Procs : resume[p] = "handler" =>
       k.state[p] = "READY" /\ p \in ReadyQueue(Clamp(k.prio[p]))

Best(p) == \A r \in Procs : k.state[r] # "UNUSED" => Clamp(k.prio[p]) <= Clamp(k.prio[r])

\* The slots of threads: the idle process has the first.
Threads == 2..NProcs

\* The idle process, which only halts, runs with interrupts off.
Halted == k.current = k.idle /\ ~intFlag

\* A thread of the best level in the system that is ready gets the CPU, if all
\* threads come back to scheduler_yield, unless the idle process is entered for
\* the first time by a preemption and halts with interrupts off.
OnlyIdleStarves ==
    \A p \in Threads :
       stage = "started" /\ k.state[p] = "READY" /\ Best(p)
         ~> k.current = p \/ ~Best(p) \/ Halted

\* A thread of the best level in the system that is ready gets the CPU
\* (README: "Preemptive (timer-based)").
BestReadyRuns ==
    \A p \in Threads :
       stage = "started" /\ k.state[p] = "READY" /\ Best(p) ~> k.current = p \/ ~Best(p)
=============================================================================
