---------------------------- MODULE MCScheduler ----------------------------
(***************************************************************************)
(* Small instances of Scheduler.  Level Levels-1 is the idle process's.    *)
(***************************************************************************)
EXTENDS Scheduler

\* Two levels above the idle one, and a request that has to be clamped.
PrioritiesAboveIdle == {-1, 0, 1}

\* A request at or beyond the lowest level.
PrioritiesToLowest == {0, Levels - 1, Levels}

\* One level per thread.
PrioritiesAll == 0..(Levels - 2)

\* A delay that makes wake_time wrap.
DelaysWrapping == {1, TickMod - 1}
=============================================================================
