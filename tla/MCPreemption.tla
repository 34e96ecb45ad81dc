--------------------------- MODULE MCPreemption ----------------------------
(***************************************************************************)
(* Small instances of Preemption: all threads on one level, like the demo  *)
(* threads of kernel.c, or on two.                                         *)
(***************************************************************************)
EXTENDS Preemption

OneLevel == {0}
TwoLevels == {0, 1}
ThreeLevels == {0, 1, 2}
=============================================================================
