------------------------------- MODULE MCPmm -------------------------------
(***************************************************************************)
(* Small instances of Pmm.                                                 *)
(***************************************************************************)
EXTENDS PmmSearch

R(u, s, n) == [usable |-> u, start |-> s, num |-> n]

\* Regions that overlap, that are not usable, that start below 2MB, and that
\* end beyond or lie beyond the memory managed.
SmallMaps == { <<R(TRUE, 0, NPages)>>,
               <<R(TRUE, 0, 6), R(TRUE, 2, 5)>>,
               <<R(TRUE, 0, 3), R(FALSE, 3, 2), R(TRUE, 5, 20)>>,
               <<R(FALSE, 0, 2), R(TRUE, 2, 3), R(TRUE, 9, 2)>> }

OneMap == { <<R(TRUE, 0, NPages)>> }
=============================================================================
