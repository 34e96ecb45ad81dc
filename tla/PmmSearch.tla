----------------------------- MODULE PmmSearch -----------------------------
(***************************************************************************)
(* The search of pmm_alloc_pages (kernel/mm/pmm.c) as the nested loops the *)
(* code runs, on the bitmap of Pmm: it skips ahead past a used page, and   *)
(* must still find the lowest run that fits.                               *)
(***************************************************************************)
EXTENDS Pmm

NotFound == -1

\* Inner loop: how many pages from start_page on are free, at most count.
FreeAhead(start_page, count) ==
    CHOOSE i \in 0..count :
        /\ i = count \/ start_page + i \in bitmap
        /\ \A j \in 0..(i - 1) : start_page + j \notin bitmap

\* Fault: the skip goes on one page too far.
SkipTooFar(start_page, i) == start_page + i + 2

\* start_page += i, then start_page++.
SkipAhead(start_page, i) == start_page + i + 1

\* Outer loop.
Search(count) ==
    LET from[s \in Reserved..(NPages + 1)] ==
          IF s + count > NPages THEN NotFound
          ELSE LET i == FreeAhead(s, count)
               IN IF i = count THEN s ELSE from[SkipAhead(s, i)]
    IN from[Reserved]

\* In every state the allocator reaches, and for every count, the search
\* returns the lowest run that fits, and fails only when none does: the skip
\* never jumps over the start of a run.
FindsLowest ==
    phase = "run" =>
      \A n \in 1..MaxCount :
         Search(n) = IF Fits(n) = {} THEN NotFound ELSE Lowest(Fits(n))
=============================================================================
