-------------------------------- MODULE Pmm --------------------------------
(***************************************************************************)
(* The physical memory manager (kernel/mm/pmm.c): a bitmap with one bit    *)
(* per page, a count of the bits set, and the callers that own pages.      *)
(*                                                                         *)
(* The bitmap is the set of the pages whose bit is set.  The two searches  *)
(* are stated by their results, the lowest page or run of pages that is    *)
(* free; PmmSearch models the loop of pmm_alloc_pages itself and shows     *)
(* that it finds that run.                                                 *)
(***************************************************************************)
EXTENDS Integers, Sequences, FiniteSets

CONSTANTS
    NPages,    \* PMM_MAX_PAGES
    Reserved,  \* number of pages below 2MB, never allocated
    MaxCount,  \* largest argument pmm_alloc_pages accepts (256)
    Maps,      \* memory maps passed to pmm_init, sequences of regions
    BadMap,    \* TRUE: pmm_init may also get a map it rejects
    Heap,      \* pages of the kernel heap, fixed by kernel_main
    Contract   \* TRUE: callers free what they own

Region == [usable: BOOLEAN, start: Nat, num: Nat]

ASSUME PmmAssumption == /\ NPages \in Nat /\ Reserved \in 1..NPages /\ MaxCount \in Nat
                        /\ Maps \subseteq Seq(Region)
                        /\ BadMap \in BOOLEAN /\ Contract \in BOOLEAN

Pages == 0..(NPages - 1)
Low == 0..(Reserved - 1)

VARIABLES
    bitmap,       \* pages marked used
    total_pages,
    used_pages,
    phase,        \* "boot", "scan" (pmm_init reads the map), "run"
    todo,         \* entries of the map not yet read
    map,          \* history: the map passed to pmm_init
    base,         \* history: pages marked used at the end of pmm_init
    owned         \* history: blocks handed out and not freed

vars == <<bitmap, total_pages, used_pages, phase, todo, map, base, owned>>

\* The pages num_pages long from start that the bitmap covers.
Span(start, num) == {p \in Pages : start <= p /\ p < start + num}

Block(start, num) == [start |-> start, num |-> num]
PagesOf(b) == Span(b.start, b.num)
Allocated == UNION {PagesOf(b) : b \in owned}

-----------------------------------------------------------------------------
(***************************************************************************)
(* Bits.  A bit that changes is counted; one that has its value already is *)
(* not.  An operator commented "Fault" is a faulty variant of the operator *)
(* that follows it; nothing else uses it.                                  *)
(***************************************************************************)

\* Fault: pages that are free already are counted again.
ClearUncounted(R) == /\ bitmap' = bitmap \ R
                     /\ used_pages' = used_pages - Cardinality(R)

\* if (bitmap_test(page)) { bitmap_clear(page); used_pages--; } for all R.
ClearBits(R) == /\ bitmap' = bitmap \ R
                /\ used_pages' = used_pages - Cardinality(R \cap bitmap)

\* The same for bitmap_set.
SetBits(R) == /\ bitmap' = bitmap \cup R
              /\ used_pages' = used_pages + Cardinality(R \ bitmap)

-----------------------------------------------------------------------------
(***************************************************************************)
(* pmm_init.                                                               *)
(***************************************************************************)

\* The early return: no map, no entries or more than 256 of them.  The
\* bitmap keeps the zeros of the BSS.
InitRejected ==
    /\ phase = "boot" /\ BadMap
    /\ total_pages' = 0 /\ used_pages' = 0
    /\ phase' = "run"
    /\ UNCHANGED <<bitmap, todo, map, base, owned>>

InitStart(m) ==
    /\ phase = "boot" /\ m # <<>>
    /\ bitmap' = Pages /\ total_pages' = NPages /\ used_pages' = NPages
    /\ todo' = m /\ map' = m
    /\ phase' = "scan"
    /\ UNCHANGED <<base, owned>>

\* Fault: every region counts as usable.
FreeableAlways(r) == Span(r.start, r.num)

\* The pages an entry of the map gives to the allocator.
Freeable(r) ==
    IF r.usable THEN Span(r.start, IF r.num > NPages THEN NPages ELSE r.num) ELSE {}

\* One entry of the map: its pages are marked free.
InitEntry ==
    LET r == Head(todo)
    IN /\ phase = "scan" /\ todo # <<>>
       /\ ClearBits(Freeable(r))
       /\ todo' = Tail(todo)
       /\ UNCHANGED <<total_pages, phase, map, base, owned>>

\* The first 2MB are marked used again.
InitReserve ==
    /\ phase = "scan" /\ todo = <<>>
    /\ SetBits(Low)
    /\ base' = bitmap'
    /\ phase' = "run"
    /\ UNCHANGED <<total_pages, todo, map, owned>>

-----------------------------------------------------------------------------
(***************************************************************************)
(* Allocation.                                                             *)
(***************************************************************************)

\* Free runs of n pages above 2MB, by their first page.
Fits(n) == {p \in Pages : /\ Reserved <= p /\ p + n <= NPages
                          /\ Span(p, n) \cap bitmap = {}}

Lowest(S) == CHOOSE p \in S : \A r \in S : p <= r

\* Fault: one page fewer than asked for is marked.
TakeOneShort(p, n) ==
    /\ SetBits(Span(p, n - 1))
    /\ owned' = owned \cup {Block(p, n)}
    /\ UNCHANGED <<total_pages, phase, todo, map, base>>

Take(p, n) ==
    /\ SetBits(Span(p, n))
    /\ owned' = owned \cup {Block(p, n)}
    /\ UNCHANGED <<total_pages, phase, todo, map, base>>

\* pmm_alloc_page.  (Without a free page it returns NULL, changing nothing.)
AllocPage ==
    /\ phase = "run"
    /\ Fits(1) # {}
    /\ Take(Lowest(Fits(1)), 1)

\* pmm_alloc_pages; it refuses 0 and more than MaxCount pages.
AllocPages(n) ==
    /\ phase = "run"
    /\ n \in 1..MaxCount
    /\ Fits(n) # {}
    /\ Take(Lowest(Fits(n)), n)

-----------------------------------------------------------------------------
(***************************************************************************)
(* Freeing.                                                                *)
(***************************************************************************)

\* Fault: the last page of a block stays marked.
GiveOneShort(p, n) ==
    /\ ClearBits(Span(p, n - 1))
    /\ owned' = owned \ {Block(p, n)}
    /\ UNCHANGED <<total_pages, phase, todo, map, base>>

Give(p, n) ==
    /\ ClearBits(Span(p, n))
    /\ owned' = owned \ {Block(p, n)}
    /\ UNCHANGED <<total_pages, phase, todo, map, base>>

\* pmm_free_page: an address beyond the bitmap is ignored, as is a page that
\* is free already.
FreePage(p) ==
    /\ phase = "run"
    /\ Contract => Block(p, 1) \in owned
    /\ Give(p, 1)

\* pmm_free_pages.
FreePages(p, n) ==
    /\ phase = "run"
    /\ Contract => Block(p, n) \in owned
    /\ Give(p, n)

-----------------------------------------------------------------------------
Init ==
    /\ bitmap = {} /\ total_pages = 0 /\ used_pages = 0
    /\ phase = "boot" /\ todo = <<>> /\ map = <<>>
    /\ base = {} /\ owned = {}

Next ==
    \/ InitRejected
    \/ \E m \in Maps : InitStart(m)
    \/ InitEntry
    \/ InitReserve
    \/ AllocPage
    \/ \E n \in 1..MaxCount : AllocPages(n)
    \/ \E p \in 0..NPages : FreePage(p)
    \/ \E p \in 0..NPages, n \in 1..MaxCount : FreePages(p, n)

Spec == Init /\ [][Next]_vars

-----------------------------------------------------------------------------
(***************************************************************************)
(* Properties.                                                             *)
(***************************************************************************)

\* The bitmap covers the pages managed, and the unsigned used_pages is never
\* decremented below zero.
TypeOK ==
    /\ bitmap \in SUBSET Pages
    /\ total_pages \in {0, NPages} /\ used_pages \in Nat
    /\ phase \in {"boot", "scan", "run"}
    /\ todo \in Seq(Region) /\ map \in Seq(Region)
    /\ base \in SUBSET Pages
    /\ owned \subseteq [start: Pages, num: 1..NPages]

\* used_pages is the number of bits set, although no function counts them:
\* every path that sets or clears bits adjusts it by exactly as many.
CountExact == used_pages = Cardinality(bitmap)

\* The bitmap is exact: the pages marked are those pmm_init left marked and
\* those of the blocks in use.  Nothing leaks, nothing in use is marked free.
BitmapExact == phase = "run" => bitmap = base \cup Allocated /\ base \cap Allocated = {}

\* No page belongs to two owners.
NoSharedPage == \A b, c \in owned : b # c => PagesOf(b) \cap PagesOf(c) = {}

UsablePages ==
    UNION {Span(map[i].start, map[i].num) : i \in {j \in DOMAIN map : map[j].usable}}

\* Only memory that the firmware's map calls usable, and no page below 2MB,
\* is ever handed out.
OnlyUsable == map # <<>> => Allocated \subseteq UsablePages \ Low

\* The documented layout gives the heap its own megabyte: no block handed out
\* lies in it.
HeapUntouched == Allocated \cap Heap = {}

\* After the "Safety check" has rejected the map there is no memory to manage:
\* no more pages are handed out than total_pages says there are.
WithinTotal == Cardinality(Allocated) <= total_pages
=============================================================================
