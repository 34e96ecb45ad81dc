-------------------------------- MODULE Heap --------------------------------
(***************************************************************************)
(* The kernel heap (kernel/mm/heap.c): a first-fit allocator whose block   *)
(* headers lie in the arena, linked in both directions.                    *)
(*                                                                         *)
(* hdr maps the address of every header that is on the list to its         *)
(* fields.  A pointer returned to a caller is the address of a header plus *)
(* Header; blocks in use are named by the address of the header.  What     *)
(* callers store is left out: only where they may store it matters.        *)
(***************************************************************************)
EXTENDS Integers, FiniteSetsExt

CONSTANTS
    Align,       \* ALIGN_SIZE
    Header,      \* sizeof(heap_block_t)
    MinPayload,  \* smallest payload worth a block of its own (16)
    Start,       \* heap_init's arguments
    Bytes,
    SizeMod,     \* 2^64 in the code: the width of size_t
    Sizes,       \* sizes that callers ask for
    Aligns,      \* alignments that callers ask for, powers of two
    OpSets       \* the sets of calls that clients may use, see OpNames

OpNames == {"malloc", "free", "move", "shrink", "grow", "aligned"}
MinBlock == Header + MinPayload

ASSUME LayoutAssumption ==
    /\ Align \in Nat \ {0} /\ Header \in Nat \ {0} /\ MinPayload \in Nat
    /\ Header % Align = 0 /\ MinPayload > Align + Align - 2
ASSUME ArenaAssumption ==
    Start \in Nat \ {0} /\ Bytes \in Nat /\ Bytes >= MinBlock
ASSUME WidthAssumption == SizeMod \in Nat /\ Start + Bytes < SizeMod
ASSUME HeapCallAssumption == /\ Sizes \subseteq 0..(SizeMod - 1)
                             /\ Aligns \subseteq Nat \ {0}
                             /\ OpSets \subseteq SUBSET OpNames

RoundDown(n, a) == n - (n % a)
RoundUp(n, a) == RoundDown(n + a - 1, a)

\* The arena after heap_init has aligned both its ends.
Base == RoundUp(Start, Align)
Total == RoundDown(Bytes - (Base - Start), Align)
End == Base + Total

NULL == 0
Addr == Base..(End - 1)
Ptr == Addr \cup {NULL}

VARIABLES
    hdr,   \* the headers on the list
    used,  \* heap_used_size
    req,   \* history: the blocks in use, each with the number of bytes of
           \* its payload that its owner may use
    ops    \* the calls that clients use: chosen once

vars == <<hdr, used, req, ops>>

HeaderFields == [size: 0..(SizeMod - 1), free: BOOLEAN, next: Ptr, prev: Int]

-----------------------------------------------------------------------------
(***************************************************************************)
(* The helpers.  An operator commented "Fault" is a faulty variant of the  *)
(* operator that follows it; nothing else uses it.                         *)
(***************************************************************************)

\* Fault: sizes are rounded down.
AlignSizeDown(n) == RoundDown(n, Align)

\* align_size, in the width of size_t.
AlignSize(n) == RoundDown((n + Align - 1) % SizeMod, Align)

\* find_free_block: the walk from heap_start along the next links goes on
\* from every block that does not fit.
FindFree(h, n) ==
    LET Fits(b) == h[b].free /\ h[b].size >= n
        closed == {S \in SUBSET DOMAIN h :
                      Base \in S /\ \A b \in S : Fits(b) \/ h[b].next \in S \cup {NULL}}
        found == {b \in DOMAIN h : Fits(b) /\ \A S \in closed : b \in S}
    IN IF found = {} THEN NULL ELSE CHOOSE b \in found : TRUE

\* Faults: the header of the new block is not counted; the block after it
\* keeps its prev link.
SplitNoHeader(h, b, n) ==
    LET c == b + Header + n
    IN IF h[b].size < n + MinBlock THEN h
       ELSE [x \in DOMAIN h \cup {c} |->
               IF x = c THEN [size |-> h[b].size - n, free |-> TRUE, next |-> h[b].next, prev |-> b]
               ELSE IF x = b THEN [h[b] EXCEPT !.size = n, !.next = c]
               ELSE IF x = h[b].next THEN [h[x] EXCEPT !.prev = c] ELSE h[x]]
SplitOneWay(h, b, n) ==
    LET c == b + Header + n
    IN IF h[b].size < n + MinBlock THEN h
       ELSE [x \in DOMAIN h \cup {c} |->
               IF x = c THEN [size |-> h[b].size - n - Header, free |-> TRUE,
                              next |-> h[b].next, prev |-> b]
               ELSE IF x = b THEN [h[b] EXCEPT !.size = n, !.next = c] ELSE h[x]]

\* split_block: what is left over of b becomes a free block if it is large
\* enough.
SplitBlock(h, b, n) ==
    LET c == b + Header + n
        rest == [size |-> h[b].size - n - Header, free |-> TRUE,
                 next |-> h[b].next, prev |-> b]
    IN IF h[b].size < n + MinBlock THEN h
       ELSE [x \in DOMAIN h \cup {c} |->
               IF x = c THEN rest
               ELSE IF x = b THEN [h[b] EXCEPT !.size = n, !.next = c]
               ELSE IF x = h[b].next THEN [h[x] EXCEPT !.prev = c]
               ELSE h[x]]

\* Block a takes in the block b that follows it.
Absorb(h, a, b) ==
    [x \in DOMAIN h \ {b} |->
       IF x = a THEN [h[a] EXCEPT !.size = @ + Header + h[b].size, !.next = h[b].next]
       ELSE IF x = h[b].next THEN [h[x] EXCEPT !.prev = a]
       ELSE h[x]]

\* Fault: the block before is not looked at.
CoalesceNextOnly(h, b) ==
    IF h[b].next # NULL /\ h[h[b].next].free THEN Absorb(h, b, h[b].next) ELSE h

\* coalesce_blocks.
Coalesce(h, b) ==
    LET n == h[b].next
        p == h[b].prev
        one == IF n # NULL /\ h[n].free THEN Absorb(h, b, n) ELSE h
    IN IF p # NULL /\ one[p].free THEN Absorb(one, p, b) ELSE one

Drop(f, b) == [x \in DOMAIN f \ {b} |-> f[x]]
Put(f, b, v) == [x \in DOMAIN f \cup {b} |-> IF x = b THEN v ELSE f[x]]

\* kmalloc(n), once a block b that fits n has been found.
Allocated(h, b, n) == [SplitBlock(h, b, n) EXCEPT ![b].free = FALSE]

\* What kfree takes off heap_used_size.
FreedSize(h, b) == h[b].size + Header

\* kfree's changes to the list.
Freed(h, b) == Coalesce([h EXCEPT ![b].free = TRUE], b)

-----------------------------------------------------------------------------
(***************************************************************************)
(* The interface.  A call that returns NULL leaves everything as it is and *)
(* has no action.  Callers pass pointers to blocks they own.               *)
(***************************************************************************)

\* kmalloc, which is also krealloc with a null pointer.
Kmalloc(n) ==
    LET b == FindFree(hdr, AlignSize(n))
    IN /\ "malloc" \in ops
       /\ n # 0 /\ b # NULL
       /\ hdr' = Allocated(hdr, b, AlignSize(n))
       /\ used' = (used + hdr'[b].size + Header) % SizeMod
       /\ req' = Put(req, b, n)
       /\ UNCHANGED ops

\* kfree, which is also krealloc with size 0.
Kfree(b) ==
    /\ "free" \in ops
    /\ b \in DOMAIN req
    /\ hdr' = Freed(hdr, b)
    /\ used' = (used - FreedSize(hdr, b)) % SizeMod
    /\ req' = Drop(req, b)
    /\ UNCHANGED ops

\* krealloc to a size that the block has already.
KreallocShrink(b, n) ==
    /\ "shrink" \in ops
    /\ b \in DOMAIN req
    /\ n # 0 /\ AlignSize(n) <= hdr[b].size
    /\ hdr' = SplitBlock(hdr, b, AlignSize(n))
    /\ req' = Put(req, b, n)
    /\ UNCHANGED <<used, ops>>

NextIsFree(b) == hdr[b].next # NULL /\ hdr[hdr[b].next].free

CanGrow(b, n) ==
    NextIsFree(b) /\ hdr[b].size + Header + hdr[hdr[b].next].size >= AlignSize(n)

\* krealloc to a larger size when the next block is free and large enough.
\* (split_block, called with the size just stored, never splits.)
KreallocGrow(b, n) ==
    LET grown == [hdr EXCEPT ![hdr[b].next].free = FALSE, ![b].size = AlignSize(n)]
    IN /\ "grow" \in ops
       /\ b \in DOMAIN req
       /\ AlignSize(n) > hdr[b].size /\ CanGrow(b, n)
       /\ hdr' = SplitBlock(grown, b, AlignSize(n))
       /\ req' = Put(req, b, n)
       /\ UNCHANGED <<used, ops>>

\* krealloc to a larger size by kmalloc, copy and kfree.
KreallocMove(b, n) ==
    LET size == AlignSize(n)
        c == FindFree(hdr, size)
        h == Allocated(hdr, c, size)
    IN /\ "move" \in ops
       /\ b \in DOMAIN req
       /\ size > hdr[b].size /\ ~CanGrow(b, n) /\ c # NULL
       /\ hdr' = Freed(h, b)
       /\ used' = (used + h[c].size + Header - FreedSize(h, b)) % SizeMod
       /\ req' = Drop(Put(req, c, n), b)
       /\ UNCHANGED ops

\* kmalloc_aligned.  The word below the pointer returned is overwritten with
\* the original pointer: when that was aligned already, the word is the last
\* field of the header, prev.
KmallocAligned(n, a) ==
    LET align == IF a < Align THEN Align ELSE a
        total == (n + align + Header) % SizeMod
        size == AlignSize(total)
        b == FindFree(hdr, size)
        ptr == b + Header
        aligned == RoundUp(ptr, align)
        h == Allocated(hdr, b, size)
    IN /\ "aligned" \in ops
       /\ total # 0 /\ b # NULL
       /\ hdr' = IF aligned = ptr THEN [h EXCEPT ![b].prev = ptr] ELSE h
       /\ used' = (used + h[b].size + Header) % SizeMod
       /\ req' = Put(req, b, aligned - ptr + n)
       /\ UNCHANGED ops

-----------------------------------------------------------------------------
\* heap_init.
Init ==
    /\ hdr = [b \in {Base} |-> [size |-> Total - Header, free |-> TRUE,
                                next |-> NULL, prev |-> NULL]]
    /\ used = 0
    /\ req = [b \in {} |-> 0]
    /\ ops \in OpSets

\* The calls that keep the list sound.
Next ==
    \/ \E n \in Sizes : Kmalloc(n)
    \/ \E b \in DOMAIN req : Kfree(b)
    \/ \E b \in DOMAIN req, n \in Sizes : KreallocShrink(b, n)
    \/ \E b \in DOMAIN req, n \in Sizes : KreallocMove(b, n)

Spec == Init /\ [][Next]_vars

\* All the calls.
FullNext ==
    \/ Next
    \/ \E b \in DOMAIN req, n \in Sizes : KreallocGrow(b, n)
    \/ \E n \in Sizes, a \in Aligns : KmallocAligned(n, a)

FullSpec == Init /\ [][FullNext]_vars

-----------------------------------------------------------------------------
(***************************************************************************)
(* Properties.                                                             *)
(***************************************************************************)

\* Headers and their links lie in the arena, sizes are not negative, and every
\* pointer an owner holds is that of a block on the list.
TypeOK ==
    /\ DOMAIN hdr \subseteq Addr /\ hdr \in [DOMAIN hdr -> HeaderFields]
    /\ used \in 0..(SizeMod - 1)
    /\ DOMAIN req \subseteq DOMAIN hdr /\ req \in [DOMAIN req -> Nat]
    /\ ops \in OpSets

Limit(b) == b + Header + hdr[b].size

\* The blocks tile the arena in the order of the list: each one ends where the
\* next begins, the last one where the arena ends, and the prev links lead back.
Tiled ==
    /\ Base \in DOMAIN hdr
    /\ \A b \in DOMAIN hdr :
         /\ hdr[b].next = IF Limit(b) = End THEN NULL ELSE Limit(b)
         /\ hdr[b].next # NULL => hdr[b].next \in DOMAIN hdr /\ hdr[hdr[b].next].prev = b

\* No two blocks overlap: what an owner may write is neither another block's
\* payload nor a header.
NoOverlap ==
    \A b, c \in DOMAIN hdr : b < c => Limit(b) <= c

\* A block is marked in use exactly while someone owns it.
FreeMeansUnowned == \A b \in DOMAIN hdr : hdr[b].free <=> b \notin DOMAIN req

\* Every block in use has room for what its owner asked for.
RequestHonoured == \A b \in DOMAIN req : req[b] <= hdr[b].size

\* "free block coalescing": unless krealloc shrinks blocks there are never two
\* free blocks side by side, so that once everything has been freed the heap is
\* one block again.
Coalesced ==
    "shrink" \notin ops =>
    \A b \in DOMAIN hdr : hdr[b].free /\ hdr[b].next # NULL => ~hdr[hdr[b].next].free

\* The number heap_get_used_size returns is what the blocks in use take,
\* headers included, unless krealloc shrinks blocks.
UsedExact ==
    "shrink" \notin ops =>
    used = MapThenSumSet(LAMBDA b : hdr[b].size + Header,
                         {b \in DOMAIN hdr : ~hdr[b].free})

\* First fit: a block that kmalloc takes is the lowest free one that is large
\* enough.
FirstFit ==
    [][ \A b \in DOMAIN req' \ DOMAIN req :
          \A c \in DOMAIN hdr : c < b /\ hdr[c].free => hdr[c].size < AlignSize(req'[b]) ]_vars
=============================================================================
