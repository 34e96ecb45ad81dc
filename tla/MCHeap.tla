------------------------------- MODULE MCHeap -------------------------------
(***************************************************************************)
(* Small instances of Heap.                                                *)
(***************************************************************************)
EXTENDS Heap

\* Sizes that are multiples of the alignment and sizes that are not, up to
\* one that a single block can satisfy.
SmallSizes == {0, 1, 4, 7, 12}

\* Clients that shrink blocks with krealloc and clients that do not.
WithAndWithoutShrink == { {"malloc", "free", "move"},
                          {"malloc", "free", "move", "shrink"} }

\* The largest size_t.
HugeSizes == {2, SizeMod - 1}
=============================================================================
