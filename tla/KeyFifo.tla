------------------------------ MODULE KeyFifo ------------------------------
(***************************************************************************)
(* What the keyboard buffer promises: a bounded FIFO queue that loses the  *)
(* newest character when it is full and never anything else.               *)
(***************************************************************************)
EXTENDS Naturals, Sequences

CONSTANTS Chars,    \* the characters
          Capacity  \* how many the queue holds

VARIABLES queue,  \* characters not yet delivered, oldest first
          last    \* the character delivered last

Put == \E c \in Chars :
          /\ queue' = IF Len(queue) < Capacity THEN Append(queue, c) ELSE queue
          /\ UNCHANGED last

Get == /\ queue # <<>>
       /\ last' = Head(queue)
       /\ queue' = Tail(queue)

Init == queue = <<>> /\ last = "none"

Spec == Init /\ [][Put \/ Get]_<<queue, last>>
=============================================================================
