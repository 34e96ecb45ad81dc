----------------------------- MODULE LineEditor -----------------------------
(***************************************************************************)
(* What the shell's command line promises: the last Capacity commands can  *)
(* be recalled, newest first, and the line being typed is not lost by      *)
(* looking at them.                                                        *)
(***************************************************************************)
EXTENDS Naturals, Sequences

CONSTANTS Lines,    \* the lines that can be typed
          Capacity  \* how many commands are remembered

VARIABLES line,   \* the line shown
          draft,  \* the line typed last, shown again when pos is 0
          past,   \* commands remembered, oldest first
          pos     \* how far back the user has gone: 0 is the draft

vars == <<line, draft, past, pos>>

\* The line shown p steps back.
At(p) == IF p = 0 THEN draft ELSE past[Len(past) + 1 - p]

\* A command is remembered unless it repeats the one before.
Remember(l) ==
    LET all == Append(past, l)
    IN IF past # <<>> /\ past[Len(past)] = l THEN past
       ELSE IF Len(past) < Capacity THEN all ELSE Tail(all)

Recall(p) == pos' = p /\ line' = At(p) /\ UNCHANGED <<draft, past>>

Up == Recall(IF pos < Len(past) THEN pos + 1 ELSE pos)

Down == Recall(IF pos > 0 THEN pos - 1 ELSE 0)

Edit == \E l \in Lines : line' = l /\ draft' = l /\ UNCHANGED <<past, pos>>

Enter == /\ past' = IF line = <<>> THEN past ELSE Remember(line)
         /\ pos' = 0 /\ line' = <<>> /\ draft' = <<>>

Init == line = <<>> /\ draft = <<>> /\ past = <<>> /\ pos = 0

Spec == Init /\ [][Up \/ Down \/ Edit \/ Enter]_vars
=============================================================================
