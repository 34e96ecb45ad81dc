----------------------------- MODULE MCCommand -----------------------------
(***************************************************************************)
(* Small instances of Command.                                             *)
(***************************************************************************)
EXTENDS Command

Strings(chars, n) == UNION {[1..k -> chars] : k \in 1..n}

\* Every short line, lines with more words than argv holds, and dumps with
\* every pair of short numbers.
ShortLines ==
    Strings({Space, "e", "h", "r", "1"}, 5)
      \cup Strings({Space, "e"}, 8)
      \cup {<<"h", Space>> \o a \o <<Space>> \o l :
              a \in Strings({"0", "1", "x", "a"}, 3), l \in Strings({"0", "1", "x", "a"}, 3)}

FewLines == {<<"h", Space, "1", "0", "1", Space, "1">>}
=============================================================================
