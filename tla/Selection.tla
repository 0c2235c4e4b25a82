------------------------------- MODULE Selection -------------------------------
(* The elements of a sequence that are in a set, in their order: what           *)
(* Sequences!SelectSeq is for a test, with a definition the provers can expand. *)
EXTENDS Integers, Sequences

Those(s, S) ==
    LET those[n \in 0..Len(s)] ==
            IF n = 0 THEN <<>>
            ELSE IF s[n] \in S THEN Append(those[n - 1], s[n]) ELSE those[n - 1]
    IN  those[Len(s)]
=============================================================================
