------------------------------ MODULE Selection ------------------------------
(***************************************************************************)
(* The elements of a sequence at some of its positions, in their order:    *)
(* what a filter over an iterator keeps.  It is written as a recursive     *)
(* function, and not with SelectSeq, so that the provers see what it does. *)
(***************************************************************************)
EXTENDS Integers, Sequences

Selection(s, positions) ==
    LET kept[n \in 0..Len(s)] ==
            IF n = 0 THEN <<>>
            ELSE IF n \in positions THEN Append(kept[n - 1], s[n]) ELSE kept[n - 1]
    IN  kept[Len(s)]
=============================================================================
