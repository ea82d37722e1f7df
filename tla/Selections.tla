------------------------------ MODULE Selections ------------------------------
(***************************************************************************)
(* Vec::retain and iter().filter(), with the condition as a set.           *)
(***************************************************************************)
EXTENDS Naturals, Sequences

\* The entries of a sequence that are in xs.
Keeping(seq, xs) ==
    LET kept[i \in 0..Len(seq)] == IF i = 0 THEN <<>>
                                   ELSE IF seq[i] \in xs THEN Append(kept[i - 1], seq[i])
                                   ELSE kept[i - 1]
    IN  kept[Len(seq)]
==============================================================================
