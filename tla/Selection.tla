------------------------------ MODULE Selection -------------------------------
(* The entries of a list that are in a set, in their order.                 *)
EXTENDS Integers, Sequences

Select(s, S) ==
  LET first[n \in 0..Len(s)] ==      \* from the first n entries
        IF n = 0 THEN <<>>
        ELSE IF s[n] \in S THEN Append(first[n - 1], s[n])
                           ELSE first[n - 1]
  IN first[Len(s)]
==============================================================================
