------------------------------- MODULE Lists -------------------------------
(* Lists, as the arrays of the program are: what filter leaves of one.      *)
EXTENDS Naturals, Sequences

Elems(list) == {list[i] : i \in DOMAIN list}

(* The elements of a list that are in a set, in their order.                *)
Kept(list, S) ==
  LET first[n \in 0..Len(list)] ==   \* of the first n
        IF n = 0 THEN <<>>
        ELSE IF list[n] \in S THEN Append(first[n - 1], list[n]) ELSE first[n - 1]
  IN first[Len(list)]
=============================================================================
