------------------------------- MODULE Lists --------------------------------
(* Sums and selections of lists, as recursive functions.                   *)
EXTENDS Integers, Sequences

\* The sum of a list of numbers.
ListSum(s) ==
  LET total[k \in 0..Len(s)] == IF k = 0 THEN 0 ELSE total[k - 1] + s[k]
  IN total[Len(s)]

\* The entries of a list at the places I, in their order.
Chosen(s, I) ==
  LET upTo[k \in 0..Len(s)] ==
        IF k = 0 THEN <<>> ELSE IF k \in I THEN Append(upTo[k - 1], s[k]) ELSE upTo[k - 1]
  IN upTo[Len(s)]
============================================================================
