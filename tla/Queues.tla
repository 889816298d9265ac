------------------------------- MODULE Queues -------------------------------
(* A queue with some of its items taken out, as the list comprehensions of    *)
(* the code do it.  This is SelectSeq for a test of membership, written as a    *)
(* function so that the provers can see what it computes.                      *)
EXTENDS Naturals, SequencesExt

\* The items of s that are in S, in their order.
Only(s, S) ==
  LET only[n \in 0 .. Len(s)] ==
        IF n = 0 THEN <<>>
        ELSE IF s[n] \in S THEN Append(only[n - 1], s[n]) ELSE only[n - 1]
  IN  only[Len(s)]
=============================================================================
