------------------------------- MODULE Slices -------------------------------
(***************************************************************************)
(* What loops build that append the elements of a slice under a condition. *)
(* SelectSeq is the same, but it is recursive, and nothing could be proved *)
(* of it.  So is the sum of a sequence, in the module Folds.               *)
(***************************************************************************)
EXTENDS Integers, Sequences, FiniteSets

\* The k-th of a set of numbers.
Nth(S, k) == CHOOSE n \in S : Cardinality({m \in S : m < n}) = k - 1

\* The elements of s at the places in I, in order.
Chosen(s, I) == [k \in 1 .. Cardinality(I) |-> s[Nth(I, k)]]

\* The sum of a sequence of numbers.
Total(ns) ==
  LET sum[n \in 0 .. Len(ns)] == IF n = 0 THEN 0 ELSE sum[n - 1] + ns[n]
  IN  sum[Len(ns)]
=============================================================================
