------------------------------ MODULE Sorting ------------------------------
(***************************************************************************)
(* std::sort and std::stable_sort of the C++ standard library, as src/src   *)
(* uses them: by comparators that order what they are given strictly.       *)
(***************************************************************************)
EXTENDS Naturals, FiniteSets

\* The members of a finite set, no two of which Less leaves unordered.
InOrder(S, Less(_, _)) ==
  [i \in 1..Cardinality(S) |-> CHOOSE x \in S : Cardinality({y \in S : Less(y, x)}) = i - 1]

\* The entries of a sequence.  What Less leaves unordered stays in its order.
Sorted(seq, Less(_, _)) ==
  LET Earlier(i, j) == Less(seq[i], seq[j]) \/ (~Less(seq[j], seq[i]) /\ i < j)
      order == InOrder(DOMAIN seq, Earlier)
  IN [k \in DOMAIN seq |-> seq[order[k]]]
=============================================================================
