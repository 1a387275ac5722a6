------------------------------- MODULE Ranges -------------------------------
(***************************************************************************)
(* VersionRange (src/src/version.cpp): a range is a sorted list of disjoint *)
(* intervals.                                                              *)
(***************************************************************************)
EXTENDS Intervals, Sorting, Sequences, SequencesExt

AnyRange == <<AnyInterval>>

\* A missing bound is written in one way only.
ProperIntervals ==
  {iv \in IntervalSet : (iv.low = Unbounded => iv.lowIn) /\ (iv.high = Unbounded => iv.highIn)}

\* What a range may look like: no interval is empty, and there is a version
\* between any two neighbours or they touch in a version that belongs to neither.
Canonical(r) ==
  /\ \A i \in DOMAIN r : ~StructurallyEmpty(r[i])
  /\ \A i \in 1..Len(r) - 1 :
       /\ r[i].high # Unbounded /\ r[i + 1].low # Unbounded
       /\ \/ Before(r[i].high, r[i + 1].low)
          \/ r[i].high = r[i + 1].low /\ ~r[i].highIn /\ ~r[i + 1].lowIn

\* Sorted, merged, and without the empty ones.
FromIntervals(S) ==
  LET Add(merged, iv) ==
        IF merged # <<>> /\ Joins(Last(merged), iv)
        THEN [merged EXCEPT ![Len(merged)] = Extend(@, iv)]
        ELSE Append(merged, iv)
  IN FoldLeft(Add, <<>>, InOrder({iv \in S : ~StructurallyEmpty(iv)}, SortsBefore))

\* One turn of the loop of VersionRange::Intersect, which sweeps over two sorted
\* ranges: the intervals it looks at meet, and the one that ends first is left.
Turn(a, b, s) ==
  IF s.i > Len(a) \/ s.j > Len(b) THEN s
  ELSE LET met == s.pieces \cup {Meet(a[s.i], b[s.j])}
       IN IF EndsFirst(a[s.i], b[s.j])
          THEN [i |-> s.i + 1, j |-> s.j, pieces |-> met]
          ELSE [i |-> s.i, j |-> s.j + 1, pieces |-> met]

Intersect(a, b) ==
  LET sweep[n \in 0..Len(a) + Len(b)] ==
        IF n = 0 THEN [i |-> 1, j |-> 1, pieces |-> {}] ELSE Turn(a, b, sweep[n - 1])
  IN FromIntervals(sweep[Len(a) + Len(b)].pieces)

RangeAdmits(r, v) == \E i \in DOMAIN r : Admits(r[i], v)

\* VersionRange::Subsumes: interval by interval.
RangeSubsumes(r, other) == \A i \in DOMAIN other : \E k \in DOMAIN r : Subsumes(r[k], other[i])

\* VersionRange::Overlaps, IsAny and IsExact.
RangesOverlap(a, b) == Intersect(a, b) # <<>>
RangeIsAny(r) == Len(r) = 1 /\ r[1].low = Unbounded /\ r[1].high = Unbounded
RangeIsExact(r) ==
  /\ Len(r) = 1
  /\ r[1].low # Unbounded /\ r[1].low = r[1].high /\ r[1].lowIn /\ r[1].highIn
=============================================================================
