----------------------------- MODULE Intervals -----------------------------
(***************************************************************************)
(* SemVersion and VersionInterval (src/src/version.cpp): the precedence of  *)
(* versions, and one interval over it.                                     *)
(*                                                                         *)
(* A version is major.minor.patch and the rank of its prerelease.  The      *)
(* identifiers after the dash matter only through their order, so the       *)
(* prereleases of a tuple are ranked below Release, the rank of having      *)
(* none.  Build metadata has no part in precedence and is left out.        *)
(***************************************************************************)
EXTENDS Naturals

CONSTANTS MaxPart,   \* largest component of a version (2^32 - 1 in the code)
          Release,   \* the rank of a version without a prerelease
          Unbounded  \* the missing bound of an interval

ASSUME PartsAssumption ==
  /\ MaxPart \in Nat
  /\ Release \in Nat

Parts == 0..MaxPart
Versions == [major : Parts, minor : Parts, patch : Parts, pre : 0..Release]

ASSUME UnboundedAssumption == Unbounded \notin Versions

HasPrerelease(v) == v.pre < Release

\* The components are added to and passed as std::uint32_t.
Wrap(part) == part % (MaxPart + 1)

Version(major, minor, patch) ==
  [major |-> Wrap(major), minor |-> Wrap(minor), patch |-> Wrap(patch), pre |-> Release]

SameTuple(a, b) == a.major = b.major /\ a.minor = b.minor /\ a.patch = b.patch

\* SemVersion::Precedence: a < b.
Before(a, b) ==
  \/ a.major < b.major
  \/ a.major = b.major /\ a.minor < b.minor
  \/ a.major = b.major /\ a.minor = b.minor /\ a.patch < b.patch
  \/ SameTuple(a, b) /\ a.pre < b.pre

-----------------------------------------------------------------------------
Bounds == Versions \cup {Unbounded}
IntervalSet == [low : Bounds, lowIn : BOOLEAN, high : Bounds, highIn : BOOLEAN]

AnyInterval == [low |-> Unbounded, lowIn |-> TRUE, high |-> Unbounded, highIn |-> TRUE]
Exactly(v) == [low |-> v, lowIn |-> TRUE, high |-> v, highIn |-> TRUE]

StructurallyEmpty(iv) ==
  /\ iv.low # Unbounded /\ iv.high # Unbounded
  /\ \/ Before(iv.high, iv.low)
     \/ iv.low = iv.high /\ ~(iv.lowIn /\ iv.highIn)

ContainsBound(iv, v) ==
  /\ iv.low # Unbounded => Before(iv.low, v) \/ (v = iv.low /\ iv.lowIn)
  /\ iv.high # Unbounded => Before(v, iv.high) \/ (v = iv.high /\ iv.highIn)

AdmitsEveryPrerelease(iv, v) == ContainsBound(iv, v)

\* VersionInterval::Contains.  A prerelease is admitted only by a lower bound
\* that is a prerelease of the same tuple.
Admits(iv, v) ==
  /\ ContainsBound(iv, v)
  /\ HasPrerelease(v) => /\ iv.low # Unbounded
                         /\ HasPrerelease(iv.low)
                         /\ SameTuple(iv.low, v)

\* VersionInterval::Subsumes, with its tests of the inclusive flags.
Subsumes(iv, other) ==
  /\ iv.low # Unbounded =>
       /\ other.low # Unbounded
       /\ ~Before(other.low, iv.low)
       /\ other.low = iv.low => ~(iv.lowIn /\ ~other.lowIn)
  /\ iv.high # Unbounded =>
       /\ other.high # Unbounded
       /\ ~Before(iv.high, other.high)
       /\ other.high = iv.high => ~(iv.highIn /\ ~other.highIn)

-----------------------------------------------------------------------------
(* The bodies of the loops of VersionRange::Intersect and FromIntervals.   *)

\* Whose lower, whose upper bound the meeting of two intervals takes.
LowOf(x, y) ==
  IF x.low = Unbounded \/ (y.low # Unbounded /\ Before(x.low, y.low)) THEN y ELSE x
HighOf(x, y) ==
  IF x.high = Unbounded \/ (y.high # Unbounded /\ Before(y.high, x.high)) THEN y ELSE x

\* What two intervals have in common.  Of equal bounds the exclusive one wins.
Meet(x, y) ==
  [low    |-> LowOf(x, y).low,
   lowIn  |-> IF x.low = y.low THEN x.lowIn /\ y.lowIn ELSE LowOf(x, y).lowIn,
   high   |-> HighOf(x, y).high,
   highIn |-> IF x.high = y.high THEN x.highIn /\ y.highIn ELSE HighOf(x, y).highIn]

\* The sweep over two sorted ranges leaves x behind, not y.
EndsFirst(x, y) ==
  /\ x.high # Unbounded
  /\ y.high = Unbounded \/ Before(x.high, y.high) \/ (x.high = y.high /\ ~x.highIn)

\* The order FromIntervals sorts by.
SortsBefore(x, y) ==
  IF x.low # y.low THEN x.low = Unbounded \/ (y.low # Unbounded /\ Before(x.low, y.low))
  ELSE IF x.low # Unbounded /\ x.lowIn # y.lowIn THEN x.lowIn
  ELSE IF x.high # y.high THEN x.high = Unbounded \/ (y.high # Unbounded /\ Before(x.high, y.high))
  ELSE x.high # Unbounded /\ x.highIn # y.highIn /\ ~x.highIn

JoinsOnlyOverlaps(cur, iv) ==
  cur.high = Unbounded \/ iv.low = Unbounded \/ Before(iv.low, cur.high)

\* iv, which sorts after cur, reaches into it or touches it.
Joins(cur, iv) ==
  \/ cur.high = Unbounded \/ iv.low = Unbounded
  \/ Before(iv.low, cur.high)
  \/ cur.high = iv.low /\ (cur.highIn \/ iv.lowIn)

Extend(cur, iv) ==
  IF cur.high = Unbounded \/ iv.high = Unbounded
  THEN [cur EXCEPT !.high = Unbounded, !.highIn = TRUE]
  ELSE IF Before(cur.high, iv.high) THEN [cur EXCEPT !.high = iv.high, !.highIn = iv.highIn]
  ELSE [cur EXCEPT !.highIn = @ \/ (cur.high = iv.high /\ iv.highIn)]
=============================================================================
