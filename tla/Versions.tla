------------------------------ MODULE Versions ------------------------------
(***************************************************************************)
(* The reading of a version range from text (src/src/version.cpp),          *)
(* comparator by comparator, as VersionRange::Parse and ParseGroup do it.   *)
(*                                                                         *)
(* The text is a sequence of tokens, taken as already split: comparators,   *)
(* hyphen ranges and the bars between alternative groups.  Beside the       *)
(* range the code builds, the model keeps the set of releases the text      *)
(* means, computed from the meaning of each comparator and never from       *)
(* intervals.                                                              *)
(***************************************************************************)
EXTENDS Ranges

CONSTANTS Written,          \* the versions and partial versions that texts name
          MaxComparators,   \* kMaxComparatorsPerGroup
          MaxGroups,        \* kMaxRangeGroups
          NoRange,          \* Parse has not returned
          LimitExceeded     \* its error

\* "1", "1.2", "1.2.3" and "1.2.3-rc": given says how many components were
\* written, "*" gives none.  What was not written is zero (PartialVersion).
Partials ==
  {p \in [given : 0..3, major : Parts, minor : Parts, patch : Parts, pre : 0..Release] :
     /\ p.given < 3 => p.patch = 0 /\ p.pre = Release
     /\ p.given < 2 => p.minor = 0
     /\ p.given < 1 => p.major = 0}

ASSUME TextAssumption ==
  /\ Written \subseteq Partials
  /\ MaxComparators \in Nat /\ MaxGroups \in Nat \ {0}

Operators == {"=", "^", "~", ">", ">=", "<", "<="}

\* "<*" and "<=*" read a component that is not there; no meaning is modelled.
Comparators == {c \in [op : Operators, p : Written] : c.p.given = 0 => c.op \notin {"<", "<="}}

VARIABLES group,   \* the range of the group being read
          tokens,  \* its tokens so far
          groups,  \* groups so far, this one included
          all,     \* the intervals of the groups before it
          range,   \* what Parse returned
          meant,   \* the releases that group, and the groups before it, mean
          named    \* the prereleases the text names

vars == <<group, tokens, groups, all, range, meant, named>>

Releases == {v \in Versions : ~HasPrerelease(v)}

-----------------------------------------------------------------------------
(* ComparatorToRange.                                                      *)

Floor(p) == [major |-> p.major, minor |-> p.minor, patch |-> p.patch, pre |-> p.pre]

NextMajor(p) == Version(p.major + 1, 0, 0)
NextMinor(p) == Version(p.major, p.minor + 1, 0)

\* The first version beyond what the partial version names, and where "~" ends.
BandEnd(p) == IF p.given = 1 THEN NextMajor(p) ELSE NextMinor(p)

CaretEndLikeTilde(p) == BandEnd(p)

\* "^" may change everything right of the leftmost component that is not zero.
CaretEnd(p) ==
  IF p.major > 0 \/ p.given = 1 THEN NextMajor(p)
  ELSE IF p.minor > 0 \/ p.given = 2 THEN NextMinor(p)
  ELSE Version(0, 0, p.patch + 1)

From(low) == [AnyInterval EXCEPT !.low = low]
Till(high) == [AnyInterval EXCEPT !.high = high]
Below(high) == [Till(high) EXCEPT !.highIn = FALSE]
Span(low, end) == [Below(end) EXCEPT !.low = low]

IntervalOf(c) ==
  LET p == c.p
      full == p.given = 3
      partial == p.given \in {1, 2}
  IN CASE c.op = ">=" -> From(Floor(p))
       [] c.op # ">=" /\ p.given = 0 -> AnyInterval
       [] c.op = "=" /\ full -> Exactly(Floor(p))
       [] c.op = "=" /\ partial -> Span(Floor(p), BandEnd(p))
       [] c.op = "~" /\ p.given > 0 -> Span(Floor(p), BandEnd(p))
       [] c.op = "^" /\ p.given > 0 -> Span(Floor(p), CaretEnd(p))
       [] c.op = ">" /\ full -> [From(Floor(p)) EXCEPT !.lowIn = FALSE]
       [] c.op = ">" /\ partial -> From(BandEnd(p))
       [] c.op = "<" -> Below(Floor(p))
       [] c.op = "<=" /\ full -> Till(Floor(p))
       [] c.op = "<=" /\ partial -> Below(BandEnd(p))

RangeOf(c) == FromIntervals({IntervalOf(c)})
HyphenRange(p, q) == FromIntervals({[Till(Floor(q)) EXCEPT !.low = Floor(p)]})

-----------------------------------------------------------------------------
(* What the tokens mean, for releases.                                     *)

\* v begins with the first n components of p.
Agrees(v, p, n) ==
  /\ n >= 1 => v.major = p.major
  /\ n >= 2 => v.minor = p.minor
  /\ n >= 3 => v.patch = p.patch

Names(p, v) == Agrees(v, p, p.given) /\ (p.given = 3 => v.pre = p.pre)

\* How many components "^" holds fast.
Fixed(p) ==
  IF p.major > 0 \/ p.given <= 1 THEN 1 ELSE IF p.minor > 0 \/ p.given = 2 THEN 2 ELSE 3

Meaning(c) ==
  LET p == c.p
      Earlier(v) == Before(v, Floor(p))
  IN {v \in Releases : p.given > 0 =>
        /\ c.op = "="  => Names(p, v)
        /\ c.op = "<"  => Earlier(v)
        /\ c.op = "<=" => Earlier(v) \/ Names(p, v)
        /\ c.op = ">"  => ~(Earlier(v) \/ Names(p, v))
        /\ c.op = ">=" => ~Earlier(v)
        /\ c.op = "~"  => ~Earlier(v) /\ Agrees(v, p, IF p.given = 1 THEN 1 ELSE 2)
        /\ c.op = "^"  => ~Earlier(v) /\ Agrees(v, p, Fixed(p))}

HyphenMeaning(p, q) == {v \in Releases : ~Before(v, Floor(p)) /\ ~Before(Floor(q), v)}

-----------------------------------------------------------------------------
(* Parse.                                                                  *)

Reading == range = NoRange
Read == range \notin {NoRange, LimitExceeded}

Init == /\ group = AnyRange /\ tokens = 0 /\ groups = 1
        /\ all = {}
        /\ range = NoRange
        /\ meant = [group |-> Releases, before |-> {}]
        /\ named = {}

Return(result) ==
  /\ Reading
  /\ range' = result
  /\ UNCHANGED <<group, tokens, groups, all, meant, named>>

\* n tokens of the text narrow the group.
Narrow(n, piece, releases, versions) ==
  /\ Reading
  /\ tokens + n <= MaxComparators
  /\ group' = Intersect(group, piece)
  /\ tokens' = tokens + n
  /\ meant' = [meant EXCEPT !.group = @ \cap releases]
  /\ named' = named \cup {v \in versions : HasPrerelease(v)}
  /\ UNCHANGED <<groups, all, range>>

ReadComparator(c) == Narrow(1, RangeOf(c), Meaning(c), {Floor(c.p)})

ReadHyphen(p, q) == Narrow(3, HyphenRange(p, q), HyphenMeaning(p, q), {Floor(p), Floor(q)})

\* A bar ends the group.
ReadBar ==
  /\ Reading /\ tokens > 0 /\ groups < MaxGroups
  /\ all' = all \cup ToSet(group)
  /\ group' = AnyRange /\ tokens' = 0 /\ groups' = groups + 1
  /\ meant' = [group |-> Releases, before |-> meant.before \cup meant.group]
  /\ UNCHANGED <<range, named>>

\* A group without tokens makes the whole text "any".
ReadEmptyGroup == tokens = 0 /\ Return(AnyRange)

ReadTooMuch == (tokens + 3 > MaxComparators \/ groups = MaxGroups) /\ Return(LimitExceeded)

Finish == tokens > 0 /\ Return(FromIntervals(all \cup ToSet(group)))

Next == \/ \E c \in Comparators : ReadComparator(c)
        \/ \E p, q \in Written : ReadHyphen(p, q)
        \/ ReadBar \/ ReadEmptyGroup \/ ReadTooMuch \/ Finish

Spec == Init /\ [][Next]_vars
-----------------------------------------------------------------------------
(* Properties.                                                             *)

\* A range that was read admits the releases its text means: every comparator
\* of some group, whatever order the tokens came in and however the intervals
\* were cut and joined (ComparatorToRange, Intersect, FromIntervals).
ParsedAsWritten ==
  Read => \A v \in Releases : RangeAdmits(range, v) <=> v \in meant.before \cup meant.group

\* version.hpp: "A canonical, sorted, disjoint union of intervals", whatever was
\* read, cut and joined on the way (Parse, Intersect, FromIntervals).
RangesAreCanonical == Canonical(group) /\ (Read => Canonical(range))

\* A prerelease is admitted only if the text names a prerelease of the same
\* tuple: ">=1.0.0 <2.0.0" does not let "1.5.0-rc.1" in, and neither does any
\* combination of comparators (Contains, Intersect, FromIntervals).
PrereleasesAreAskedFor ==
  Read => \A v \in Versions :
    HasPrerelease(v) /\ RangeAdmits(range, v) => \E n \in named : SameTuple(n, v)

\* version.hpp, VersionRange::Subsumes: "True when every version admitted by
\* other is admitted by *this."  Releases suffice to show that the tests of the
\* inclusive flags are the wrong way round.
SubsumesIsInclusion ==
  Read => \A c \in Comparators :
    RangeSubsumes(range, RangeOf(c)) =>
      \A v \in Releases : RangeAdmits(RangeOf(c), v) => RangeAdmits(range, v)
=============================================================================
