----------------------------- MODULE RangeProofs -----------------------------
(***************************************************************************)
(* The algebra of Intervals and Ranges, for every size of a version         *)
(* component, any number of prereleases and of intervals:                   *)
(* VersionRange::FromIntervals and Intersect compute unions and             *)
(* intersections of what their intervals contain, drop nothing but          *)
(* intervals that contain nothing, and leave a canonical range behind.     *)
(***************************************************************************)
EXTENDS Ranges, InductionProofs

\* Precedence is a strict total order on versions: what std::sort and every
\* comparison of bounds rely on (SemVersion::Precedence).
LEMMA BeforeIsTransitive ==
  ASSUME NEW a \in Versions, NEW b \in Versions, NEW c \in Versions,
         Before(a, b), Before(b, c)
  PROVE  Before(a, c)
BY PartsAssumption, SMT DEF Before, SameTuple, Versions, Parts

LEMMA BeforeIsStrict ==
  ASSUME NEW a \in Versions, NEW b \in Versions, Before(a, b)
  PROVE  ~Before(b, a) /\ a # b
BY PartsAssumption, SMT DEF Before, SameTuple, Versions, Parts

LEMMA BeforeIsTotal ==
  ASSUME NEW a \in Versions, NEW b \in Versions
  PROVE  Before(a, b) \/ Before(b, a) \/ a = b
<1>1. CASE SameTuple(a, b) /\ a.pre = b.pre
  BY <1>1, PartsAssumption, SMT DEF SameTuple, Versions, Parts
<1>2. CASE ~(SameTuple(a, b) /\ a.pre = b.pre)
  BY <1>2, PartsAssumption, SMT DEF Before, SameTuple, Versions, Parts
<1> QED BY <1>1, <1>2

\* An interval that StructurallyEmpty drops contains no version.
THEOREM EmptyContainsNothing ==
  ASSUME NEW iv \in IntervalSet, StructurallyEmpty(iv), NEW v \in Versions
  PROVE  ~ContainsBound(iv, v)
<1> SUFFICES ASSUME ContainsBound(iv, v) PROVE FALSE
  OBVIOUS
<1>1. iv.low \in Versions /\ iv.high \in Versions
  BY DEF StructurallyEmpty, IntervalSet, Bounds
<1>2. Before(iv.low, v) \/ (v = iv.low /\ iv.lowIn)
  BY <1>1, UnboundedAssumption DEF ContainsBound
<1>3. Before(v, iv.high) \/ (v = iv.high /\ iv.highIn)
  BY <1>1, UnboundedAssumption DEF ContainsBound
<1>4. CASE Before(iv.high, iv.low)
  <2>1. Before(v, iv.low) \/ v = iv.high
    BY <1>1, <1>3, <1>4, BeforeIsTransitive
  <2> QED BY <2>1, <1>1, <1>2, <1>4, BeforeIsStrict
<1>5. CASE iv.low = iv.high /\ ~(iv.lowIn /\ iv.highIn)
  BY <1>1, <1>2, <1>3, <1>5, BeforeIsStrict
<1> QED BY <1>4, <1>5 DEF StructurallyEmpty

-----------------------------------------------------------------------------
(* One bound at a time.                                                    *)

AboveLow(iv, v) == iv.low # Unbounded => Before(iv.low, v) \/ (v = iv.low /\ iv.lowIn)
BelowHigh(iv, v) == iv.high # Unbounded => Before(v, iv.high) \/ (v = iv.high /\ iv.highIn)

LEMMA MeetLow ==
  ASSUME NEW x \in IntervalSet, NEW y \in IntervalSet, NEW v \in Versions
  PROVE  AboveLow(Meet(x, y), v) <=> AboveLow(x, v) /\ AboveLow(y, v)
<1>0. /\ x.low = Unbounded \/ x.low \in Versions
      /\ y.low = Unbounded \/ y.low \in Versions
      /\ x.lowIn \in BOOLEAN /\ y.lowIn \in BOOLEAN
  BY DEF IntervalSet, Bounds
<1>1. /\ Meet(x, y).low = LowOf(x, y).low
      /\ Meet(x, y).lowIn = IF x.low = y.low THEN x.lowIn /\ y.lowIn ELSE LowOf(x, y).lowIn
  BY DEF Meet
<1>2. CASE x.low = Unbounded \/ y.low = Unbounded
  BY <1>0, <1>1, <1>2, UnboundedAssumption DEF AboveLow, LowOf
<1>3. CASE x.low \in Versions /\ y.low \in Versions
  <2>0. x.low # Unbounded /\ y.low # Unbounded
    BY <1>3, UnboundedAssumption
  <2>1. CASE Before(x.low, y.low)
    BY <1>0, <1>1, <1>3, <2>0, <2>1, BeforeIsStrict, BeforeIsTransitive DEF AboveLow, LowOf
  <2>2. CASE Before(y.low, x.low)
    <3>1. ~Before(x.low, y.low) /\ x.low # y.low
      BY <1>3, <2>2, BeforeIsStrict
    <3> QED BY <1>0, <1>1, <1>3, <2>0, <2>2, <3>1, BeforeIsTransitive DEF AboveLow, LowOf
  <2>3. CASE x.low = y.low
    BY <1>0, <1>1, <1>3, <2>0, <2>3, BeforeIsStrict DEF AboveLow, LowOf
  <2> QED BY <1>3, <2>1, <2>2, <2>3, BeforeIsTotal
<1> QED BY <1>0, <1>2, <1>3

LEMMA MeetHigh ==
  ASSUME NEW x \in IntervalSet, NEW y \in IntervalSet, NEW v \in Versions
  PROVE  BelowHigh(Meet(x, y), v) <=> BelowHigh(x, v) /\ BelowHigh(y, v)
<1>0. /\ x.high = Unbounded \/ x.high \in Versions
      /\ y.high = Unbounded \/ y.high \in Versions
      /\ x.highIn \in BOOLEAN /\ y.highIn \in BOOLEAN
  BY DEF IntervalSet, Bounds
<1>1. /\ Meet(x, y).high = HighOf(x, y).high
      /\ Meet(x, y).highIn = IF x.high = y.high THEN x.highIn /\ y.highIn ELSE HighOf(x, y).highIn
  BY DEF Meet
<1>2. CASE x.high = Unbounded \/ y.high = Unbounded
  BY <1>0, <1>1, <1>2, UnboundedAssumption DEF BelowHigh, HighOf
<1>3. CASE x.high \in Versions /\ y.high \in Versions
  <2>0. x.high # Unbounded /\ y.high # Unbounded
    BY <1>3, UnboundedAssumption
  <2>1. CASE Before(y.high, x.high)
    BY <1>0, <1>1, <1>3, <2>0, <2>1, BeforeIsStrict, BeforeIsTransitive DEF BelowHigh, HighOf
  <2>2. CASE Before(x.high, y.high)
    <3>1. ~Before(y.high, x.high) /\ x.high # y.high
      BY <1>3, <2>2, BeforeIsStrict
    <3> QED BY <1>0, <1>1, <1>3, <2>0, <2>2, <3>1, BeforeIsTransitive DEF BelowHigh, HighOf
  <2>3. CASE x.high = y.high
    BY <1>0, <1>1, <1>3, <2>0, <2>3, BeforeIsStrict DEF BelowHigh, HighOf
  <2> QED BY <1>3, <2>1, <2>2, <2>3, BeforeIsTotal
<1> QED BY <1>0, <1>2, <1>3

\* A piece of VersionRange::Intersect contains what both its intervals contain.
THEOREM MeetIsIntersection ==
  ASSUME NEW x \in IntervalSet, NEW y \in IntervalSet, NEW v \in Versions
  PROVE  ContainsBound(Meet(x, y), v) <=> ContainsBound(x, v) /\ ContainsBound(y, v)
<1>1. \A iv : ContainsBound(iv, v) <=> AboveLow(iv, v) /\ BelowHigh(iv, v)
  BY DEF ContainsBound, AboveLow, BelowHigh
<1> QED BY <1>1, MeetLow, MeetHigh

-----------------------------------------------------------------------------
(* Merging two intervals that come one after the other in the sorted list.  *)

\* cur begins where iv begins, or before.
StartsNoLater(cur, iv) ==
  \/ cur.low = Unbounded
  \/ iv.low # Unbounded /\ Before(cur.low, iv.low)
  \/ cur.low = iv.low /\ (iv.lowIn => cur.lowIn)

LEMMA SortedLows ==
  ASSUME NEW cur \in IntervalSet, NEW iv \in IntervalSet, NEW v \in Versions,
         StartsNoLater(cur, iv), AboveLow(iv, v)
  PROVE  AboveLow(cur, v)
<1>0. /\ cur.low = Unbounded \/ cur.low \in Versions
      /\ iv.low = Unbounded \/ iv.low \in Versions
      /\ cur.lowIn \in BOOLEAN /\ iv.lowIn \in BOOLEAN
  BY DEF IntervalSet, Bounds
<1>1. CASE cur.low = iv.low
  BY <1>0, <1>1, BeforeIsStrict DEF StartsNoLater, AboveLow
<1>2. CASE cur.low # iv.low /\ cur.low # Unbounded
  <2>1. iv.low # Unbounded /\ Before(cur.low, iv.low)
    BY <1>2 DEF StartsNoLater
  <2> QED BY <1>0, <1>2, <2>1, BeforeIsTransitive DEF AboveLow
<1>3. CASE cur.low = Unbounded
  BY <1>3 DEF AboveLow
<1> QED BY <1>1, <1>2, <1>3

\* What is beyond cur is not below an interval that joins it.
LEMMA NothingBetween ==
  ASSUME NEW cur \in IntervalSet, NEW iv \in IntervalSet, NEW v \in Versions,
         Joins(cur, iv), ~BelowHigh(cur, v)
  PROVE  AboveLow(iv, v)
<1>0. cur.high \in Versions /\ cur.high # Unbounded
  BY DEF IntervalSet, Bounds, BelowHigh
<1>1. ~Before(v, cur.high) /\ ~(v = cur.high /\ cur.highIn)
  BY <1>0 DEF BelowHigh
<1>2. Before(cur.high, v) \/ v = cur.high
  BY <1>0, <1>1, BeforeIsTotal
<1>3. CASE iv.low = Unbounded
  BY <1>3 DEF AboveLow
<1>4. CASE iv.low # Unbounded
  <2>0. iv.low \in Versions
    BY <1>4 DEF IntervalSet, Bounds
  <2>1. CASE Before(iv.low, cur.high)
    BY <1>0, <1>2, <2>0, <2>1, BeforeIsTransitive DEF AboveLow
  <2>2. CASE cur.high = iv.low /\ (cur.highIn \/ iv.lowIn)
    BY <1>1, <1>2, <2>2 DEF AboveLow
  <2> QED BY <1>0, <1>4, <2>1, <2>2 DEF Joins
<1> QED BY <1>3, <1>4

\* The joined interval ends where the later of the two ends.
LEMMA ExtendHigh ==
  ASSUME NEW cur \in IntervalSet, NEW iv \in IntervalSet, NEW v \in Versions
  PROVE  BelowHigh(Extend(cur, iv), v) <=> BelowHigh(cur, v) \/ BelowHigh(iv, v)
<1>0. /\ cur.high = Unbounded \/ cur.high \in Versions
      /\ iv.high = Unbounded \/ iv.high \in Versions
      /\ cur.highIn \in BOOLEAN /\ iv.highIn \in BOOLEAN
  BY DEF IntervalSet, Bounds
<1>1. CASE cur.high = Unbounded \/ iv.high = Unbounded
  <2>1. Extend(cur, iv).high = Unbounded
    BY <1>1 DEF Extend, IntervalSet
  <2> QED BY <1>1, <2>1 DEF BelowHigh
<1>2. CASE cur.high \in Versions /\ iv.high \in Versions
  <2>0. cur.high # Unbounded /\ iv.high # Unbounded
    BY <1>2, UnboundedAssumption
  <2>1. CASE Before(cur.high, iv.high)
    <3>1. Extend(cur, iv).high = iv.high /\ Extend(cur, iv).highIn = iv.highIn
      BY <2>0, <2>1 DEF Extend, IntervalSet
    <3> QED BY <1>2, <2>0, <2>1, <3>1, BeforeIsTransitive DEF BelowHigh
  <2>2. CASE ~Before(cur.high, iv.high)
    <3>1. /\ Extend(cur, iv).high = cur.high
          /\ Extend(cur, iv).highIn = (cur.highIn \/ (cur.high = iv.high /\ iv.highIn))
      BY <2>0, <2>2 DEF Extend, IntervalSet
    <3>2. Before(iv.high, cur.high) \/ iv.high = cur.high
      BY <1>2, <2>2, BeforeIsTotal
    <3> QED BY <1>2, <2>0, <3>1, <3>2, BeforeIsTransitive DEF BelowHigh
  <2> QED BY <2>1, <2>2
<1> QED BY <1>0, <1>1, <1>2

\* The joined interval of VersionRange::FromIntervals contains what either of
\* the two contains, and nothing else.
THEOREM ExtendIsUnion ==
  ASSUME NEW cur \in IntervalSet, NEW iv \in IntervalSet, NEW v \in Versions,
         StartsNoLater(cur, iv), Joins(cur, iv)
  PROVE  ContainsBound(Extend(cur, iv), v) <=> ContainsBound(cur, v) \/ ContainsBound(iv, v)
<1>1. \A i : ContainsBound(i, v) <=> AboveLow(i, v) /\ BelowHigh(i, v)
  BY DEF ContainsBound, AboveLow, BelowHigh
<1>2. AboveLow(Extend(cur, iv), v) <=> AboveLow(cur, v)
  BY DEF Extend, AboveLow, IntervalSet
<1>3. AboveLow(iv, v) => AboveLow(cur, v)
  BY SortedLows
<1>4. ~BelowHigh(cur, v) => AboveLow(iv, v)
  BY NothingBetween
<1> QED BY <1>1, <1>2, <1>3, <1>4, ExtendHigh

-----------------------------------------------------------------------------
(* The order the intervals are sorted by.                                  *)

LowFirst(x, y) ==
  IF x.low # y.low THEN x.low = Unbounded \/ (y.low # Unbounded /\ Before(x.low, y.low))
  ELSE x.lowIn /\ ~y.lowIn
HighFirst(x, y) ==
  IF x.high # y.high THEN x.high = Unbounded \/ (y.high # Unbounded /\ Before(x.high, y.high))
  ELSE ~x.highIn /\ y.highIn

LEMMA LowFirstOrders ==
  ASSUME NEW x \in ProperIntervals, NEW y \in ProperIntervals, NEW z \in ProperIntervals
  PROVE  /\ ~LowFirst(x, x)
         /\ LowFirst(x, y) /\ LowFirst(y, z) => LowFirst(x, z)
         /\ (x.low = y.low /\ x.lowIn = y.lowIn) \/ LowFirst(x, y) \/ LowFirst(y, x)
<1>0. /\ x.low = Unbounded \/ x.low \in Versions
      /\ y.low = Unbounded \/ y.low \in Versions
      /\ z.low = Unbounded \/ z.low \in Versions
      /\ x.lowIn \in BOOLEAN /\ y.lowIn \in BOOLEAN /\ z.lowIn \in BOOLEAN
  BY DEF ProperIntervals, IntervalSet, Bounds
<1>1. ~LowFirst(x, x)
  BY DEF LowFirst
<1>2. ASSUME LowFirst(x, y), LowFirst(y, z) PROVE LowFirst(x, z)
  <2>1. CASE x.low = Unbounded \/ y.low = Unbounded \/ z.low = Unbounded
    BY <1>0, <1>2, <2>1, UnboundedAssumption DEF LowFirst
  <2>2. CASE x.low \in Versions /\ y.low \in Versions /\ z.low \in Versions
    <3>1. x.low # Unbounded /\ y.low # Unbounded /\ z.low # Unbounded
      BY <2>2, UnboundedAssumption
    <3>2. CASE x.low = y.low
      BY <1>2, <3>1, <3>2 DEF LowFirst
    <3>3. CASE y.low = z.low
      BY <1>2, <3>1, <3>3 DEF LowFirst
    <3>4. CASE Before(x.low, y.low) /\ Before(y.low, z.low)
      <4>1. Before(x.low, z.low)
        BY <2>2, <3>4, BeforeIsTransitive
      <4> QED BY <2>2, <4>1, <3>1, BeforeIsStrict DEF LowFirst
    <3> QED BY <1>2, <3>1, <3>2, <3>3, <3>4 DEF LowFirst
  <2> QED BY <1>0, <2>1, <2>2
<1>3. (x.low = y.low /\ x.lowIn = y.lowIn) \/ LowFirst(x, y) \/ LowFirst(y, x)
  <2>1. CASE x.low = y.low
    BY <1>0, <2>1 DEF LowFirst
  <2>2. CASE x.low # y.low /\ (x.low = Unbounded \/ y.low = Unbounded)
    BY <2>2 DEF LowFirst
  <2>3. CASE x.low # y.low /\ x.low # Unbounded /\ y.low # Unbounded
    BY <1>0, <2>3, BeforeIsTotal DEF LowFirst
  <2> QED BY <2>1, <2>2, <2>3
<1> QED BY <1>1, <1>2, <1>3

LEMMA HighFirstOrders ==
  ASSUME NEW x \in ProperIntervals, NEW y \in ProperIntervals, NEW z \in ProperIntervals
  PROVE  /\ ~HighFirst(x, x)
         /\ HighFirst(x, y) /\ HighFirst(y, z) => HighFirst(x, z)
         /\ (x.high = y.high /\ x.highIn = y.highIn) \/ HighFirst(x, y) \/ HighFirst(y, x)
<1>0. /\ x.high = Unbounded \/ x.high \in Versions
      /\ y.high = Unbounded \/ y.high \in Versions
      /\ z.high = Unbounded \/ z.high \in Versions
      /\ x.highIn \in BOOLEAN /\ y.highIn \in BOOLEAN /\ z.highIn \in BOOLEAN
  BY DEF ProperIntervals, IntervalSet, Bounds
<1>1. ~HighFirst(x, x)
  BY DEF HighFirst
<1>2. ASSUME HighFirst(x, y), HighFirst(y, z) PROVE HighFirst(x, z)
  <2>1. CASE x.high = Unbounded \/ y.high = Unbounded \/ z.high = Unbounded
    BY <1>0, <1>2, <2>1, UnboundedAssumption DEF HighFirst
  <2>2. CASE x.high \in Versions /\ y.high \in Versions /\ z.high \in Versions
    <3>1. x.high # Unbounded /\ y.high # Unbounded /\ z.high # Unbounded
      BY <2>2, UnboundedAssumption
    <3>2. CASE x.high = y.high
      BY <1>2, <3>1, <3>2 DEF HighFirst
    <3>3. CASE y.high = z.high
      BY <1>2, <3>1, <3>3 DEF HighFirst
    <3>4. CASE Before(x.high, y.high) /\ Before(y.high, z.high)
      <4>1. Before(x.high, z.high)
        BY <2>2, <3>4, BeforeIsTransitive
      <4> QED BY <2>2, <4>1, <3>1, BeforeIsStrict DEF HighFirst
    <3> QED BY <1>2, <3>1, <3>2, <3>3, <3>4 DEF HighFirst
  <2> QED BY <1>0, <2>1, <2>2
<1>3. (x.high = y.high /\ x.highIn = y.highIn) \/ HighFirst(x, y) \/ HighFirst(y, x)
  <2>1. CASE x.high = y.high
    BY <1>0, <2>1 DEF HighFirst
  <2>2. CASE x.high # y.high /\ (x.high = Unbounded \/ y.high = Unbounded)
    BY <2>2 DEF HighFirst
  <2>3. CASE x.high # y.high /\ x.high # Unbounded /\ y.high # Unbounded
    BY <1>0, <2>3, BeforeIsTotal DEF HighFirst
  <2> QED BY <2>1, <2>2, <2>3
<1> QED BY <1>1, <1>2, <1>3

SameLow(x, y) == x.low = y.low /\ x.lowIn = y.lowIn

LEMMA SortsBySides ==
  ASSUME NEW x \in ProperIntervals, NEW y \in ProperIntervals
  PROVE  SortsBefore(x, y) <=> LowFirst(x, y) \/ (SameLow(x, y) /\ HighFirst(x, y))
<1>0. /\ x.lowIn \in BOOLEAN /\ y.lowIn \in BOOLEAN
      /\ x.highIn \in BOOLEAN /\ y.highIn \in BOOLEAN
      /\ x.low = Unbounded => x.lowIn
      /\ y.low = Unbounded => y.lowIn
      /\ x.high = Unbounded => x.highIn
      /\ y.high = Unbounded => y.highIn
  BY DEF ProperIntervals, IntervalSet
<1>1. CASE x.low # y.low
  BY <1>1, Zenon DEF SortsBefore, LowFirst, SameLow
<1>2. CASE x.low = y.low /\ x.lowIn # y.lowIn
  BY <1>0, <1>2, SMT DEF SortsBefore, LowFirst, SameLow
<1>3. CASE x.low = y.low /\ x.lowIn = y.lowIn /\ x.high # y.high
  BY <1>0, <1>3, SMT DEF SortsBefore, LowFirst, SameLow, HighFirst
<1>4. CASE x.low = y.low /\ x.lowIn = y.lowIn /\ x.high = y.high
  BY <1>0, <1>4, SMT DEF SortsBefore, LowFirst, SameLow, HighFirst
<1> QED BY <1>1, <1>2, <1>3, <1>4

\* The comparator FromIntervals gives std::sort orders intervals strictly.
LEMMA SortsStrictly ==
  ASSUME NEW S \in SUBSET ProperIntervals
  PROVE  StrictOrder({p \in S \X S : SortsBefore(p[1], p[2])}, S)
<1> DEFINE R == {p \in S \X S : SortsBefore(p[1], p[2])}
<1>0. \A x, y \in S : <<x, y>> \in R <=> SortsBefore(x, y)
  OBVIOUS
<1>1. \A x \in S : ~SortsBefore(x, x)
  BY SortsBySides, LowFirstOrders, HighFirstOrders
<1>2. ASSUME NEW x \in S, NEW y \in S, NEW z \in S, SortsBefore(x, y), SortsBefore(y, z)
      PROVE  SortsBefore(x, z)
  <2>0. x \in ProperIntervals /\ y \in ProperIntervals /\ z \in ProperIntervals
    OBVIOUS
  <2>1. LowFirst(x, y) \/ (SameLow(x, y) /\ HighFirst(x, y))
    BY <2>0, <1>2, SortsBySides
  <2>2. LowFirst(y, z) \/ (SameLow(y, z) /\ HighFirst(y, z))
    BY <2>0, <1>2, SortsBySides
  <2>3. CASE LowFirst(x, y) /\ LowFirst(y, z)
    BY <2>0, <2>3, LowFirstOrders, SortsBySides
  <2>4. CASE LowFirst(x, y) /\ SameLow(y, z)
    <3>1. LowFirst(x, z)
      BY <2>4 DEF LowFirst, SameLow
    <3> QED BY <2>0, <3>1, SortsBySides
  <2>5. CASE SameLow(x, y) /\ LowFirst(y, z)
    <3>1. LowFirst(x, z)
      BY <2>5 DEF LowFirst, SameLow
    <3> QED BY <2>0, <3>1, SortsBySides
  <2>6. CASE SameLow(x, y) /\ HighFirst(x, y) /\ SameLow(y, z) /\ HighFirst(y, z)
    <3>1. SameLow(x, z) /\ HighFirst(x, z)
      BY <2>0, <2>6, HighFirstOrders DEF SameLow
    <3> QED BY <2>0, <3>1, SortsBySides
  <2> QED BY <2>1, <2>2, <2>3, <2>4, <2>5, <2>6
<1>3. ASSUME NEW x \in S, NEW y \in S PROVE x = y \/ SortsBefore(x, y) \/ SortsBefore(y, x)
  <2>0. x \in ProperIntervals /\ y \in ProperIntervals
    OBVIOUS
  <2>1. CASE LowFirst(x, y) \/ LowFirst(y, x)
    BY <2>0, <2>1, SortsBySides
  <2>2. CASE SameLow(x, y) /\ (HighFirst(x, y) \/ HighFirst(y, x))
    <3>1. SameLow(y, x)
      BY <2>2 DEF SameLow
    <3> QED BY <2>0, <2>2, <3>1, SortsBySides
  <2>3. CASE SameLow(x, y) /\ x.high = y.high /\ x.highIn = y.highIn
    BY <2>0, <2>3 DEF SameLow, ProperIntervals, IntervalSet
  <2> QED BY <2>0, <2>1, <2>2, <2>3, LowFirstOrders, HighFirstOrders DEF SameLow
<1> HIDE DEF R
<1> QED BY <1>0, <1>1, <1>2, <1>3 DEF StrictOrder

\* What sorts later does not start earlier.
LEMMA SortedStarts ==
  ASSUME NEW x \in ProperIntervals, NEW y \in ProperIntervals, SortsBefore(x, y)
  PROVE  StartsNoLater(x, y)
<1>0. x.lowIn \in BOOLEAN /\ y.lowIn \in BOOLEAN
  BY DEF ProperIntervals, IntervalSet
<1> QED BY <1>0, SortsBySides DEF LowFirst, SameLow, StartsNoLater

LEMMA StartsTransitively ==
  ASSUME NEW x \in ProperIntervals, NEW y \in ProperIntervals, NEW z \in ProperIntervals,
         StartsNoLater(x, y), StartsNoLater(y, z)
  PROVE  StartsNoLater(x, z)
<1>0. /\ x.low = Unbounded \/ x.low \in Versions
      /\ y.low = Unbounded \/ y.low \in Versions
      /\ z.low = Unbounded \/ z.low \in Versions
      /\ x.lowIn \in BOOLEAN /\ y.lowIn \in BOOLEAN /\ z.lowIn \in BOOLEAN
      /\ y.low = Unbounded => y.lowIn
  BY DEF ProperIntervals, IntervalSet, Bounds
<1>1. CASE x.low = Unbounded
  BY <1>1 DEF StartsNoLater
<1>2. CASE x.low \in Versions /\ y.low = Unbounded
  BY <1>2, UnboundedAssumption DEF StartsNoLater
<1>3. CASE x.low \in Versions /\ y.low \in Versions
  <2>1. x.low # Unbounded /\ y.low # Unbounded
    BY <1>3, UnboundedAssumption
  <2>2. z.low \in Versions /\ z.low # Unbounded
    BY <1>0, <2>1, UnboundedAssumption DEF StartsNoLater
  <2> QED BY <1>0, <1>3, <2>1, <2>2, BeforeIsTransitive DEF StartsNoLater
<1> QED BY <1>0, <1>1, <1>2, <1>3

-----------------------------------------------------------------------------
(* FromIntervals.                                                          *)

Add(merged, iv) ==
  IF merged # <<>> /\ Joins(Last(merged), iv)
  THEN [merged EXCEPT ![Len(merged)] = Extend(@, iv)]
  ELSE Append(merged, iv)

Kept(S) == {iv \in S : ~StructurallyEmpty(iv)}

LEMMA ExtendIsProper ==
  ASSUME NEW cur \in ProperIntervals, NEW iv \in ProperIntervals
  PROVE  /\ Extend(cur, iv) \in ProperIntervals
         /\ Extend(cur, iv).low = cur.low /\ Extend(cur, iv).lowIn = cur.lowIn
<1>0. /\ cur \in IntervalSet /\ iv.high \in Bounds
      /\ cur.high \in Bounds /\ cur.low \in Bounds
      /\ cur.lowIn \in BOOLEAN /\ cur.highIn \in BOOLEAN /\ iv.highIn \in BOOLEAN
      /\ cur.low = Unbounded => cur.lowIn
  BY DEF ProperIntervals, IntervalSet
<1>1. CASE cur.high = Unbounded \/ iv.high = Unbounded
  <2>1. Extend(cur, iv) = [cur EXCEPT !.high = Unbounded, !.highIn = TRUE]
    BY <1>1 DEF Extend
  <2> QED BY <1>0, <2>1 DEF ProperIntervals, IntervalSet, Bounds
<1>2. CASE cur.high # Unbounded /\ iv.high # Unbounded /\ Before(cur.high, iv.high)
  <2>1. Extend(cur, iv) = [cur EXCEPT !.high = iv.high, !.highIn = iv.highIn]
    BY <1>2 DEF Extend
  <2> QED BY <1>0, <1>2, <2>1 DEF ProperIntervals, IntervalSet
<1>3. CASE cur.high # Unbounded /\ iv.high # Unbounded /\ ~Before(cur.high, iv.high)
  <2> DEFINE in == cur.highIn \/ (cur.high = iv.high /\ iv.highIn)
  <2>1. Extend(cur, iv) = [cur EXCEPT !.highIn = in]
    BY <1>3 DEF Extend
  <2>2. in \in BOOLEAN
    OBVIOUS
  <2> HIDE DEF in
  <2> QED BY <1>0, <1>3, <2>1, <2>2 DEF ProperIntervals, IntervalSet
<1> QED BY <1>1, <1>2, <1>3

LEMMA AddKeepsProper ==
  ASSUME NEW m \in Seq(ProperIntervals), NEW iv \in ProperIntervals
  PROVE  Add(m, iv) \in Seq(ProperIntervals)
<1>1. CASE m # <<>> /\ Joins(Last(m), iv)
  <2>1. Len(m) \in 1..Len(m) /\ m[Len(m)] \in ProperIntervals
    BY <1>1
  <2>2. Extend(m[Len(m)], iv) \in ProperIntervals
    BY <2>1, ExtendIsProper
  <2> QED BY <1>1, <2>1, <2>2 DEF Add
<1>2. CASE ~(m # <<>> /\ Joins(Last(m), iv))
  BY <1>2 DEF Add
<1> QED BY <1>1, <1>2

\* The intervals are sorted and then merged, one by one.
LEMMA FromIntervalsMerges ==
  ASSUME NEW S \in SUBSET ProperIntervals, IsFiniteSet(S)
  PROVE  \E seq, m :
           /\ seq \in Seq(Kept(S))
           /\ \A iv \in Kept(S) : \E i \in 1..Len(seq) : seq[i] = iv
           /\ \A i, j \in 1..Len(seq) : i < j => SortsBefore(seq[i], seq[j])
           /\ m \in [0..Len(seq) -> Seq(ProperIntervals)]
           /\ m[0] = <<>>
           /\ \A i \in 1..Len(seq) : m[i] = Add(m[i - 1], seq[i])
           /\ FromIntervals(S) = m[Len(seq)]
<1> DEFINE K == Kept(S)
           n == Cardinality(K)
           R == {p \in K \X K : SortsBefore(p[1], p[2])}
           seq == InOrder(K, SortsBefore)
<1>0. K \in SUBSET ProperIntervals /\ IsFiniteSet(K) /\ StrictOrder(R, K)
  <2>1. K \in SUBSET S
    BY DEF Kept
  <2>2. K \in SUBSET ProperIntervals
    BY <2>1
  <2> HIDE DEF K
  <2> QED BY <2>1, <2>2, FS_Subset, SortsStrictly
<1>1. \A x \in K : {y \in K : SortsBefore(y, x)} = Smaller(R, K, x)
  BY DEF Smaller
<1>2. n \in Nat
  BY <1>0, FS_CardinalityType
<1>3. Places(seq, R, K)
  <2>0. \A i \in 1..n : \E x \in K : Cardinality(Smaller(R, K, x)) = i - 1
    <3> HIDE DEF K, R
    <3> QED BY <1>0, RanksAreTaken
  <2> HIDE DEF K
  <2>1. \A i \in 1..n : \E x \in K : Cardinality({y \in K : SortsBefore(y, x)}) = i - 1
    <3> HIDE DEF R
    <3> QED BY <1>1, <2>0
  <2>2. \A i \in 1..n : seq[i] \in K /\ Cardinality({y \in K : SortsBefore(y, seq[i])}) = i - 1
    BY <2>1 DEF InOrder
  <2>3. seq = [i \in 1..n |-> seq[i]]
    BY DEF InOrder
  <2> HIDE DEF R, seq
  <2> QED BY <1>1, <2>2, <2>3 DEF Places
<1>4. Sorts(seq, R, K)
  <2> HIDE DEF K, R, seq
  <2> QED BY <1>0, <1>3, PlacedIsSorted, Zenon
<1>5. seq \in Seq(K) /\ Len(seq) = n /\ DOMAIN seq = 1..n
  <2> HIDE DEF K, seq
  <2> QED BY <1>4 DEF Sorts
<1>6. \A i, j \in 1..n : i < j => SortsBefore(seq[i], seq[j])
  <2> HIDE DEF K, seq
  <2> QED BY <1>4, <1>5 DEF Sorts
<1> DEFINE A == Seq(ProperIntervals)
           h == [x \in 1..n |-> [a \in A |-> Add(a, seq[x])]]
           IsFold(g) == g = [s \in SUBSET DOMAIN seq |->
                               IF s = {} THEN <<>> ELSE Add(g[s \ {Max(s)}], seq[Max(s)])]
<1>7. \A x \in 1..n : seq[x] \in ProperIntervals
  <2> HIDE DEF K, seq
  <2> QED BY <1>0, <1>5
<1>8. \E g \in [SUBSET (1..n) -> A] : IsFold(g)
  <2> HIDE DEF seq, K
  <2>1. <<>> \in A /\ h \in [1..n -> [A -> A]]
    BY <1>7, AddKeepsProper
  <2>2. PICK g \in [SUBSET (1..n) -> A] : Loops(g, n, <<>>, h)
    <3> HIDE DEF A, h, n
    <3> QED BY <1>2, <2>1, LoopExists, Zenon
  <2>5. ASSUME NEW s \in SUBSET (1..n), s # {}
        PROVE  g[s] = Add(g[s \ {Max(s)}], seq[Max(s)])
    <3>1. Max(s) \in 1..n
      BY <1>2, <2>5, LoopPrefixes
    <3>2. g[s \ {Max(s)}] \in A
      BY <2>2
    <3> QED BY <2>2, <2>5, <3>1, <3>2 DEF Loops
  <2>6. IsFold(g)
    <3> HIDE DEF A, n, h
    <3>1. g = [s \in SUBSET (1..n) |-> g[s]]
      BY <2>2
    <3> QED BY <1>5, <2>2, <2>5, <3>1 DEF Loops
  <2> QED BY <2>6
<1> DEFINE fold == CHOOSE g : IsFold(g)
<1>9. IsFold(fold)
  <2>1. \E g : IsFold(g)
    <3> HIDE DEF IsFold
    <3> QED BY <1>8
  <2> HIDE DEF IsFold
  <2> QED BY <2>1
<1> DEFINE m == [i \in 0..n |-> fold[1..i]]
<1>10. /\ m[0] = <<>>
       /\ \A i \in 1..n : m[i] = Add(m[i - 1], seq[i])
  <2> HIDE DEF seq, K, n, fold
  <2>1. {} \in SUBSET (1..n) /\ fold[{}] = <<>>
    BY <1>5, <1>9
  <2>2. m[0] = <<>>
    BY <1>2, <2>1, LoopPrefixes
  <2>3. ASSUME NEW i \in 1..n PROVE m[i] = Add(m[i - 1], seq[i])
    <3>1. /\ 1..i \in SUBSET (1..n) /\ 1..i # {} /\ Max(1..i) = i
          /\ (1..i) \ {i} = 1..(i - 1)
      BY <1>2, LoopPrefixes
    <3>2. fold[1..i] = Add(fold[1..(i - 1)], seq[i])
      BY <1>5, <1>9, <3>1
    <3>3. i \in 0..n /\ i - 1 \in 0..n
      BY <1>2
    <3> QED BY <3>2, <3>3
  <2> QED BY <2>2, <2>3
<1>11. \A i \in 0..n : m[i] \in A
  <2> HIDE DEF seq, K, n, m, A
  <2> DEFINE T == {i \in 0..n : m[i] \in A}
  <2>0. <<>> \in A
    BY DEF A
  <2>1. 0 \in T
    BY <1>2, <1>10, <2>0
  <2>2. ASSUME NEW i \in 1..n, i - 1 \in T PROVE i \in T
    <3>1. m[i - 1] \in Seq(ProperIntervals) /\ seq[i] \in ProperIntervals
      BY <1>7, <2>2 DEF A
    <3>2. Add(m[i - 1], seq[i]) \in A
      BY <3>1, AddKeepsProper DEF A
    <3>3. m[i] \in A /\ i \in 0..n
      BY <1>2, <1>10, <3>2
    <3> QED BY <3>3
  <2> HIDE DEF T
  <2>3. 0..n \subseteq T
    BY <1>2, <2>1, <2>2, EveryIteration
  <2> QED BY <2>3 DEF T
<1>12. FromIntervals(S) = m[Len(seq)]
  <2>1. FromIntervals(S) = FoldLeft(Add, <<>>, seq)
    BY DEF FromIntervals, Add, Kept
  <2>2. FoldLeft(Add, <<>>, seq) = fold[DOMAIN seq]
    <3> HIDE DEF seq
    <3> QED BY DEF FoldLeft, MapThenFoldSet
  <2> HIDE DEF seq, fold, K, n
  <2> QED BY <2>1, <2>2, <1>2, <1>5
<1>13. m \in [0..Len(seq) -> Seq(ProperIntervals)]
  <2> HIDE DEF seq, K, n, fold
  <2> QED BY <1>5, <1>11
<1>14. /\ \A iv \in K : \E i \in 1..Len(seq) : seq[i] = iv
       /\ \A i, j \in 1..Len(seq) : i < j => SortsBefore(seq[i], seq[j])
  <2> HIDE DEF seq, K, n
  <2> QED BY <1>4, <1>5, <1>6 DEF Sorts
<1>15. \A i \in 1..Len(seq) : m[i] = Add(m[i - 1], seq[i])
  <2> HIDE DEF seq, K, n, m
  <2> QED BY <1>5, <1>10
<1> HIDE DEF seq, K, n, m
<1> QED BY <1>5, <1>10, <1>12, <1>13, <1>14, <1>15 DEF K

\* What a range contains, prereleases as their bounds have it.
Covers(r, v) == \E i \in DOMAIN r : ContainsBound(r[i], v)

\* No interval in the range is empty, and two neighbours leave something out.
Apart(x, y) ==
  /\ x.high # Unbounded /\ y.low # Unbounded
  /\ Before(x.high, y.low) \/ (x.high = y.low /\ ~x.highIn /\ ~y.lowIn)

LEMMA CanonicalIsApart ==
  ASSUME NEW r
  PROVE  Canonical(r) <=> /\ \A i \in DOMAIN r : ~StructurallyEmpty(r[i])
                          /\ \A i \in 1..Len(r) - 1 : Apart(r[i], r[i + 1])
BY DEF Canonical, Apart

LEMMA ExtendIsNotEmpty ==
  ASSUME NEW cur \in ProperIntervals, NEW iv \in ProperIntervals, ~StructurallyEmpty(cur)
  PROVE  ~StructurallyEmpty(Extend(cur, iv))
<1>0. /\ cur \in IntervalSet
      /\ cur.low = Unbounded \/ cur.low \in Versions
      /\ cur.high = Unbounded \/ cur.high \in Versions
      /\ iv.high = Unbounded \/ iv.high \in Versions
      /\ cur.lowIn \in BOOLEAN /\ cur.highIn \in BOOLEAN /\ iv.highIn \in BOOLEAN
  BY DEF ProperIntervals, IntervalSet, Bounds
<1>1. Extend(cur, iv).low = cur.low /\ Extend(cur, iv).lowIn = cur.lowIn
  BY ExtendIsProper
<1>2. CASE cur.high = Unbounded \/ iv.high = Unbounded
  <2>1. Extend(cur, iv).high = Unbounded
    BY <1>0, <1>2 DEF Extend, IntervalSet
  <2> QED BY <2>1 DEF StructurallyEmpty
<1>3. CASE cur.high # Unbounded /\ iv.high # Unbounded /\ Before(cur.high, iv.high)
  <2>1. Extend(cur, iv).high = iv.high
    BY <1>0, <1>3 DEF Extend, IntervalSet
  <2>2. CASE cur.low = Unbounded
    BY <1>1, <2>2 DEF StructurallyEmpty
  <2>3. CASE cur.low # Unbounded
    <3>1. ~Before(cur.high, cur.low)
      BY <1>3, <2>3 DEF StructurallyEmpty
    <3>2. Before(cur.low, iv.high)
      BY <1>0, <1>3, <2>3, <3>1, BeforeIsTotal, BeforeIsTransitive
    <3> QED BY <1>0, <1>1, <1>3, <2>1, <2>3, <3>2, BeforeIsStrict DEF StructurallyEmpty
  <2> QED BY <2>2, <2>3
<1>4. CASE cur.high # Unbounded /\ iv.high # Unbounded /\ ~Before(cur.high, iv.high)
  <2>1. /\ Extend(cur, iv).high = cur.high
        /\ cur.highIn => Extend(cur, iv).highIn
    BY <1>0, <1>4 DEF Extend, IntervalSet
  <2> QED BY <1>0, <1>1, <1>4, <2>1 DEF StructurallyEmpty
<1> QED BY <1>2, <1>3, <1>4

\* Two intervals that do not join are apart.
LEMMA NotJoined ==
  ASSUME NEW cur \in ProperIntervals, NEW iv \in ProperIntervals, ~Joins(cur, iv)
  PROVE  Apart(cur, iv)
<1>1. /\ cur.high # Unbounded /\ iv.low # Unbounded
      /\ ~Before(iv.low, cur.high)
      /\ ~(cur.high = iv.low /\ (cur.highIn \/ iv.lowIn))
  BY DEF Joins
<1>2. cur.high \in Versions /\ iv.low \in Versions
  BY <1>1 DEF ProperIntervals, IntervalSet, Bounds
<1> QED BY <1>1, <1>2, BeforeIsTotal DEF Apart

-----------------------------------------------------------------------------
(* The merged list after some of the sorted intervals: canonical, no later  *)
(* than the last interval in its last low bound, and containing what the    *)
(* intervals contain.                                                      *)

Merged(m, seq, i) ==
  /\ m \in Seq(ProperIntervals) /\ Canonical(m)
  /\ i > 0 => m # <<>> /\ StartsNoLater(Last(m), seq[i])
  /\ \A v \in Versions : Covers(m, v) <=> \E k \in 1..i : ContainsBound(seq[k], v)
  /\ \A k \in DOMAIN m : \E l \in 1..i : m[k].low = seq[l].low

LEMMA StartsReflexively == \A iv : StartsNoLater(iv, iv)
BY DEF StartsNoLater

LEMMA AppendMerges ==
  ASSUME NEW seq \in Seq(ProperIntervals), NEW i \in 1..Len(seq), NEW m, Merged(m, seq, i - 1),
         ~StructurallyEmpty(seq[i]), m = <<>> \/ ~Joins(Last(m), seq[i])
  PROVE  Merged(Append(m, seq[i]), seq, i)
<1> DEFINE a == Append(m, seq[i])
<1>0. m \in Seq(ProperIntervals) /\ seq[i] \in ProperIntervals /\ i \in Nat /\ i - 1 \in Nat
  BY DEF Merged
<1>1. /\ a \in Seq(ProperIntervals) /\ Len(a) = Len(m) + 1 /\ DOMAIN a = 1..Len(m) + 1
      /\ \A k \in 1..Len(m) : a[k] = m[k]
      /\ a[Len(m) + 1] = seq[i] /\ Len(m) \in Nat /\ DOMAIN m = 1..Len(m)
  BY <1>0
<1>2. Canonical(a)
  <2>1. \A k \in DOMAIN a : ~StructurallyEmpty(a[k])
    <3> HIDE DEF a
    <3>1. \A k \in DOMAIN m : ~StructurallyEmpty(m[k])
      BY DEF Merged, Canonical
    <3> QED BY <1>1, <3>1
  <2>2. ASSUME NEW k \in 1..Len(a) - 1 PROVE Apart(a[k], a[k + 1])
    <3> HIDE DEF a
    <3>1. CASE k < Len(m)
      <4>1. k \in 1..Len(m) - 1 /\ k \in 1..Len(m) /\ k + 1 \in 1..Len(m)
        BY <1>1, <3>1
      <4>2. Apart(m[k], m[k + 1])
        BY <4>1, CanonicalIsApart DEF Merged
      <4> QED BY <1>1, <4>1, <4>2
    <3>2. CASE k = Len(m)
      <4>1. Len(m) \in 1..Len(m) /\ m # <<>>
        BY <1>1, <3>2
      <4>2. m[Len(m)] \in ProperIntervals
        BY <1>0, <4>1
      <4>3. Apart(m[Len(m)], seq[i])
        BY <1>0, <4>1, <4>2, NotJoined DEF Last
      <4> QED BY <1>1, <3>2, <4>1, <4>3
    <3> QED BY <1>1, <2>2, <3>1, <3>2
  <2> HIDE DEF a
  <2> QED BY <2>1, <2>2, CanonicalIsApart
<1>3. a # <<>> /\ StartsNoLater(Last(a), seq[i])
  <2> HIDE DEF a
  <2>1. Last(a) = seq[i]
    BY <1>1 DEF Last
  <2> QED BY <1>1, <2>1, StartsReflexively
<1>4. ASSUME NEW v \in Versions
      PROVE  Covers(a, v) <=> \E k \in 1..i : ContainsBound(seq[k], v)
  <2> HIDE DEF a
  <2>1. Covers(a, v) <=> Covers(m, v) \/ ContainsBound(seq[i], v)
    BY <1>1 DEF Covers
  <2>2. Covers(m, v) <=> \E k \in 1..i - 1 : ContainsBound(seq[k], v)
    BY DEF Merged
  <2>3. \A k : k \in 1..i <=> k \in 1..i - 1 \/ k = i
    BY <1>0
  <2> QED BY <2>1, <2>2, <2>3
<1>5. ASSUME NEW k \in DOMAIN a PROVE \E l \in 1..i : a[k].low = seq[l].low
  <2> HIDE DEF a
  <2>1. CASE k \in DOMAIN m
    <3>1. PICK l \in 1..i - 1 : m[k].low = seq[l].low
      BY <2>1 DEF Merged
    <3> QED BY <1>0, <1>1, <2>1, <3>1
  <2>2. CASE k = Len(m) + 1
    BY <1>0, <1>1, <2>2
  <2> QED BY <1>1, <2>1, <2>2
<1> HIDE DEF a
<1>6. Merged(a, seq, i)
  BY <1>1, <1>2, <1>3, <1>4, <1>5 DEF Merged
<1> QED BY <1>6 DEF a

LEMMA JoinMerges ==
  ASSUME NEW seq \in Seq(ProperIntervals), NEW i \in 1..Len(seq), NEW m, Merged(m, seq, i - 1),
         i > 1 => SortsBefore(seq[i - 1], seq[i]),
         m # <<>>, Joins(Last(m), seq[i])
  PROVE  Merged([m EXCEPT ![Len(m)] = Extend(@, seq[i])], seq, i)
<1> DEFINE n == Len(m)
           e == Extend(m[n], seq[i])
           a == [m EXCEPT ![n] = e]
<1>0. m \in Seq(ProperIntervals) /\ seq[i] \in ProperIntervals /\ i \in Nat /\ i - 1 \in Nat
  BY DEF Merged
<1>1. n \in 1..n /\ n \in Nat /\ m[n] \in ProperIntervals /\ Last(m) = m[n]
  BY <1>0 DEF Last
<1>2. e \in ProperIntervals /\ e.low = m[n].low /\ e.lowIn = m[n].lowIn
  BY <1>0, <1>1, ExtendIsProper
<1>3. /\ a \in Seq(ProperIntervals) /\ Len(a) = n /\ DOMAIN a = 1..n /\ DOMAIN m = 1..n
      /\ \A k \in 1..n : k # n => a[k] = m[k]
      /\ a[n] = e
  <2> HIDE DEF e
  <2> QED BY <1>0, <1>1, <1>2
<1>4. i > 1 /\ StartsNoLater(m[n], seq[i - 1])
  <2>1. i - 1 # 0
    <3> SUFFICES ASSUME i - 1 = 0 PROVE FALSE
      OBVIOUS
    <3>1. PICK l \in 1..i - 1 : m[n].low = seq[l].low
      BY <1>0, <1>1 DEF Merged
    <3> QED BY <3>1
  <2> QED BY <1>0, <1>1, <2>1 DEF Merged
<1>5. StartsNoLater(m[n], seq[i])
  <2>1. seq[i - 1] \in ProperIntervals
    BY <1>0, <1>4
  <2>2. StartsNoLater(seq[i - 1], seq[i])
    BY <1>0, <1>4, <2>1, SortedStarts
  <2> QED BY <1>0, <1>1, <1>4, <2>1, <2>2, StartsTransitively
<1>6. Canonical(a)
  <2> HIDE DEF a, e
  <2>0. \A k \in 1..n : ~StructurallyEmpty(m[k])
    BY <1>3 DEF Merged, Canonical
  <2>1. \A k \in DOMAIN a : ~StructurallyEmpty(a[k])
    <3>1. ~StructurallyEmpty(e)
      BY <1>0, <1>1, <2>0, ExtendIsNotEmpty DEF e
    <3> QED BY <1>3, <2>0, <3>1
  <2>2. ASSUME NEW k \in 1..Len(a) - 1 PROVE Apart(a[k], a[k + 1])
    <3>0. k \in 1..n - 1 /\ n \in Nat
      BY <1>1, <1>3
    <3>1. k \in 1..Len(m) - 1 /\ k \in 1..n /\ k + 1 \in 1..n /\ k # n
      <4> HIDE DEF n
      <4>1. k \in 1..n /\ k + 1 \in 1..n /\ k # n
        BY <3>0
      <4> QED BY <3>0, <4>1 DEF n
    <3>2. Apart(m[k], m[k + 1])
      BY <3>1, CanonicalIsApart DEF Merged
    <3>3. a[k] = m[k]
      BY <1>3, <3>1
    <3>4. CASE k + 1 = n
      BY <1>2, <1>3, <3>2, <3>3, <3>4 DEF Apart
    <3>5. CASE k + 1 # n
      BY <1>3, <3>1, <3>2, <3>3, <3>5
    <3> QED BY <3>4, <3>5
  <2> QED BY <2>1, <2>2, CanonicalIsApart
<1>7. a # <<>> /\ StartsNoLater(Last(a), seq[i])
  <2> HIDE DEF a, e
  <2>1. Last(a) = e
    BY <1>3 DEF Last
  <2>2. StartsNoLater(e, seq[i])
    BY <1>2, <1>5 DEF StartsNoLater
  <2>3. a # <<>>
    <3>1. Len(a) # 0
      <4> HIDE DEF n
      <4>1. Len(a) = n
        BY <1>3
      <4> QED BY <1>1, <4>1
    <3> QED BY <3>1
  <2> QED BY <2>1, <2>2, <2>3
<1>8. ASSUME NEW v \in Versions
      PROVE  Covers(a, v) <=> \E k \in 1..i : ContainsBound(seq[k], v)
  <2>1. ContainsBound(e, v) <=> ContainsBound(m[n], v) \/ ContainsBound(seq[i], v)
    <3>1. m[n] \in IntervalSet /\ seq[i] \in IntervalSet
      BY <1>0, <1>1 DEF ProperIntervals
    <3> QED BY <1>1, <1>5, <3>1, ExtendIsUnion
  <2> HIDE DEF a, e
  <2>2. Covers(a, v) <=> Covers(m, v) \/ ContainsBound(seq[i], v)
    BY <1>1, <1>3, <2>1 DEF Covers
  <2>3. Covers(m, v) <=> \E k \in 1..i - 1 : ContainsBound(seq[k], v)
    BY DEF Merged
  <2>4. \A k : k \in 1..i <=> k \in 1..i - 1 \/ k = i
    BY <1>0
  <2> QED BY <2>2, <2>3, <2>4
<1>9. ASSUME NEW k \in DOMAIN a PROVE \E l \in 1..i : a[k].low = seq[l].low
  <2> HIDE DEF a, e
  <2>1. a[k].low = m[k].low /\ k \in DOMAIN m
    BY <1>2, <1>3
  <2>2. PICK l \in 1..i - 1 : m[k].low = seq[l].low
    BY <2>1 DEF Merged
  <2> QED BY <1>0, <2>1, <2>2
<1>10. Merged(a, seq, i)
  <2> HIDE DEF a
  <2> QED BY <1>3, <1>6, <1>7, <1>8, <1>9 DEF Merged
<1>11. a = [m EXCEPT ![Len(m)] = Extend(@, seq[i])]
  OBVIOUS
<1> HIDE DEF a
<1> QED BY <1>10, <1>11

\* A range made of any intervals is canonical, contains exactly what they
\* contain, and begins its parts where some of them begin: the loop of
\* VersionRange::FromIntervals.
THEOREM FromIntervalsIsUnion ==
  ASSUME NEW S \in SUBSET ProperIntervals, IsFiniteSet(S)
  PROVE  /\ FromIntervals(S) \in Seq(ProperIntervals)
         /\ Canonical(FromIntervals(S))
         /\ \A v \in Versions : Covers(FromIntervals(S), v) <=> \E iv \in S : ContainsBound(iv, v)
         /\ \A k \in DOMAIN FromIntervals(S) : \E iv \in S : FromIntervals(S)[k].low = iv.low
<1>1. PICK seq, m :
        /\ seq \in Seq(Kept(S))
        /\ \A iv \in Kept(S) : \E i \in 1..Len(seq) : seq[i] = iv
        /\ \A i, j \in 1..Len(seq) : i < j => SortsBefore(seq[i], seq[j])
        /\ m \in [0..Len(seq) -> Seq(ProperIntervals)]
        /\ m[0] = <<>>
        /\ \A i \in 1..Len(seq) : m[i] = Add(m[i - 1], seq[i])
        /\ FromIntervals(S) = m[Len(seq)]
  BY FromIntervalsMerges
<1>2. /\ seq \in Seq(ProperIntervals)
      /\ \A i \in 1..Len(seq) : seq[i] \in S /\ ~StructurallyEmpty(seq[i])
      /\ Len(seq) \in Nat
  BY <1>1 DEF Kept
<1> DEFINE T == {i \in 0..Len(seq) : Merged(m[i], seq, i)}
<1>3. 0 \in T
  <2>1. Merged(<<>>, seq, 0)
    BY DEF Merged, Canonical, Covers
  <2> QED BY <1>1, <1>2, <2>1
<1>4. ASSUME NEW i \in 1..Len(seq), i - 1 \in T PROVE i \in T
  <2>1. Merged(m[i - 1], seq, i - 1)
    BY <1>4
  <2>2. ASSUME i > 1 PROVE SortsBefore(seq[i - 1], seq[i])
    <3>1. i - 1 \in 1..Len(seq) /\ i - 1 < i
      BY <1>2, <2>2
    <3> QED BY <1>1, <3>1
  <2>3. m[i] = Add(m[i - 1], seq[i])
    BY <1>1
  <2>4. CASE m[i - 1] # <<>> /\ Joins(Last(m[i - 1]), seq[i])
    <3>1. m[i] = [m[i - 1] EXCEPT ![Len(m[i - 1])] = Extend(@, seq[i])]
      BY <2>3, <2>4 DEF Add
    <3>2. Merged(m[i], seq, i)
      BY <1>2, <2>1, <2>2, <2>4, <3>1, JoinMerges
    <3> QED BY <1>2, <3>2
  <2>5. CASE ~(m[i - 1] # <<>> /\ Joins(Last(m[i - 1]), seq[i]))
    <3>1. m[i] = Append(m[i - 1], seq[i])
      BY <2>3, <2>5 DEF Add
    <3>2. Merged(m[i], seq, i)
      BY <1>2, <2>1, <2>5, <3>1, AppendMerges
    <3> QED BY <1>2, <3>2
  <2> QED BY <2>4, <2>5
<1>5. Merged(FromIntervals(S), seq, Len(seq))
  <2>1. 0..Len(seq) \subseteq T
    <3> HIDE DEF T
    <3> QED BY <1>2, <1>3, <1>4, EveryIteration
  <2> QED BY <1>1, <1>2, <2>1
<1>6. FromIntervals(S) \in Seq(ProperIntervals) /\ Canonical(FromIntervals(S))
  BY <1>5 DEF Merged
<1>7. ASSUME NEW v \in Versions
      PROVE  Covers(FromIntervals(S), v) <=> \E iv \in S : ContainsBound(iv, v)
  <2>1. Covers(FromIntervals(S), v) <=> \E k \in 1..Len(seq) : ContainsBound(seq[k], v)
    BY <1>5 DEF Merged
  <2>2. ASSUME NEW iv \in S, ContainsBound(iv, v) PROVE iv \in Kept(S)
    BY <2>2, EmptyContainsNothing DEF Kept, ProperIntervals
  <2> QED BY <1>1, <1>2, <2>1, <2>2
<1>8. ASSUME NEW k \in DOMAIN FromIntervals(S)
      PROVE  \E iv \in S : FromIntervals(S)[k].low = iv.low
  <2>1. PICK l \in 1..Len(seq) : FromIntervals(S)[k].low = seq[l].low
    BY <1>5 DEF Merged
  <2> QED BY <1>2, <2>1
<1> QED BY <1>6, <1>7, <1>8

-----------------------------------------------------------------------------
(* Intersect.                                                              *)

\* Whatever a later interval of a range contains lies beyond the earlier ones.
LEMMA Ascends ==
  ASSUME NEW r \in Seq(ProperIntervals), Canonical(r),
         NEW j \in DOMAIN r, NEW v \in Versions, AboveLow(r[j], v)
  PROVE  \A k \in 1..j - 1 : ~BelowHigh(r[k], v)
<1> DEFINE T == {d \in 0..j - 1 : AboveLow(r[j - d], v) /\ (d > 0 => ~BelowHigh(r[j - d], v))}
<1>0. j \in Nat /\ j - 1 \in Nat /\ Len(r) \in Nat /\ j <= Len(r)
  OBVIOUS
<1>1. 0 \in T
  BY <1>0
<1>2. ASSUME NEW d \in 1..j - 1, d - 1 \in T PROVE d \in T
  <2> DEFINE k == j - d
  <2>1. k \in 1..Len(r) - 1 /\ k \in DOMAIN r /\ k + 1 \in DOMAIN r /\ j - (d - 1) = k + 1
    BY <1>0
  <2>2. AboveLow(r[k + 1], v)
    BY <1>2, <2>1
  <2> HIDE DEF k
  <2>3. Apart(r[k], r[k + 1]) /\ ~StructurallyEmpty(r[k])
    BY <2>1, CanonicalIsApart
  <2>4. r[k] \in ProperIntervals /\ r[k + 1] \in ProperIntervals
    BY <2>1
  <2> DEFINE x == r[k]
             y == r[k + 1]
  <2>5. /\ x.low = Unbounded \/ x.low \in Versions
        /\ x.high \in Versions /\ y.low \in Versions
        /\ x.high # Unbounded /\ y.low # Unbounded
    BY <2>3, <2>4 DEF Apart, ProperIntervals, IntervalSet, Bounds
  <2> HIDE DEF x, y
  <2>6. Before(x.high, v) \/ (v = x.high /\ ~x.highIn)
    <3>1. CASE Before(x.high, y.low)
      <4>1. Before(y.low, v) \/ v = y.low
        BY <2>2, <2>5 DEF AboveLow, y
      <4> QED BY <2>5, <3>1, <4>1, BeforeIsTransitive
    <3>2. CASE x.high = y.low /\ ~x.highIn /\ ~y.lowIn
      BY <2>2, <2>5, <3>2 DEF AboveLow, y
    <3> QED BY <2>3, <3>1, <3>2 DEF Apart, x, y
  <2>7. ~BelowHigh(x, v)
    <3>1. v # x.high \/ ~x.highIn
      BY <2>5, <2>6, BeforeIsStrict
    <3>2. ~Before(v, x.high)
      BY <2>5, <2>6, BeforeIsStrict
    <3> QED BY <2>5, <3>1, <3>2 DEF BelowHigh
  <2>8. AboveLow(x, v)
    <3> SUFFICES ASSUME x.low # Unbounded PROVE Before(x.low, v) \/ (v = x.low /\ x.lowIn)
      BY DEF AboveLow
    <3>1. ~Before(x.high, x.low) /\ (x.low = x.high => x.lowIn /\ x.highIn)
      BY <2>3, <2>5 DEF StructurallyEmpty, x
    <3>2. x.low \in Versions
      BY <2>5
    <3>3. CASE x.low = x.high
      BY <2>6, <3>1, <3>3
    <3>4. CASE Before(x.low, x.high)
      BY <2>5, <2>6, <3>2, <3>4, BeforeIsTransitive
    <3> QED BY <2>5, <3>1, <3>2, <3>3, <3>4, BeforeIsTotal
  <2> QED BY <2>7, <2>8 DEF x, k
<1>3. 0..j - 1 \subseteq T
  <2> HIDE DEF T
  <2> QED BY <1>0, <1>1, <1>2, EveryIteration
<1>4. ASSUME NEW k \in 1..j - 1 PROVE ~BelowHigh(r[k], v)
  <2>1. j - k \in 0..j - 1 /\ j - k > 0 /\ j - (j - k) = k
    BY <1>0
  <2> QED BY <1>3, <2>1
<1> QED BY <1>4

\* The interval the sweep leaves first ends first.
LEMMA EndsFirstEndsFirst ==
  ASSUME NEW x \in IntervalSet, NEW y \in IntervalSet, NEW v \in Versions
  PROVE  IF EndsFirst(x, y) THEN BelowHigh(x, v) => BelowHigh(y, v)
                            ELSE BelowHigh(y, v) => BelowHigh(x, v)
<1>0. /\ x.high = Unbounded \/ x.high \in Versions
      /\ y.high = Unbounded \/ y.high \in Versions
      /\ x.highIn \in BOOLEAN /\ y.highIn \in BOOLEAN
  BY DEF IntervalSet, Bounds
<1>1. CASE x.high = Unbounded \/ y.high = Unbounded
  BY <1>1 DEF EndsFirst, BelowHigh
<1>2. CASE x.high # Unbounded /\ y.high # Unbounded
  <2>0. x.high \in Versions /\ y.high \in Versions
    BY <1>0, <1>2
  <2>1. CASE Before(x.high, y.high)
    BY <1>2, <2>0, <2>1, BeforeIsTransitive DEF EndsFirst, BelowHigh
  <2>2. CASE Before(y.high, x.high)
    <3>1. ~EndsFirst(x, y)
      BY <1>2, <2>0, <2>2, BeforeIsStrict DEF EndsFirst
    <3>2. BelowHigh(y, v) => BelowHigh(x, v)
      BY <1>2, <2>0, <2>2, BeforeIsTransitive DEF BelowHigh
    <3> QED BY <3>1, <3>2
  <2>3. CASE x.high = y.high
    <3>1. ~Before(x.high, y.high)
      BY <2>0, <2>3, BeforeIsStrict
    <3> QED BY <1>0, <1>2, <2>3, <3>1 DEF EndsFirst, BelowHigh
  <2> QED BY <2>0, <2>1, <2>2, <2>3, BeforeIsTotal
<1> QED BY <1>1, <1>2

LEMMA MeetIsProper ==
  ASSUME NEW x \in ProperIntervals, NEW y \in ProperIntervals
  PROVE  /\ Meet(x, y) \in ProperIntervals
         /\ Meet(x, y).low = x.low \/ Meet(x, y).low = y.low
<1>0. /\ x.low \in Bounds /\ x.high \in Bounds /\ x.lowIn \in BOOLEAN /\ x.highIn \in BOOLEAN
      /\ y.low \in Bounds /\ y.high \in Bounds /\ y.lowIn \in BOOLEAN /\ y.highIn \in BOOLEAN
      /\ x.low = Unbounded => x.lowIn
      /\ y.low = Unbounded => y.lowIn
      /\ x.high = Unbounded => x.highIn
      /\ y.high = Unbounded => y.highIn
  BY DEF ProperIntervals, IntervalSet
<1> DEFINE l == LowOf(x, y).low
           li == IF x.low = y.low THEN x.lowIn /\ y.lowIn ELSE LowOf(x, y).lowIn
           h == HighOf(x, y).high
           hi == IF x.high = y.high THEN x.highIn /\ y.highIn ELSE HighOf(x, y).highIn
<1>1. Meet(x, y) = [low |-> l, lowIn |-> li, high |-> h, highIn |-> hi]
  BY DEF Meet
<1>2. l \in Bounds /\ li \in BOOLEAN /\ (l = Unbounded => li) /\ (l = x.low \/ l = y.low)
  <2>1. CASE x.low = y.low
    BY <1>0, <2>1 DEF LowOf
  <2>2. CASE x.low # y.low
    BY <1>0, <2>2 DEF LowOf
  <2> QED BY <2>1, <2>2
<1>3. h \in Bounds /\ hi \in BOOLEAN /\ (h = Unbounded => hi)
  <2>1. CASE x.high = y.high
    BY <1>0, <2>1 DEF HighOf
  <2>2. CASE x.high # y.high
    BY <1>0, <2>2 DEF HighOf
  <2> QED BY <2>1, <2>2
<1> HIDE DEF l, li, h, hi
<1>4. Meet(x, y) \in IntervalSet
  BY <1>1, <1>2, <1>3 DEF IntervalSet
<1> QED BY <1>1, <1>2, <1>3, <1>4 DEF ProperIntervals

\* Where the sweep over a and b can stand, and the pieces it can have cut.
Sweeps(a, b) ==
  [i : 1..Len(a) + 1, j : 1..Len(b) + 1,
   pieces : {P \in SUBSET ProperIntervals : IsFiniteSet(P)}]

LEMMA TurnKeepsSweeping ==
  ASSUME NEW a \in Seq(ProperIntervals), NEW b \in Seq(ProperIntervals), NEW s \in Sweeps(a, b)
  PROVE  Turn(a, b, s) \in Sweeps(a, b)
<1>0. /\ s.i \in 1..Len(a) + 1 /\ s.j \in 1..Len(b) + 1
      /\ s.pieces \in SUBSET ProperIntervals /\ IsFiniteSet(s.pieces)
      /\ Len(a) \in Nat /\ Len(b) \in Nat
  BY DEF Sweeps
<1>1. CASE s.i > Len(a) \/ s.j > Len(b)
  BY <1>1 DEF Turn
<1>2. CASE ~(s.i > Len(a) \/ s.j > Len(b))
  <2> DEFINE met == s.pieces \cup {Meet(a[s.i], b[s.j])}
  <2>1. /\ a[s.i] \in ProperIntervals /\ b[s.j] \in ProperIntervals
        /\ s.i + 1 \in 1..Len(a) + 1 /\ s.j + 1 \in 1..Len(b) + 1
    BY <1>0, <1>2
  <2>2. met \in {P \in SUBSET ProperIntervals : IsFiniteSet(P)}
    BY <1>0, <2>1, MeetIsProper, FS_AddElement
  <2>3. Turn(a, b, s) = IF EndsFirst(a[s.i], b[s.j])
                        THEN [i |-> s.i + 1, j |-> s.j, pieces |-> met]
                        ELSE [i |-> s.i, j |-> s.j + 1, pieces |-> met]
    BY <1>2 DEF Turn
  <2> HIDE DEF met
  <2> QED BY <1>0, <2>1, <2>2, <2>3 DEF Sweeps
<1> QED BY <1>1, <1>2

\* The sweep runs to the end of one of the two ranges.
LEMMA IntersectSweeps ==
  ASSUME NEW a \in Seq(ProperIntervals), NEW b \in Seq(ProperIntervals)
  PROVE  \E n \in Nat : \E f \in [0..n -> Sweeps(a, b)] :
           /\ n = Len(a) + Len(b)
           /\ f[0] = [i |-> 1, j |-> 1, pieces |-> {}]
           /\ \A k \in 1..n : f[k] = Turn(a, b, f[k - 1])
           /\ Intersect(a, b) = FromIntervals(f[n].pieces)
<1> DEFINE n == Len(a) + Len(b)
           start == [i |-> 1, j |-> 1, pieces |-> {}]
           A == Sweeps(a, b)
           h == [k \in 1..n |-> [s \in A |-> Turn(a, b, s)]]
           IsSweep(f) == f = [k \in 0..n |-> IF k = 0 THEN start ELSE Turn(a, b, f[k - 1])]
           sweep == CHOOSE f : IsSweep(f)
<1>0. n \in Nat /\ Len(a) \in Nat /\ Len(b) \in Nat
  OBVIOUS
<1>1. start \in A
  BY <1>0, FS_EmptySet DEF Sweeps
<1>2. h \in [1..n -> [A -> A]]
  BY TurnKeepsSweeping
<1>3. \E f : IsSweep(f)
  <2> HIDE DEF n, start, h
  <2>1. PICK f \in [0..n -> A] : Runs(f, n, start, h)
    <3> HIDE DEF A
    <3> QED BY <1>0, <1>1, <1>2, LoopRuns, Zenon
  <2>2. \A k \in 1..n : k \in 0..n /\ k - 1 \in 0..n /\ k # 0
    BY <1>0
  <2>3. \A k \in 1..n : f[k] = Turn(a, b, f[k - 1])
    <3> HIDE DEF A
    <3> QED BY <2>1, <2>2 DEF h, Runs
  <2>4. \A k \in 0..n : k = 0 \/ k \in 1..n
    BY <1>0
  <2>5. f = [k \in 0..n |-> f[k]]
    BY <2>1
  <2>6. IsSweep(f)
    <3> HIDE DEF A
    <3> QED BY <2>1, <2>2, <2>3, <2>4, <2>5 DEF Runs
  <2> QED BY <2>6
<1>4. IsSweep(sweep)
  <2> HIDE DEF IsSweep
  <2> QED BY <1>3
<1>5. Intersect(a, b) = FromIntervals(sweep[n].pieces)
  BY DEF Intersect
<1> HIDE DEF sweep
<1>6. sweep[0] = start
  <2> HIDE DEF n, start
  <2> QED BY <1>0, <1>4
<1>7. \A k \in 1..n : sweep[k] = Turn(a, b, sweep[k - 1])
  <2> HIDE DEF n, start
  <2>1. \A k \in 1..n : k \in 0..n /\ k # 0
    BY <1>0
  <2> QED BY <1>4, <2>1
<1>8. \A k \in 0..n : sweep[k] \in A
  <2> DEFINE T == {k \in 0..n : sweep[k] \in A}
  <2> HIDE DEF n, start, A
  <2>1. 0 \in T
    BY <1>0, <1>1, <1>6
  <2>2. ASSUME NEW k \in 1..n, k - 1 \in T PROVE k \in T
    <3>1. sweep[k - 1] \in A /\ k \in 0..n
      BY <1>0, <2>2
    <3>2. sweep[k] \in A
      BY <1>7, <3>1, TurnKeepsSweeping DEF A
    <3> QED BY <3>1, <3>2
  <2> HIDE DEF T
  <2>3. 0..n \subseteq T
    BY <1>0, <2>1, <2>2, EveryIteration
  <2> QED BY <2>3 DEF T
<1>9. sweep \in [0..n -> A]
  <2> HIDE DEF n, start, A
  <2>1. sweep = [k \in 0..n |-> sweep[k]]
    BY <1>4
  <2> QED BY <1>8, <2>1
<1>10. n = Len(a) + Len(b)
  OBVIOUS
<1> HIDE DEF n
<1> QED BY <1>0, <1>5, <1>6, <1>7, <1>9, <1>10

\* What the sweep is done with: the pairs whose one interval it has left behind.
Swept(a, b, s) ==
  /\ \A v \in Versions, x \in DOMAIN a, y \in DOMAIN b :
       (x < s.i \/ y < s.j) /\ ContainsBound(a[x], v) /\ ContainsBound(b[y], v)
         => \E iv \in s.pieces : ContainsBound(iv, v)
  /\ \A iv \in s.pieces :
       /\ \E x \in DOMAIN a, y \in DOMAIN b :
            \A v \in Versions : ContainsBound(iv, v) => ContainsBound(a[x], v) /\ ContainsBound(b[y], v)
       /\ (\E x \in DOMAIN a : iv.low = a[x].low) \/ (\E y \in DOMAIN b : iv.low = b[y].low)

LEMMA TurnSweeps ==
  ASSUME NEW a \in Seq(ProperIntervals), NEW b \in Seq(ProperIntervals),
         Canonical(a), Canonical(b),
         NEW s \in Sweeps(a, b), Swept(a, b, s), s.i <= Len(a), s.j <= Len(b)
  PROVE  /\ Swept(a, b, Turn(a, b, s))
         /\ Turn(a, b, s).i + Turn(a, b, s).j = s.i + s.j + 1
<1> DEFINE p == a[s.i]
           q == b[s.j]
           iv == Meet(p, q)
           t == Turn(a, b, s)
<1>0. /\ s.i \in DOMAIN a /\ s.j \in DOMAIN b
      /\ p \in ProperIntervals /\ q \in ProperIntervals
      /\ p \in IntervalSet /\ q \in IntervalSet
      /\ s.i \in Nat /\ s.j \in Nat /\ Len(a) \in Nat /\ Len(b) \in Nat
  BY DEF Sweeps, ProperIntervals
<1>1. t = IF EndsFirst(p, q)
          THEN [i |-> s.i + 1, j |-> s.j, pieces |-> s.pieces \cup {iv}]
          ELSE [i |-> s.i, j |-> s.j + 1, pieces |-> s.pieces \cup {iv}]
  BY <1>0 DEF Turn
<1>2. \A v \in Versions : ContainsBound(iv, v) <=> ContainsBound(p, v) /\ ContainsBound(q, v)
  BY <1>0, MeetIsIntersection
<1>3. iv.low = p.low \/ iv.low = q.low
  BY <1>0, MeetIsProper
<1> HIDE DEF iv, t
<1>4. t.pieces = s.pieces \cup {iv} /\ t.i + t.j = s.i + s.j + 1
  BY <1>0, <1>1
<1>5. ASSUME NEW v \in Versions, NEW x \in DOMAIN a, NEW y \in DOMAIN b,
             x < t.i \/ y < t.j, ContainsBound(a[x], v), ContainsBound(b[y], v)
      PROVE  \E w \in t.pieces : ContainsBound(w, v)
  <2>1. CASE x < s.i \/ y < s.j
    BY <1>4, <1>5, <2>1 DEF Swept
  <2>2. CASE x = s.i /\ y = s.j
    BY <1>2, <1>4, <1>5, <2>2
  <2>3. x \in Nat /\ y \in Nat
    OBVIOUS
  <2>4. /\ AboveLow(a[x], v) /\ BelowHigh(a[x], v)
        /\ AboveLow(b[y], v) /\ BelowHigh(b[y], v)
    BY <1>5 DEF ContainsBound, AboveLow, BelowHigh
  <2>5. CASE EndsFirst(p, q) /\ x = s.i /\ y > s.j
    <3>1. BelowHigh(q, v)
      BY <1>0, <2>4, <2>5, EndsFirstEndsFirst
    <3>2. s.j \in 1..y - 1
      BY <1>0, <2>3, <2>5
    <3>3. ~BelowHigh(b[s.j], v)
      BY <2>4, <3>2, Ascends
    <3> QED BY <3>1, <3>3
  <2>6. CASE ~EndsFirst(p, q) /\ y = s.j /\ x > s.i
    <3>1. BelowHigh(p, v)
      BY <1>0, <2>4, <2>6, EndsFirstEndsFirst
    <3>2. s.i \in 1..x - 1
      BY <1>0, <2>3, <2>6
    <3>3. ~BelowHigh(a[s.i], v)
      BY <2>4, <3>2, Ascends
    <3> QED BY <3>1, <3>3
  <2>7. IF EndsFirst(p, q) THEN t.i = s.i + 1 /\ t.j = s.j ELSE t.i = s.i /\ t.j = s.j + 1
    BY <1>1
  <2> HIDE DEF p, q
  <2> QED BY <1>0, <1>5, <2>1, <2>2, <2>3, <2>5, <2>6, <2>7
<1>6. ASSUME NEW w \in t.pieces
      PROVE  /\ \E x \in DOMAIN a, y \in DOMAIN b :
                  \A v \in Versions : ContainsBound(w, v) => ContainsBound(a[x], v) /\ ContainsBound(b[y], v)
             /\ (\E x \in DOMAIN a : w.low = a[x].low) \/ (\E y \in DOMAIN b : w.low = b[y].low)
  <2>1. CASE w \in s.pieces
    BY <2>1 DEF Swept
  <2>2. CASE w = iv
    <3>1. \E x \in DOMAIN a, y \in DOMAIN b :
            \A v \in Versions : ContainsBound(w, v) => ContainsBound(a[x], v) /\ ContainsBound(b[y], v)
      BY <1>0, <1>2, <2>2
    <3>2. (\E x \in DOMAIN a : w.low = a[x].low) \/ (\E y \in DOMAIN b : w.low = b[y].low)
      BY <1>0, <1>3, <2>2
    <3> QED BY <3>1, <3>2
  <2> QED BY <1>4, <2>1, <2>2
<1>7. Swept(a, b, t)
  BY <1>5, <1>6 DEF Swept
<1> QED BY <1>4, <1>7 DEF t

\* The intersection of two canonical ranges is canonical, contains exactly what
\* both contain, and begins its parts where one of the two begins one of its own:
\* the sweep of VersionRange::Intersect skips no pair that has something in common.
THEOREM IntersectIsIntersection ==
  ASSUME NEW a \in Seq(ProperIntervals), NEW b \in Seq(ProperIntervals),
         Canonical(a), Canonical(b)
  PROVE  /\ Intersect(a, b) \in Seq(ProperIntervals)
         /\ Canonical(Intersect(a, b))
         /\ \A v \in Versions : Covers(Intersect(a, b), v) <=> Covers(a, v) /\ Covers(b, v)
         /\ \A k \in DOMAIN Intersect(a, b) :
              \/ \E x \in DOMAIN a : Intersect(a, b)[k].low = a[x].low
              \/ \E y \in DOMAIN b : Intersect(a, b)[k].low = b[y].low
<1>1. PICK n \in Nat : \E f \in [0..n -> Sweeps(a, b)] :
        /\ n = Len(a) + Len(b)
        /\ f[0] = [i |-> 1, j |-> 1, pieces |-> {}]
        /\ \A k \in 1..n : f[k] = Turn(a, b, f[k - 1])
        /\ Intersect(a, b) = FromIntervals(f[n].pieces)
  BY IntersectSweeps
<1>2. PICK f \in [0..n -> Sweeps(a, b)] :
        /\ n = Len(a) + Len(b)
        /\ f[0] = [i |-> 1, j |-> 1, pieces |-> {}]
        /\ \A k \in 1..n : f[k] = Turn(a, b, f[k - 1])
        /\ Intersect(a, b) = FromIntervals(f[n].pieces)
  BY <1>1
<1>3. Len(a) \in Nat /\ Len(b) \in Nat /\ n = Len(a) + Len(b)
  BY <1>2
<1> DEFINE Ended(s) == s.i > Len(a) \/ s.j > Len(b)
           T == {k \in 0..n : Swept(a, b, f[k]) /\ (Ended(f[k]) \/ f[k].i + f[k].j = k + 2)}
<1>4. 0 \in T
  <2>1. f[0].i = 1 /\ f[0].j = 1 /\ f[0].pieces = {}
    BY <1>2
  <2>2. \A x \in DOMAIN a : ~(x < 1)
    OBVIOUS
  <2>3. \A y \in DOMAIN b : ~(y < 1)
    OBVIOUS
  <2>4. Swept(a, b, f[0])
    BY <2>1, <2>2, <2>3 DEF Swept
  <2> QED BY <1>3, <2>1, <2>4
<1>5. ASSUME NEW k \in 1..n, k - 1 \in T PROVE k \in T
  <2>0. k \in 0..n /\ k - 1 \in 0..n
    OBVIOUS
  <2>1. f[k - 1] \in Sweeps(a, b) /\ f[k] = Turn(a, b, f[k - 1]) /\ k \in 0..n
    <3> HIDE DEF T
    <3> QED BY <1>2, <2>0
  <2>2. f[k - 1].i \in Nat /\ f[k - 1].j \in Nat
    BY <2>1 DEF Sweeps
  <2>3. CASE Ended(f[k - 1])
    <3>1. f[k] = f[k - 1]
      BY <2>1, <2>3 DEF Turn
    <3> QED BY <1>5, <2>1, <2>3, <3>1
  <2>4. CASE ~Ended(f[k - 1])
    <3>1. f[k - 1].i <= Len(a) /\ f[k - 1].j <= Len(b)
      BY <1>3, <2>2, <2>4
    <3>2. Swept(a, b, f[k]) /\ f[k].i + f[k].j = f[k - 1].i + f[k - 1].j + 1
      BY <1>5, <2>1, <3>1, TurnSweeps
    <3>3. f[k - 1].i + f[k - 1].j = (k - 1) + 2
      BY <1>5, <2>4
    <3>4. f[k].i + f[k].j = k + 2
      BY <3>2, <3>3
    <3> QED BY <2>1, <3>2, <3>4
  <2> QED BY <2>3, <2>4
<1>6. n \in T
  <2>1. 0..n \subseteq T
    <3> HIDE DEF T
    <3> QED BY <1>4, <1>5, EveryIteration
  <2> QED BY <2>1
<1> DEFINE P == f[n].pieces
<1>7. /\ f[n].i \in Nat /\ f[n].j \in Nat
      /\ P \in SUBSET ProperIntervals /\ IsFiniteSet(P)
  BY <1>2 DEF Sweeps
<1>8. Swept(a, b, f[n]) /\ Ended(f[n])
  <2>1. CASE f[n].i + f[n].j = n + 2
    BY <1>3, <1>6, <1>7, <2>1
  <2> QED BY <1>6, <2>1
<1> HIDE DEF P
<1>9. /\ Intersect(a, b) \in Seq(ProperIntervals)
      /\ Canonical(Intersect(a, b))
      /\ \A v \in Versions : Covers(Intersect(a, b), v) <=> \E iv \in P : ContainsBound(iv, v)
      /\ \A k \in DOMAIN Intersect(a, b) : \E iv \in P : Intersect(a, b)[k].low = iv.low
  <2>1. Intersect(a, b) = FromIntervals(P)
    BY <1>2 DEF P
  <2> QED BY <1>7, <2>1, FromIntervalsIsUnion
<1>10. ASSUME NEW v \in Versions
       PROVE  (\E iv \in P : ContainsBound(iv, v)) <=> Covers(a, v) /\ Covers(b, v)
  <2>1. ASSUME NEW iv \in P, ContainsBound(iv, v) PROVE Covers(a, v) /\ Covers(b, v)
    <3>1. PICK x \in DOMAIN a, y \in DOMAIN b :
            \A w \in Versions : ContainsBound(iv, w) => ContainsBound(a[x], w) /\ ContainsBound(b[y], w)
      BY <1>8 DEF Swept, P
    <3> QED BY <2>1, <3>1 DEF Covers
  <2>2. ASSUME NEW x \in DOMAIN a, ContainsBound(a[x], v), NEW y \in DOMAIN b, ContainsBound(b[y], v)
        PROVE  \E iv \in P : ContainsBound(iv, v)
    <3>1. x < f[n].i \/ y < f[n].j
      BY <1>3, <1>7, <1>8
    <3> QED BY <1>8, <2>2, <3>1 DEF Swept, P
  <2> QED BY <2>1, <2>2 DEF Covers
<1>11. \A iv \in P : (\E x \in DOMAIN a : iv.low = a[x].low) \/ (\E y \in DOMAIN b : iv.low = b[y].low)
  BY <1>8 DEF Swept, P
<1> QED BY <1>9, <1>10, <1>11
=============================================================================
