--------------------------- MODULE VersionsProofs ---------------------------
(***************************************************************************)
(* What VersionRange::Parse returns, for every number of tokens and groups  *)
(* and every version a text can name: a canonical range that admits what    *)
(* the text says, and no prerelease it does not ask for.                   *)
(***************************************************************************)
EXTENDS Versions, RangeProofs

-----------------------------------------------------------------------------
(* ComparatorToRange.                                                      *)

Bounded(iv, low, lowIn, high, highIn) ==
  /\ iv \in IntervalSet
  /\ iv.low = low /\ (iv.lowIn <=> lowIn)
  /\ iv.high = high /\ (iv.highIn <=> highIn)

LEMMA Shapes ==
  ASSUME NEW low \in Versions, NEW high \in Versions
  PROVE  /\ Bounded(AnyInterval, Unbounded, TRUE, Unbounded, TRUE)
         /\ Bounded(Exactly(low), low, TRUE, low, TRUE)
         /\ Bounded(From(low), low, TRUE, Unbounded, TRUE)
         /\ Bounded(Till(high), Unbounded, TRUE, high, TRUE)
         /\ Bounded(Below(high), Unbounded, TRUE, high, FALSE)
         /\ Bounded(Span(low, high), low, TRUE, high, FALSE)
         /\ Bounded([From(low) EXCEPT !.lowIn = FALSE], low, FALSE, Unbounded, TRUE)
         /\ Bounded([Till(high) EXCEPT !.low = low], low, TRUE, high, TRUE)
<1> USE DEF Bounded, IntervalSet, Bounds
<1>0. Bounded(AnyInterval, Unbounded, TRUE, Unbounded, TRUE)
      /\ Bounded(Exactly(low), low, TRUE, low, TRUE)
  BY DEF AnyInterval, Exactly
<1>1. Bounded(From(low), low, TRUE, Unbounded, TRUE)
  BY <1>0 DEF From
<1>2. Bounded(Till(high), Unbounded, TRUE, high, TRUE)
  BY <1>0 DEF Till
<1>3. Bounded(Below(high), Unbounded, TRUE, high, FALSE)
  BY <1>2 DEF Below
<1>4. Bounded(Span(low, high), low, TRUE, high, FALSE)
  BY <1>3 DEF Span
<1>5. Bounded([From(low) EXCEPT !.lowIn = FALSE], low, FALSE, Unbounded, TRUE)
  BY <1>1
<1>6. Bounded([Till(high) EXCEPT !.low = low], low, TRUE, high, TRUE)
  BY <1>2
<1> HIDE DEF Bounded
<1> QED BY <1>0, <1>1, <1>2, <1>3, <1>4, <1>5, <1>6

LEMMA WrapsIntoParts == \A n \in Nat : Wrap(n) \in Parts
BY PartsAssumption, SMT DEF Wrap, Parts

LEMMA PartsDoNotWrap == \A n \in Parts : Wrap(n) = n
BY PartsAssumption, SMT DEF Wrap, Parts

LEMMA ReleasesAreVersions ==
  \A x, y, z \in Nat : Version(x, y, z) \in Versions /\ ~HasPrerelease(Version(x, y, z))
BY PartsAssumption, WrapsIntoParts DEF Version, Versions, HasPrerelease

LEMMA EndsAreReleases ==
  ASSUME NEW p \in Partials
  PROVE  /\ Floor(p) \in Versions
         /\ \A e \in {NextMajor(p), NextMinor(p), BandEnd(p), CaretEnd(p)} :
              e \in Versions /\ ~HasPrerelease(e)
<1>1. p.major \in Nat /\ p.minor \in Nat /\ p.patch \in Nat
      /\ p.major + 1 \in Nat /\ p.minor + 1 \in Nat /\ p.patch + 1 \in Nat
  BY PartsAssumption DEF Partials, Parts
<1>2. \A e \in {NextMajor(p), NextMinor(p), Version(0, 0, p.patch + 1)} :
        e \in Versions /\ ~HasPrerelease(e)
  BY <1>1, ReleasesAreVersions DEF NextMajor, NextMinor
<1>3. BandEnd(p) \in {NextMajor(p), NextMinor(p)}
      /\ CaretEnd(p) \in {NextMajor(p), NextMinor(p), Version(0, 0, p.patch + 1)}
  BY DEF BandEnd, CaretEnd
<1>4. Floor(p) \in Versions
  BY DEF Floor, Partials, Versions
<1> QED BY <1>2, <1>3, <1>4

\* The interval of each comparator.
LEMMA IntervalCases ==
  ASSUME NEW c \in Comparators
  PROVE  LET p == c.p
             iv == IntervalOf(c)
         IN \/ c.op = ">=" /\ Bounded(iv, Floor(p), TRUE, Unbounded, TRUE)
            \/ c.op # ">=" /\ p.given = 0 /\ Bounded(iv, Unbounded, TRUE, Unbounded, TRUE)
            \/ c.op = "=" /\ p.given = 3 /\ Bounded(iv, Floor(p), TRUE, Floor(p), TRUE)
            \/ c.op = "=" /\ p.given \in {1, 2} /\ Bounded(iv, Floor(p), TRUE, BandEnd(p), FALSE)
            \/ c.op = "~" /\ p.given > 0 /\ Bounded(iv, Floor(p), TRUE, BandEnd(p), FALSE)
            \/ c.op = "^" /\ p.given > 0 /\ Bounded(iv, Floor(p), TRUE, CaretEnd(p), FALSE)
            \/ c.op = ">" /\ p.given = 3 /\ Bounded(iv, Floor(p), FALSE, Unbounded, TRUE)
            \/ c.op = ">" /\ p.given \in {1, 2} /\ Bounded(iv, BandEnd(p), TRUE, Unbounded, TRUE)
            \/ c.op = "<" /\ p.given > 0 /\ Bounded(iv, Unbounded, TRUE, Floor(p), FALSE)
            \/ c.op = "<=" /\ p.given = 3 /\ Bounded(iv, Unbounded, TRUE, Floor(p), TRUE)
            \/ c.op = "<=" /\ p.given \in {1, 2} /\ Bounded(iv, Unbounded, TRUE, BandEnd(p), FALSE)
<1> DEFINE p == c.p
           iv == IntervalOf(c)
<1>0. /\ c.op \in {"=", "^", "~", ">", ">=", "<", "<="}
      /\ p.given \in 0..3
      /\ p.given = 0 => c.op \notin {"<", "<="}
  BY TextAssumption DEF Comparators, Operators, Partials
<1>15. Floor(p) \in Versions /\ BandEnd(p) \in Versions /\ CaretEnd(p) \in Versions
  BY TextAssumption, EndsAreReleases DEF Comparators
<1>1. CASE c.op = ">="
  <2>1. iv = From(Floor(p))
    BY <1>1 DEF IntervalOf
  <2> QED BY <1>1, <2>1, <1>15, Shapes 
<1>2. CASE c.op # ">=" /\ p.given = 0
  <2>1. iv = AnyInterval
    BY <1>0, <1>2 DEF IntervalOf
  <2> QED BY <1>2, <2>1, <1>15, Shapes
<1>3. CASE c.op = "=" /\ p.given = 3
  <2>1. iv = Exactly(Floor(p))
    BY <1>3 DEF IntervalOf
  <2> QED BY <1>3, <2>1, <1>15, Shapes
<1>4. CASE c.op = "=" /\ p.given \in {1, 2}
  <2>1. iv = Span(Floor(p), BandEnd(p))
    BY <1>4 DEF IntervalOf
  <2> QED BY <1>4, <2>1, <1>15, Shapes 
<1>5. CASE c.op = "~" /\ p.given > 0
  <2>1. iv = Span(Floor(p), BandEnd(p))
    BY <1>5 DEF IntervalOf
  <2> QED BY <1>5, <2>1, <1>15, Shapes 
<1>6. CASE c.op = "^" /\ p.given > 0
  <2>1. iv = Span(Floor(p), CaretEnd(p))
    BY <1>6 DEF IntervalOf
  <2> QED BY <1>6, <2>1, <1>15, Shapes 
<1>7. CASE c.op = ">" /\ p.given = 3
  <2>1. iv = [From(Floor(p)) EXCEPT !.lowIn = FALSE]
    BY <1>7 DEF IntervalOf
  <2> QED BY <1>7, <2>1, <1>15, Shapes 
<1>8. CASE c.op = ">" /\ p.given \in {1, 2}
  <2>1. iv = From(BandEnd(p))
    BY <1>8 DEF IntervalOf
  <2> QED BY <1>8, <2>1, <1>15, Shapes 
<1>9. CASE c.op = "<" /\ p.given > 0
  <2>1. iv = Below(Floor(p))
    BY <1>9 DEF IntervalOf
  <2> QED BY <1>9, <2>1, <1>15, Shapes 
<1>10. CASE c.op = "<=" /\ p.given = 3
  <2>1. iv = Till(Floor(p))
    BY <1>10 DEF IntervalOf
  <2> QED BY <1>10, <2>1, <1>15, Shapes 
<1>11. CASE c.op = "<=" /\ p.given \in {1, 2}
  <2>1. iv = Below(BandEnd(p))
    BY <1>11 DEF IntervalOf
  <2> QED BY <1>11, <2>1, <1>15, Shapes 
<1>12. p.given = 0 \/ p.given \in {1, 2} \/ p.given = 3
  BY <1>0
<1>13. p.given > 0 <=> p.given # 0
  BY <1>0
<1> HIDE DEF p, iv
<1>14. \/ c.op = ">="
       \/ c.op # ">=" /\ p.given = 0
       \/ c.op = "=" /\ p.given = 3
       \/ c.op = "=" /\ p.given \in {1, 2}
       \/ c.op = "~" /\ p.given > 0
       \/ c.op = "^" /\ p.given > 0
       \/ c.op = ">" /\ p.given = 3
       \/ c.op = ">" /\ p.given \in {1, 2}
       \/ c.op = "<" /\ p.given > 0
       \/ c.op = "<=" /\ p.given = 3
       \/ c.op = "<=" /\ p.given \in {1, 2}
  BY <1>0, <1>12, <1>13
<1> USE DEF p, iv
<1> QED BY <1>1, <1>2, <1>3, <1>4, <1>5, <1>6, <1>7, <1>8, <1>9, <1>10, <1>11, <1>14

LEMMA IntervalIsProper ==
  ASSUME NEW c \in Comparators
  PROVE  /\ IntervalOf(c) \in ProperIntervals
         /\ \/ IntervalOf(c).low \in {Unbounded, Floor(c.p)}
            \/ ~HasPrerelease(IntervalOf(c).low)
<1>1. c.p \in Partials
  BY TextAssumption DEF Comparators
<1>2. Floor(c.p) \in Versions /\ BandEnd(c.p) \in Versions /\ CaretEnd(c.p) \in Versions
      /\ ~HasPrerelease(BandEnd(c.p))
  BY <1>1, EndsAreReleases
<1> DEFINE iv == IntervalOf(c)
<1> HIDE DEF iv
<1>3. /\ iv \in IntervalSet
      /\ iv.low \in {Unbounded, Floor(c.p), BandEnd(c.p)}
      /\ iv.low = Unbounded => iv.lowIn
      /\ iv.high = Unbounded => iv.highIn
  BY <1>2, IntervalCases, UnboundedAssumption DEF Bounded, iv
<1> QED BY <1>2, <1>3 DEF iv, ProperIntervals

\* A version that is written is none beyond which there is no next one.
Unwrapped(p) == p.major < MaxPart /\ p.minor < MaxPart /\ p.patch < MaxPart

LEMMA EndsByParts ==
  ASSUME NEW p \in Partials, Unwrapped(p), NEW v \in Releases
  PROVE  /\ Before(v, NextMajor(p)) <=> v.major <= p.major
         /\ Before(v, NextMinor(p)) <=> v.major < p.major \/ (v.major = p.major /\ v.minor <= p.minor)
         /\ Before(v, Version(0, 0, p.patch + 1)) <=> v.major = 0 /\ v.minor = 0 /\ v.patch <= p.patch
         /\ Before(v, Floor(p)) <=>
              \/ v.major < p.major
              \/ v.major = p.major /\ v.minor < p.minor
              \/ v.major = p.major /\ v.minor = p.minor /\ v.patch < p.patch
         /\ v.pre = Release
<1>1. /\ p.major \in Parts /\ p.minor \in Parts /\ p.patch \in Parts /\ p.pre \in 0..Release
      /\ v.major \in Parts /\ v.minor \in Parts /\ v.patch \in Parts
  BY DEF Partials, Releases, Versions
<1>2. v.pre = Release
  BY PartsAssumption DEF Releases, Versions, HasPrerelease
<1>3. p.major + 1 \in Parts /\ p.minor + 1 \in Parts /\ p.patch + 1 \in Parts /\ 0 \in Parts
  BY <1>1, PartsAssumption DEF Parts, Unwrapped
<1>4. /\ NextMajor(p) = [major |-> p.major + 1, minor |-> 0, patch |-> 0, pre |-> Release]
      /\ NextMinor(p) = [major |-> p.major, minor |-> p.minor + 1, patch |-> 0, pre |-> Release]
      /\ Version(0, 0, p.patch + 1)
           = [major |-> 0, minor |-> 0, patch |-> p.patch + 1, pre |-> Release]
  BY <1>1, <1>3, PartsDoNotWrap DEF NextMajor, NextMinor, Version
<1>5. Before(v, NextMajor(p)) <=> v.major <= p.major
  BY <1>1, <1>2, <1>4, PartsAssumption DEF Before, SameTuple, Parts
<1>6. Before(v, NextMinor(p)) <=> v.major < p.major \/ (v.major = p.major /\ v.minor <= p.minor)
  BY <1>1, <1>2, <1>4, PartsAssumption DEF Before, SameTuple, Parts
<1>7. Before(v, Version(0, 0, p.patch + 1)) <=> v.major = 0 /\ v.minor = 0 /\ v.patch <= p.patch
  BY <1>1, <1>2, <1>4, PartsAssumption DEF Before, SameTuple, Parts
<1>8. Before(v, Floor(p)) <=>
        \/ v.major < p.major
        \/ v.major = p.major /\ v.minor < p.minor
        \/ v.major = p.major /\ v.minor = p.minor /\ v.patch < p.patch
  BY <1>1, <1>2, PartsAssumption DEF Before, SameTuple, Parts, Floor
<1> QED BY <1>2, <1>5, <1>6, <1>7, <1>8

\* Where "^", "~" and the partial versions end, in terms of what they mean.
LEMMA EndsMean ==
  ASSUME NEW p \in Partials, Unwrapped(p), NEW v \in Releases, p.given > 0
  PROVE  /\ p.given < 3 => (Before(v, BandEnd(p)) <=> Before(v, Floor(p)) \/ Names(p, v))
         /\ p.given < 3 => (Names(p, v) => ~Before(v, Floor(p)))
         /\ ~Before(v, Floor(p)) =>
              /\ Before(v, BandEnd(p)) <=> Agrees(v, p, IF p.given = 1 THEN 1 ELSE 2)
              /\ Before(v, CaretEnd(p)) <=> Agrees(v, p, Fixed(p))
<1>1. /\ p.major \in Nat /\ p.minor \in Nat /\ p.patch \in Nat /\ p.given \in {1, 2, 3}
      /\ v.major \in Nat /\ v.minor \in Nat /\ v.patch \in Nat
      /\ p.given < 3 => p.patch = 0
      /\ p.given < 2 => p.minor = 0
  BY DEF Partials, Releases, Versions, Parts
<1> DEFINE floor == Before(v, Floor(p))
           major == Before(v, NextMajor(p))
           minor == Before(v, NextMinor(p))
           patch == Before(v, Version(0, 0, p.patch + 1))
<1>2. /\ major <=> v.major <= p.major
      /\ minor <=> v.major < p.major \/ (v.major = p.major /\ v.minor <= p.minor)
      /\ patch <=> v.major = 0 /\ v.minor = 0 /\ v.patch <= p.patch
      /\ floor <=> \/ v.major < p.major
                   \/ v.major = p.major /\ v.minor < p.minor
                   \/ v.major = p.major /\ v.minor = p.minor /\ v.patch < p.patch
  BY EndsByParts
<1>3. /\ Before(v, BandEnd(p)) <=> IF p.given = 1 THEN major ELSE minor
      /\ Before(v, CaretEnd(p)) <=>
           IF p.major > 0 \/ p.given = 1 THEN major
           ELSE IF p.minor > 0 \/ p.given = 2 THEN minor ELSE patch
  BY DEF BandEnd, CaretEnd
<1> HIDE DEF floor, major, minor, patch
<1>4. ASSUME p.given < 3
      PROVE  (Before(v, BandEnd(p)) <=> floor \/ Names(p, v)) /\ (Names(p, v) => ~floor)
  BY <1>1, <1>2, <1>3, <1>4 DEF Names, Agrees
<1>5. ASSUME ~floor
      PROVE  Before(v, BandEnd(p)) <=> Agrees(v, p, IF p.given = 1 THEN 1 ELSE 2)
  BY <1>1, <1>2, <1>3, <1>5 DEF Agrees
<1>6. ASSUME ~floor PROVE Before(v, CaretEnd(p)) <=> Agrees(v, p, Fixed(p))
  <2>1. CASE p.major > 0 \/ p.given = 1
    BY <1>1, <1>2, <1>3, <1>6, <2>1 DEF Agrees, Fixed
  <2>2. CASE ~(p.major > 0 \/ p.given = 1) /\ (p.minor > 0 \/ p.given = 2)
    BY <1>1, <1>2, <1>3, <1>6, <2>2 DEF Agrees, Fixed
  <2>3. CASE ~(p.major > 0 \/ p.given = 1) /\ ~(p.minor > 0 \/ p.given = 2)
    BY <1>1, <1>2, <1>3, <1>6, <2>3 DEF Agrees, Fixed
  <2> QED BY <2>1, <2>2, <2>3
<1> QED BY <1>4, <1>5, <1>6 DEF floor

\* A comparator admits the releases it means: the interval ComparatorToRange makes
\* of it and the wording of its operator agree.
THEOREM ComparatorsMeanWhatTheySay ==
  ASSUME NEW c \in Comparators, Unwrapped(c.p), NEW v \in Releases
  PROVE  ContainsBound(IntervalOf(c), v) <=> v \in Meaning(c)
<1> DEFINE p == c.p
           iv == IntervalOf(c)
           f == Floor(p)
<1>1. p \in Partials /\ p.given \in 0..3 /\ v \in Versions
  BY TextAssumption DEF Comparators, Partials, Releases
<1>2. /\ f \in Versions /\ BandEnd(p) \in Versions /\ CaretEnd(p) \in Versions
  BY <1>1, EndsAreReleases
<1>3. f # Unbounded /\ BandEnd(p) # Unbounded /\ CaretEnd(p) # Unbounded
  BY <1>2, UnboundedAssumption
<1>4. /\ (Before(f, v) \/ v = f) <=> ~Before(v, f)
      /\ (Before(v, f) \/ v = f) <=> ~Before(f, v)
      /\ (Before(BandEnd(p), v) \/ v = BandEnd(p)) <=> ~Before(v, BandEnd(p))
  BY <1>1, <1>2, BeforeIsTotal, BeforeIsStrict
<1>5. v \in Meaning(c) <=> (p.given > 0 =>
        /\ c.op = "="  => Names(p, v)
        /\ c.op = "<"  => Before(v, f)
        /\ c.op = "<=" => Before(v, f) \/ Names(p, v)
        /\ c.op = ">"  => ~(Before(v, f) \/ Names(p, v))
        /\ c.op = ">=" => ~Before(v, f)
        /\ c.op = "~"  => ~Before(v, f) /\ Agrees(v, p, IF p.given = 1 THEN 1 ELSE 2)
        /\ c.op = "^"  => ~Before(v, f) /\ Agrees(v, p, Fixed(p)))
  BY DEF Meaning
<1>6. p.given = 3 => (Names(p, v) <=> v = f)
  BY <1>1 DEF Names, Agrees, Floor, Releases, Versions, Partials
<1> HIDE DEF iv
<1>7. CASE p.given = 0
  <2>1. v \in Meaning(c)
    BY <1>1, <1>5, <1>7
  <2>2. Bounded(iv, f, TRUE, Unbounded, TRUE) \/ Bounded(iv, Unbounded, TRUE, Unbounded, TRUE)
    <3>1. p.given \notin {1, 2, 3} /\ ~(p.given > 0)
      BY <1>7
    <3> HIDE DEF p, f
    <3> QED BY <3>1, IntervalCases DEF iv, p, f
  <2>3. ~Before(v, f)
    <3>1. p.major = 0 /\ p.minor = 0 /\ p.patch = 0
      BY <1>1, <1>7 DEF Partials
    <3> QED BY <1>1, <3>1, EndsByParts DEF Versions, Parts
  <2> QED BY <1>3, <1>4, <2>1, <2>2, <2>3 DEF Bounded, ContainsBound, iv
<1>8. CASE p.given > 0
  <2> USE DEF Bounded, ContainsBound
  <2>0. /\ p.given < 3 => (Before(v, BandEnd(p)) <=> Before(v, f) \/ Names(p, v))
        /\ p.given < 3 => (Names(p, v) => ~Before(v, f))
        /\ ~Before(v, f) =>
             /\ Before(v, BandEnd(p)) <=> Agrees(v, p, IF p.given = 1 THEN 1 ELSE 2)
             /\ Before(v, CaretEnd(p)) <=> Agrees(v, p, Fixed(p))
    BY <1>1, <1>8, EndsMean
  <2>1. CASE c.op = ">="
    <3>1. Bounded(iv, f, TRUE, Unbounded, TRUE)
      BY <1>1, <1>8, <2>1, IntervalCases DEF iv
    <3>2. v \in Meaning(c) <=> ~Before(v, f)
      BY <1>5, <1>8, <2>1
    <3> QED BY <1>3, <1>4, <3>1, <3>2 DEF iv
  <2>2. CASE c.op = "=" /\ p.given = 3
    <3>1. Bounded(iv, f, TRUE, f, TRUE)
      BY <1>1, <1>8, <2>2, IntervalCases DEF iv
    <3>2. v \in Meaning(c) <=> v = f
      BY <1>5, <1>6, <1>8, <2>2
    <3> QED BY <1>1, <1>2, <1>3, <3>1, <3>2, BeforeIsStrict DEF iv
  <2>3. CASE c.op = "=" /\ p.given < 3
    <3>1. Bounded(iv, f, TRUE, BandEnd(p), FALSE)
      BY <1>1, <1>8, <2>3, IntervalCases DEF iv
    <3>2. v \in Meaning(c) <=> Names(p, v)
      BY <1>5, <1>8, <2>3
    <3> QED BY <1>3, <1>4, <2>0, <2>3, <3>1, <3>2 DEF iv
  <2>4. CASE c.op = "~"
    <3>1. Bounded(iv, f, TRUE, BandEnd(p), FALSE)
      BY <1>1, <1>8, <2>4, IntervalCases DEF iv
    <3>2. v \in Meaning(c) <=> ~Before(v, f) /\ Agrees(v, p, IF p.given = 1 THEN 1 ELSE 2)
      BY <1>5, <1>8, <2>4
    <3> QED BY <1>3, <1>4, <2>0, <3>1, <3>2 DEF iv
  <2>5. CASE c.op = "^"
    <3>1. Bounded(iv, f, TRUE, CaretEnd(p), FALSE)
      BY <1>1, <1>8, <2>5, IntervalCases DEF iv
    <3>2. v \in Meaning(c) <=> ~Before(v, f) /\ Agrees(v, p, Fixed(p))
      BY <1>5, <1>8, <2>5
    <3> QED BY <1>3, <1>4, <2>0, <3>1, <3>2 DEF iv
  <2>6. CASE c.op = ">" /\ p.given = 3
    <3>1. Bounded(iv, f, FALSE, Unbounded, TRUE)
      BY <1>1, <1>8, <2>6, IntervalCases DEF iv
    <3>2. v \in Meaning(c) <=> ~(Before(v, f) \/ v = f)
      BY <1>5, <1>6, <1>8, <2>6
    <3> QED BY <1>3, <1>4, <3>1, <3>2 DEF iv
  <2>7. CASE c.op = ">" /\ p.given < 3
    <3>1. Bounded(iv, BandEnd(p), TRUE, Unbounded, TRUE)
      BY <1>1, <1>8, <2>7, IntervalCases DEF iv
    <3>2. v \in Meaning(c) <=> ~(Before(v, f) \/ Names(p, v))
      BY <1>5, <1>8, <2>7
    <3> QED BY <1>3, <1>4, <2>0, <2>7, <3>1, <3>2 DEF iv
  <2>8. CASE c.op = "<"
    <3>1. Bounded(iv, Unbounded, TRUE, f, FALSE)
      BY <1>1, <1>8, <2>8, IntervalCases DEF iv
    <3>2. v \in Meaning(c) <=> Before(v, f)
      BY <1>5, <1>8, <2>8
    <3> QED BY <1>3, <3>1, <3>2 DEF iv
  <2>9. CASE c.op = "<=" /\ p.given = 3
    <3>1. Bounded(iv, Unbounded, TRUE, f, TRUE)
      BY <1>1, <1>8, <2>9, IntervalCases DEF iv
    <3>2. v \in Meaning(c) <=> Before(v, f) \/ v = f
      BY <1>5, <1>6, <1>8, <2>9
    <3> QED BY <1>3, <3>1, <3>2 DEF iv
  <2>10. CASE c.op = "<=" /\ p.given < 3
    <3>1. Bounded(iv, Unbounded, TRUE, BandEnd(p), FALSE)
      BY <1>1, <1>8, <2>10, IntervalCases DEF iv
    <3>2. v \in Meaning(c) <=> Before(v, f) \/ Names(p, v)
      BY <1>5, <1>8, <2>10
    <3> QED BY <1>3, <2>0, <2>10, <3>1, <3>2 DEF iv
  <2>11. c.op \in {"=", "^", "~", ">", ">=", "<", "<="} /\ (p.given = 3 \/ p.given < 3)
    BY <1>1 DEF Comparators, Operators
  <2> QED BY <2>1, <2>2, <2>3, <2>4, <2>5, <2>6, <2>7, <2>8, <2>9, <2>10, <2>11
<1>9. p.given = 0 \/ p.given > 0
  BY <1>1
<1> QED BY <1>7, <1>8, <1>9

-----------------------------------------------------------------------------
(* Parse.                                                                  *)

\* A range, and where its intervals may begin.
Good(r) == r \in Seq(ProperIntervals) /\ Canonical(r)

AskedFor(iv, names) == iv.low = Unbounded \/ ~HasPrerelease(iv.low) \/ iv.low \in names

\* What holds while a text is read.  The second part needs every version that is
\* written to have a next one.
Shaped ==
  /\ Good(group)
  /\ all \in SUBSET ProperIntervals /\ IsFiniteSet(all)
  /\ Read => Good(range)
  /\ \A iv \in all : AskedFor(iv, named)
  /\ \A k \in DOMAIN group : AskedFor(group[k], named)
  /\ Read => \A k \in DOMAIN range : AskedFor(range[k], named)

Meant ==
  /\ meant \in [group : SUBSET Releases, before : SUBSET Releases]
  /\ tokens \in Nat
  /\ tokens = 0 => meant.group = Releases
  /\ \A v \in Releases : Covers(group, v) <=> v \in meant.group
  /\ \A v \in Releases : (\E iv \in all : ContainsBound(iv, v)) <=> v \in meant.before
  /\ Read => \A v \in Releases : Covers(range, v) <=> v \in meant.before \cup meant.group

LEMMA AnyIsGood ==
  /\ Good(AnyRange)
  /\ \A v : Covers(AnyRange, v)
  /\ \A k \in DOMAIN AnyRange : AnyRange[k].low = Unbounded
<1>1. AnyInterval \in ProperIntervals /\ AnyInterval.low = Unbounded /\ AnyInterval.high = Unbounded
  BY DEF AnyInterval, ProperIntervals, IntervalSet, Bounds
<1>2. DOMAIN AnyRange = {1} /\ Len(AnyRange) = 1 /\ AnyRange[1] = AnyInterval
      /\ AnyRange \in Seq(ProperIntervals)
  <2> HIDE DEF AnyInterval
  <2> QED BY <1>1 DEF AnyRange
<1>3. Canonical(AnyRange)
  <2>1. ~StructurallyEmpty(AnyInterval)
    BY <1>1 DEF StructurallyEmpty
  <2>2. 1..Len(AnyRange) - 1 = {}
    BY <1>2
  <2> HIDE DEF AnyRange
  <2> QED BY <1>2, <2>1, <2>2, CanonicalIsApart
<1>4. \A v : ContainsBound(AnyInterval, v)
  BY <1>1 DEF ContainsBound
<1> HIDE DEF AnyInterval
<1> QED BY <1>1, <1>2, <1>3, <1>4 DEF Good, Covers

\* The range of one interval.
LEMMA PieceIsGood ==
  ASSUME NEW iv \in ProperIntervals
  PROVE  /\ Good(FromIntervals({iv}))
         /\ \A v \in Versions : Covers(FromIntervals({iv}), v) <=> ContainsBound(iv, v)
         /\ \A k \in DOMAIN FromIntervals({iv}) : FromIntervals({iv})[k].low = iv.low
<1>1. {iv} \in SUBSET ProperIntervals /\ IsFiniteSet({iv})
  BY FS_Singleton
<1> QED BY <1>1, FromIntervalsIsUnion DEF Good

LEMMA HyphensMeanWhatTheySay ==
  ASSUME NEW p \in Partials, NEW q \in Partials
  PROVE  /\ Good(HyphenRange(p, q))
         /\ \A v \in Releases : Covers(HyphenRange(p, q), v) <=> v \in HyphenMeaning(p, q)
         /\ \A k \in DOMAIN HyphenRange(p, q) : HyphenRange(p, q)[k].low = Floor(p)
<1> DEFINE iv == [Till(Floor(q)) EXCEPT !.low = Floor(p)]
<1>1. Floor(p) \in Versions /\ Floor(q) \in Versions
      /\ Floor(p) # Unbounded /\ Floor(q) # Unbounded
  BY EndsAreReleases, UnboundedAssumption
<1>2. Bounded(iv, Floor(p), TRUE, Floor(q), TRUE)
  BY <1>1, Shapes
<1> HIDE DEF iv
<1>3. iv \in ProperIntervals /\ iv.low = Floor(p)
  BY <1>1, <1>2 DEF Bounded, ProperIntervals
<1>4. ASSUME NEW v \in Releases
      PROVE  ContainsBound(iv, v) <=> v \in HyphenMeaning(p, q)
  <2>1. v \in Versions
    BY DEF Releases
  <2>2. /\ (Before(Floor(p), v) \/ v = Floor(p)) <=> ~Before(v, Floor(p))
        /\ (Before(v, Floor(q)) \/ v = Floor(q)) <=> ~Before(Floor(q), v)
    BY <1>1, <2>1, BeforeIsTotal, BeforeIsStrict
  <2> QED BY <1>1, <1>2, <2>2 DEF Bounded, ContainsBound, HyphenMeaning
<1>5. HyphenRange(p, q) = FromIntervals({iv})
  BY DEF HyphenRange, iv
<1>6. Releases \subseteq Versions
  BY DEF Releases
<1> QED BY <1>3, <1>4, <1>5, <1>6, PieceIsGood

LEMMA ComparatorRangeIsGood ==
  ASSUME NEW c \in Comparators
  PROVE  /\ Good(RangeOf(c))
         /\ \A k \in DOMAIN RangeOf(c) :
              RangeOf(c)[k].low \in {Unbounded, Floor(c.p)} \/ ~HasPrerelease(RangeOf(c)[k].low)
         /\ Unwrapped(c.p) => \A v \in Releases : Covers(RangeOf(c), v) <=> v \in Meaning(c)
<1> DEFINE iv == IntervalOf(c)
<1>1. iv \in ProperIntervals /\ (iv.low \in {Unbounded, Floor(c.p)} \/ ~HasPrerelease(iv.low))
  BY IntervalIsProper
<1>2. Unwrapped(c.p) => \A v \in Releases : ContainsBound(iv, v) <=> v \in Meaning(c)
  BY ComparatorsMeanWhatTheySay
<1>3. RangeOf(c) = FromIntervals({iv})
  BY DEF RangeOf
<1>4. Releases \subseteq Versions
  BY DEF Releases
<1> HIDE DEF iv
<1> QED BY <1>1, <1>2, <1>3, <1>4, PieceIsGood

\* The ranges of all groups together.
LEMMA GroupsUnite ==
  ASSUME Shaped
  PROVE  LET union == all \cup ToSet(group) IN
         /\ union \in SUBSET ProperIntervals /\ IsFiniteSet(union)
         /\ \A iv \in union : AskedFor(iv, named)
         /\ \A v : (\E iv \in union : ContainsBound(iv, v)) <=>
                     (\E iv \in all : ContainsBound(iv, v)) \/ Covers(group, v)
<1>1. /\ group \in Seq(ProperIntervals)
      /\ all \in SUBSET ProperIntervals /\ IsFiniteSet(all)
      /\ \A iv \in all : AskedFor(iv, named)
      /\ \A k \in DOMAIN group : AskedFor(group[k], named)
  BY DEF Shaped, Good
<1>2. ToSet(group) = {group[k] : k \in DOMAIN group}
  BY DEF ToSet
<1>3. DOMAIN group = 1..Len(group) /\ Len(group) \in Nat
  BY <1>1
<1>4. IsFiniteSet(ToSet(group))
  <2> DEFINE image == [k \in 1..Len(group) |-> group[k]]
  <2>1. image \in Surjection(1..Len(group), ToSet(group))
    BY <1>2, <1>3 DEF Surjection
  <2>2. IsFiniteSet(1..Len(group))
    BY <1>3, FS_Interval
  <2> HIDE DEF image
  <2> QED BY <2>1, <2>2, FS_Surjection
<1>5. IsFiniteSet(all \cup ToSet(group))
  BY <1>1, <1>4, FS_Union
<1>6. ToSet(group) \subseteq ProperIntervals
  BY <1>1, <1>2
<1>7. \A iv \in ToSet(group) : AskedFor(iv, named)
  BY <1>1, <1>2
<1>8. \A v : (\E iv \in ToSet(group) : ContainsBound(iv, v)) <=> Covers(group, v)
  BY <1>2 DEF Covers
<1> QED BY <1>1, <1>5, <1>6, <1>7, <1>8

\* A step that narrows the group keeps it in shape.
LEMMA NarrowKeepsShape ==
  ASSUME Shaped, NEW n, NEW piece, NEW releases, NEW versions,
         Narrow(n, piece, releases, versions), Good(piece),
         \A k \in DOMAIN piece :
           \/ piece[k].low = Unbounded \/ ~HasPrerelease(piece[k].low)
           \/ piece[k].low \in versions
  PROVE  Shaped'
<1>1. /\ group' = Intersect(group, piece)
      /\ named' = named \cup {v \in versions : HasPrerelease(v)}
      /\ all' = all /\ range' = range
      /\ ~Read'
  BY DEF Narrow, Reading, Read
<1>2. /\ Good(group)
      /\ all \in SUBSET ProperIntervals /\ IsFiniteSet(all)
      /\ \A iv \in all : AskedFor(iv, named)
      /\ \A k \in DOMAIN group : AskedFor(group[k], named)
  BY DEF Shaped
<1>3. /\ Intersect(group, piece) \in Seq(ProperIntervals)
      /\ Canonical(Intersect(group, piece))
      /\ \A k \in DOMAIN Intersect(group, piece) :
           \/ \E x \in DOMAIN group : Intersect(group, piece)[k].low = group[x].low
           \/ \E y \in DOMAIN piece : Intersect(group, piece)[k].low = piece[y].low
  BY <1>2, IntersectIsIntersection DEF Good
<1>4. Good(group')
  BY <1>1, <1>3 DEF Good
<1>5. \A iv \in all' : AskedFor(iv, named')
  BY <1>1, <1>2 DEF AskedFor
<1>6. ASSUME NEW k \in DOMAIN group' PROVE AskedFor(group'[k], named')
  <2>1. CASE \E x \in DOMAIN group : group'[k].low = group[x].low
    BY <1>1, <1>2, <2>1 DEF AskedFor
  <2>2. CASE \E y \in DOMAIN piece : group'[k].low = piece[y].low
    BY <1>1, <2>2 DEF AskedFor
  <2> QED BY <1>1, <1>3, <2>1, <2>2
<1> QED BY <1>1, <1>2, <1>4, <1>5, <1>6 DEF Shaped

LEMMA ShapeIsKept == Init => Shaped
<1> SUFFICES ASSUME Init PROVE Shaped
  OBVIOUS
<1>1. group = AnyRange /\ all = {} /\ ~Read
  BY DEF Init, Read
<1> QED BY <1>1, AnyIsGood, FS_EmptySet DEF Shaped, AskedFor

LEMMA ShapeIsInductive == Shaped /\ [Next]_vars => Shaped'
<1> SUFFICES ASSUME Shaped, [Next]_vars PROVE Shaped'
  OBVIOUS
<1>1. ASSUME NEW c \in Comparators, ReadComparator(c) PROVE Shaped'
  <2>1. /\ Good(RangeOf(c))
        /\ \A k \in DOMAIN RangeOf(c) :
             \/ RangeOf(c)[k].low = Unbounded \/ ~HasPrerelease(RangeOf(c)[k].low)
             \/ RangeOf(c)[k].low \in {Floor(c.p)}
    BY ComparatorRangeIsGood
  <2>2. Narrow(1, RangeOf(c), Meaning(c), {Floor(c.p)})
    BY <1>1 DEF ReadComparator
  <2> QED BY <2>1, <2>2, NarrowKeepsShape
<1>2. ASSUME NEW p \in Written, NEW q \in Written, ReadHyphen(p, q) PROVE Shaped'
  <2>1. /\ Good(HyphenRange(p, q))
        /\ \A k \in DOMAIN HyphenRange(p, q) :
             HyphenRange(p, q)[k].low \in {Floor(p), Floor(q)}
    BY TextAssumption, HyphensMeanWhatTheySay
  <2>2. Narrow(3, HyphenRange(p, q), HyphenMeaning(p, q), {Floor(p), Floor(q)})
    BY <1>2 DEF ReadHyphen
  <2> QED BY <2>1, <2>2, NarrowKeepsShape
<1>3. CASE ReadBar
  <2>1. /\ all' = all \cup ToSet(group) /\ group' = AnyRange
        /\ named' = named /\ ~Read'
    BY <1>3 DEF ReadBar, Reading, Read
  <2>2. /\ all' \in SUBSET ProperIntervals /\ IsFiniteSet(all')
        /\ \A iv \in all' : AskedFor(iv, named')
    BY <2>1, GroupsUnite
  <2> QED BY <2>1, <2>2, AnyIsGood DEF Shaped, AskedFor
<1>4. ASSUME NEW result, Return(result),
             Good(result), \A k \in DOMAIN result : AskedFor(result[k], named)
      PROVE  Shaped'
  <2>1. range' = result /\ group' = group /\ all' = all /\ named' = named
    BY <1>4 DEF Return
  <2> QED BY <1>4, <2>1 DEF Shaped
<1>5. CASE ReadEmptyGroup
  <2>1. Return(AnyRange)
    BY <1>5 DEF ReadEmptyGroup
  <2> QED BY <1>4, <2>1, AnyIsGood DEF AskedFor
<1>6. CASE ReadTooMuch
  <2>1. range' = LimitExceeded /\ group' = group /\ all' = all /\ named' = named
    BY <1>6 DEF ReadTooMuch, Return
  <2>2. ~Read'
    BY <2>1 DEF Read
  <2> QED BY <2>1, <2>2 DEF Shaped
<1>7. CASE Finish
  <2> DEFINE union == all \cup ToSet(group)
             result == FromIntervals(union)
  <2>1. Return(result)
    BY <1>7 DEF Finish
  <2>2. /\ union \in SUBSET ProperIntervals /\ IsFiniteSet(union)
        /\ \A iv \in union : AskedFor(iv, named)
    BY GroupsUnite
  <2> HIDE DEF union
  <2>3. Good(result) /\ \A k \in DOMAIN result : \E iv \in union : result[k].low = iv.low
    BY <2>2, FromIntervalsIsUnion DEF Good
  <2> HIDE DEF result
  <2>4. \A k \in DOMAIN result : AskedFor(result[k], named)
    BY <2>2, <2>3 DEF AskedFor
  <2> QED BY <1>4, <2>1, <2>3, <2>4
<1>8. CASE UNCHANGED vars
  BY <1>8 DEF vars, Shaped, Read
<1> QED BY <1>1, <1>2, <1>3, <1>5, <1>6, <1>7, <1>8 DEF Next

LEMMA Shape == Spec => []Shaped
<1> QED BY ShapeIsKept, ShapeIsInductive, PTL DEF Spec

\* Every range that Parse builds is sorted, disjoint and free of empty intervals,
\* whatever the text: wrapped components, hyphens the wrong way round and
\* comparators that contradict each other included.
THEOREM ParseIsCanonical == Spec => []RangesAreCanonical
<1>1. Shaped => RangesAreCanonical
  BY DEF Shaped, Good, RangesAreCanonical
<1> QED BY <1>1, Shape, PTL

\* No range admits a prerelease of a tuple of which the text names none: cutting
\* and joining intervals moves a lower bound only to one that was written.
THEOREM ParseAdmitsNoOtherPrerelease == Spec => []PrereleasesAreAskedFor
<1>1. Shaped => PrereleasesAreAskedFor
  <2> SUFFICES ASSUME Shaped, Read, NEW v \in Versions, HasPrerelease(v), RangeAdmits(range, v)
               PROVE  \E n \in named : SameTuple(n, v)
    BY DEF PrereleasesAreAskedFor
  <2>1. PICK k \in DOMAIN range : Admits(range[k], v)
    BY DEF RangeAdmits
  <2>2. /\ range[k].low # Unbounded /\ HasPrerelease(range[k].low)
        /\ SameTuple(range[k].low, v)
    BY <2>1 DEF Admits
  <2> QED BY <2>2 DEF Shaped, AskedFor
<1> QED BY <1>1, Shape, PTL

\* The texts the next theorem is about: no component that is written is the
\* greatest std::uint32_t, beyond which the next version wraps around.
NoneWraps == \A p \in Written : Unwrapped(p)

LEMMA NarrowKeepsMeaning ==
  ASSUME Shaped, Meant, NEW n \in Nat \ {0}, NEW piece, NEW releases, NEW versions,
         Narrow(n, piece, releases, versions), Good(piece),
         \A v \in Releases : Covers(piece, v) <=> v \in releases
  PROVE  Meant'
<1>1. /\ group' = Intersect(group, piece)
      /\ meant' = [meant EXCEPT !.group = @ \cap releases]
      /\ tokens' = tokens + n
      /\ all' = all
      /\ ~Read'
  BY DEF Narrow, Reading, Read
<1>2. /\ meant \in [group : SUBSET Releases, before : SUBSET Releases]
      /\ tokens \in Nat
      /\ \A v \in Releases : Covers(group, v) <=> v \in meant.group
      /\ \A v \in Releases : (\E iv \in all : ContainsBound(iv, v)) <=> v \in meant.before
  BY DEF Meant
<1>3. \A v \in Releases : Covers(group', v) <=> Covers(group, v) /\ Covers(piece, v)
  <2>1. Releases \subseteq Versions
    BY DEF Releases
  <2>2. Good(group)
    BY DEF Shaped
  <2> QED BY <1>1, <2>1, <2>2, IntersectIsIntersection DEF Good
<1>4. /\ meant'.group = meant.group \cap releases /\ meant'.before = meant.before
      /\ meant' \in [group : SUBSET Releases, before : SUBSET Releases]
  BY <1>1, <1>2
<1>5. tokens' \in Nat /\ tokens' # 0
  BY <1>1, <1>2
<1>6. \A v \in Releases : Covers(group', v) <=> v \in meant'.group
  BY <1>2, <1>3, <1>4
<1> QED BY <1>1, <1>2, <1>4, <1>5, <1>6 DEF Meant

LEMMA MeaningInitially == Init => Meant
<1> SUFFICES ASSUME Init PROVE Meant
  OBVIOUS
<1>1. /\ group = AnyRange /\ all = {} /\ tokens = 0 /\ ~Read
      /\ meant = [group |-> Releases, before |-> {}]
  BY DEF Init, Read
<1> QED BY <1>1, AnyIsGood DEF Meant

LEMMA MeaningIsInductive ==
  ASSUME NoneWraps
  PROVE  Shaped /\ Meant /\ [Next]_vars => Meant'
<1> SUFFICES ASSUME Shaped, Meant, [Next]_vars PROVE Meant'
  OBVIOUS
<1>1. ASSUME NEW c \in Comparators, ReadComparator(c) PROVE Meant'
  <2>1. Unwrapped(c.p)
    BY DEF NoneWraps, Comparators
  <2>2. Good(RangeOf(c)) /\ \A v \in Releases : Covers(RangeOf(c), v) <=> v \in Meaning(c)
    BY <2>1, ComparatorRangeIsGood
  <2>3. Narrow(1, RangeOf(c), Meaning(c), {Floor(c.p)})
    BY <1>1 DEF ReadComparator
  <2> QED BY <2>2, <2>3, NarrowKeepsMeaning
<1>2. ASSUME NEW p \in Written, NEW q \in Written, ReadHyphen(p, q) PROVE Meant'
  <2>1. /\ Good(HyphenRange(p, q))
        /\ \A v \in Releases : Covers(HyphenRange(p, q), v) <=> v \in HyphenMeaning(p, q)
    BY TextAssumption, HyphensMeanWhatTheySay
  <2>2. Narrow(3, HyphenRange(p, q), HyphenMeaning(p, q), {Floor(p), Floor(q)})
    BY <1>2 DEF ReadHyphen
  <2> QED BY <2>1, <2>2, NarrowKeepsMeaning
<1>3. \A v \in Releases :
        (\E iv \in all \cup ToSet(group) : ContainsBound(iv, v))
          <=> v \in meant.before \cup meant.group
  BY GroupsUnite DEF Meant
<1>4. CASE ReadBar
  <2>1. /\ all' = all \cup ToSet(group) /\ group' = AnyRange /\ tokens' = 0
        /\ meant' = [group |-> Releases, before |-> meant.before \cup meant.group]
        /\ ~Read'
    BY <1>4 DEF ReadBar, Reading, Read
  <2>2. meant.before \cup meant.group \in SUBSET Releases
    BY DEF Meant
  <2> QED BY <1>3, <2>1, <2>2, AnyIsGood DEF Meant
<1>5. ASSUME NEW result, Return(result),
             \A v \in Releases : Covers(result, v) <=> v \in meant.before \cup meant.group
      PROVE  Meant'
  <2>1. /\ range' = result /\ group' = group /\ all' = all
        /\ tokens' = tokens /\ meant' = meant
    BY <1>5 DEF Return
  <2> QED BY <1>5, <2>1 DEF Meant
<1>6. CASE ReadEmptyGroup
  <2>1. Return(AnyRange) /\ tokens = 0
    BY <1>6 DEF ReadEmptyGroup
  <2>2. meant.group = Releases
    BY <2>1 DEF Meant
  <2> QED BY <1>5, <2>1, <2>2, AnyIsGood
<1>7. CASE ReadTooMuch
  <2>1. /\ range' = LimitExceeded /\ group' = group /\ all' = all
        /\ tokens' = tokens /\ meant' = meant
    BY <1>7 DEF ReadTooMuch, Return
  <2>2. ~Read'
    BY <2>1 DEF Read
  <2> QED BY <2>1, <2>2 DEF Meant
<1>8. CASE Finish
  <2> DEFINE union == all \cup ToSet(group)
             result == FromIntervals(union)
  <2>1. Return(result)
    BY <1>8 DEF Finish
  <2>2. union \in SUBSET ProperIntervals /\ IsFiniteSet(union)
    BY GroupsUnite
  <2>3. Releases \subseteq Versions
    BY DEF Releases
  <2>4. \A v \in Releases : Covers(result, v) <=> \E iv \in union : ContainsBound(iv, v)
    <3> HIDE DEF union
    <3> QED BY <2>2, <2>3, FromIntervalsIsUnion
  <2>5. \A v \in Releases : Covers(result, v) <=> v \in meant.before \cup meant.group
    BY <1>3, <2>4
  <2> HIDE DEF result
  <2> QED BY <1>5, <2>1, <2>5
<1>9. CASE UNCHANGED vars
  BY <1>9 DEF vars, Meant, Read
<1> QED BY <1>1, <1>2, <1>4, <1>6, <1>7, <1>8, <1>9 DEF Next

\* A range that was read admits exactly the releases its text means, for every
\* number of comparators, hyphen ranges and groups (Parse, ParseGroup).
THEOREM ParseMeansWhatItSays ==
  ASSUME NoneWraps
  PROVE  Spec => []ParsedAsWritten
<1>1. Meant => ParsedAsWritten
  <2> SUFFICES ASSUME Meant, Read, NEW v \in Releases
               PROVE  RangeAdmits(range, v) <=> v \in meant.before \cup meant.group
    BY DEF ParsedAsWritten
  <2>1. \A iv : Admits(iv, v) <=> ContainsBound(iv, v)
    BY DEF Releases, Admits
  <2>2. RangeAdmits(range, v) <=> Covers(range, v)
    BY <2>1 DEF RangeAdmits, Covers
  <2> QED BY <2>2 DEF Meant
<1>2. Shaped /\ Meant /\ [Next]_vars => Meant'
  BY MeaningIsInductive
<1> QED BY <1>1, <1>2, MeaningInitially, Shape, PTL DEF Spec
=============================================================================
