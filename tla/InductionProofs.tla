--------------------------- MODULE InductionProofs ---------------------------
(***************************************************************************)
(* Induction, and what it says of the loops and sorts the model is built    *)
(* from.  The predicates and operators of the usual statements are sets and *)
(* functions here, so that the facts can be cited: T is the set of numbers  *)
(* a statement holds for, h the body of a loop, R what a comparator says.   *)
(***************************************************************************)
EXTENDS Naturals, Sequences, FiniteSetsExt, FiniteSetTheorems, WellFoundedInduction, TLAPS

\* Every set of numbers has a least one.
LEMMA LeastNatural ==
  ASSUME NEW T \in SUBSET Nat, T # {}
  PROVE  \E n \in T : \A m \in T : n <= m
<1> DEFINE R == OpToRel(<, Nat)
<1>1. IsWellFoundedOn(R, Nat)
  BY NatLessThanWellFounded
<1>2. PICK n \in T : \A m \in T : ~(<<m, n>> \in R)
  <2> HIDE DEF R
  <2> QED BY <1>1, WFMin
<1>3. \A m \in T : n <= m
  <2> SUFFICES ASSUME NEW m \in T, m < n PROVE FALSE
    OBVIOUS
  <2>1. <<m, n>> \in R
    BY DEF OpToRel
  <2> QED BY <2>1, <1>2
<1> QED BY <1>3

\* From each number to the next.
LEMMA EveryNatural ==
  ASSUME NEW T, 0 \in T, \A n \in Nat : n \in T => n + 1 \in T
  PROVE  Nat \subseteq T
<1> SUFFICES ASSUME Nat \ T # {} PROVE FALSE
  OBVIOUS
<1>1. PICK n \in Nat \ T : \A m \in Nat \ T : n <= m
  BY LeastNatural
<1>2. n # 0 /\ n - 1 \in Nat
  BY SMT
<1>3. n - 1 \in T
  BY <1>1, <1>2, SMT
<1>4. (n - 1) + 1 = n
  BY SMT
<1> QED BY <1>2, <1>3, <1>4

\* The same up to the end of a loop.
LEMMA EveryIteration ==
  ASSUME NEW n \in Nat, NEW T, 0 \in T, \A i \in 1..n : i - 1 \in T => i \in T
  PROVE  0..n \subseteq T
<1> DEFINE U == {k \in Nat : k \in T \/ k > n}
<1>1. 0 \in U
  OBVIOUS
<1>2. \A k \in Nat : k \in U => k + 1 \in U
  <2> SUFFICES ASSUME NEW k \in Nat, k \in U, k + 1 <= n PROVE k + 1 \in T
    BY SMT
  <2>1. k \in T /\ k + 1 \in 1..n /\ (k + 1) - 1 = k
    BY SMT
  <2> QED BY <2>1
<1>3. Nat \subseteq U
  <2> HIDE DEF U
  <2> QED BY <1>1, <1>2, EveryNatural
<1> QED BY <1>3, SMT

\* A finite set of numbers has a greatest and a least one.
LEMMA GreatestNatural ==
  ASSUME NEW T \in SUBSET Nat, T # {}, IsFiniteSet(T)
  PROVE  /\ Max(T) \in T /\ \A m \in T : m <= Max(T)
         /\ Min(T) \in T /\ \A m \in T : Min(T) <= m
<1> DEFINE U == {k \in Nat : \A X \in SUBSET Nat : IsFiniteSet(X) /\ Cardinality(X) = k + 1
                               => \E x \in X : \A y \in X : y <= x}
<1>1. 0 \in U
  <2> SUFFICES ASSUME NEW X \in SUBSET Nat, IsFiniteSet(X), Cardinality(X) = 0 + 1
               PROVE  \E x \in X : \A y \in X : y <= x
    OBVIOUS
  <2>0. Cardinality(X) = 1
    OBVIOUS
  <2>1. PICK x : X = {x}
    BY <2>0, FS_Singleton
  <2> QED BY <2>1
<1>2. \A k \in Nat : k \in U => k + 1 \in U
  <2> SUFFICES ASSUME NEW k \in Nat, k \in U,
                      NEW X \in SUBSET Nat, IsFiniteSet(X), Cardinality(X) = (k + 1) + 1
               PROVE  \E x \in X : \A y \in X : y <= x
    OBVIOUS
  <2>0. Cardinality(X) # 0
    OBVIOUS
  <2>1. PICK a \in X : TRUE
    BY <2>0, FS_EmptySet
  <2>2. IsFiniteSet(X \ {a}) /\ Cardinality(X \ {a}) = k + 1
    BY <2>1, FS_RemoveElement
  <2>3. PICK b \in X \ {a} : \A y \in X \ {a} : y <= b
    BY <2>2
  <2>4. CASE a <= b
    BY <2>3, <2>4
  <2>5. CASE b < a
    BY <2>3, <2>5
  <2> QED BY <2>4, <2>5
<1>3. Nat \subseteq U
  <2> HIDE DEF U
  <2> QED BY <1>1, <1>2, EveryNatural
<1>4. Cardinality(T) \in Nat /\ Cardinality(T) # 0
  BY FS_CardinalityType, FS_EmptySet
<1>5. Cardinality(T) - 1 \in Nat /\ (Cardinality(T) - 1) + 1 = Cardinality(T)
  BY <1>4
<1>6. \E x \in T : \A y \in T : x >= y
  <2>1. Cardinality(T) - 1 \in U
    BY <1>3, <1>5
  <2> QED BY <1>5, <2>1
<1>7. \E x \in T : \A y \in T : x <= y
  BY LeastNatural
<1> QED BY <1>6, <1>7 DEF Max, Min

-----------------------------------------------------------------------------
(* Loops.  The folds of the community modules run h, the body of a loop,    *)
(* over the members of a set, chosen one by one with c.                     *)

Chooses(c, S) == \A s \in SUBSET S : s # {} => c[s] \in s

Folds(g, S, base, c, h) ==
  \A s \in SUBSET S : g[s] = IF s = {} THEN base ELSE h[c[s]][g[s \ {c[s]}]]

\* There is a function that folds.
LEMMA FoldExists ==
  ASSUME NEW S, IsFiniteSet(S), NEW A, NEW base \in A, NEW c, Chooses(c, S),
         NEW h \in [S -> [A -> A]]
  PROVE  \E g \in [SUBSET S -> A] : Folds(g, S, base, c, h)
<1> USE DEF Chooses
<1> DEFINE Body(g, s) == IF s = {} THEN base ELSE h[c[s]][g[s \ {c[s]}]]
           FoldsTo(g, k) == \A s \in SUBSET S : Cardinality(s) <= k => g[s] = Body(g, s)
           T == {k \in Nat : \E g \in [SUBSET S -> A] : FoldsTo(g, k)}
<1>0. \A s \in SUBSET S : Cardinality(s) \in Nat /\ (Cardinality(s) = 0 <=> s = {})
  BY FS_Subset, FS_CardinalityType, FS_EmptySet
<1>1. 0 \in T
  <2>1. [s \in SUBSET S |-> base] \in [SUBSET S -> A]
    OBVIOUS
  <2>2. \A s \in SUBSET S : Cardinality(s) <= 0 => s = {}
    BY <1>0
  <2> QED BY <2>1, <2>2
<1>2. \A k \in Nat : k \in T => k + 1 \in T
  <2> SUFFICES ASSUME NEW k \in Nat, k \in T PROVE k + 1 \in T
    OBVIOUS
  <2>1. PICK f \in [SUBSET S -> A] : FoldsTo(f, k)
    OBVIOUS
  <2> DEFINE g == [s \in SUBSET S |-> Body(f, s)]
  <2>2. g \in [SUBSET S -> A]
    OBVIOUS
  <2>3. \A s \in SUBSET S : Cardinality(s) <= k => g[s] = f[s]
    BY <2>1
  <2>4. \A s \in SUBSET S : s # {} =>
          s \ {c[s]} \in SUBSET S /\ Cardinality(s \ {c[s]}) = Cardinality(s) - 1
    BY FS_Subset, FS_RemoveElement
  <2>5. ASSUME NEW s \in SUBSET S, Cardinality(s) <= k + 1 PROVE g[s] = Body(g, s)
    <3>1. CASE s = {}
      BY <3>1
    <3>2. CASE s # {}
      <4>1. Cardinality(s \ {c[s]}) <= k
        BY <1>0, <2>4, <2>5, <3>2
      <4>2. g[s \ {c[s]}] = f[s \ {c[s]}]
        BY <2>3, <2>4, <3>2, <4>1
      <4> QED BY <3>2, <4>2
    <3> QED BY <3>1, <3>2
  <2>6. FoldsTo(g, k + 1)
    BY <2>5
  <2> HIDE DEF FoldsTo, g
  <2> QED BY <2>2, <2>6
<1>3. Nat \subseteq T
  <2> HIDE DEF T
  <2> QED BY <1>1, <1>2, EveryNatural
<1>4. Cardinality(S) \in T
  BY <1>3, FS_CardinalityType
<1>5. PICK g \in [SUBSET S -> A] : FoldsTo(g, Cardinality(S))
  BY <1>4
<1>6. \A s \in SUBSET S : Cardinality(s) <= Cardinality(S)
  BY FS_Subset
<1> QED BY <1>5, <1>6 DEF Folds

\* A loop over 1, ..., n folds the greatest number last, after those below it.
LEMMA LoopPrefixes ==
  ASSUME NEW n \in Nat
  PROVE  /\ IsFiniteSet(1..n)
         /\ \A s \in SUBSET (1..n) : s # {} => Max(s) \in s
         /\ 1..0 = {}
         /\ \A i \in 1..n : /\ 1..i \in SUBSET (1..n) /\ 1..i # {}
                            /\ Max(1..i) = i
                            /\ (1..i) \ {i} = 1..(i - 1)
<1>1. IsFiniteSet(1..n)
  BY FS_Interval
<1>2. \A s \in SUBSET (1..n) : s # {} => Max(s) \in s
  <2> SUFFICES ASSUME NEW s \in SUBSET (1..n), s # {} PROVE Max(s) \in s
    OBVIOUS
  <2>1. s \in SUBSET Nat
    OBVIOUS
  <2>2. IsFiniteSet(s)
    BY <1>1, FS_Subset
  <2> QED BY <2>1, <2>2, GreatestNatural
<1>3. \A i \in 1..n : 1..i \in SUBSET (1..n) /\ i \in 1..i /\ (1..i) \ {i} = 1..(i - 1)
  OBVIOUS
<1>4. ASSUME NEW i \in 1..n PROVE Max(1..i) = i
  <2>1. 1..i \in SUBSET Nat /\ 1..i # {} /\ IsFiniteSet(1..i)
    BY <1>1, <1>3, FS_Subset
  <2>2. Max(1..i) \in 1..i /\ \A m \in 1..i : m <= Max(1..i)
    BY <2>1, GreatestNatural
  <2> QED BY <2>2
<1> QED BY <1>1, <1>2, <1>3, <1>4

Loops(g, n, base, h) ==
  \A s \in SUBSET (1..n) : g[s] = IF s = {} THEN base ELSE h[Max(s)][g[s \ {Max(s)}]]

LEMMA LoopExists ==
  ASSUME NEW n \in Nat, NEW A, NEW base \in A, NEW h \in [1..n -> [A -> A]]
  PROVE  \E g \in [SUBSET (1..n) -> A] : Loops(g, n, base, h)
<1> DEFINE c == [s \in SUBSET (1..n) |-> Max(s)]
<1>1. Chooses(c, 1..n)
  BY LoopPrefixes DEF Chooses
<1>2. IsFiniteSet(1..n)
  BY LoopPrefixes
<1>3. PICK g \in [SUBSET (1..n) -> A] : Folds(g, 1..n, base, c, h)
  <2> HIDE DEF c
  <2> QED BY <1>1, <1>2, FoldExists, Zenon
<1>4. Loops(g, n, base, h)
  BY <1>3 DEF Folds, Loops
<1> QED BY <1>4

\* The values a loop goes through, turn by turn.
Runs(f, n, base, h) == f[0] = base /\ \A i \in 1..n : f[i] = h[i][f[i - 1]]

LEMMA LoopRuns ==
  ASSUME NEW n \in Nat, NEW A, NEW base \in A, NEW h \in [1..n -> [A -> A]]
  PROVE  \E f \in [0..n -> A] : Runs(f, n, base, h)
<1>1. PICK g \in [SUBSET (1..n) -> A] : Loops(g, n, base, h)
  BY LoopExists, Zenon
<1> DEFINE f == [i \in 0..n |-> g[1..i]]
<1>2. f[0] = base
  <2>1. {} \in SUBSET (1..n) /\ g[{}] = base
    BY <1>1 DEF Loops
  <2> QED BY <2>1, LoopPrefixes
<1>3. ASSUME NEW i \in 1..n PROVE f[i] = h[i][f[i - 1]]
  <2>1. 1..i \in SUBSET (1..n) /\ 1..i # {} /\ Max(1..i) = i /\ (1..i) \ {i} = 1..(i - 1)
    BY LoopPrefixes
  <2>2. g[1..i] = h[i][g[1..(i - 1)]]
    BY <1>1, <2>1 DEF Loops
  <2>3. i \in 0..n /\ i - 1 \in 0..n
    OBVIOUS
  <2> QED BY <2>2, <2>3
<1>4. f \in [0..n -> A]
  OBVIOUS
<1> HIDE DEF f
<1> QED BY <1>2, <1>3, <1>4 DEF Runs

-----------------------------------------------------------------------------
(* Sorting: R orders the finite set S strictly.                            *)

StrictOrder(R, S) ==
  /\ \A x \in S : <<x, x>> \notin R
  /\ \A x, y, z \in S : <<x, y>> \in R /\ <<y, z>> \in R => <<x, z>> \in R
  /\ \A x, y \in S : x = y \/ <<x, y>> \in R \/ <<y, x>> \in R

Smaller(R, S, x) == {y \in S : <<y, x>> \in R}

\* How many members come before a member tells where it stands.
LEMMA RanksAreMonotone ==
  ASSUME NEW S, IsFiniteSet(S), NEW R, StrictOrder(R, S), NEW x \in S, NEW y \in S
  PROVE  /\ Cardinality(Smaller(R, S, x)) \in 0..Cardinality(S) - 1
         /\ <<x, y>> \in R <=> Cardinality(Smaller(R, S, x)) < Cardinality(Smaller(R, S, y))
<1>1. \A z \in S : /\ Smaller(R, S, z) \in SUBSET S /\ IsFiniteSet(Smaller(R, S, z))
                   /\ Cardinality(Smaller(R, S, z)) \in Nat
  BY FS_Subset, FS_CardinalityType DEF Smaller
<1>2. \A T \in SUBSET S : \A U \in SUBSET T : U # T => Cardinality(U) < Cardinality(T)
  <2> SUFFICES ASSUME NEW T \in SUBSET S, NEW U \in SUBSET T, U # T
               PROVE  Cardinality(U) < Cardinality(T)
    OBVIOUS
  <2>1. IsFiniteSet(T) /\ IsFiniteSet(U)
    BY FS_Subset
  <2>2. Cardinality(U) \in Nat /\ Cardinality(T) \in Nat
    BY <2>1, FS_CardinalityType
  <2>3. Cardinality(U) <= Cardinality(T) /\ Cardinality(U) # Cardinality(T)
    BY <2>1, FS_Subset
  <2> QED BY <2>2, <2>3
<1>3. Cardinality(Smaller(R, S, x)) < Cardinality(S)
  <2>1. x \notin Smaller(R, S, x)
    BY DEF StrictOrder, Smaller
  <2> QED BY <1>1, <1>2, <2>1
<1>4. \A a, b \in S : <<a, b>> \in R => Cardinality(Smaller(R, S, a)) < Cardinality(Smaller(R, S, b))
  <2> SUFFICES ASSUME NEW a \in S, NEW b \in S, <<a, b>> \in R
               PROVE  Cardinality(Smaller(R, S, a)) < Cardinality(Smaller(R, S, b))
    OBVIOUS
  <2>1. Smaller(R, S, a) \subseteq Smaller(R, S, b)
    BY DEF StrictOrder, Smaller
  <2>2. a \in Smaller(R, S, b) /\ a \notin Smaller(R, S, a)
    BY DEF StrictOrder, Smaller
  <2> QED BY <1>1, <1>2, <2>1, <2>2
<1>5. Cardinality(Smaller(R, S, x)) \in 0..Cardinality(S) - 1
  BY <1>1, <1>3, FS_CardinalityType
<1>6. x = y \/ <<x, y>> \in R \/ <<y, x>> \in R
  BY DEF StrictOrder
<1>7. <<x, x>> \notin R
  BY DEF StrictOrder
<1> QED BY <1>1, <1>4, <1>5, <1>6, <1>7

\* Every place is taken, by one member only.
LEMMA RanksAreTaken ==
  ASSUME NEW S, IsFiniteSet(S), NEW R, StrictOrder(R, S)
  PROVE  \A i \in 1..Cardinality(S) :
           \E x \in S : Cardinality(Smaller(R, S, x)) = i - 1
<1> DEFINE n == Cardinality(S)
           place == [x \in S |-> Cardinality(Smaller(R, S, x)) + 1]
<1>1. n \in Nat
  BY FS_CardinalityType
<1>2. \A x \in S : Cardinality(Smaller(R, S, x)) \in 0..n - 1
  BY RanksAreMonotone
<1>3. place \in [S -> 1..n]
  BY <1>1, <1>2
<1>4. \A x, y \in S : place[x] = place[y] => x = y
  <2> SUFFICES ASSUME NEW x \in S, NEW y \in S, place[x] = place[y], x # y PROVE FALSE
    OBVIOUS
  <2>1. <<x, y>> \in R \/ <<y, x>> \in R
    BY DEF StrictOrder
  <2>2. Cardinality(Smaller(R, S, x)) # Cardinality(Smaller(R, S, y))
    BY <1>1, <1>2, <2>1, RanksAreMonotone
  <2> QED BY <1>1, <1>2, <2>2
<1>5. IsFiniteSet(1..n) /\ Cardinality(1..n) = n
  BY <1>1, FS_Interval
<1>6. place \in Injection(S, 1..n)
  BY <1>3, <1>4 DEF Injection, IsInjective
<1>7. place \in Surjection(S, 1..n)
  <2> HIDE DEF place
  <2> QED BY <1>5, <1>6, FS_Injection
<1>8. ASSUME NEW i \in 1..n PROVE \E x \in S : Cardinality(Smaller(R, S, x)) = i - 1
  <2>1. PICK x \in S : place[x] = i
    BY <1>7 DEF Surjection
  <2> QED BY <1>1, <1>2, <2>1
<1> QED BY <1>8

\* f puts every member in its place.
Places(f, R, S) ==
  f \in [1..Cardinality(S) -> S]
  /\ \A i \in 1..Cardinality(S) : Cardinality(Smaller(R, S, f[i])) = i - 1

\* f is sorted and leaves nothing out.
Sorts(f, R, S) ==
  /\ Cardinality(S) \in Nat
  /\ f \in Seq(S) /\ Len(f) = Cardinality(S)
  /\ \A i, j \in 1..Len(f) : <<f[i], f[j]>> \in R <=> i < j
  /\ \A x \in S : \E i \in 1..Len(f) : f[i] = x

LEMMA PlacedIsSorted ==
  ASSUME NEW S, IsFiniteSet(S), NEW R, StrictOrder(R, S), NEW f, Places(f, R, S)
  PROVE  Sorts(f, R, S)
<1> DEFINE n == Cardinality(S)
<1>1. n \in Nat
  BY FS_CardinalityType
<1>2. /\ f \in [1..n -> S]
      /\ \A i \in 1..n : f[i] \in S /\ Cardinality(Smaller(R, S, f[i])) = i - 1
  BY DEF Places
<1>3. ASSUME NEW i \in 1..n, NEW j \in 1..n PROVE <<f[i], f[j]>> \in R <=> i < j
  BY <1>1, <1>2, RanksAreMonotone
<1>4. ASSUME NEW x \in S PROVE \E i \in 1..n : f[i] = x
  <2> DEFINE i == Cardinality(Smaller(R, S, x)) + 1
  <2>1. Cardinality(Smaller(R, S, x)) \in 0..n - 1
    BY RanksAreMonotone
  <2>2. i \in 1..n /\ i - 1 = Cardinality(Smaller(R, S, x))
    BY <1>1, <2>1
  <2>3. f[i] \in S /\ Cardinality(Smaller(R, S, f[i])) = Cardinality(Smaller(R, S, x))
    BY <1>2, <2>2
  <2>4. ~(<<f[i], x>> \in R) /\ ~(<<x, f[i]>> \in R)
    BY <2>1, <2>3, RanksAreMonotone
  <2>5. f[i] = x
    BY <2>3, <2>4 DEF StrictOrder
  <2> QED BY <2>2, <2>5
<1>5. f \in Seq(S) /\ Len(f) = n
  BY <1>1, <1>2
<1> QED BY <1>1, <1>3, <1>4, <1>5 DEF Sorts
=============================================================================
