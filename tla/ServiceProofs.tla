---------------------------- MODULE ServiceProofs ----------------------------
(***************************************************************************)
(* Theorems about the requests of the service: for every set of documents,  *)
(* components and limits.  What is read from JSON is shown to be in order   *)
(* (Read, ReadDocument, ReadSpec); what is stored was published, and what   *)
(* is answered was computed from it (ServiceInvariant); and then each       *)
(* theorem is about one kind of answer.                                    *)
(***************************************************************************)
EXTENDS Service, RangeProofs, SequenceTheorems

-----------------------------------------------------------------------------
(* Constraints and implications are counted.                               *)

IsCount(f) == IsFiniteSet(DOMAIN f) /\ \A x \in DOMAIN f : f[x] \in Nat

\* The constraints of a rule, and its implications, can be counted (AsBag,
\* BagSize).
LEMMA SizeOfACount ==
  ASSUME NEW bag, IsCount(bag)
  PROVE  BagSize(bag) \in Nat
<1> DEFINE S == DOMAIN bag
           c == [s \in SUBSET S |-> CHOOSE x \in s : TRUE]
           h == [x \in S |-> [a \in Nat |-> bag[x] + a]]
           IsSum(g) == g = [s \in SUBSET S |->
                         IF s = {} THEN 0
                         ELSE bag[CHOOSE x \in s : TRUE] + g[s \ {CHOOSE x \in s : TRUE}]]
<1>1. IsFiniteSet(S) /\ \A x \in S : bag[x] \in Nat
  BY DEF IsCount
<1>2. Chooses(c, S)
  BY DEF Chooses
<1>3. h \in [S -> [Nat -> Nat]]
  BY <1>1
<1>4. PICK g \in [SUBSET S -> Nat] : Folds(g, S, 0, c, h)
  <2> HIDE DEF S, c, h
  <2> QED BY <1>1, <1>2, <1>3, FoldExists, Zenon
<1>5. IsSum(g)
  <2>1. \A s \in SUBSET S : s # {} => (CHOOSE x \in s : TRUE) \in S
                                      /\ g[s \ {CHOOSE x \in s : TRUE}] \in Nat
    OBVIOUS
  <2>2. ASSUME NEW s \in SUBSET S, s # {}
        PROVE  g[s] = bag[CHOOSE x \in s : TRUE] + g[s \ {CHOOSE x \in s : TRUE}]
    BY <1>4, <2>1, <2>2 DEF Folds
  <2>3. g[{}] = 0
    BY <1>4 DEF Folds
  <2>4. g = [s \in SUBSET S |-> g[s]]
    OBVIOUS
  <2> QED BY <2>2, <2>3, <2>4
<1> DEFINE sum == CHOOSE f : IsSum(f)
<1>6. IsSum(sum)
  <2> HIDE DEF IsSum
  <2> QED BY <1>5
<1>7. BagSize(bag) = sum[S]
  BY DEF BagSize, MapThenSumSet, MapThenFoldSet
<1> DEFINE T == {k \in Nat : \A s \in SUBSET S : Cardinality(s) = k => sum[s] \in Nat}
<1>8. 0 \in T
  <2>1. sum[{}] = 0
    BY <1>6
  <2>2. ASSUME NEW s \in SUBSET S, Cardinality(s) = 0 PROVE sum[s] \in Nat
    <3>1. s = {}
      BY <1>1, <2>2, FS_Subset, FS_EmptySet
    <3> HIDE DEF sum, S
    <3> QED BY <2>1, <3>1
  <2> HIDE DEF sum, S
  <2> QED BY <2>2
<1>9. \A k \in Nat : k \in T => k + 1 \in T
  <2> SUFFICES ASSUME NEW k \in Nat, k \in T, NEW s \in SUBSET S, Cardinality(s) = k + 1
               PROVE  sum[s] \in Nat
    <3> HIDE DEF sum, S
    <3> QED OBVIOUS
  <2> DEFINE x == CHOOSE x \in s : TRUE
  <2>1. s # {}
    BY FS_EmptySet
  <2>2. x \in s
    BY <2>1
  <2>3. Cardinality(s \ {x}) = k
    <3>1. IsFiniteSet(s)
      BY <1>1, FS_Subset
    <3> HIDE DEF x
    <3>2. Cardinality(s \ {x}) = Cardinality(s) - 1
      BY <2>2, <3>1, FS_RemoveElement
    <3> QED BY <3>2
  <2>4. sum[s \ {x}] \in Nat /\ bag[x] \in Nat
    BY <1>1, <2>2, <2>3
  <2>5. sum[s] = bag[x] + sum[s \ {x}]
    BY <1>6, <2>1
  <2> QED BY <2>4, <2>5
<1>10. Cardinality(S) \in Nat
  BY <1>1, FS_CardinalityType
<1>11. Nat \subseteq T
  <2> HIDE DEF T
  <2> QED BY <1>8, <1>9, EveryNatural
<1>12. sum[S] \in Nat
  <2> HIDE DEF sum
  <2> QED BY <1>10, <1>11
<1> QED BY <1>7, <1>12

\* A list of entries has every entry a number of times.
LEMMA BagIsACount ==
  ASSUME NEW entries, IsFiniteSet(DOMAIN entries)
  PROVE  IsCount(AsBag(entries))
<1>1. IsFiniteSet(ToSet(entries))
  <2> DEFINE f == [i \in DOMAIN entries |-> entries[i]]
  <2>1. f \in Surjection(DOMAIN entries, ToSet(entries))
    BY DEF Surjection, ToSet
  <2> HIDE DEF f
  <2> QED BY <2>1, FS_Surjection
<1>2. ASSUME NEW c PROVE Cardinality({i \in DOMAIN entries : entries[i] = c}) \in Nat
  <2>1. IsFiniteSet({i \in DOMAIN entries : entries[i] = c})
    BY FS_Subset
  <2> QED BY <2>1, FS_CardinalityType
<1> QED BY <1>1, <1>2 DEF IsCount, AsBag

-----------------------------------------------------------------------------
(* What is read.                                                           *)

\* What ParseConstraint makes of a constraint.
ReadConstraint(c) ==
  /\ <<c.wants, c.of>> \in ConstraintKinds /\ c.side \in Sides
  /\ c.range # Absent => c.of \in {"protocols", "schemas"}

\* What ParseRule makes of a rule.
Read(rule) ==
  /\ rule.id \in Nat /\ rule.revision \in Nat /\ rule.priority \in Int
  /\ rule.origin \in {"standard", "vendor", "operator", "local_override"}
  /\ rule.symmetry \in Symmetries /\ rule.arity \in {"pair", "set"}
  /\ rule.outcome \in Outcomes /\ rule.on_unmet \in Skips /\ rule.on_indeterminate \in Skips
  /\ rule.left \in WrittenSelectors /\ rule.right \in WrittenSelectors
  /\ IsCount(rule.constraints) /\ IsCount(rule.implications)
  /\ \A c \in Constraints(rule) : ReadConstraint(c)

\* What ParseRule lets through has every field a rule needs: the defaults
\* of what was not written, a right side, and constraints of the known kinds.
LEMMA ParseRuleReads ==
  ASSUME NEW written \in WrittenRules, ~Failed(ParseRule(written))
  PROVE  Read(ParseRule(written).value)
<1> DEFINE Given(f) == IF f \in DOMAIN Defaults /\ written[f] = Absent THEN Defaults[f] ELSE written[f]
           rule == [f \in DOMAIN written |-> Given(f)]
           entries == [i \in DOMAIN rule.constraints |-> ParseConstraint(rule.constraints[i])]
           result == [rule EXCEPT
             !.right = IF @ = Absent THEN AnyComponent ELSE @,
             !.constraints = AsBag([i \in DOMAIN @ |-> ParseConstraint(@[i])]),
             !.implications = AsBag(@)]
<1>1. ParseRule(written).value = result
  BY DEF ParseRule, Failed, Error, Ok
<1>2. DOMAIN written = {"id", "revision", "priority", "origin", "symmetry", "arity", "outcome", "left",
                        "right", "constraints", "implications", "negotiation", "on_unmet",
                        "on_indeterminate", "state", "superseded_by"}
  BY DEF WrittenRules
<1>3. DOMAIN Defaults = {"revision", "priority", "origin", "symmetry", "arity", "negotiation",
                         "on_unmet", "on_indeterminate", "state"}
  BY DEF Defaults
<1>4. /\ rule.id \in Nat /\ rule.outcome \in Outcomes
      /\ rule.left \in WrittenSelectors /\ rule.right \in Optional(WrittenSelectors)
      /\ rule.constraints = written.constraints /\ rule.implications = written.implications
  BY <1>2, <1>3 DEF WrittenRules
<1>5. /\ rule.revision \in Nat /\ rule.priority \in Int
      /\ rule.origin \in {"standard", "vendor", "operator", "local_override"}
  BY <1>2, <1>3 DEF WrittenRules, Defaults, Optional
<1>6. rule.symmetry \in Symmetries /\ rule.arity \in {"pair", "set"}
  BY <1>2, <1>3 DEF WrittenRules, Defaults, Optional, Symmetries
<1>7. rule.on_unmet \in Skips /\ rule.on_indeterminate \in Skips
  BY <1>2, <1>3 DEF WrittenRules, Defaults, Optional, Skips
<1>8. AnyComponent \in WrittenSelectors
  BY DEF AnyComponent, WrittenSelectors, Optional
<1>9. IsFiniteSet(DOMAIN entries) /\ IsFiniteSet(DOMAIN rule.implications)
  BY <1>4, FS_Interval DEF WrittenRules
<1>10. IsCount(AsBag(entries)) /\ IsCount(AsBag(rule.implications))
  <2> HIDE DEF entries, rule
  <2> QED BY <1>9, BagIsACount
<1>11. /\ result.right = IF rule.right = Absent THEN AnyComponent ELSE rule.right
       /\ result.constraints = AsBag(entries)
       /\ result.implications = AsBag(rule.implications)
       /\ \A f \in {"id", "revision", "priority", "origin", "symmetry", "arity", "outcome", "left",
                    "on_unmet", "on_indeterminate"} : result[f] = rule[f]
  <2>1. DOMAIN rule = DOMAIN written
    OBVIOUS
  <2> HIDE DEF Given
  <2> QED BY <1>2, <2>1
<1>13. ASSUME NEW c \in DOMAIN AsBag(entries)
       PROVE  ReadConstraint(c)
  <2>1. PICK i \in DOMAIN written.constraints : c = ParseConstraint(written.constraints[i])
    BY <1>4, <1>13 DEF AsBag, ToSet
  <2> DEFINE w == written.constraints[i]
  <2>2. w \in WrittenConstraints
    BY DEF WrittenRules
  <2> HIDE DEF w
  <2>3. /\ c.wants = w.wants /\ c.of = w.of /\ c.side = w.side
        /\ c.range = Absent \/ c.range = w.range \/ c.of \in {"protocols", "schemas"}
    BY <2>1 DEF ParseConstraint, w
  <2>4. /\ <<w.wants, w.of>> \in ConstraintKinds /\ w.side \in Sides
        /\ w.range # Absent => w.of \in {"protocols", "schemas"}
    BY <2>2 DEF WrittenConstraints
  <2> QED BY <2>3, <2>4 DEF ReadConstraint
<1> HIDE DEF rule, result, entries
<1>12. result.right \in WrittenSelectors
  BY <1>4, <1>8, <1>11 DEF Optional
<1>14. \A c \in Constraints(result) : ReadConstraint(c)
  BY <1>11, <1>13 DEF Constraints
<1> QED BY <1>1, <1>4, <1>5, <1>6, <1>7, <1>10, <1>11, <1>12, <1>14 DEF Read

-----------------------------------------------------------------------------
(* Precedence.                                                             *)

\* The specificity of a selector is a number (SelectorSpecificity).
LEMMA SelectorSpecificityType ==
  ASSUME NEW s
  PROVE  SelectorSpecificity(s) \in Nat
<1>1. IsFiniteSet(NamedFields)
  <2>1. IsFiniteSet({"family"})
    BY FS_Singleton
  <2>2. IsFiniteSet({"family"} \cup {"kind"})
    BY <2>1, FS_AddElement
  <2>3. IsFiniteSet(({"family"} \cup {"kind"}) \cup {"hardware"})
    BY <2>2, FS_AddElement
  <2>4. NamedFields = ({"family"} \cup {"kind"}) \cup {"hardware"}
    BY DEF NamedFields
  <2> QED BY <2>3, <2>4
<1>2. Cardinality({f \in NamedFields : s[f] # Absent}) \in Nat
  BY <1>1, FS_Subset, FS_CardinalityType
<1> DEFINE n == Cardinality({f \in NamedFields : s[f] # Absent})
<1>3. 8 * n \in Nat
  BY <1>2
<1> HIDE DEF n
<1>4. SelectorSpecificity(s) \in {8 * n + 0, 8 * n + 24, 8 * n + 12}
  BY DEF SelectorSpecificity, n
<1> QED BY <1>3, <1>4

\* The tier of a rule is three numbers (RuleTier).
LEMMA TierType ==
  ASSUME NEW rule, Read(rule)
  PROVE  Tier(rule) \in Int \X Int \X Int
<1>1. BagSize(rule.constraints) \in Nat /\ BagSize(rule.implications) \in Nat
  BY SizeOfACount DEF Read
<1>2. AtMost16(BagSize(rule.constraints)) \in Nat /\ AtMost16(BagSize(rule.implications)) \in Nat
  BY <1>1 DEF AtMost16
<1>3. ComputeSpecificity(rule) \in Int
  BY <1>2, SelectorSpecificityType DEF ComputeSpecificity
<1>4. OriginRank[rule.origin] \in Int /\ rule.priority \in Int
  BY DEF Read, OriginRank
<1> QED BY <1>3, <1>4 DEF Tier

\* Tiers are compared number by number, so of two that differ one is below.
LEMMA TierBelowIsStrict ==
  ASSUME NEW a \in Int \X Int \X Int, NEW b \in Int \X Int \X Int, NEW c \in Int \X Int \X Int
  PROVE  /\ ~TierBelow(a, a)
         /\ TierBelow(a, b) /\ TierBelow(b, c) => TierBelow(a, c)
         /\ a = b \/ TierBelow(a, b) \/ TierBelow(b, a)
BY DEF TierBelow

\* Which of two rules takes precedence, as a relation.
Higher(S) == {p \in S \X S : PrecedenceHigher(p[1], p[2])}
\* No two rules have one identity.
Unique(S) == \A a, b \in S : a.id = b.id => a = b

\* PrecedenceHigher is a strict order of rules no two of which have the same
\* identity: what std::sort asks of its comparator.
LEMMA PrecedenceIsStrict ==
  ASSUME NEW S, \A rule \in S : Read(rule), Unique(S)
  PROVE  StrictOrder(Higher(S), S)
<1> DEFINE T(x) == Tier(x)
<1>1. \A x \in S : T(x) \in Int \X Int \X Int /\ x.id \in Nat /\ x.revision \in Nat
  BY TierType DEF Read
<1>2. \A x, y \in S : <<x, y>> \in Higher(S)
        <=> \/ TierBelow(T(y), T(x))
            \/ T(x) = T(y) /\ (x.id < y.id \/ (x.id = y.id /\ x.revision < y.revision))
  BY DEF Higher, PrecedenceHigher, KeyHigher, RulePrecedence
<1> HIDE DEF T
<1>3. /\ \A x \in S : ~TierBelow(T(x), T(x))
      /\ \A x, y, z \in S : TierBelow(T(x), T(y)) /\ TierBelow(T(y), T(z)) => TierBelow(T(x), T(z))
      /\ \A x, y \in S : T(x) = T(y) \/ TierBelow(T(x), T(y)) \/ TierBelow(T(y), T(x))
  BY <1>1, TierBelowIsStrict
<1>4. ASSUME NEW x \in S PROVE <<x, x>> \notin Higher(S)
  BY <1>1, <1>2, <1>3
<1>5. ASSUME NEW x \in S, NEW y \in S, NEW z \in S, <<x, y>> \in Higher(S), <<y, z>> \in Higher(S)
      PROVE  <<x, z>> \in Higher(S)
  <2>1. CASE T(x) = T(y) /\ T(y) = T(z)
    BY <1>1, <1>2, <1>3, <1>5, <2>1
  <2>2. CASE T(x) # T(y) /\ T(y) = T(z)
    BY <1>2, <1>3, <1>5, <2>2
  <2>3. CASE T(x) = T(y) /\ T(y) # T(z)
    BY <1>2, <1>3, <1>5, <2>3
  <2>4. CASE T(x) # T(y) /\ T(y) # T(z)
    BY <1>2, <1>3, <1>5, <2>4
  <2> QED BY <2>1, <2>2, <2>3, <2>4
<1>6. ASSUME NEW x \in S, NEW y \in S
      PROVE  x = y \/ <<x, y>> \in Higher(S) \/ <<y, x>> \in Higher(S)
  <2>1. CASE T(x) = T(y)
    BY <1>1, <1>2, <2>1 DEF Unique
  <2>2. CASE T(x) # T(y)
    BY <1>2, <1>3, <2>2
  <2> QED BY <2>1, <2>2
<1> QED BY <1>4, <1>5, <1>6 DEF StrictOrder

\* The rules that matched are sorted with none left out (MatchPairRules).
LEMMA ByPrecedenceSorts ==
  ASSUME NEW S, IsFiniteSet(S), \A rule \in S : Read(rule), Unique(S)
  PROVE  Sorts(ByPrecedence(S), Higher(S), S)
<1> DEFINE n == Cardinality(S)
           R == Higher(S)
           seq == InOrder(S, PrecedenceHigher)
<1>0. StrictOrder(R, S)
  <2> HIDE DEF R
  <2> QED BY PrecedenceIsStrict DEF R
<1>1. \A x \in S : {y \in S : PrecedenceHigher(y, x)} = Smaller(R, S, x)
  BY DEF Smaller, Higher
<1>2. \A i \in 1..n : \E x \in S : Cardinality(Smaller(R, S, x)) = i - 1
  <2> HIDE DEF R
  <2> QED BY <1>0, RanksAreTaken
<1> HIDE DEF R
<1>3. \A i \in 1..n : \E x \in S : Cardinality({y \in S : PrecedenceHigher(y, x)}) = i - 1
  BY <1>1, <1>2
<1>4. \A i \in 1..n : seq[i] \in S /\ Cardinality({y \in S : PrecedenceHigher(y, seq[i])}) = i - 1
  BY <1>3 DEF InOrder
<1>5. seq = [i \in 1..n |-> seq[i]]
  <2> DEFINE At(i) == CHOOSE x \in S : Cardinality({y \in S : PrecedenceHigher(y, x)}) = i - 1
  <2>1. seq = [i \in 1..n |-> At(i)]
    BY DEF InOrder
  <2> HIDE DEF At, seq
  <2> QED BY <2>1
<1>7. ByPrecedence(S) = seq
  BY DEF ByPrecedence
<1> HIDE DEF seq
<1>6. Places(seq, R, S)
  BY <1>1, <1>4, <1>5 DEF Places
<1>8. Sorts(seq, R, S)
  BY <1>0, <1>6, PlacedIsSorted, Zenon
<1> QED BY <1>7, <1>8 DEF R

-----------------------------------------------------------------------------
(* Documents.                                                              *)

\* A taxonomy is a map of maps.
ReadTaxonomy(taxonomy) ==
  /\ taxonomy = [s \in ToSet(Sections) |-> taxonomy[s]]
  /\ \A s \in ToSet(Sections) : taxonomy[s] = [id \in DOMAIN taxonomy[s] |-> taxonomy[s][id]]

\* What ParseRegistryDocument makes of a document.
ReadDocument(document) ==
  /\ ReadTaxonomy(document.taxonomy)
  /\ document.rules \in Seq(ToSet(document.rules))
  /\ \A rule \in ToSet(document.rules) : Read(rule)

\* RegistryDocument::Normalize only moves rules.
LEMMA NormalizeKeeps ==
  ASSUME NEW n \in Nat, NEW rules, DOMAIN rules = 1..n,
         \A i \in 1..n : rules[i].id \in Nat /\ rules[i].revision \in Nat
  PROVE  /\ DOMAIN Normalize(rules) = 1..n
         /\ Normalize(rules) = [k \in 1..n |-> Normalize(rules)[k]]
         /\ \A k \in 1..n : \E i \in 1..n : Normalize(rules)[k] = rules[i]
<1> DEFINE Less(a, b) == a.id < b.id \/ (a.id = b.id /\ a.revision < b.revision)
           Earlier(i, j) == Less(rules[i], rules[j]) \/ (~Less(rules[j], rules[i]) /\ i < j)
           R == {p \in (1..n) \X (1..n) : Earlier(p[1], p[2])}
           order == InOrder(1..n, Earlier)
           id == [i \in 1..n |-> rules[i].id]
           rev == [i \in 1..n |-> rules[i].revision]
           Comes(i, j) == \/ id[i] < id[j] \/ (id[i] = id[j] /\ rev[i] < rev[j])
                          \/ id[i] = id[j] /\ rev[i] = rev[j] /\ i < j
<1>0. \A i, j \in 1..n : <<i, j>> \in R <=> Comes(i, j)
  <2>1. \A i, j \in 1..n : <<i, j>> \in R <=> Earlier(i, j)
    <3> HIDE DEF Earlier
    <3> QED OBVIOUS
  <2>2. ASSUME NEW i \in 1..n, NEW j \in 1..n PROVE Earlier(i, j) <=> Comes(i, j)
    OBVIOUS
  <2> HIDE DEF R, Earlier, Comes
  <2> QED BY <2>1, <2>2
<1>1. StrictOrder(R, 1..n)
  <2>1. id \in [1..n -> Nat] /\ rev \in [1..n -> Nat]
    OBVIOUS
  <2> HIDE DEF R, id, rev
  <2>2. \A x \in 1..n : ~Comes(x, x)
    BY <2>1
  <2>3. \A x, y, z \in 1..n : Comes(x, y) /\ Comes(y, z) => Comes(x, z)
    BY <2>1
  <2>4. \A x, y \in 1..n : x = y \/ Comes(x, y) \/ Comes(y, x)
    BY <2>1
  <2> HIDE DEF Comes
  <2> QED BY <1>0, <2>2, <2>3, <2>4 DEF StrictOrder
<1>2. IsFiniteSet(1..n) /\ Cardinality(1..n) = n
  BY FS_Interval
<1>3. \A x \in 1..n : {y \in 1..n : Earlier(y, x)} = Smaller(R, 1..n, x)
  <2> HIDE DEF Earlier
  <2> QED BY DEF Smaller
<1>4. \A i \in 1..n : \E x \in 1..n : Cardinality(Smaller(R, 1..n, x)) = i - 1
  <2> HIDE DEF R
  <2>1. \A i \in 1..Cardinality(1..n) : \E x \in 1..n : Cardinality(Smaller(R, 1..n, x)) = i - 1
    BY <1>1, <1>2, RanksAreTaken, Zenon
  <2> QED BY <1>2, <2>1
<1> HIDE DEF R, Earlier
<1>5. \A i \in 1..n : \E x \in 1..n : Cardinality({y \in 1..n : Earlier(y, x)}) = i - 1
  BY <1>3, <1>4
<1>6. DOMAIN order = 1..n /\ \A i \in 1..n : order[i] \in 1..n
  BY <1>2, <1>5 DEF InOrder
<1>7. Normalize(rules) = [k \in 1..n |-> rules[order[k]]]
  BY DEF Normalize, Sorted, Earlier
<1> HIDE DEF order
<1> QED BY <1>6, <1>7

-----------------------------------------------------------------------------
(* The rules that matched, weighed one by one.                             *)

\* A rule that was applied, as the evidence shows it: deciding, or passed over.
Deciding(a) == [a EXCEPT !.decided = TRUE]
Passed(a) == [a EXCEPT !.decided = FALSE]
\* Nothing decided before, and this rule reaches an outcome.
Decisive(d, a) == d.decider = 0 /\ a.resolved # Absent
\* What Weigh makes of entries in E.
Weighed(E) == [total : Nat, decider : Nat, evidence : Seq(E), truncated : BOOLEAN]

\* Weigh, by whether the rule it is given decides.
LEMMA WeighCase ==
  ASSUME NEW d, NEW a
  PROVE  Weigh(d, a) = [total |-> d.total + 1,
           decider |-> IF Decisive(d, a) THEN d.total + 1 ELSE d.decider,
           evidence |-> IF Decisive(d, a) THEN Keep(d.evidence, Deciding(a))
                        ELSE Keep(d.evidence, Passed(a)),
           truncated |-> d.truncated \/ Len(d.evidence) >= MaxEvidence]
<1>1. CASE Decisive(d, a)
  <2>1. Decisive(d, a) = TRUE
    BY <1>1
  <2> QED BY <1>1 DEF Weigh, Decisive, Deciding, Passed
<1>2. CASE ~Decisive(d, a)
  BY <1>2 DEF Weigh, Decisive, Deciding, Passed
<1> QED BY <1>1, <1>2

\* What becomes of the evidence while there is room in it and when it is full.
LEMMA KeepCases ==
  ASSUME NEW E, NEW ev \in Seq(E), NEW a, Deciding(a) \in E, Passed(a) \in E, "decided" \in DOMAIN a
  PROVE  /\ Len(ev) < MaxEvidence => Keep(ev, Deciding(a)) = Append(ev, Deciding(a)) /\ Keep(ev, Passed(a)) = Append(ev, Passed(a))
         /\ Len(ev) >= MaxEvidence => Keep(ev, Deciding(a)) = [ev EXCEPT ![MaxEvidence] = Deciding(a)] /\ Keep(ev, Passed(a)) = ev
<1>1. Deciding(a).decided /\ ~Passed(a).decided
  BY DEF Deciding, Passed
<1>2. Len(ev) \in Nat /\ MaxEvidence \in Nat
  BY DecisionsAssumption
<1>3. CASE Len(ev) < MaxEvidence
  <2>1. ASSUME NEW entry PROVE Keep(ev, entry) = Append(ev, entry)
    BY <1>3, SMT DEF Keep
  <2> QED BY <1>2, <1>3, <2>1
<1>4. CASE ~(Len(ev) < MaxEvidence)
  BY <1>1, <1>4, Zenon DEF Keep
<1>5. ~(Len(ev) < MaxEvidence) <=> Len(ev) >= MaxEvidence
  BY <1>2
<1> QED BY <1>3, <1>4, <1>5, Zenon

\* A decision stays a decision while rules are weighed.
LEMMA WeighType ==
  ASSUME NEW E, NEW a, Deciding(a) \in E, Passed(a) \in E, "decided" \in DOMAIN a, NEW d \in Weighed(E)
  PROVE  Weigh(d, a) \in Weighed(E)
<1> DEFINE w == Weigh(d, a)
           ev == d.evidence
           M == MaxEvidence
<1>0. /\ M \in Nat /\ M # 0
      /\ ev \in Seq(E) /\ Len(ev) \in Nat /\ d.total \in Nat /\ d.decider \in Nat
  BY DecisionsAssumption DEF Weighed
<1>1. /\ w.total = d.total + 1
      /\ w.decider = IF Decisive(d, a) THEN d.total + 1 ELSE d.decider
      /\ w.evidence = IF Decisive(d, a) THEN Keep(ev, Deciding(a)) ELSE Keep(ev, Passed(a))
      /\ w.truncated \in BOOLEAN
      /\ w = [total |-> w.total, decider |-> w.decider, evidence |-> w.evidence, truncated |-> w.truncated]
  BY WeighCase
<1> HIDE DEF w, ev
<1>2. /\ Len(ev) < M => Keep(ev, Deciding(a)) = Append(ev, Deciding(a)) /\ Keep(ev, Passed(a)) = Append(ev, Passed(a))
      /\ Len(ev) >= M => Keep(ev, Deciding(a)) = [ev EXCEPT ![M] = Deciding(a)] /\ Keep(ev, Passed(a)) = ev
  BY <1>0, KeepCases
<1>3. Append(ev, Deciding(a)) \in Seq(E) /\ Append(ev, Passed(a)) \in Seq(E)
  BY <1>0
<1>4. [ev EXCEPT ![M] = Deciding(a)] \in Seq(E)
  <2>1. ev \in [1..Len(ev) -> E]
    BY <1>0
  <2>2. [ev EXCEPT ![M] = Deciding(a)] \in [1..Len(ev) -> E]
    BY <1>0, <2>1
  <2> HIDE DEF M
  <2> QED BY <1>0, <2>2
<1>5. w.evidence \in Seq(E)
  <2>1. Len(ev) < M \/ Len(ev) >= M
    BY <1>0
  <2> QED BY <1>0, <1>1, <1>2, <1>3, <1>4, <2>1
<1>6. w.total \in Nat /\ w.decider \in Nat
  BY <1>0, <1>1
<1>7. w \in Weighed(E)
  BY <1>1, <1>5, <1>6 DEF Weighed
<1> QED BY <1>7 DEF w

\* Of which application entry k of the evidence tells: of the one in its place,
\* or of the one that decided, which took the last place.
Shown(d, k) == IF k < MaxEvidence \/ d.decider <= MaxEvidence THEN k ELSE d.decider

\* Each entry of the evidence is the application it shows, marked as deciding
\* exactly when that is the one that does.
KeepsUpTo(d, apps) ==
  \A k \in 1..Len(d.evidence) :
    /\ Shown(d, k) = d.decider => d.evidence[k] = Deciding(apps[Shown(d, k)])
    /\ Shown(d, k) # d.decider => d.evidence[k] = Passed(apps[Shown(d, k)])

\* What is known after the first i applications: how many they are, which one was
\* the first to reach an outcome, and what the evidence has.
Weighs(d, i, apps) ==
  /\ d.total = i
  /\ d.decider \in 0..i
  /\ \A k \in 1..i : k < d.decider \/ d.decider = 0 => apps[k].resolved = Absent
  /\ d.decider # 0 => apps[d.decider].resolved # Absent
  /\ Len(d.evidence) = IF i < MaxEvidence THEN i ELSE MaxEvidence
  /\ KeepsUpTo(d, apps)

\* Weighing one more rule keeps what is known of those before it: the first that
\* reached an outcome decides, and is in the evidence (Weigh).
LEMMA WeighStep ==
  ASSUME NEW n \in Nat, NEW E, NEW apps, NEW i \in 1..n, NEW d \in Weighed(E), Weighs(d, i - 1, apps),
         \A k \in 1..n : Deciding(apps[k]) \in E /\ Passed(apps[k]) \in E /\ "decided" \in DOMAIN apps[k]
  PROVE  /\ Weighs(Weigh(d, apps[i]), i, apps)
         /\ Weigh(d, apps[i]).truncated <=> d.truncated \/ i > MaxEvidence
<1> DEFINE a == apps[i]
           w == Weigh(d, a)
           ev == d.evidence
           M == MaxEvidence
<1>0. /\ M \in Nat /\ M # 0
      /\ ev \in Seq(E) /\ Len(ev) \in Nat /\ d.total = i - 1 /\ d.decider \in 0..(i - 1)
      /\ Len(ev) = IF i - 1 < M THEN i - 1 ELSE M
      /\ \A k \in 1..(i - 1) : k < d.decider \/ d.decider = 0 => apps[k].resolved = Absent
      /\ d.decider # 0 => apps[d.decider].resolved # Absent
      /\ i \in Nat /\ i # 0
      /\ Deciding(a) \in E /\ Passed(a) \in E
  BY DecisionsAssumption DEF Weighed, Weighs
<1>1. /\ w.total = i
      /\ w.decider = IF Decisive(d, a) THEN i ELSE d.decider
      /\ w.evidence = IF Decisive(d, a) THEN Keep(ev, Deciding(a)) ELSE Keep(ev, Passed(a))
  <2>1. w = [total |-> d.total + 1,
             decider |-> IF Decisive(d, a) THEN d.total + 1 ELSE d.decider,
             evidence |-> IF Decisive(d, a) THEN Keep(ev, Deciding(a)) ELSE Keep(ev, Passed(a)),
             truncated |-> d.truncated \/ Len(ev) >= M]
    BY WeighCase
  <2>2. d.total + 1 = i
    BY <1>0
  <2> HIDE DEF a, w, ev
  <2> QED BY <2>1, <2>2
<1>2. w.truncated <=> d.truncated \/ i > M
  <2>1. w.truncated = (d.truncated \/ Len(ev) >= M)
    BY WeighCase
  <2>2. Len(ev) >= M <=> i > M
    BY <1>0
  <2> QED BY <2>1, <2>2, Zenon
<1>3. /\ Len(ev) < M => Keep(ev, Deciding(a)) = Append(ev, Deciding(a)) /\ Keep(ev, Passed(a)) = Append(ev, Passed(a))
      /\ Len(ev) >= M => Keep(ev, Deciding(a)) = [ev EXCEPT ![M] = Deciding(a)] /\ Keep(ev, Passed(a)) = ev
  <2>1. ev \in Seq(E) /\ Deciding(a) \in E /\ Passed(a) \in E /\ "decided" \in DOMAIN a
    BY <1>0
  <2> HIDE DEF a, ev
  <2> QED BY <2>1, KeepCases
<1>11. /\ Len(ev) < M => w.evidence = IF Decisive(d, a) THEN Append(ev, Deciding(a)) ELSE Append(ev, Passed(a))
       /\ ~(Len(ev) < M) => w.evidence = IF Decisive(d, a) THEN [ev EXCEPT ![M] = Deciding(a)] ELSE ev
  <2>1. ~(Len(ev) < M) <=> Len(ev) >= M
    BY <1>0
  <2> HIDE DEF a, w, ev
  <2> QED BY <1>1, <1>3, <2>1, Zenon
<1>6. Decisive(d, a) <=> d.decider = 0 /\ a.resolved # Absent
  BY DEF Decisive
<1>7. /\ w.decider \in 0..i
      /\ \A k \in 1..i : k < w.decider \/ w.decider = 0 => apps[k].resolved = Absent
      /\ w.decider # 0 => apps[w.decider].resolved # Absent
  <2> HIDE DEF w
  <2> QED BY <1>0, <1>1, <1>6
<1>8. Len(w.evidence) = IF i < M THEN i ELSE M
  <2> HIDE DEF w
  <2> QED BY <1>0, <1>1, <1>3
<1>9. KeepsUpTo(w, apps)
  <2> HIDE DEF w, a, ev
  <2>0. \A k \in 1..Len(ev) :
          /\ Shown(d, k) = d.decider => ev[k] = Deciding(apps[Shown(d, k)])
          /\ Shown(d, k) # d.decider => ev[k] = Passed(apps[Shown(d, k)])
    BY DEF Weighs, KeepsUpTo, ev
  <2> SUFFICES ASSUME NEW k \in 1..Len(w.evidence)
               PROVE  /\ Shown(w, k) = w.decider => w.evidence[k] = Deciding(apps[Shown(w, k)])
                      /\ Shown(w, k) # w.decider => w.evidence[k] = Passed(apps[Shown(w, k)])
    BY DEF KeepsUpTo
  <2>1. CASE i <= M
    <3>1. w.evidence = IF Decisive(d, a) THEN Append(ev, Deciding(a)) ELSE Append(ev, Passed(a))
      BY <1>0, <1>11, <2>1
    <3>2. Shown(w, k) = k /\ (k \in 1..Len(ev) => Shown(d, k) = k)
      BY <1>0, <1>7, <1>8, <2>1 DEF Shown
    <3>3. CASE k = i
      <4>1. w.evidence[k] = IF Decisive(d, a) THEN Deciding(a) ELSE Passed(a)
        BY <1>0, <2>1, <3>1, <3>3
      <4>2. w.decider = i <=> Decisive(d, a)
        BY <1>0, <1>1
      <4> QED BY <3>2, <3>3, <4>1, <4>2 DEF a
    <3>4. CASE k # i
      <4>1. k \in 1..Len(ev) /\ w.evidence[k] = ev[k]
        BY <1>0, <1>8, <2>1, <3>1, <3>4
      <4>2. w.decider = k <=> d.decider = k
        BY <1>0, <1>1, <1>6, <4>1, <3>4
      <4> QED BY <2>0, <3>2, <4>1, <4>2
    <3> QED BY <3>3, <3>4
  <2>2. CASE i > M
    <3>0. Len(ev) = M /\ Len(w.evidence) = M
      BY <1>0, <1>8, <2>2
    <3>1. w.evidence = IF Decisive(d, a) THEN [ev EXCEPT ![M] = Deciding(a)] ELSE ev
      BY <1>0, <1>11, <3>0
    <3>2. CASE Decisive(d, a) /\ k = M
      <4>1. w.evidence[k] = Deciding(a) /\ w.decider = i
        BY <1>0, <1>1, <3>0, <3>1, <3>2
      <4>2. Shown(w, k) = i
        BY <1>0, <2>2, <3>2, <4>1 DEF Shown
      <4> QED BY <4>1, <4>2 DEF a
    <3>3. CASE Decisive(d, a) /\ k # M
      <4>1. w.evidence[k] = ev[k] /\ w.decider = i /\ d.decider = 0 /\ k < M
        BY <1>0, <1>1, <1>6, <3>0, <3>1, <3>3
      <4>2. Shown(w, k) = k /\ Shown(d, k) = k /\ k # 0 /\ k # i
        BY <1>0, <2>2, <3>0, <4>1 DEF Shown
      <4> QED BY <2>0, <3>0, <4>1, <4>2
    <3>4. CASE ~Decisive(d, a)
      <4>1. w.evidence = ev /\ w.decider = d.decider
        BY <1>1, <3>1, <3>4
      <4> QED BY <2>0, <4>1 DEF Shown
    <3> QED BY <3>2, <3>3, <3>4
  <2> QED BY <1>0, <2>1, <2>2
<1>10. Weighs(w, i, apps)
  <2> HIDE DEF w
  <2> QED BY <1>1, <1>7, <1>8, <1>9 DEF Weighs
<1> QED BY <1>2, <1>10

\* What is known when all the rules that matched have been weighed.
LEMMA WeighAllWeighs ==
  ASSUME NEW n \in Nat, NEW apps, DOMAIN apps = 1..n,
         \A k \in 1..n : "decided" \in DOMAIN apps[k]
  PROVE  /\ Weighs(WeighAll(apps), n, apps) /\ (WeighAll(apps).truncated <=> n > MaxEvidence)
         /\ DOMAIN WeighAll(apps).evidence = 1..Len(WeighAll(apps).evidence)
<1> DEFINE E == {Deciding(apps[k]) : k \in 1..n} \cup {Passed(apps[k]) : k \in 1..n}
           A == Weighed(E)
           h == [x \in 1..n |-> [d \in A |-> Weigh(d, apps[x])]]
           IsFold(g) == g = [s \in SUBSET DOMAIN apps |->
                               IF s = {} THEN NotDecided ELSE Weigh(g[s \ {Max(s)}], apps[Max(s)])]
           Good(i, d) == d \in A /\ Weighs(d, i, apps) /\ (d.truncated <=> i > MaxEvidence)
<1>1. \A k \in 1..n : Deciding(apps[k]) \in E /\ Passed(apps[k]) \in E /\ "decided" \in DOMAIN apps[k]
  OBVIOUS
<1>2. Good(0, NotDecided)
  <2>1. NotDecided \in A
    BY DEF NotDecided, Weighed
  <2>2. Weighs(NotDecided, 0, apps)
    BY DecisionsAssumption DEF NotDecided, Weighs, KeepsUpTo
  <2>3. ~NotDecided.truncated /\ ~(0 > MaxEvidence)
    BY DecisionsAssumption DEF NotDecided
  <2> QED BY <2>1, <2>2, <2>3
<1>3. ASSUME NEW i \in 1..n, NEW d, Good(i - 1, d) PROVE Good(i, Weigh(d, apps[i]))
  <2> HIDE DEF E
  <2>1. /\ Weighs(Weigh(d, apps[i]), i, apps)
        /\ Weigh(d, apps[i]).truncated <=> d.truncated \/ i > MaxEvidence
    BY <1>1, <1>3, WeighStep
  <2>2. Weigh(d, apps[i]) \in A
    BY <1>1, <1>3, WeighType
  <2>3. i - 1 > MaxEvidence => i > MaxEvidence
    BY DecisionsAssumption
  <2> QED BY <1>3, <2>1, <2>2, <2>3, Zenon
<1>4. \E g \in [SUBSET (1..n) -> A] : IsFold(g)
  <2>1. NotDecided \in A /\ h \in [1..n -> [A -> A]]
    <3> HIDE DEF E
    <3> QED BY <1>1, <1>2, WeighType
  <2>2. PICK g \in [SUBSET (1..n) -> A] : Loops(g, n, NotDecided, h)
    <3> HIDE DEF A, h
    <3> QED BY <2>1, LoopExists, Zenon
  <2>3. ASSUME NEW s \in SUBSET (1..n), s # {}
        PROVE  g[s] = Weigh(g[s \ {Max(s)}], apps[Max(s)])
    <3>1. Max(s) \in 1..n
      BY <2>3, LoopPrefixes
    <3>2. g[s \ {Max(s)}] \in A
      BY <2>2
    <3> HIDE DEF A
    <3> QED BY <2>2, <2>3, <3>1, <3>2 DEF Loops
  <2>4. IsFold(g)
    <3> HIDE DEF A, h
    <3>1. g = [s \in SUBSET (1..n) |-> g[s]]
      BY <2>2
    <3> QED BY <2>2, <2>3, <3>1 DEF Loops
  <2> HIDE DEF A, IsFold
  <2> QED BY <2>4
<1> DEFINE fold == CHOOSE g : IsFold(g)
<1>5. IsFold(fold)
  <2>1. \E g : IsFold(g)
    <3> HIDE DEF IsFold, A
    <3> QED BY <1>4
  <2> HIDE DEF IsFold
  <2> QED BY <2>1
<1>6. WeighAll(apps) = fold[1..n]
  BY DEF WeighAll, FoldLeft, MapThenFoldSet
<1> DEFINE T == {i \in 0..n : Good(i, fold[1..i])}
<1>7. 0 \in T
  <2>1. {} \in SUBSET (1..n) /\ 1..0 = {} /\ 0 \in 0..n
    BY LoopPrefixes
  <2>2. fold[{}] = NotDecided
    <3> HIDE DEF fold
    <3> QED BY <1>5, <2>1
  <2> HIDE DEF fold, Good
  <2> QED BY <1>2, <2>1, <2>2
<1>8. ASSUME NEW i \in 1..n, i - 1 \in T PROVE i \in T
  <2>1. /\ 1..i \in SUBSET (1..n) /\ 1..i # {} /\ Max(1..i) = i
        /\ (1..i) \ {i} = 1..(i - 1)
    BY LoopPrefixes
  <2>2. fold[1..i] = Weigh(fold[1..(i - 1)], apps[i])
    <3> HIDE DEF fold
    <3> QED BY <1>5, <2>1
  <2>3. i \in 0..n
    OBVIOUS
  <2> HIDE DEF fold, Good
  <2> QED BY <1>3, <1>8, <2>2, <2>3
<1>9. n \in T
  <2> HIDE DEF T
  <2>1. 0..n \subseteq T
    BY <1>7, <1>8, EveryIteration
  <2> QED BY <2>1
<1>10. \A x \in A : DOMAIN x.evidence = 1..Len(x.evidence)
  <2> HIDE DEF E
  <2> QED BY DEF Weighed
<1> HIDE DEF fold, A
<1> QED BY <1>6, <1>9, <1>10

\* A document that was read and that Validate let through.
Published(document) == ReadDocument(document) /\ Publishable(Validate(document))

\* A document that was read and in which no two rules have one identity.
Unambiguous(document) ==
  /\ ReadDocument(document)
  /\ IsFiniteSet(ToSet(document.rules)) /\ Unique(ToSet(document.rules))

\* Validate reports every two rules that have one identity (DuplicateRuleId).
LEMMA NamesakesAreReported ==
  ASSUME NEW document, ReadDocument(document),
         \A d \in Errors(Validate(document)) : d.code # "DuplicateRuleIdentity"
  PROVE  Unambiguous(document)
<1> DEFINE rules == document.rules
<1>1. DOMAIN rules = 1..Len(rules) /\ Len(rules) \in Nat
  BY DEF ReadDocument
<1>2. IsFiniteSet(ToSet(rules))
  <2> DEFINE f == [i \in DOMAIN rules |-> rules[i]]
  <2>1. f \in Surjection(DOMAIN rules, ToSet(rules))
    BY DEF Surjection, ToSet
  <2>2. IsFiniteSet(DOMAIN rules)
    BY <1>1, FS_Interval
  <2> HIDE DEF f, rules
  <2> QED BY <2>1, <2>2, FS_Surjection
<1>3. DuplicateDiagnostics(rules) \subseteq Validate(document)
  BY DEF Validate
<1>4. ASSUME NEW i \in DOMAIN rules, NEW k \in DOMAIN rules, i < k, rules[i].id = rules[k].id PROVE FALSE
  <2> DEFINE said == Wrong("DuplicateRuleIdentity", <<"rule", RuleRef(rules[k])>>)
  <2>1. i \in 1..k - 1
    BY <1>1, <1>4
  <2>2. said \in Validate(document)
    BY <1>3, <1>4, <2>1 DEF DuplicateDiagnostics
  <2>3. said.code = "DuplicateRuleIdentity" /\ said.severity = "error"
    BY DEF Wrong, Diagnostic
  <2> HIDE DEF said
  <2> QED BY <2>2, <2>3 DEF Errors
<1>5. ASSUME NEW a \in ToSet(rules), NEW b \in ToSet(rules), a.id = b.id PROVE a = b
  <2>1. PICK i \in DOMAIN rules : rules[i] = a
    BY DEF ToSet
  <2>2. PICK k \in DOMAIN rules : rules[k] = b
    BY DEF ToSet
  <2>3. i < k \/ k < i \/ i = k
    BY <1>1
  <2> QED BY <1>4, <1>5, <2>1, <2>2, <2>3
<1> QED BY <1>2, <1>5 DEF Unique, Unambiguous

\* Validate refuses a document in which two rules have one identity.
LEMMA PublishedIsUnambiguous ==
  ASSUME NEW document, Published(document)
  PROVE  Unambiguous(document)
BY NamesakesAreReported DEF Published, Publishable

\* The steps of EvaluatePair: the rules that match, what is wrong with the
\* components, one rule applied, the rules in order, all of them applied.
Matching(d, left, right) == {rule \in ActiveRules(d, "pair") : RuleMatches(rule, left, right)}
PairProblem(d, left, right) == Obstacle(d, "pair", PairRegistered(d.taxonomy, left, right))
Applied(d, left, right, rule) ==
  ApplyRule(rule, d.taxonomy, PairSides(left, right), Mirrored(rule, left, right))
Matched(d, left, right) ==
  IF PairProblem(d, left, right) = "none" THEN MatchPairRules(d, left, right) ELSE <<>>
Applications(d, left, right) ==
  [k \in DOMAIN Matched(d, left, right) |-> Applied(d, left, right, Matched(d, left, right)[k])]

\* EvaluatePair in the names used here.
LEMMA EvaluatePairConcludes ==
  ASSUME NEW d, NEW left, NEW right
  PROVE  EvaluatePair(d, left, right)
           = Conclude(d, "pair", <<left, right>>, PairProblem(d, left, right), Applications(d, left, right))
BY DEF EvaluatePair, PairProblem, Applications, Applied, Matched

\* The rules that match two components are finitely many, read rules of the
\* document, and differ in their identities.
LEMMA MatchingRules ==
  ASSUME NEW d, Unambiguous(d), NEW left, NEW right
  PROVE  /\ Matching(d, left, right) \subseteq ToSet(d.rules)
         /\ \A rule \in Matching(d, left, right) : Read(rule)
         /\ IsFiniteSet(Matching(d, left, right)) /\ Unique(Matching(d, left, right))
<1>1. Matching(d, left, right) \subseteq ToSet(d.rules)
  BY DEF Matching, ActiveRules
<1>2. IsFiniteSet(Matching(d, left, right))
  BY <1>1, FS_Subset DEF Unambiguous
<1> QED BY <1>1, <1>2 DEF Unique, Unambiguous, ReadDocument

\* MatchPairRules gives each rule that matches, by precedence, and none when the
\* components are not registered.
LEMMA MatchedInOrder ==
  ASSUME NEW d, Unambiguous(d), NEW left, NEW right
  PROVE  \E n \in Nat :
           /\ DOMAIN Matched(d, left, right) = 1..n
           /\ \A k \in 1..n : Matched(d, left, right)[k] \in Matching(d, left, right)
           /\ PairProblem(d, left, right) # "none" => n = 0
           /\ PairProblem(d, left, right) = "none" =>
                /\ \A rule \in Matching(d, left, right) : \E k \in 1..n : Matched(d, left, right)[k] = rule
                /\ \A j, k \in 1..n : PrecedenceHigher(Matched(d, left, right)[j], Matched(d, left, right)[k])
                                        <=> j < k
<1> DEFINE S == Matching(d, left, right)
           seq == MatchPairRules(d, left, right)
<1>1. CASE PairProblem(d, left, right) = "none"
  <2>1. Sorts(seq, Higher(S), S)
    <3>1. seq = ByPrecedence(S)
      BY DEF MatchPairRules, Matching
    <3> HIDE DEF S
    <3>2. Sorts(ByPrecedence(S), Higher(S), S)
      BY MatchingRules, ByPrecedenceSorts DEF S
    <3> HIDE DEF seq
    <3> QED BY <3>1, <3>2
  <2>2. Matched(d, left, right) = seq
    BY <1>1 DEF Matched
  <2> HIDE DEF S, seq
  <2>3. /\ Len(seq) \in Nat /\ DOMAIN seq = 1..Len(seq)
        /\ \A k \in 1..Len(seq) : seq[k] \in S
    BY <2>1 DEF Sorts
  <2>4. \A j, k \in 1..Len(seq) : PrecedenceHigher(seq[j], seq[k]) <=> j < k
    <3>1. \A j, k \in 1..Len(seq) : <<seq[j], seq[k]>> \in Higher(S) <=> j < k
      BY <2>1 DEF Sorts
    <3> QED BY <2>3, <3>1 DEF Higher
  <2>5. \A rule \in S : \E k \in 1..Len(seq) : seq[k] = rule
    BY <2>1 DEF Sorts
  <2> QED BY <1>1, <2>2, <2>3, <2>4, <2>5 DEF S
<1>2. CASE PairProblem(d, left, right) # "none"
  <2>1. Matched(d, left, right) = <<>>
    BY <1>2 DEF Matched
  <2>2. DOMAIN Matched(d, left, right) = 1..0
    BY <2>1
  <2> QED BY <1>2, <2>2
<1> QED BY <1>1, <1>2

\* There are three verdicts.
LEMMA WorstOf ==
  ASSUME NEW verdicts
  PROVE  Worst(verdicts) \in {"violated", "indeterminate", "satisfied"}
BY DEF Worst

\* A rule that is applied is skipped or reaches an outcome: its own when its
\* constraints are satisfied (ApplyRule).
LEMMA ApplyRuleSays ==
  ASSUME NEW rule, Read(rule), NEW taxonomy, NEW resolver, NEW mirrored
  PROVE  LET a == ApplyRule(rule, taxonomy, resolver, mirrored)
         IN /\ a.rule = rule /\ "decided" \in DOMAIN a
            /\ a.resolved \in Outcomes \cup {Absent}
            /\ a.resolved = Absent <=> a.status = "skipped"
            /\ a.status = "satisfied" => a.resolved = rule.outcome
<1> DEFINE a == ApplyRule(rule, taxonomy, resolver, mirrored)
           v == [c \in Constraints(rule) |-> ConstraintVerdict(c, resolver[c.side], taxonomy)]
           w == Worst({v[c] : c \in DOMAIN v})
           Fits(x) == /\ x.resolved \in Outcomes \cup {Absent}
                      /\ x.resolved = Absent <=> x.status = "skipped"
                      /\ x.status = "satisfied" => x.resolved = rule.outcome
<1>1. /\ a.rule = rule /\ "decided" \in DOMAIN a
      /\ a.status = Settle(rule, w).status /\ a.resolved = Settle(rule, w).resolved
  BY DEF ApplyRule
<1>2. w \in {"violated", "indeterminate", "satisfied"}
  BY WorstOf
<1>3. \A x \in Outcomes : x # Absent
  BY AbsentAssumption
<1>4. rule.on_unmet \in Skips /\ rule.on_indeterminate \in Skips /\ rule.outcome \in Outcomes
  BY DEF Read
<1>0. Absent \notin Outcomes /\ "skipped" # "violated" /\ "skipped" # "satisfied"
  BY AbsentAssumption
<1> HIDE DEF w, a
<1>5. ASSUME w = "violated" PROVE Fits(a)
  <2>1. CASE rule.on_unmet = "skip"
    <3>1. a.resolved = Absent /\ a.status = "skipped"
      BY <1>1, <1>5, <2>1 DEF Settle, Skipped
    <3> QED BY <3>1
  <2>2. CASE rule.on_unmet # "skip"
    <3>1. a.resolved = rule.on_unmet /\ a.status = "violated"
      BY <1>1, <1>5, <2>2 DEF Settle, Reached
    <3>2. rule.on_unmet \in Outcomes
      BY <1>4, <2>2 DEF Skips, Outcomes
    <3> QED BY <1>3, <3>1, <3>2
  <2> QED BY <2>1, <2>2
<1>6. ASSUME w = "indeterminate" PROVE Fits(a)
  <2>1. CASE rule.on_indeterminate = "skip"
    <3>1. a.resolved = Absent /\ a.status = "skipped"
      BY <1>1, <1>6, <2>1 DEF Settle, Skipped
    <3> QED BY <3>1
  <2>2. CASE rule.on_indeterminate # "skip"
    <3>1. a.resolved = rule.on_indeterminate /\ a.status = "indeterminate"
      BY <1>1, <1>6, <2>2 DEF Settle, Reached
    <3>2. rule.on_indeterminate \in Outcomes
      BY <1>4, <2>2 DEF Skips, Outcomes
    <3> QED BY <1>3, <3>1, <3>2
  <2> QED BY <2>1, <2>2
<1>7. ASSUME w = "satisfied" PROVE Fits(a)
  BY <1>1, <1>3, <1>4, <1>7 DEF Settle, Skips, Outcomes, Skipped, Reached
<1>8. Fits(a)
  <2> HIDE DEF Fits
  <2> QED BY <1>2, <1>5, <1>6, <1>7
<1> HIDE DEF Fits
<1> QED BY <1>1, <1>8, Zenon DEF a, Fits

\* EvaluatePair weighs the rules that matched.
LEMMA PairIsWeighed ==
  ASSUME NEW d, Published(d), NEW left, NEW right
  PROVE  LET apps == Applications(d, left, right)
             w == WeighAll(apps)
         IN \E n \in Nat :
              /\ DOMAIN apps = 1..n
              /\ Weighs(w, n, apps) /\ (w.truncated <=> n > MaxEvidence)
              /\ DOMAIN w.evidence = 1..Len(w.evidence)
              /\ \A k \in 1..n : \E rule \in Matching(d, left, right) :
                   apps[k] = Applied(d, left, right, rule)
<1> DEFINE apps == Applications(d, left, right)
<1>1. PICK n \in Nat : /\ DOMAIN Matched(d, left, right) = 1..n
                       /\ \A k \in 1..n : Matched(d, left, right)[k] \in Matching(d, left, right)
  BY MatchedInOrder, PublishedIsUnambiguous
<1>2. DOMAIN apps = 1..n
  BY <1>1 DEF Applications
<1>3. \A k \in 1..n : \E rule \in Matching(d, left, right) : apps[k] = Applied(d, left, right, rule)
  BY <1>1 DEF Applications
<1> HIDE DEF apps
<1>4. \A k \in 1..n : "decided" \in DOMAIN apps[k]
  BY <1>3, MatchingRules, PublishedIsUnambiguous, ApplyRuleSays DEF Applied
<1>5. /\ Weighs(WeighAll(apps), n, apps) /\ (WeighAll(apps).truncated <=> n > MaxEvidence)
      /\ DOMAIN WeighAll(apps).evidence = 1..Len(WeighAll(apps).evidence)
  BY <1>2, <1>4, WeighAllWeighs
<1> QED BY <1>2, <1>3, <1>5 DEF apps

\* An entry of the evidence says what the application of the rule said, and
\* whether it decided.
LEMMA MarksAreKept ==
  ASSUME NEW a, "decided" \in DOMAIN a
  PROVE  /\ Deciding(a).decided /\ ~Passed(a).decided
         /\ Deciding(a).rule = a.rule /\ Passed(a).rule = a.rule
         /\ Deciding(a).resolved = a.resolved /\ Passed(a).resolved = a.resolved
         /\ Deciding(a).status = a.status /\ Passed(a).status = a.status
         /\ Deciding(a).verdicts = a.verdicts /\ Passed(a).verdicts = a.verdicts
BY DEF Deciding, Passed

\* The fields of a decision v about a pair, w being what was weighed.
PairFacts(d, left, right, v, apps, w) ==
  /\ v.document = d /\ v.subjects = <<left, right>>
  /\ v.evidence = w.evidence /\ v.truncated = w.truncated /\ v.total = w.total
  /\ w.decider # 0 => v.outcome = apps[w.decider].resolved /\ v.decider = RuleRef(apps[w.decider].rule)
  /\ w.decider = 0 => v.outcome = "unknown" /\ v.decider = Absent
  /\ v.negotiation = Negotiate(<<left, right>>, v.negotiation.policy, d.taxonomy)

\* The fields of a decision about a pair (EvaluatePairInternal).
LEMMA DecisionOfPair ==
  ASSUME NEW d, NEW left, NEW right
  PROVE  PairFacts(d, left, right, EvaluatePair(d, left, right), Applications(d, left, right),
                   WeighAll(Applications(d, left, right)))
BY EvaluatePairConcludes DEF PairFacts, Conclude, Negotiate

\* What the rules that matched were made into shows the one that decided, however
\* many they are (Weigh, Conclude).
LEMMA ConclusionShowsDecider ==
  ASSUME NEW d, NEW arity, NEW subjects, NEW problem, NEW apps, NEW n \in Nat, DOMAIN apps = 1..n,
         \A k \in 1..n : /\ "decided" \in DOMAIN apps[k]
                         /\ Read(apps[k].rule)
                         /\ apps[k].resolved = Absent => apps[k].status = "skipped"
  PROVE  ShowsDecider(Conclude(d, arity, subjects, problem, apps))
<1> DEFINE v == Conclude(d, arity, subjects, problem, apps)
           w == WeighAll(apps)
           M == MaxEvidence
           ev == v.evidence
           p == IF w.decider <= M THEN w.decider ELSE M
           deciding == {i \in DOMAIN ev : ev[i].decided}
<1>2. \A k \in 1..n : /\ "decided" \in DOMAIN apps[k]
                      /\ Read(apps[k].rule)
                      /\ apps[k].resolved = Absent => apps[k].status = "skipped"
  OBVIOUS
<1>1. /\ DOMAIN apps = 1..n
      /\ Weighs(w, n, apps) /\ (w.truncated <=> n > M)
      /\ DOMAIN w.evidence = 1..Len(w.evidence)
  BY <1>2, WeighAllWeighs
<1>5. /\ ev = w.evidence /\ v.truncated = w.truncated /\ v.total = w.total
      /\ w.decider # 0 => v.outcome = apps[w.decider].resolved /\ v.decider = RuleRef(apps[w.decider].rule)
      /\ w.decider = 0 => v.outcome = "unknown" /\ v.decider = Absent
  BY DEF Conclude
<1> HIDE DEF v, w
<1>3. /\ v.total = n /\ w.decider \in 0..n
      /\ \A k \in 1..n : k < w.decider \/ w.decider = 0 => apps[k].resolved = Absent
      /\ Len(ev) = IF n < M THEN n ELSE M
      /\ \A k \in 1..Len(ev) : /\ Shown(w, k) = w.decider => ev[k] = Deciding(apps[Shown(w, k)])
                               /\ Shown(w, k) # w.decider => ev[k] = Passed(apps[Shown(w, k)])
      /\ M \in Nat /\ M # 0
  BY <1>1, <1>5, DecisionsAssumption DEF Weighs, KeepsUpTo
<1>4. DOMAIN ev = 1..Len(ev)
  BY <1>1, <1>5
<1>6. v.truncated <=> v.total > Len(v.evidence)
  <2>1. n > M <=> n > Len(ev)
    BY <1>3
  <2>2. v.truncated <=> n > M
    BY <1>1, <1>5, Zenon
  <2>3. v.total = n
    BY <1>3
  <2> QED BY <2>1, <2>2, <2>3
<1>10. Cardinality(deciding) = (IF v.decider = Absent THEN 0 ELSE 1)
        /\ (\A i \in deciding : /\ RuleRef(ev[i].rule) = v.decider
                               /\ ev[i].resolved = v.outcome
                               /\ \A j \in 1..i - 1 : ev[j].status = "skipped")
       => ShowsDecider(v)
  BY <1>6, Zenon DEF ShowsDecider
<1>7. CASE w.decider = 0
  <2>1. \A i \in DOMAIN ev : ~ev[i].decided
    <3> SUFFICES ASSUME NEW i \in DOMAIN ev PROVE ~ev[i].decided
      OBVIOUS
    <3>1. i \in 1..n /\ Shown(w, i) = i /\ i # 0
      BY <1>3, <1>4, <1>7 DEF Shown
    <3>2. ev[i] = Passed(apps[i])
      BY <1>3, <1>4, <1>7, <3>1
    <3> QED BY <1>2, <3>1, <3>2, MarksAreKept
  <2>2. deciding = {}
    BY <2>1
  <2>3. Cardinality(deciding) = 0
    BY <2>2, FS_EmptySet
  <2>5. (IF v.decider = Absent THEN 0 ELSE 1) = 0
    BY <1>5, <1>7
  <2>6. \A i \in deciding : FALSE
    BY <2>2
  <2> HIDE DEF deciding
  <2> QED BY <1>10, <2>3, <2>5, <2>6, Zenon DEF v
<1>8. CASE w.decider # 0
  <2> DEFINE D == w.decider
  <2>0. D \in 1..n /\ p \in 1..Len(ev) /\ p \in 1..n /\ p <= D
    BY <1>3, <1>8
  <2>1. /\ Shown(w, p) = D
        /\ \A i \in 1..Len(ev) : i # p => Shown(w, i) = i /\ i # D /\ i \in 1..n
    BY <1>3, <1>8, <2>0 DEF Shown
  <2>2. ev[p] = Deciding(apps[D])
    BY <1>3, <2>0, <2>1
  <2>3. \A i \in 1..Len(ev) : i # p => ev[i] = Passed(apps[i])
    BY <1>3, <2>1
  <2>4. deciding = {p}
    <3>1. ev[p].decided /\ p \in DOMAIN ev
      BY <1>2, <1>4, <2>0, <2>2, MarksAreKept
    <3>2. \A i \in DOMAIN ev : i # p => ~ev[i].decided
      BY <1>2, <1>4, <2>1, <2>3, MarksAreKept
    <3> HIDE DEF p
    <3> QED BY <3>1, <3>2
  <2>5. Cardinality(deciding) = 1
    BY <2>4, FS_Singleton
  <2>6. v.decider # Absent
    <3>1. RuleRef(apps[D].rule) \in Nat \X Nat
      BY <1>2, <2>0 DEF RuleRef, Read
    <3> QED BY <1>5, <1>8, <3>1, AbsentAssumption
  <2>7. RuleRef(ev[p].rule) = v.decider /\ ev[p].resolved = v.outcome
    BY <1>2, <1>5, <1>8, <2>0, <2>2, MarksAreKept
  <2>8. ASSUME NEW j \in 1..p - 1 PROVE ev[j].status = "skipped"
    <3>1. j \in 1..Len(ev) /\ j # p /\ j < D /\ j \in 1..n
      BY <1>3, <2>0
    <3>2. ev[j] = Passed(apps[j]) /\ apps[j].resolved = Absent
      BY <1>3, <2>3, <3>1
    <3> QED BY <1>2, <3>1, <3>2, MarksAreKept
  <2> HIDE DEF deciding, p, D
  <2>10. (IF v.decider = Absent THEN 0 ELSE 1) = 1
    BY <2>6
  <2>11. \A i \in deciding : i = p
    BY <2>4
  <2>12. \A i \in deciding : /\ RuleRef(ev[i].rule) = v.decider
                            /\ ev[i].resolved = v.outcome
                            /\ \A j \in 1..i - 1 : ev[j].status = "skipped"
    BY <2>7, <2>8, <2>11, Zenon
  <2> QED BY <1>10, <2>5, <2>10, <2>12, Zenon DEF v
<1> QED BY <1>7, <1>8 DEF v

\* A decision about a pair shows the rule that decided.
LEMMA PairShowsDecider ==
  ASSUME NEW d, Published(d), NEW left, NEW right
  PROVE  ShowsDecider(EvaluatePair(d, left, right))
<1> DEFINE apps == Applications(d, left, right)
<1>1. PICK n \in Nat :
        /\ DOMAIN apps = 1..n
        /\ \A k \in 1..n : \E rule \in Matching(d, left, right) : apps[k] = Applied(d, left, right, rule)
  BY PairIsWeighed
<1>2. EvaluatePair(d, left, right)
        = Conclude(d, "pair", <<left, right>>, PairProblem(d, left, right), apps)
  BY EvaluatePairConcludes
<1> HIDE DEF apps
<1>3. \A k \in 1..n : /\ "decided" \in DOMAIN apps[k]
                      /\ Read(apps[k].rule)
                      /\ apps[k].resolved = Absent => apps[k].status = "skipped"
  BY <1>1, MatchingRules, PublishedIsUnambiguous, ApplyRuleSays DEF Applied
<1> QED BY <1>1, <1>2, <1>3, ConclusionShowsDecider

\* The steps of EvaluateSetLevel: what is wrong with the members, the rules about a
\* set, one rule applied.
SetProblem(d, members) == Obstacle(d, "set", SetRegistered(d.taxonomy, members))
SetMatching(d, members) == {rule \in ActiveRules(d, "set") : SetSides(rule, members).left # {}}
SetApplied(d, members, rule) == ApplyRule(rule, d.taxonomy, SetSides(rule, members), FALSE)

\* A rule about a set is a set rule of the document; applied to the set, it is
\* skipped or reaches an outcome.
LEMMA SetAppliedSays ==
  ASSUME NEW d, Unambiguous(d), NEW members, NEW rule \in SetMatching(d, members)
  PROVE  /\ rule \in ToSet(d.rules) /\ Read(rule) /\ rule.arity = "set"
         /\ SetApplied(d, members, rule).rule = rule
         /\ "decided" \in DOMAIN SetApplied(d, members, rule)
         /\ SetApplied(d, members, rule).resolved = Absent => SetApplied(d, members, rule).status = "skipped"
         /\ SetApplied(d, members, rule).status = "satisfied"
              => SetApplied(d, members, rule).resolved = rule.outcome
<1>1. rule \in ToSet(d.rules) /\ rule.arity = "set"
  BY DEF SetMatching, ActiveRules
<1>2. Read(rule)
  BY <1>1 DEF Unambiguous, ReadDocument
<1> DEFINE resolver == SetSides(rule, members)
<1> HIDE DEF resolver
<1>3. LET a == ApplyRule(rule, d.taxonomy, resolver, FALSE)
      IN /\ a.rule = rule /\ "decided" \in DOMAIN a
         /\ a.resolved \in Outcomes \cup {Absent}
         /\ a.resolved = Absent <=> a.status = "skipped"
         /\ a.status = "satisfied" => a.resolved = rule.outcome
  BY <1>2, ApplyRuleSays, Zenon
<1> QED BY <1>1, <1>2, <1>3, Zenon DEF resolver, SetApplied

\* EvaluateSetLevel weighs the rules about the set in order of precedence, and none
\* when a member is not registered.
LEMMA SetLevelIsWeighed ==
  ASSUME NEW d, Unambiguous(d), NEW members
  PROVE  \E n, apps :
           /\ n \in Nat
           /\ EvaluateSetLevel(d, members) = Conclude(d, "set", members, SetProblem(d, members), apps)
           /\ DOMAIN apps = 1..n
           /\ \A k \in 1..n : \E rule \in SetMatching(d, members) : apps[k] = SetApplied(d, members, rule)
           /\ SetProblem(d, members) # "none" => n = 0
           /\ SetProblem(d, members) = "none" =>
                /\ \A rule \in SetMatching(d, members) : \E k \in 1..n : apps[k].rule = rule
                /\ \A j, k \in 1..n : j < k => PrecedenceHigher(apps[j].rule, apps[k].rule)
<1> DEFINE problem == SetProblem(d, members)
           About == SetMatching(d, members)
           matched == IF problem = "none" THEN ByPrecedence(About) ELSE <<>>
           apps == [k \in DOMAIN matched |-> SetApplied(d, members, matched[k])]
           Ordered(n) ==
             problem = "none" => /\ \A rule \in About : \E k \in 1..n : matched[k] = rule
                                 /\ \A j, k \in 1..n : j < k => PrecedenceHigher(matched[j], matched[k])
<1>1. EvaluateSetLevel(d, members) = Conclude(d, "set", members, problem, apps)
  BY DEF EvaluateSetLevel, SetMatching, SetApplied, SetProblem
<1>3. About \subseteq ToSet(d.rules)
  BY DEF SetMatching, ActiveRules
<1> HIDE DEF About
<1>4. IsFiniteSet(About) /\ Unique(About) /\ \A rule \in About : Read(rule)
  <2>1. IsFiniteSet(About)
    BY <1>3, FS_Subset DEF Unambiguous
  <2> QED BY <1>3, <2>1 DEF Unique, Unambiguous, ReadDocument
<1>5. \E n \in Nat : /\ DOMAIN matched = 1..n /\ \A k \in 1..n : matched[k] \in About
                     /\ problem # "none" => n = 0
                     /\ Ordered(n)
  <2>1. CASE problem = "none"
    <3>1. Sorts(ByPrecedence(About), Higher(About), About)
      BY <1>4, ByPrecedenceSorts
    <3>2. matched = ByPrecedence(About)
      BY <2>1
    <3> HIDE DEF matched
    <3>3. /\ Len(matched) \in Nat /\ DOMAIN matched = 1..Len(matched)
          /\ \A k \in 1..Len(matched) : matched[k] \in About
          /\ \A rule \in About : \E k \in 1..Len(matched) : matched[k] = rule
      BY <3>1, <3>2 DEF Sorts
    <3>4. \A j, k \in 1..Len(matched) : j < k => PrecedenceHigher(matched[j], matched[k])
      <4>1. \A j, k \in 1..Len(matched) : j < k => <<matched[j], matched[k]>> \in Higher(About)
        BY <3>1, <3>2 DEF Sorts
      <4> QED BY <3>3, <4>1 DEF Higher
    <3> QED BY <2>1, <3>3, <3>4
  <2>2. CASE problem # "none"
    <3>1. matched = <<>> /\ DOMAIN matched = 1..0
      BY <2>2
    <3> HIDE DEF matched
    <3> QED BY <2>2, <3>1
  <2> HIDE DEF problem
  <2> QED BY <2>1, <2>2
<1>6. PICK n \in Nat : /\ DOMAIN matched = 1..n /\ \A k \in 1..n : matched[k] \in About
                       /\ problem # "none" => n = 0
                       /\ Ordered(n)
  BY <1>5
<1> HIDE DEF matched, problem
<1>7. DOMAIN apps = 1..n /\ \A k \in 1..n : apps[k] = SetApplied(d, members, matched[k])
  BY <1>6
<1> HIDE DEF apps
<1>8. \A k \in 1..n : \E rule \in About : apps[k] = SetApplied(d, members, rule)
  BY <1>6, <1>7
<1>10. \A k \in 1..n : apps[k].rule = matched[k]
  BY <1>6, <1>7, SetAppliedSays DEF About
<1>9. /\ n \in Nat /\ EvaluateSetLevel(d, members) = Conclude(d, "set", members, SetProblem(d, members), apps)
      /\ DOMAIN apps = 1..n
      /\ \A k \in 1..n : \E rule \in SetMatching(d, members) : apps[k] = SetApplied(d, members, rule)
      /\ SetProblem(d, members) # "none" => n = 0
      /\ SetProblem(d, members) = "none" =>
           /\ \A rule \in SetMatching(d, members) : \E k \in 1..n : apps[k].rule = rule
           /\ \A j, k \in 1..n : j < k => PrecedenceHigher(apps[j].rule, apps[k].rule)
  <2>1. /\ n \in Nat /\ EvaluateSetLevel(d, members) = Conclude(d, "set", members, SetProblem(d, members), apps)
        /\ DOMAIN apps = 1..n
        /\ \A k \in 1..n : \E rule \in SetMatching(d, members) : apps[k] = SetApplied(d, members, rule)
        /\ SetProblem(d, members) # "none" => n = 0
    BY <1>1, <1>6, <1>7, <1>8, Zenon DEF About, problem
  <2>2. SetProblem(d, members) = "none" =>
           /\ \A rule \in SetMatching(d, members) : \E k \in 1..n : apps[k].rule = rule
           /\ \A j, k \in 1..n : j < k => PrecedenceHigher(apps[j].rule, apps[k].rule)
    BY <1>6, <1>10 DEF About, problem
  <2> QED BY <2>1, <2>2, Zenon
<1> QED BY <1>9, Zenon

\* The decision about a set shows the set rule that decided.
LEMMA SetLevelShowsDecider ==
  ASSUME NEW d, Unambiguous(d), NEW members
  PROVE  ShowsDecider(EvaluateSetLevel(d, members))
<1>1. PICK n, apps :
        /\ n \in Nat
        /\ EvaluateSetLevel(d, members) = Conclude(d, "set", members, SetProblem(d, members), apps)
        /\ DOMAIN apps = 1..n
        /\ \A k \in 1..n : \E rule \in SetMatching(d, members) : apps[k] = SetApplied(d, members, rule)
  BY SetLevelIsWeighed
<1>2. \A k \in 1..n : /\ "decided" \in DOMAIN apps[k]
                      /\ Read(apps[k].rule)
                      /\ apps[k].resolved = Absent => apps[k].status = "skipped"
  BY <1>1, SetAppliedSays
<1> QED BY <1>1, <1>2, ConclusionShowsDecider

\* Which place decides depends on nothing but the outcomes that were reached.
LEMMA SameDecider ==
  ASSUME NEW n \in Nat, NEW a, NEW b, NEW w, NEW u, Weighs(w, n, a), Weighs(u, n, b),
         \A k \in 1..n : a[k].resolved = b[k].resolved
  PROVE  w.decider = u.decider /\ w.decider \in 0..n
<1>1. /\ w.decider \in 0..n /\ u.decider \in 0..n
      /\ \A k \in 1..n : k < w.decider \/ w.decider = 0 => a[k].resolved = Absent
      /\ \A k \in 1..n : k < u.decider \/ u.decider = 0 => b[k].resolved = Absent
      /\ w.decider # 0 => a[w.decider].resolved # Absent
      /\ u.decider # 0 => b[u.decider].resolved # Absent
  BY DEF Weighs
<1> DEFINE x == w.decider
           y == u.decider
<1>2. x # 0 => b[x].resolved # Absent
  BY <1>1
<1>3. y # 0 => a[y].resolved # Absent
  BY <1>1
<1> HIDE DEF x, y
<1> QED BY <1>1, <1>2, <1>3 DEF x, y

\* Symmetric rules match a pair in either order.
LEMMA SwapMatches ==
  ASSUME NEW d, NEW left, NEW right, TellsNoSides(d)
  PROVE  Matched(d, left, right) = Matched(d, right, left)
<1>1. \A rule \in ActiveRules(d, "pair") : RuleMatches(rule, left, right) <=> RuleMatches(rule, right, left)
  <2> SUFFICES ASSUME NEW rule \in ActiveRules(d, "pair")
               PROVE  RuleMatches(rule, left, right) <=> RuleMatches(rule, right, left)
    OBVIOUS
  <2>1. rule.symmetry = "symmetric"
    BY DEF ActiveRules, TellsNoSides
  <2> QED BY <2>1 DEF RuleMatches, Backward
<1>2. Matching(d, left, right) = Matching(d, right, left)
  BY <1>1 DEF Matching
<1>3. PairProblem(d, left, right) = PairProblem(d, right, left)
  <2>1. {Registered(d.taxonomy, left), Registered(d.taxonomy, right)}
          = {Registered(d.taxonomy, right), Registered(d.taxonomy, left)}
    OBVIOUS
  <2>2. PairRegistered(d.taxonomy, left, right) = PairRegistered(d.taxonomy, right, left)
    BY <2>1 DEF PairRegistered
  <2> QED BY <2>2 DEF PairProblem
<1>4. MatchPairRules(d, left, right) = MatchPairRules(d, right, left)
  <2>1. MatchPairRules(d, left, right) = ByPrecedence(Matching(d, left, right))
    BY DEF MatchPairRules, Matching
  <2>2. MatchPairRules(d, right, left) = ByPrecedence(Matching(d, right, left))
    BY DEF MatchPairRules, Matching
  <2> QED BY <1>2, <2>1, <2>2
<1> QED BY <1>3, <1>4 DEF Matched

\* A constraint about both sides is the same for a pair in either order.
LEMMA SwapApplies ==
  ASSUME NEW d, NEW left, NEW right, NEW rule, \A c \in Constraints(rule) : c.side = "all"
  PROVE  /\ Applied(d, left, right, rule).resolved = Applied(d, right, left, rule).resolved
         /\ Applied(d, left, right, rule).rule = rule /\ Applied(d, right, left, rule).rule = rule
<1> DEFINE V(r) == [c \in Constraints(rule) |-> ConstraintVerdict(c, r[c.side], d.taxonomy)]
           S(r) == Settle(rule, Worst({V(r)[c] : c \in DOMAIN V(r)}))
<1>1. {left, right} = {right, left}
  OBVIOUS
<1>2. PairSides(left, right)["all"] = PairSides(right, left)["all"]
  BY <1>1 DEF PairSides
<1>3. V(PairSides(left, right)) = V(PairSides(right, left))
  BY <1>2
<1>4. Applied(d, left, right, rule).resolved = S(PairSides(left, right)).resolved
  BY DEF Applied, ApplyRule
<1>5. Applied(d, right, left, rule).resolved = S(PairSides(right, left)).resolved
  BY DEF Applied, ApplyRule
<1>6. S(PairSides(left, right)) = S(PairSides(right, left))
  <2> HIDE DEF V
  <2> QED BY <1>3
<1>7. Applied(d, left, right, rule).rule = rule /\ Applied(d, right, left, rule).rule = rule
  BY DEF Applied, ApplyRule
<1> HIDE DEF S
<1> QED BY <1>4, <1>5, <1>6, <1>7

\* Where all rules are symmetric and all constraints about both sides, a pair may
\* be named in either order (EvaluatePair).
LEMMA PairMaySwap ==
  ASSUME NEW d, Published(d), NEW left, NEW right, TellsNoSides(d)
  PROVE  /\ EvaluatePair(d, right, left).outcome = EvaluatePair(d, left, right).outcome
         /\ EvaluatePair(d, right, left).decider = EvaluatePair(d, left, right).decider
<1> DEFINE v == EvaluatePair(d, left, right)
           u == EvaluatePair(d, right, left)
           a == Applications(d, left, right)
           b == Applications(d, right, left)
           w == WeighAll(a)
           x == WeighAll(b)
<1>1. Matched(d, left, right) = Matched(d, right, left)
  BY SwapMatches
<1>2. PICK n \in Nat : DOMAIN a = 1..n /\ Weighs(w, n, a)
  BY PairIsWeighed
<1>3. PICK m \in Nat : DOMAIN b = 1..m /\ Weighs(x, m, b)
  BY PairIsWeighed
<1>4. DOMAIN a = DOMAIN Matched(d, left, right) /\ DOMAIN b = DOMAIN Matched(d, left, right)
  BY <1>1 DEF Applications
<1>5. ASSUME NEW k \in DOMAIN a PROVE a[k].resolved = b[k].resolved /\ a[k].rule = b[k].rule
  <2> DEFINE rule == Matched(d, left, right)[k]
  <2>1. a[k] = Applied(d, left, right, rule) /\ b[k] = Applied(d, right, left, rule)
    BY <1>1, <1>4 DEF Applications
  <2>2. rule \in Matching(d, left, right)
    BY <1>4, MatchedInOrder, PublishedIsUnambiguous
  <2>3. \A c \in Constraints(rule) : c.side = "all"
    BY <2>2 DEF TellsNoSides, Matching, ActiveRules
  <2> HIDE DEF rule, a, b
  <2> QED BY <2>1, <2>3, SwapApplies
<1>6. PairFacts(d, left, right, v, a, w) /\ PairFacts(d, right, left, u, b, x)
  BY DecisionOfPair
<1> HIDE DEF v, u, a, b, w, x
<1>7. n = m
  <2>1. 1..n = 1..m
    BY <1>2, <1>3, <1>4
  <2> QED BY <2>1
<1>8. w.decider = x.decider /\ w.decider \in 0..n
  BY <1>2, <1>3, <1>5, <1>7, SameDecider
<1>9. u.outcome = v.outcome /\ u.decider = v.decider
  <2>1. CASE w.decider = 0
    BY <1>6, <1>8, <2>1 DEF PairFacts
  <2>2. CASE w.decider # 0
    <3>1. w.decider \in DOMAIN a
      BY <1>2, <1>8, <2>2
    <3> QED BY <1>5, <1>6, <1>8, <2>2, <3>1 DEF PairFacts
  <2> QED BY <2>1, <2>2
<1> QED BY <1>9 DEF u, v

\* There is no first error when nothing is wrong.
LEMMA NoErrorMeansNone ==
  ASSUME NEW n \in Nat, NEW codes, DOMAIN codes = 1..n
  PROVE  FirstError(codes) = "none" <=> \A i \in 1..n : codes[i] = "none"
<1> DEFINE errors == {i \in DOMAIN codes : codes[i] # "none"}
<1>1. errors \in SUBSET Nat /\ IsFiniteSet(errors)
  <2>1. errors \subseteq 1..n
    OBVIOUS
  <2>2. IsFiniteSet(1..n)
    BY FS_Interval
  <2> HIDE DEF errors
  <2>3. IsFiniteSet(errors)
    BY <2>1, <2>2, FS_Subset
  <2> QED BY <2>1, <2>3
<1>2. errors # {} => Min(errors) \in errors
  <2> HIDE DEF errors
  <2> QED BY <1>1, GreatestNatural
<1>3. FirstError(codes) = IF errors = {} THEN "none" ELSE codes[Min(errors)]
  BY DEF FirstError
<1>4. CASE errors = {}
  BY <1>3, <1>4
<1>5. CASE errors # {}
  <2>1. Min(errors) \in DOMAIN codes /\ codes[Min(errors)] # "none"
    BY <1>2, <1>5
  <2> HIDE DEF errors
  <2> QED BY <1>3, <1>5, <2>1
<1> QED BY <1>4, <1>5

\* A document under another generation and epoch.
Numbered(document, g, e) == [document EXCEPT !.generation = g, !.epoch = e]

\* What ParseRegistryDocument lets through is a document whose rules are
\* read and whose taxonomy is a map of maps.
LEMMA ParseDocumentReads ==
  ASSUME NEW written \in WrittenDocuments, ~Failed(ParseRegistryDocument(written)), NEW g, NEW e
  PROVE  /\ ReadDocument(ParseRegistryDocument(written).value)
         /\ ReadDocument(Numbered(ParseRegistryDocument(written).value, g, e))
         /\ Numbered(ParseRegistryDocument(written).value, g, e).generation = g
<1> DEFINE d == Numbered(ParseRegistryDocument(written).value, g, e)
           taxonomy == ParseTaxonomy(written.taxonomy)
           rules == [i \in DOMAIN written.rules |-> ParseRule(written.rules[i])]
           values == [i \in DOMAIN rules |-> rules[i].value]
           first == <<When(written.format_version # FormatVersion, "UnsupportedFormatVersion"),
                      taxonomy.error,
                      When(Len(written.rules) > MaxRules, "LimitExceeded")>>
           later == [i \in DOMAIN rules |-> rules[i].error]
           error == FirstError(first \o later)
           n == Len(written.rules)
<1>1. n \in Nat /\ DOMAIN written.rules = 1..n /\ \A i \in 1..n : written.rules[i] \in WrittenRules
  BY DEF WrittenDocuments
<1>2. DOMAIN rules = 1..n /\ DOMAIN later = 1..n /\ DOMAIN values = 1..n
  BY <1>1
<1>3. error = "none" /\ ParseRegistryDocument(written).value
                         = [generation |-> written.generation, epoch |-> written.epoch,
                            taxonomy |-> taxonomy.value, rules |-> Normalize(values)]
  <2>1. ParseRegistryDocument(written) =
          IF error # "none" THEN Error(error)
          ELSE Ok([generation |-> written.generation, epoch |-> written.epoch,
                   taxonomy |-> taxonomy.value, rules |-> Normalize(values)])
    BY DEF ParseRegistryDocument
  <2> HIDE DEF error, values, taxonomy
  <2> QED BY <2>1 DEF Failed, Error, Ok
<1>4. d.rules = Normalize(values) /\ d.generation = g /\ d.taxonomy = taxonomy.value
  <2> HIDE DEF values, taxonomy
  <2> QED BY <1>3 DEF Numbered
<1>5. taxonomy.error = "none" /\ \A i \in 1..n : later[i] = "none"
  <2>1. /\ DOMAIN (first \o later) = 1..(n + 3)
        /\ \A i \in 1..n : (first \o later)[i + 3] = later[i]
        /\ (first \o later)[2] = taxonomy.error
    <3> DEFINE S == {first[1], first[2], first[3]} \cup {later[i] : i \in 1..n}
    <3>1. first \in Seq(S) /\ Len(first) = 3
      <4> HIDE DEF later, taxonomy
      <4> QED OBVIOUS
    <3>2. later \in Seq(S) /\ Len(later) = n
      <4>1. \A i \in 1..n : later[i] \in S
        OBVIOUS
      <4>2. later = [i \in 1..n |-> later[i]]
        BY <1>2
      <4> HIDE DEF S, later, first, n, rules
      <4> QED BY <1>1, <4>1, <4>2
    <3> HIDE DEF S, first, later, n
    <3>3. /\ first \o later \in Seq(S) /\ Len(first \o later) = Len(first) + Len(later)
          /\ \A i \in 1..Len(first) + Len(later) :
               (first \o later)[i] = IF i <= Len(first) THEN first[i] ELSE later[i - Len(first)]
      BY <3>1, <3>2, ConcatProperties, Zenon
    <3>4. 3 + n = n + 3 /\ \A i \in 1..n : i + 3 \in 1..3 + n /\ ~(i + 3 <= 3) /\ (i + 3) - 3 = i
      BY <1>1
    <3>5. DOMAIN (first \o later) = 1..Len(first \o later)
      BY <3>3
    <3>6. \A i \in 1..n : (first \o later)[i + 3] = later[i]
      BY <3>1, <3>2, <3>3, <3>4
    <3>7. (first \o later)[2] = taxonomy.error
      <4>1. 2 \in 1..3 + n /\ 2 <= 3
        BY <1>1
      <4>2. (first \o later)[2] = first[2]
        BY <3>1, <3>2, <3>3, <4>1
      <4> HIDE DEF taxonomy
      <4> QED BY <4>2 DEF first
    <3> QED BY <3>1, <3>2, <3>3, <3>4, <3>5, <3>6, <3>7
  <2> HIDE DEF first, later, n, taxonomy
  <2>2. \A i \in 1..(n + 3) : (first \o later)[i] = "none"
    <3>1. n + 3 \in Nat
      BY <1>1
    <3> QED BY <1>3, <2>1, <3>1, NoErrorMeansNone
  <2>3. 2 \in 1..(n + 3) /\ \A i \in 1..n : i + 3 \in 1..(n + 3)
    BY <1>1
  <2> QED BY <2>1, <2>2, <2>3
<1>6. \A i \in 1..n : Read(values[i])
  <2> SUFFICES ASSUME NEW i \in 1..n PROVE Read(values[i])
    OBVIOUS
  <2>1. written.rules[i] \in WrittenRules /\ rules[i] = ParseRule(written.rules[i])
    BY <1>1
  <2>2. ~Failed(rules[i])
    BY <1>2, <1>5 DEF Failed
  <2>3. values[i] = rules[i].value
    BY <1>2
  <2> HIDE DEF rules, values
  <2> QED BY <2>1, <2>2, <2>3, ParseRuleReads
<1>15. ReadTaxonomy(taxonomy.value)
  <2> DEFINE section(s) == AsMap(written.taxonomy[s], LAMBDA entry : entry.of)
             read == [s \in ToSet(Sections) |-> section(s)]
  <2>1. taxonomy.value = read
    BY <1>5 DEF ParseTaxonomy, Error, Ok
  <2>2. \A s : section(s) = [id \in DOMAIN section(s) |-> section(s)[id]]
    BY DEF AsMap
  <2> HIDE DEF section, taxonomy
  <2> QED BY <2>1, <2>2 DEF ReadTaxonomy
<1> HIDE DEF values, n, error, taxonomy, rules
<1>7. \A i \in 1..n : values[i].id \in Nat /\ values[i].revision \in Nat
  BY <1>6 DEF Read
<1>8. /\ DOMAIN Normalize(values) = 1..n
      /\ Normalize(values) = [k \in 1..n |-> Normalize(values)[k]]
      /\ \A k \in 1..n : \E i \in 1..n : Normalize(values)[k] = values[i]
  BY <1>1, <1>2, <1>7, NormalizeKeeps, Zenon
<1>9. /\ DOMAIN d.rules = 1..n
      /\ d.rules = [k \in 1..n |-> d.rules[k]]
      /\ \A k \in 1..n : \E i \in 1..n : d.rules[k] = values[i]
  BY <1>4, <1>8
<1> DEFINE read == d.rules
<1>10. DOMAIN read = 1..n /\ read = [k \in 1..n |-> read[k]] /\ \A k \in 1..n : Read(read[k])
  BY <1>6, <1>9
<1>11. n \in Nat
  BY <1>1
<1> HIDE DEF read
<1>12. \A k \in 1..n : read[k] \in ToSet(read)
  BY <1>10 DEF ToSet
<1>13. read \in Seq(ToSet(read))
  BY <1>10, <1>11, <1>12
<1>14. \A rule \in ToSet(read) : Read(rule)
  BY <1>10 DEF ToSet
<1>16. /\ ParseRegistryDocument(written).value.rules = read
       /\ ParseRegistryDocument(written).value.taxonomy = taxonomy.value
  BY <1>3, <1>4 DEF read
<1> QED BY <1>4, <1>13, <1>14, <1>15, <1>16 DEF ReadDocument, read

-----------------------------------------------------------------------------
(* The state of the service and the answers it gives.                      *)

\* What is stored was published.
Holds == \A n \in DOMAIN stored : Published(stored[n])

\* An answer to each kind of query, computed from documents.
IsPairAnswer(documents, v) ==
  \E n \in DOMAIN documents, pair \in Pairs :
    LET specs == ReadMembers(pair, documents[n])
    IN ~Failed(specs) /\ v = EvaluatePair(documents[n], specs.value[1], specs.value[2])

IsSetAnswer(documents, v) ==
  \E n \in DOMAIN documents, members \in Asked :
    LET specs == ReadMembers(members, documents[n])
        result == EvaluateSet(documents[n], specs.value)
    IN ~Failed(specs) /\ ~Failed(result) /\ v = result.value

IsReplayAnswer(documents, of, v) ==
  /\ of[1] \in DOMAIN documents /\ of[2] \in DOMAIN documents
  /\ \E members \in Asked :
       LET specs == ReadMembers(members, documents[of[2]])
           result == ReplayDiff(documents[of[1]], documents[of[2]], <<specs.value>>)
       IN ~Failed(specs) /\ ~Failed(result) /\ v = result.value

IsProvenanceAnswer(documents, numbers, rule, v) ==
  LET order == InOrder(numbers, <)
  IN v = ProvenanceHistory(rule, [i \in DOMAIN order |-> documents[order[i]]])

IsAssessment(v) == ReadDocument(v.document) /\ v.report = Validate(v.document)

\* The answer on its way to the client was computed from what is stored, or from
\* the document it is about.
Answers ==
  /\ Answered("validate") => IsAssessment(Value)
  /\ Answered("query_pair") => IsPairAnswer(stored, Value)
  /\ Answered("query_set") => IsSetAnswer(stored, Value)
  /\ Answered("replay_diff") => IsReplayAnswer(stored, answer.of, Value)
  /\ Answered("provenance") => IsProvenanceAnswer(stored, history, answer.of, Value)

\* What a request may be.
Operations == {"none", "any", "validate", "publish", "dry_run", "query_pair", "query_set", "diff",
               "replay_diff", "provenance", "generations", "status", "prune"}

\* What is submitted was written, and there is a number for it.
LEMMA PlanIsWritten ==
  ASSUME TypeOK, NEW written \in Submitted
  PROVE  /\ written \in WrittenDocuments
         /\ head \in Nat /\ head + 1 \in Numbers /\ Numbers \subseteq Nat
<1>1. plan \in Seq(SUBSET WrittenDocuments)
  BY RequestsAssumption DEF TypeOK
<1>2. Len(plan) \in Nat /\ head \in 0..Len(plan)
  BY <1>1 DEF TypeOK, Numbers
<1>3. head < Len(plan) /\ written \in plan[head + 1]
  BY DEF Submitted
<1>4. head + 1 \in 1..Len(plan)
  BY <1>2, <1>3
<1>5. plan[head + 1] \in SUBSET WrittenDocuments
  BY <1>1, <1>4
<1> QED BY <1>2, <1>3, <1>4, <1>5 DEF Numbers

\* What RegistryAuthority::Publish hands to the store has been read and has
\* passed validation under the number it gets.
LEMMA CandidateIsPublished ==
  ASSUME NEW written \in WrittenDocuments, NEW expected, NEW result,
         result = PublishResult(written, expected, FALSE), ~Failed(result)
  PROVE  Published(result.value) /\ result.value.generation = head + 1
<1> DEFINE document == ParseRegistryDocument(written).value
           candidate == Numbered(document, head + 1, identity)
<1>1. ~Failed(ParseRegistryDocument(written))
  BY DEF PublishResult, Then, Failed, Error
<1>2. result = Prepared(document, expected)
  BY <1>1 DEF PublishResult, Then, Failed, Error
<1> HIDE DEF document
<1>3. Prepared(document, expected)
        = IF expected # head THEN Error("StaleGeneration")
          ELSE IF Publishable(Validate(candidate)) THEN Ok(candidate) ELSE Error("ValidationFailed")
  BY DEF Prepared, Numbered
<1>4. ReadDocument(candidate) /\ candidate.generation = head + 1
  BY <1>1, ParseDocumentReads DEF document
<1> HIDE DEF candidate
<1>5. Publishable(Validate(candidate)) /\ result = Ok(candidate)
  <2>1. Failed(Error("StaleGeneration")) /\ Failed(Error("ValidationFailed"))
    BY DEF Failed, Error
  <2> QED BY <1>2, <1>3, <2>1, Zenon
<1>6. result.value = candidate
  <2>1. Ok(candidate).value = candidate
    BY DEF Ok
  <2> QED BY <1>5, <2>1, Zenon
<1> QED BY <1>4, <1>5, <1>6 DEF Published

\* A publication stores the next generation or changes nothing.
LEMMA PublishPublishes ==
  ASSUME TypeOK, NEW written \in Submitted, NEW expected, HandlePublish(written, expected)
  PROVE  /\ answer = NoAnswer /\ answer'.op = "publish"
         /\ \/ UNCHANGED registry
            \/ \E document : /\ Published(document) /\ document.generation = head + 1
                             /\ stored' = Put(stored, head + 1, document)
                             /\ history' = history \cup {head + 1} /\ head' = head + 1
                             /\ plan' = plan /\ identity' = identity
<1> DEFINE result == PublishResult(written, expected, FALSE)
<1>1. Commit(written, result)
  BY DEF HandlePublish
<1>2. written \in WrittenDocuments
  BY PlanIsWritten
<1>3. ~Failed(result) => Published(result.value) /\ result.value.generation = head + 1
  BY <1>2, CandidateIsPublished
<1> HIDE DEF result
<1>4. answer = NoAnswer /\ answer'.op = "publish"
  BY <1>1 DEF Commit, Respond
<1>5. CASE Failed(result)
  BY <1>1, <1>4, <1>5 DEF Commit
<1>6. CASE ~Failed(result)
  <2> DEFINE document == result.value
  <2>1. Published(document) /\ document.generation = head + 1
    BY <1>3, <1>6
  <2>2. /\ stored' = Put(stored, head + 1, document)
        /\ history' = history \cup {head + 1} /\ head' = head + 1
        /\ plan' = plan /\ identity' = identity
    BY <1>1, <1>6 DEF Commit
  <2> HIDE DEF document
  <2> QED BY <1>4, <2>1, <2>2
<1> QED BY <1>5, <1>6

\* A request that changes nothing.
Reads(op) == answer = NoAnswer /\ answer'.op = op /\ UNCHANGED registry

\* A request that only reads changes the answer and nothing else.
LEMMA ReplyReads ==
  ASSUME NEW op, NEW of, NEW result, Reply(op, of, result)
  PROVE  Reads(op) /\ answer'.of = of /\ answer'.result = result
BY DEF Reply, Respond, Reads

\* The steps of the service by what they change.
LEMMA NextCases ==
  ASSUME TypeOK, Next
  PROVE  \/ \E op \in Operations : Reads(op)
         \/ \E written \in Submitted, expected \in Selectors : HandlePublish(written, expected)
         \/ \E keep \in Numbers : HandlePrune(keep)
         \/ Restart
         \/ answer' = NoAnswer /\ UNCHANGED registry
<1>1. ASSUME NEW op \in Operations, NEW of, NEW result, Reply(op, of, result)
      PROVE  \E o \in Operations : Reads(o)
  BY <1>1, ReplyReads
<1>2. CASE Publication
  <2>1. PICK written \in Submitted : \/ HandleValidate(written)
                                     \/ \E expected \in Selectors : HandlePublish(written, expected)
                                                                     \/ HandleDryRun(written, expected)
    BY <1>2 DEF Publication
  <2>2. HandleValidate(written) => \E o \in Operations : Reads(o)
    BY <1>1 DEF HandleValidate, Operations
  <2>3. \A expected : HandleDryRun(written, expected) => \E o \in Operations : Reads(o)
    BY <1>1 DEF HandleDryRun, Operations
  <2> QED BY <2>1, <2>2, <2>3
<1>3. CASE Query
  <2>1. PICK n \in Selectors : \/ \E pair \in Pairs : HandleQueryPair(n, pair)
                               \/ \E members \in Asked : HandleQuerySet(n, members)
    BY <1>3 DEF Query
  <2>2. \A pair : HandleQueryPair(n, pair) => \E o \in Operations : Reads(o)
    BY <1>1 DEF HandleQueryPair, Operations
  <2>3. \A members : HandleQuerySet(n, members) => \E o \in Operations : Reads(o)
    BY <1>1 DEF HandleQuerySet, Operations
  <2> QED BY <2>1, <2>2, <2>3
<1>4. CASE History
  <2>1. \A from, to : HandleDiff(from, to) => \E o \in Operations : Reads(o)
    BY <1>1 DEF HandleDiff, Operations
  <2>2. \A from, to, queries : HandleReplay(from, to, queries) => \E o \in Operations : Reads(o)
    BY <1>1 DEF HandleReplay, Operations
  <2>3. \A rule : HandleProvenance(rule) => \E o \in Operations : Reads(o)
    BY <1>1 DEF HandleProvenance, Operations
  <2>4. HandleGenerations => \E o \in Operations : Reads(o)
    BY <1>1 DEF HandleGenerations, Operations
  <2> QED BY <1>4, <2>1, <2>2, <2>3, <2>4 DEF History
<1>5. CASE Operation
  <2>1. HandleStatus => \E o \in Operations : Reads(o)
    BY <1>1 DEF HandleStatus, Operations
  <2>2. \A stamp : RefuseStamp(stamp) => \E o \in Operations : Reads(o)
    BY <1>1 DEF RefuseStamp, Operations
  <2> QED BY <1>5, <2>1, <2>2 DEF Operation
<1>6. CASE Deliver
  BY <1>6 DEF Deliver
<1> QED BY <1>2, <1>3, <1>4, <1>5, <1>6 DEF Next

\* An empty registry is in order.
LEMMA RegistryInit ==
  ASSUME Init
  PROVE  TypeOK /\ Holds /\ Answers
<1>1. plan \in Seq(SUBSET WrittenDocuments)
  BY RequestsAssumption DEF Init
<1>2. head \in Numbers
  BY <1>1 DEF Init, Numbers
<1>3. DOMAIN stored = {}
  BY DEF Init
<1>4. answer.op = "none"
  BY DEF Init, NoAnswer
<1> QED BY <1>2, <1>3, <1>4, RequestsAssumption DEF Init, TypeOK, Holds, Answers, Answered

\* No request and no restart leaves a generation in the registry that was not
\* published.
LEMMA RegistryStep ==
  ASSUME TypeOK, Holds, [Next]_vars
  PROVE  TypeOK' /\ Holds'
<1>1. ASSUME answer'.op \in Operations, UNCHANGED registry
      PROVE  TypeOK' /\ Holds'
  BY <1>1 DEF TypeOK, Holds, registry, Numbers, Operations
<1>2. ASSUME NEW op \in Operations, Reads(op)
      PROVE  TypeOK' /\ Holds'
  BY <1>1, <1>2 DEF Reads
<1>3. ASSUME NEW written \in Submitted, NEW expected \in Selectors, HandlePublish(written, expected)
      PROVE  TypeOK' /\ Holds'
  <2>1. head \in Nat /\ head + 1 \in Numbers /\ Numbers \subseteq Nat
    BY PlanIsWritten
  <2>2. answer'.op \in Operations
    BY <1>3, PublishPublishes DEF Operations
  <2>3. CASE UNCHANGED registry
    BY <1>1, <2>2, <2>3
  <2>4. ASSUME NEW document, Published(document), document.generation = head + 1,
               stored' = Put(stored, head + 1, document),
               history' = history \cup {head + 1}, head' = head + 1, plan' = plan, identity' = identity
        PROVE  TypeOK' /\ Holds'
    <3>1. /\ DOMAIN stored' = DOMAIN stored \cup {head + 1}
          /\ \A n \in DOMAIN stored' : stored'[n] = IF n = head + 1 THEN document ELSE stored[n]
      BY <2>4 DEF Put
    <3>2. Holds'
      BY <2>4, <3>1 DEF Holds
    <3>3. DOMAIN stored' \subseteq 1..head' /\ head' # 0
      <4>1. DOMAIN stored \subseteq 1..head
        BY DEF TypeOK
      <4> QED BY <2>1, <2>4, <3>1, <4>1
    <3>4. \A n \in DOMAIN stored' : stored'[n].generation = n
      BY <2>4, <3>1 DEF TypeOK
    <3>5. head' \in history' /\ history' \subseteq DOMAIN stored'
      BY <2>4, <3>1 DEF TypeOK
    <3>6. head' \in Numbers' /\ plan' \in Plans /\ identity' \in 1..MaxIdentity
      BY <2>1, <2>4 DEF TypeOK, Numbers
    <3> QED BY <2>2, <3>2, <3>3, <3>4, <3>5, <3>6 DEF TypeOK, Operations
  <2> QED BY <1>3, <2>3, <2>4, PublishPublishes
<1>4. ASSUME NEW keep \in Numbers, HandlePrune(keep)
      PROVE  TypeOK' /\ Holds'
  <2>1. answer'.op \in Operations
    BY <1>4 DEF HandlePrune, Respond, Operations
  <2>2. CASE UNCHANGED registry
    BY <1>1, <2>1, <2>2
  <2>3. CASE ~UNCHANGED registry
    <3> DEFINE removed == Expendable(keep)
    <3>1. /\ stored' = [n \in DOMAIN stored \ removed |-> stored[n]]
          /\ history' = history \ removed
          /\ plan' = plan /\ head' = head /\ identity' = identity
      BY <1>4, <2>3 DEF HandlePrune
    <3>2. head \notin removed
      <4>1. head \in Nat
        <5>1. plan \in Seq(SUBSET WrittenDocuments)
          BY RequestsAssumption DEF TypeOK
        <5> QED BY <5>1 DEF TypeOK, Numbers
      <4> QED BY <4>1 DEF Expendable
    <3> HIDE DEF removed
    <3>3. DOMAIN stored' \subseteq DOMAIN stored /\ \A n \in DOMAIN stored' : stored'[n] = stored[n]
      BY <3>1
    <3>4. history' \subseteq DOMAIN stored' /\ (head' # 0 => head' \in history')
      BY <3>1, <3>2 DEF TypeOK
    <3> QED BY <2>1, <3>1, <3>3, <3>4 DEF TypeOK, Holds, Numbers, Operations
  <2> QED BY <2>2, <2>3
<1>5. CASE Restart
  <2>1. answer'.op \in Operations /\ plan' = plan /\ stored' = stored /\ head' = head
        /\ history' = {head} \ {0} /\ identity' \in 1..MaxIdentity
    BY <1>5, RequestsAssumption DEF Restart, NoAnswer, Operations, TypeOK
  <2> QED BY <2>1 DEF TypeOK, Holds, Numbers, Operations
<1>6. CASE answer' = NoAnswer /\ UNCHANGED registry
  BY <1>1, <1>6 DEF NoAnswer, Operations
<1>7. CASE UNCHANGED vars
  BY <1>1, <1>7 DEF vars, TypeOK, Operations
<1> QED BY <1>2, <1>3, <1>4, <1>5, <1>6, <1>7, NextCases

\* The request that was answered, where it matters.
Told == {"validate", "query_pair", "query_set", "replay_diff", "provenance"}

\* HandleValidate reads the document before it validates it.
LEMMA DocumentIsAssessed ==
  ASSUME TypeOK, NEW written \in Submitted, HandleValidate(written)
  PROVE  ~Failed(answer'.result) => IsAssessment(answer'.result.value)
<1> DEFINE parsed == ParseRegistryDocument(written)
           document == parsed.value
           result == Then(parsed, LAMBDA d : Ok(Assessed(d, Validate(d))))
<1>1. answer'.result = result
  BY ReplyReads DEF HandleValidate
<1>2. result = IF Failed(parsed) THEN parsed ELSE Ok(Assessed(document, Validate(document)))
  BY DEF Then
<1>3. ~Failed(parsed) => ReadDocument(document)
  BY PlanIsWritten, ParseDocumentReads
<1> HIDE DEF result, parsed
<1>4. ASSUME ~Failed(result) PROVE ~Failed(parsed) /\ result.value = Assessed(document, Validate(document))
  <2>1. ~Failed(parsed)
    BY <1>2, <1>4
  <2>2. result = Ok(Assessed(document, Validate(document)))
    BY <1>2, <2>1
  <2> HIDE DEF document
  <2> QED BY <2>1, <2>2 DEF Ok
<1> HIDE DEF document
<1>5. /\ Assessed(document, Validate(document)).document = document
      /\ Assessed(document, Validate(document)).report = Validate(document)
  BY DEF Assessed
<1> QED BY <1>1, <1>3, <1>4, <1>5 DEF IsAssessment

\* HandleQueryPair answers from a generation that is stored.
LEMMA PairIsAnswered ==
  ASSUME TypeOK, NEW n \in Selectors, NEW pair \in Pairs, HandleQueryPair(n, pair)
  PROVE  ~Failed(answer'.result) => IsPairAnswer(stored, answer'.result.value)
<1> DEFINE selected == SelectGeneration(n)
           document == selected.value
           specs == ReadMembers(pair, document)
           result == Then(selected, LAMBDA d :
                       Then(ReadMembers(pair, d), LAMBDA s : Ok(EvaluatePair(d, s[1], s[2]))))
<1>1. answer'.result = result
  BY ReplyReads DEF HandleQueryPair
<1>2. ~Failed(selected) => \E m \in DOMAIN stored : document = stored[m]
  BY DEF SelectGeneration, Snapshot, SnapshotAt, Ok, Error, Failed, TypeOK
<1>3. result = IF Failed(selected) THEN selected
               ELSE IF Failed(specs) THEN specs
               ELSE Ok(EvaluatePair(document, specs.value[1], specs.value[2]))
  BY DEF Then
<1> HIDE DEF result, selected
<1>4. ASSUME ~Failed(result)
      PROVE  ~Failed(selected) /\ ~Failed(specs)
             /\ result.value = EvaluatePair(document, specs.value[1], specs.value[2])
  <2> HIDE DEF document, specs
  <2>1. ~Failed(selected) /\ ~Failed(specs)
    BY <1>3, <1>4
  <2>2. result = Ok(EvaluatePair(document, specs.value[1], specs.value[2]))
    BY <1>3, <2>1
  <2> QED BY <2>1, <2>2 DEF Ok
<1> QED BY <1>1, <1>2, <1>4 DEF IsPairAnswer

\* HandleQuerySet answers from a generation that is stored.
LEMMA SetIsAnswered ==
  ASSUME TypeOK, NEW n \in Selectors, NEW members \in Asked, HandleQuerySet(n, members)
  PROVE  ~Failed(answer'.result) => IsSetAnswer(stored, answer'.result.value)
<1> DEFINE selected == SelectGeneration(n)
           document == selected.value
           specs == ReadMembers(members, document)
           result == Then(selected, LAMBDA d :
                       IF members = <<>> THEN Error("InvalidArgument")
                       ELSE Then(ReadMembers(members, d), LAMBDA s : EvaluateSet(d, s)))
<1>1. answer'.result = result
  BY ReplyReads DEF HandleQuerySet
<1>2. ~Failed(selected) => \E m \in DOMAIN stored : document = stored[m]
  BY DEF SelectGeneration, Snapshot, SnapshotAt, Ok, Error, Failed, TypeOK
<1>3. result = IF Failed(selected) THEN selected
               ELSE IF members = <<>> THEN Error("InvalidArgument")
               ELSE IF Failed(specs) THEN specs
               ELSE EvaluateSet(document, specs.value)
  BY DEF Then
<1>4. Failed(Error("InvalidArgument"))
  BY DEF Failed, Error
<1> HIDE DEF result, selected
<1>5. ASSUME ~Failed(result)
      PROVE  ~Failed(selected) /\ ~Failed(specs) /\ result = EvaluateSet(document, specs.value)
  <2> HIDE DEF document, specs
  <2> QED BY <1>3, <1>4, <1>5
<1> QED BY <1>1, <1>2, <1>5 DEF IsSetAnswer

\* HandleReplay answers from two generations that are stored.
LEMMA ReplayIsAnswered ==
  ASSUME TypeOK, NEW from, NEW to, NEW members \in Asked, HandleReplay(from, to, <<members>>)
  PROVE  ~Failed(answer'.result) => IsReplayAnswer(stored, answer'.of, answer'.result.value)
<1> DEFINE is == SnapshotAt(to)
           was == SnapshotAt(from)
           read == All([i \in DOMAIN <<members>> |-> ReadMembers(<<members>>[i], is.value)])
           result == Then(SnapshotAt(to), LAMBDA after :
                       Then(All([i \in DOMAIN <<members>> |-> ReadMembers(<<members>>[i], after)]), LAMBDA r :
                         Then(SnapshotAt(from), LAMBDA before : ReplayDiff(before, after, r))))
<1>1. answer'.result = result /\ answer'.of = <<from, to, <<members>>>>
  BY ReplyReads DEF HandleReplay
<1>2. /\ ~Failed(is) => to \in DOMAIN stored /\ is.value = stored[to]
      /\ ~Failed(was) => from \in DOMAIN stored /\ was.value = stored[from]
  BY DEF SnapshotAt, Ok, Error, Failed
<1>3. result = IF Failed(is) THEN is
               ELSE IF Failed(read) THEN read
               ELSE IF Failed(was) THEN was
               ELSE ReplayDiff(was.value, is.value, read.value)
  BY DEF Then
<1> DEFINE specs == ReadMembers(members, is.value)
<1>4. ~Failed(read) => ~Failed(specs) /\ read.value = <<specs.value>>
  <2> DEFINE one == [i \in DOMAIN <<members>> |-> ReadMembers(<<members>>[i], is.value)]
             codes == [i \in DOMAIN one |-> one[i].error]
  <2>1. DOMAIN one = 1..1 /\ one[1] = specs
    OBVIOUS
  <2> HIDE DEF one, specs
  <2>2. read = IF FirstError(codes) # "none" THEN Error(FirstError(codes))
               ELSE Ok([i \in DOMAIN one |-> one[i].value])
    BY DEF All, one
  <2>3. DOMAIN codes = 1..1 /\ codes[1] = specs.error
    BY <2>1
  <2>4. [i \in DOMAIN one |-> one[i].value] = <<specs.value>>
    BY <2>1
  <2> HIDE DEF codes, read
  <2>5. FirstError(codes) = "none" <=> specs.error = "none"
    <3>1. FirstError(codes) = "none" <=> \A i \in 1..1 : codes[i] = "none"
      BY <2>3, NoErrorMeansNone
    <3>2. \A i \in 1..1 : i = 1
      OBVIOUS
    <3> QED BY <2>3, <3>1, <3>2
  <2> QED BY <2>2, <2>4, <2>5 DEF Failed, Error, Ok
<1> HIDE DEF result, is, was, read
<1>5. ASSUME ~Failed(result)
      PROVE  ~Failed(is) /\ ~Failed(was) /\ ~Failed(read) /\ result = ReplayDiff(was.value, is.value, read.value)
  BY <1>3, <1>5
<1> QED BY <1>1, <1>2, <1>4, <1>5 DEF IsReplayAnswer

\* HandleProvenance answers from the generations in memory.
LEMMA ProvenanceIsAnswered ==
  ASSUME NEW rule, HandleProvenance(rule)
  PROVE  IsProvenanceAnswer(stored, history, answer'.of, answer'.result.value)
<1> DEFINE order == InOrder(history, <)
           v == ProvenanceHistory(rule, [i \in DOMAIN order |-> stored[order[i]]])
<1>1. Reply("provenance", rule, Ok(v))
  BY DEF HandleProvenance
<1> HIDE DEF v
<1>2. answer'.of = rule /\ answer'.result = Ok(v)
  BY <1>1, ReplyReads
<1>3. Ok(v).value = v
  BY DEF Ok
<1> QED BY <1>2, <1>3 DEF IsProvenanceAnswer, v

\* Other answers are none of these.
LEMMA OtherAnswers ==
  ASSUME answer'.op \notin Told
  PROVE  Answers'
BY DEF Told, Answers, Answered

\* An answer still fits what is stored when it is delivered: nothing is published
\* or pruned in between.
LEMMA AnswersStep ==
  ASSUME TypeOK, Holds, Answers, [Next]_vars
  PROVE  Answers'
<1>0. ASSUME NEW op, NEW of, NEW result, op \notin Told, Reply(op, of, result)
      PROVE  Answers'
  BY <1>0, ReplyReads, OtherAnswers DEF Reads
<1>1. ASSUME NEW n \in Selectors, NEW pair \in Pairs, HandleQueryPair(n, pair)
      PROVE  Answers'
  <2>1. answer'.op = "query_pair" /\ stored' = stored
    BY <1>1, ReplyReads DEF HandleQueryPair, Reads, registry
  <2> QED BY <1>1, <2>1, PairIsAnswered DEF Answers, Answered, Value
<1>2. ASSUME NEW n \in Selectors, NEW members \in Asked, HandleQuerySet(n, members)
      PROVE  Answers'
  <2>1. answer'.op = "query_set" /\ stored' = stored
    BY <1>2, ReplyReads DEF HandleQuerySet, Reads, registry
  <2> QED BY <1>2, <2>1, SetIsAnswered DEF Answers, Answered, Value
<1>3. ASSUME NEW from, NEW to, NEW members \in Asked, HandleReplay(from, to, <<members>>)
      PROVE  Answers'
  <2>1. answer'.op = "replay_diff" /\ stored' = stored
    BY <1>3, ReplyReads DEF HandleReplay, Reads, registry
  <2> QED BY <1>3, <2>1, ReplayIsAnswered DEF Answers, Answered, Value
<1>4. ASSUME NEW rule, HandleProvenance(rule)
      PROVE  Answers'
  <2>1. answer'.op = "provenance" /\ stored' = stored /\ history' = history
    BY <1>4, ReplyReads DEF HandleProvenance, Reads, registry
  <2> QED BY <1>4, <2>1, ProvenanceIsAnswered DEF Answers, Answered, Value
<1>5. CASE Publication
  <2>1. PICK written \in Submitted : \/ HandleValidate(written)
                                     \/ \E expected \in Selectors : HandlePublish(written, expected)
                                                                     \/ HandleDryRun(written, expected)
    BY <1>5 DEF Publication
  <2>2. ASSUME HandleValidate(written) PROVE Answers'
    <3>1. answer'.op = "validate"
      BY <2>2, ReplyReads DEF HandleValidate, Reads
    <3> QED BY <2>2, <3>1, DocumentIsAssessed DEF Answers, Answered, Value
  <2>3. \A expected : HandleDryRun(written, expected) => Answers'
    BY <1>0 DEF HandleDryRun, Told
  <2>4. \A expected : HandlePublish(written, expected) => Answers'
    BY PublishPublishes, OtherAnswers DEF Told
  <2> QED BY <2>1, <2>2, <2>3, <2>4
<1>6. CASE Query
  BY <1>1, <1>2, <1>6 DEF Query
<1>7. CASE History
  <2>1. \A from, to : HandleDiff(from, to) => Answers'
    BY <1>0 DEF HandleDiff, Told
  <2>2. HandleGenerations => Answers'
    BY <1>0 DEF HandleGenerations, Told
  <2> QED BY <1>3, <1>4, <1>7, <2>1, <2>2 DEF History
<1>8. CASE Operation
  <2>1. HandleStatus => Answers'
    BY <1>0 DEF HandleStatus, Told
  <2>2. \A stamp : RefuseStamp(stamp) => Answers'
    BY <1>0 DEF RefuseStamp, Told
  <2>3. \A keep : HandlePrune(keep) => Answers'
    BY OtherAnswers DEF HandlePrune, Respond, Told
  <2> QED BY <1>8, <2>1, <2>2, <2>3 DEF Operation
<1>9. CASE Deliver \/ Restart
  BY <1>9, OtherAnswers DEF Deliver, Restart, NoAnswer, Told
<1>10. CASE UNCHANGED vars
  BY <1>10 DEF vars, registry, Answers, Answered, Value
<1> QED BY <1>5, <1>6, <1>7, <1>8, <1>9, <1>10 DEF Next

\* Whatever is stored was published, and whatever is answered was computed from
\* what is stored.
LEMMA ServiceInvariant == Spec => [](TypeOK /\ Holds /\ Answers)
<1>1. Init => TypeOK /\ Holds /\ Answers
  BY RegistryInit
<1>2. TypeOK /\ Holds /\ Answers /\ [Next]_vars => (TypeOK /\ Holds /\ Answers)'
  BY RegistryStep, AnswersStep
<1> QED BY <1>1, <1>2, PTL DEF Spec

\* The registry keeps its shape: the generation under a number has that number,
\* the head is in memory, and what is in memory is on disk (RegistryAuthority).
THEOREM ServiceTypes == Spec => []TypeOK
BY ServiceInvariant, PTL

\* A pair that is answered was evaluated on a published generation.
LEMMA PairAnswer ==
  ASSUME Holds, Answers, Answered("query_pair")
  PROVE  \E d, left, right : /\ Published(d) /\ Value = EvaluatePair(d, left, right)
                             /\ Value.document = d /\ Value.subjects = <<left, right>>
<1>1. PICK n \in DOMAIN stored, pair \in Pairs :
        LET specs == ReadMembers(pair, stored[n])
        IN ~Failed(specs) /\ Value = EvaluatePair(stored[n], specs.value[1], specs.value[2])
  BY DEF Answers, IsPairAnswer
<1> DEFINE d == stored[n]
           specs == ReadMembers(pair, d)
           left == specs.value[1]
           right == specs.value[2]
<1>2. Published(d) /\ Value = EvaluatePair(d, left, right)
  BY <1>1 DEF Holds
<1> HIDE DEF d, left, right
<1>3. Value.document = d /\ Value.subjects = <<left, right>>
  <2> DEFINE v == EvaluatePair(d, left, right)
  <2>1. PairFacts(d, left, right, v, Applications(d, left, right), WeighAll(Applications(d, left, right)))
    BY DecisionOfPair
  <2> HIDE DEF v
  <2>2. v.document = d /\ v.subjects = <<left, right>>
    BY <2>1 DEF PairFacts
  <2>3. Value = v
    BY <1>2 DEF v
  <2> QED BY <2>2, <2>3
<1> QED BY <1>2, <1>3

\* A set that is answered was evaluated on a published generation.
LEMMA SetAnswer ==
  ASSUME Holds, Answers, Answered("query_set")
  PROVE  \E d, members : /\ Published(d)
                         /\ ~Failed(EvaluateSet(d, members)) /\ Value = EvaluateSet(d, members).value
<1>1. PICK k \in DOMAIN stored, members \in Asked :
        LET specs == ReadMembers(members, stored[k])
            result == EvaluateSet(stored[k], specs.value)
        IN ~Failed(specs) /\ ~Failed(result) /\ Value = result.value
  BY DEF Answers, IsSetAnswer
<1>2. Published(stored[k])
  BY DEF Holds
<1> QED BY <1>1, <1>2

\* The decision about a set is one about all its members and one about each two.
LEMMA EvaluateSetParts ==
  ASSUME NEW d, NEW members, ~Failed(EvaluateSet(d, members)), NEW v, v = EvaluateSet(d, members).value
  PROVE  /\ v.set_level = EvaluateSetLevel(d, members) /\ v.members = members
         /\ \A p \in DOMAIN v.pairs : /\ p[1] \in DOMAIN members /\ p[2] \in DOMAIN members
                                      /\ v.pairs[p] = EvaluatePair(d, members[p[1]], members[p[2]])
<1> DEFINE chosen == {p \in (DOMAIN members) \X (DOMAIN members) : p[1] < p[2]}
           pairs == [p \in chosen |-> EvaluatePair(d, members[p[1]], members[p[2]])]
           level == EvaluateSetLevel(d, members)
<1>1. v = SetDecision(d, members, level, pairs)
  <2> HIDE DEF level, pairs
  <2> QED BY DEF EvaluateSet, Ok, Error, Failed, level, pairs
<1>2. v.set_level = level /\ v.pairs = pairs /\ v.members = members
  <2> HIDE DEF level, pairs
  <2> QED BY <1>1 DEF SetDecision
<1>3. \A p \in chosen : p[1] \in DOMAIN members /\ p[2] \in DOMAIN members
  OBVIOUS
<1> HIDE DEF level, chosen
<1> QED BY <1>2, <1>3 DEF level

\* However many rules matched and however few the evidence keeps, it has the one
\* that decided, and it says when rules are missing (EvaluatePair, EvaluateSet).
THEOREM DeciderIsAlwaysInEvidence == Spec => []DeciderIsInEvidence
<1>1. ASSUME Holds, Answers, Answered("query_pair") PROVE ShowsDecider(Value)
  <2>1. PICK d, left, right : Published(d) /\ Value = EvaluatePair(d, left, right)
    BY <1>1, PairAnswer
  <2> QED BY <2>1, PairShowsDecider
<1>2. ASSUME Holds, Answers, Answered("query_set")
      PROVE  ShowsDecider(Value.set_level) /\ \A p \in DOMAIN Value.pairs : ShowsDecider(Value.pairs[p])
  <2>1. PICK d, members : /\ Published(d)
                          /\ ~Failed(EvaluateSet(d, members)) /\ Value = EvaluateSet(d, members).value
    BY <1>2, SetAnswer
  <2>2. /\ Value.set_level = EvaluateSetLevel(d, members)
        /\ \A p \in DOMAIN Value.pairs : Value.pairs[p] = EvaluatePair(d, members[p[1]], members[p[2]])
    BY <2>1, EvaluateSetParts
  <2> QED BY <2>1, <2>2, SetLevelShowsDecider, PairShowsDecider, PublishedIsUnambiguous
<1>3. Holds /\ Answers => DeciderIsInEvidence
  BY <1>1, <1>2 DEF DeciderIsInEvidence
<1> QED BY <1>3, ServiceInvariant, PTL

-----------------------------------------------------------------------------
(* The components that are read.                                           *)

\* For each protocol or schema finitely many versions.
DeclaresVersions(map) == \A id \in DOMAIN map : map[id] \subseteq Versions /\ IsFiniteSet(map[id])

\* A component that was read.
ReadSpec(spec) ==
  /\ spec.version \in Versions
  /\ DeclaresVersions(spec.protocols) /\ DeclaresVersions(spec.schemas)
  /\ {"closed", "capabilities", "protocols", "schemas", "features"} \subseteq DOMAIN spec

\* The versions a component lists are read as finite sets.
LEMMA VersionsAreRead ==
  ASSUME NEW entries \in WrittenVersions
  PROVE  DeclaresVersions(AsMap(entries, LAMBDA e : ToSet(e.versions)))
<1> DEFINE place(id) == CHOOSE i \in DOMAIN entries :
                          entries[i].id = id /\ \A k \in i + 1..Len(entries) : entries[k].id # id
           map == AsMap(entries, LAMBDA e : ToSet(e.versions))
<1>1. map = [id \in {entries[i].id : i \in DOMAIN entries} |-> ToSet(entries[place(id)].versions)]
  BY DEF AsMap
<1>2. Len(entries) \in Nat /\ DOMAIN entries = 1..Len(entries)
      /\ \A i \in DOMAIN entries : entries[i].versions \in Seq(Versions)
  <2> DEFINE E == [id : STRING, versions : Seq(Versions)]
  <2>1. entries \in Seq(E) /\ \A e \in E : e.versions \in Seq(Versions)
    BY DEF WrittenVersions
  <2> HIDE DEF E
  <2>2. Len(entries) \in Nat /\ DOMAIN entries = 1..Len(entries) /\ \A i \in DOMAIN entries : entries[i] \in E
    BY <2>1
  <2> QED BY <2>1, <2>2
<1>3. ASSUME NEW id \in {entries[i].id : i \in DOMAIN entries} PROVE place(id) \in DOMAIN entries
  <2> DEFINE T == {i \in DOMAIN entries : entries[i].id = id}
  <2>1. T # {} /\ T \subseteq 1..Len(entries)
    BY <1>2
  <2>2. IsFiniteSet(T)
    <3>1. IsFiniteSet(1..Len(entries))
      BY <1>2, FS_Interval
    <3> HIDE DEF T
    <3> QED BY <2>1, <3>1, FS_Subset
  <2>3. Max(T) \in T /\ \A m \in T : m <= Max(T)
    <3>1. T \in SUBSET Nat
      BY <1>2, <2>1
    <3> HIDE DEF T
    <3> QED BY <2>1, <2>2, <3>1, GreatestNatural
  <2>4. \A m \in 1..Len(entries) : entries[m].id = id => m <= Max(T)
    BY <1>2, <2>3
  <2>5. \E top \in 1..Len(entries) : entries[top].id = id /\ \A m \in 1..Len(entries) : entries[m].id = id => m <= top
    BY <2>1, <2>3, <2>4
  <2>6. \E i \in DOMAIN entries : entries[i].id = id /\ \A k \in i + 1..Len(entries) : entries[k].id # id
    <3>1. PICK top \in 1..Len(entries) : entries[top].id = id /\ \A m \in 1..Len(entries) : entries[m].id = id => m <= top
      BY <2>5
    <3>2. \A k \in top + 1..Len(entries) : k \in 1..Len(entries) /\ ~(k <= top)
      BY <1>2
    <3> QED BY <1>2, <3>1, <3>2
  <2> QED BY <2>6
<1> HIDE DEF place, map
<1>4. ASSUME NEW id \in DOMAIN map PROVE map[id] \subseteq Versions /\ IsFiniteSet(map[id])
  <2>1. place(id) \in DOMAIN entries
    BY <1>1, <1>3, <1>4
  <2> DEFINE s == entries[place(id)].versions
  <2>2. s \in Seq(Versions) /\ map[id] = ToSet(s)
    BY <1>1, <1>2, <1>4, <2>1
  <2> HIDE DEF s
  <2>3. Len(s) \in Nat /\ DOMAIN s = 1..Len(s) /\ \A i \in DOMAIN s : s[i] \in Versions
    BY <2>2
  <2>4. ToSet(s) \subseteq Versions
    BY <2>3 DEF ToSet
  <2>5. IsFiniteSet(ToSet(s))
    <3>1. IsFiniteSet(DOMAIN s)
      BY <2>3, FS_Interval
    <3>2. s \in Surjection(DOMAIN s, ToSet(s))
      BY <2>2 DEF ToSet, Surjection
    <3> QED BY <3>1, <3>2, FS_Surjection
  <2> QED BY <2>2, <2>4, <2>5
<1> QED BY <1>4 DEF map, DeclaresVersions

\* What ParseComponentSpec lets through has versions that can be compared.
LEMMA ParseComponentReads ==
  ASSUME NEW written \in WrittenComponents, NEW taxonomy, ~Failed(ParseComponentSpec(written, taxonomy))
  PROVE  ReadSpec(ParseComponentSpec(written, taxonomy).value)
<1> DEFINE Means(e) == ReadValue(taxonomy["capabilities"][e.id], e.json)
           result == [written EXCEPT
             !.features = {e.id : e \in ToSet(@)},
             !.capabilities = AsMap(@, LAMBDA e : Means(e).value),
             !.protocols = AsMap(@, LAMBDA e : ToSet(e.versions)),
             !.schemas = AsMap(@, LAMBDA e : ToSet(e.versions))]
<1>1. ParseComponentSpec(written, taxonomy).value = result
  BY DEF ParseComponentSpec, Failed, Error, Ok
<1>2. /\ result.version = written.version
      /\ result.protocols = AsMap(written.protocols, LAMBDA e : ToSet(e.versions))
      /\ result.schemas = AsMap(written.schemas, LAMBDA e : ToSet(e.versions))
      /\ DOMAIN result = DOMAIN written
      /\ {"closed", "capabilities", "protocols", "schemas", "features"} \subseteq DOMAIN written
  BY DEF WrittenComponents
<1> HIDE DEF result
<1>3. written.version \in Versions /\ written.protocols \in WrittenVersions /\ written.schemas \in WrittenVersions
  BY DEF WrittenComponents
<1>4. DeclaresVersions(result.protocols) /\ DeclaresVersions(result.schemas)
  BY <1>2, <1>3, VersionsAreRead
<1> QED BY <1>1, <1>2, <1>3, <1>4 DEF ReadSpec

\* The components of a request are read one by one.
LEMMA MembersAreRead ==
  ASSUME NEW members \in Asked, NEW document, ~Failed(ReadMembers(members, document))
  PROVE  LET specs == ReadMembers(members, document).value
         IN /\ Len(members) \in Nat /\ DOMAIN members = 1..Len(members)
            /\ specs = [i \in 1..Len(members) |-> specs[i]]
            /\ \A i \in 1..Len(members) : ReadSpec(specs[i])
<1> DEFINE results == [i \in DOMAIN members |-> ParseComponentSpec(members[i], document.taxonomy)]
           codes == [i \in DOMAIN results |-> results[i].error]
           specs == [i \in DOMAIN results |-> results[i].value]
           n == Len(members)
<1>1. n \in Nat /\ DOMAIN members = 1..n /\ \A i \in 1..n : members[i] \in WrittenComponents
  BY RequestsAssumption
<1>2. DOMAIN results = 1..n /\ DOMAIN codes = 1..n /\ DOMAIN specs = 1..n
  BY <1>1
<1>3. ReadMembers(members, document)
        = IF FirstError(codes) # "none" THEN Error(FirstError(codes)) ELSE Ok(specs)
  BY DEF ReadMembers, All
<1>4. \A i \in 1..n : results[i] = ParseComponentSpec(members[i], document.taxonomy)
                      /\ codes[i] = results[i].error /\ specs[i] = results[i].value
  BY <1>2
<1> HIDE DEF codes, specs, results, n
<1>5. FirstError(codes) = "none" /\ ReadMembers(members, document).value = specs
  BY <1>3 DEF Failed, Error, Ok
<1>6. \A i \in 1..n : codes[i] = "none"
  BY <1>1, <1>2, <1>5, NoErrorMeansNone
<1>7. ASSUME NEW i \in 1..n PROVE ReadSpec(specs[i])
  <2>1. ~Failed(ParseComponentSpec(members[i], document.taxonomy))
    BY <1>4, <1>6 DEF Failed
  <2> QED BY <1>1, <1>4, <2>1, ParseComponentReads
<1>8. specs = [i \in 1..n |-> specs[i]]
  BY <1>2 DEF specs
<1> QED BY <1>1, <1>5, <1>7, <1>8 DEF n

-----------------------------------------------------------------------------
(* Rules of one tier.                                                      *)

\* Validate refuses two rules that overlap in one tier with different outcomes
\* (ConflictDiagnostics).
LEMMA PublishedHasNoConflict ==
  ASSUME NEW document, Published(document), NEW i \in DOMAIN document.rules,
         NEW k \in i + 1..Len(document.rules)
  PROVE  ~Conflict(document.rules[i], document.rules[k])
<1> DEFINE rules == document.rules
           said == Wrong("ConflictingRules", <<"rules", RuleRef(rules[i]), RuleRef(rules[k])>>)
<1>1. SUFFICES ASSUME Conflict(rules[i], rules[k]) PROVE FALSE
  OBVIOUS
<1>2. said \in ConflictDiagnostics(rules)
  BY <1>1 DEF ConflictDiagnostics
<1>3. said \in Validate(document)
  <2> DEFINE first == TaxonomyDiagnostics(document.taxonomy) \cup DuplicateDiagnostics(document.rules)
                        \cup UNION {RuleDiagnostics(rule, document) : rule \in ToSet(document.rules)}
             conflicts == ConflictDiagnostics(document.rules)
  <2>1. Validate(document) = first \cup conflicts \cup ReachabilityDiagnostics(document.rules)
                               \cup CycleDiagnostics(document.rules) \cup UnusedDiagnostics(document)
    BY DEF Validate
  <2>2. said \in conflicts
    BY <1>2
  <2> HIDE DEF first, conflicts, said
  <2> QED BY <2>1, <2>2
<1>4. said.severity = "error"
  BY DEF Wrong, Diagnostic
<1> QED BY <1>3, <1>4 DEF Published, Publishable, Errors

\* Two ranges that admit one version overlap (RangesOverlap).
LEMMA AdmittedByBothOverlap ==
  ASSUME NEW a \in ParsedRanges, NEW b \in ParsedRanges, NEW v \in Versions,
         RangeAdmits(a, v), RangeAdmits(b, v)
  PROVE  RangesOverlap(a, b)
<1>1. a \in Seq(ProperIntervals) /\ Canonical(a) /\ b \in Seq(ProperIntervals) /\ Canonical(b)
  BY DEF ParsedRanges
<1>2. Covers(a, v) /\ Covers(b, v)
  BY DEF RangeAdmits, Admits, Covers
<1>3. Covers(Intersect(a, b), v)
  BY <1>1, <1>2, IntersectIsIntersection
<1>4. DOMAIN Intersect(a, b) # {}
  BY <1>3 DEF Covers
<1> QED BY <1>4 DEF RangesOverlap

\* Two selectors that match one component overlap (SelectorsOverlap).
LEMMA MatchedByBothOverlap ==
  ASSUME NEW s \in WrittenSelectors, NEW t \in WrittenSelectors, NEW spec, ReadSpec(spec),
         SelectorMatches(s, spec), SelectorMatches(t, spec)
  PROVE  SelectorsOverlap(s, t)
<1>1. \A f \in NamedFields : s[f] = Absent \/ t[f] = Absent \/ s[f] = t[f]
  BY DEF SelectorMatches
<1>2. s.version = Absent \/ s.version \in ParsedRanges
  BY DEF WrittenSelectors, Optional
<1>3. t.version = Absent \/ t.version \in ParsedRanges
  BY DEF WrittenSelectors, Optional
<1>4. s.version = Absent \/ t.version = Absent \/ RangesOverlap(s.version, t.version)
  BY <1>2, <1>3, AdmittedByBothOverlap DEF SelectorMatches, ReadSpec
<1> QED BY <1>1, <1>4 DEF SelectorsOverlap

\* A rule matches in one of the orientations the validation looks at
\* (RuleOrientations).
LEMMA MatchesInAnOrientation ==
  ASSUME NEW rule, Read(rule), rule.arity = "pair", NEW left, NEW right, RuleMatches(rule, left, right)
  PROVE  \E x \in Orientations(rule) :
           /\ x[1] \in WrittenSelectors /\ x[2] \in WrittenSelectors
           /\ SelectorMatches(x[1], left) /\ SelectorMatches(x[2], right)
<1>1. rule.left \in WrittenSelectors /\ rule.right \in WrittenSelectors /\ rule.symmetry \in Symmetries
  BY DEF Read
<1>2. CASE Forward(rule, left, right) /\ rule.symmetry # "right_to_left"
  <2>1. <<rule.left, rule.right>> \in Orientations(rule)
    BY <1>1, <1>2 DEF Orientations, Symmetries
  <2>2. SelectorMatches(rule.left, left) /\ SelectorMatches(rule.right, right)
    BY <1>2 DEF Forward
  <2> QED BY <1>1, <2>1, <2>2
<1>3. CASE Backward(rule, left, right) /\ rule.symmetry # "left_to_right"
  <2>1. <<rule.right, rule.left>> \in Orientations(rule)
    BY <1>1, <1>3 DEF Orientations, Symmetries
  <2>2. SelectorMatches(rule.right, left) /\ SelectorMatches(rule.left, right)
    BY <1>3 DEF Backward, Forward
  <2> QED BY <1>1, <2>1, <2>2
<1> QED BY <1>1, <1>2, <1>3 DEF RuleMatches, Symmetries

\* Two rules that match one pair of components overlap (RuleRegionsOverlap).
LEMMA MatchingRulesOverlap ==
  ASSUME NEW a, NEW b, Read(a), Read(b), a.arity = "pair", b.arity = "pair",
         NEW left, NEW right, ReadSpec(left), ReadSpec(right),
         RuleMatches(a, left, right), RuleMatches(b, left, right)
  PROVE  RuleRegionsOverlap(a, b)
<1>1. PICK x \in Orientations(a) : /\ x[1] \in WrittenSelectors /\ x[2] \in WrittenSelectors
                                   /\ SelectorMatches(x[1], left) /\ SelectorMatches(x[2], right)
  BY MatchesInAnOrientation
<1>2. PICK y \in Orientations(b) : /\ y[1] \in WrittenSelectors /\ y[2] \in WrittenSelectors
                                   /\ SelectorMatches(y[1], left) /\ SelectorMatches(y[2], right)
  BY MatchesInAnOrientation
<1>3. SelectorsOverlap(x[1], y[1]) /\ SelectorsOverlap(x[2], y[2])
  BY <1>1, <1>2, MatchedByBothOverlap
<1> QED BY <1>3 DEF RuleRegionsOverlap

\* Rules of one tier that overlap have one outcome, in what validation lets through.
LEMMA OverlappingAgree ==
  ASSUME NEW d, Published(d), NEW a \in ToSet(d.rules), NEW b \in ToSet(d.rules), Tier(a) = Tier(b),
         RuleRegionsOverlap(a, b), RuleRegionsOverlap(b, a)
  PROVE  a.outcome = b.outcome
<1> DEFINE rules == d.rules
<1>3. DOMAIN rules = 1..Len(rules) /\ Len(rules) \in Nat
  BY DEF Published, ReadDocument
<1>4. PICK i \in DOMAIN rules, k \in DOMAIN rules : a = rules[i] /\ b = rules[k]
  BY DEF ToSet
<1>5. CASE i < k
  <2>1. k \in i + 1..Len(rules)
    BY <1>3, <1>5
  <2> QED BY <1>4, <2>1, PublishedHasNoConflict DEF Conflict
<1>6. CASE k < i
  <2>1. i \in k + 1..Len(rules)
    BY <1>3, <1>6
  <2> QED BY <1>4, <2>1, PublishedHasNoConflict DEF Conflict
<1>7. CASE i = k
  BY <1>4, <1>7
<1> QED BY <1>3, <1>5, <1>6, <1>7

\* Rules of one tier that match one pair have one outcome.
LEMMA OneTierAgrees ==
  ASSUME NEW d, Published(d), NEW left, NEW right, ReadSpec(left), ReadSpec(right),
         NEW a \in Matching(d, left, right), NEW b \in Matching(d, left, right), Tier(a) = Tier(b)
  PROVE  a.outcome = b.outcome
<1>1. /\ a \in ToSet(d.rules) /\ b \in ToSet(d.rules) /\ Read(a) /\ Read(b)
      /\ a.arity = "pair" /\ b.arity = "pair" /\ RuleMatches(a, left, right) /\ RuleMatches(b, left, right)
  BY MatchingRules, PublishedIsUnambiguous DEF Matching, ActiveRules
<1>2. RuleRegionsOverlap(a, b) /\ RuleRegionsOverlap(b, a)
  BY <1>1, MatchingRulesOverlap
<1> QED BY <1>1, <1>2, OverlappingAgree

\* So have set rules of one tier that select one member.
LEMMA OneSetTierAgrees ==
  ASSUME NEW d, Published(d), NEW members, NEW m, ReadSpec(m),
         NEW a \in SetMatching(d, members), NEW b \in SetMatching(d, members), Tier(a) = Tier(b),
         SelectorMatches(a.left, m), SelectorMatches(b.left, m)
  PROVE  a.outcome = b.outcome
<1>1. /\ a \in ToSet(d.rules) /\ b \in ToSet(d.rules) /\ Read(a) /\ Read(b)
      /\ a.arity = "set" /\ b.arity = "set"
  BY SetAppliedSays, PublishedIsUnambiguous
<1>2. a.left \in WrittenSelectors /\ b.left \in WrittenSelectors
  BY <1>1 DEF Read
<1>3. SelectorsOverlap(a.left, b.left) /\ SelectorsOverlap(b.left, a.left)
  BY <1>2, MatchedByBothOverlap
<1>4. SelectorsOverlap(AnyComponent, AnyComponent)
  BY DEF SelectorsOverlap, AnyComponent, NamedFields
<1>5. Orientations(a) = {<<a.left, AnyComponent>>} /\ Orientations(b) = {<<b.left, AnyComponent>>}
  BY <1>1 DEF Orientations
<1>6. RuleRegionsOverlap(a, b) /\ RuleRegionsOverlap(b, a)
  BY <1>1, <1>3, <1>4, <1>5 DEF RuleRegionsOverlap
<1> QED BY <1>1, <1>6, OverlappingAgree

\* Each entry of the evidence is a rule that was weighed.
LEMMA EntriesAreWeighed ==
  ASSUME NEW d, NEW arity, NEW subjects, NEW problem, NEW apps, NEW n \in Nat, DOMAIN apps = 1..n,
         \A k \in 1..n : "decided" \in DOMAIN apps[k],
         NEW e \in Entries(Conclude(d, arity, subjects, problem, apps))
  PROVE  \E k \in 1..n : LET a == apps[k]
                         IN /\ e.rule = a.rule /\ e.status = a.status
                            /\ e.resolved = a.resolved /\ e.verdicts = a.verdicts
<1> DEFINE v == Conclude(d, arity, subjects, problem, apps)
           w == WeighAll(apps)
<1>1. Weighs(w, n, apps) /\ DOMAIN w.evidence = 1..Len(w.evidence)
  BY WeighAllWeighs
<1>2. v.evidence = w.evidence
  BY DEF Conclude
<1>3. PICK k \in DOMAIN v.evidence : e = v.evidence[k]
  BY DEF Entries, ToSet
<1> HIDE DEF w, v
<1>4. k \in 1..Len(w.evidence) /\ e = w.evidence[k]
  BY <1>1, <1>2, <1>3
<1>5. Shown(w, k) \in 1..n
  BY <1>1, <1>4, DecisionsAssumption DEF Weighs, Shown
<1>6. e = Deciding(apps[Shown(w, k)]) \/ e = Passed(apps[Shown(w, k)])
  BY <1>1, <1>4 DEF Weighs, KeepsUpTo
<1> DEFINE a == apps[Shown(w, k)]
<1>7. "decided" \in DOMAIN a
  BY <1>5
<1>8. e = Deciding(a) \/ e = Passed(a)
  BY <1>6
<1> HIDE DEF a
<1>9. e.rule = a.rule /\ e.status = a.status /\ e.resolved = a.resolved /\ e.verdicts = a.verdicts
  BY <1>7, <1>8, MarksAreKept
<1> QED BY <1>5, <1>9 DEF a

\* Each entry of the evidence is a rule that matched, applied to the pair.
LEMMA EntriesAreApplied ==
  ASSUME NEW d, Published(d), NEW left, NEW right, NEW e \in Entries(EvaluatePair(d, left, right))
  PROVE  \E rule \in Matching(d, left, right) :
           LET a == Applied(d, left, right, rule)
           IN /\ e.rule = rule /\ e.status = a.status /\ e.resolved = a.resolved /\ e.verdicts = a.verdicts
<1> DEFINE apps == Applications(d, left, right)
<1>1. PICK n \in Nat :
        /\ DOMAIN apps = 1..n
        /\ \A k \in 1..n : \E rule \in Matching(d, left, right) : apps[k] = Applied(d, left, right, rule)
  BY PairIsWeighed
<1>2. e \in Entries(Conclude(d, "pair", <<left, right>>, PairProblem(d, left, right), apps))
  BY EvaluatePairConcludes
<1> HIDE DEF apps
<1>3. \A k \in 1..n : "decided" \in DOMAIN apps[k]
  BY <1>1, MatchingRules, PublishedIsUnambiguous, ApplyRuleSays DEF Applied
<1>4. PICK k \in 1..n : LET a == apps[k]
                        IN /\ e.rule = a.rule /\ e.status = a.status
                           /\ e.resolved = a.resolved /\ e.verdicts = a.verdicts
  BY <1>1, <1>2, <1>3, EntriesAreWeighed
<1>5. PICK rule \in Matching(d, left, right) : apps[k] = Applied(d, left, right, rule)
  BY <1>1
<1>6. Applied(d, left, right, rule).rule = rule
  BY <1>5, MatchingRules, PublishedIsUnambiguous, ApplyRuleSays DEF Applied
<1> QED BY <1>4, <1>5, <1>6

\* Each entry of the evidence about a set is a rule about the set, applied to it.
LEMMA SetEntriesAreApplied ==
  ASSUME NEW d, Unambiguous(d), NEW members, NEW e \in Entries(EvaluateSetLevel(d, members))
  PROVE  \E rule \in SetMatching(d, members) :
           LET a == SetApplied(d, members, rule)
           IN e.rule = rule /\ e.status = a.status /\ e.resolved = a.resolved
<1>1. PICK n, apps :
        /\ n \in Nat
        /\ EvaluateSetLevel(d, members) = Conclude(d, "set", members, SetProblem(d, members), apps)
        /\ DOMAIN apps = 1..n
        /\ \A k \in 1..n : \E rule \in SetMatching(d, members) : apps[k] = SetApplied(d, members, rule)
  BY SetLevelIsWeighed
<1>2. \A k \in 1..n : "decided" \in DOMAIN apps[k]
  BY <1>1, SetAppliedSays
<1>3. e \in Entries(Conclude(d, "set", members, SetProblem(d, members), apps))
  BY <1>1
<1>4. PICK k \in 1..n : LET a == apps[k]
                        IN /\ e.rule = a.rule /\ e.status = a.status
                           /\ e.resolved = a.resolved /\ e.verdicts = a.verdicts
  BY <1>1, <1>2, <1>3, EntriesAreWeighed
<1>5. PICK rule \in SetMatching(d, members) : apps[k] = SetApplied(d, members, rule)
  BY <1>1
<1>6. SetApplied(d, members, rule).rule = rule
  BY <1>5, SetAppliedSays
<1> QED BY <1>4, <1>5, <1>6

\* A pair that is answered consists of components that were read.
LEMMA PairAnswerReads ==
  ASSUME Holds, Answers, Answered("query_pair")
  PROVE  \E d, left, right : Published(d) /\ ReadSpec(left) /\ ReadSpec(right) /\ Value = EvaluatePair(d, left, right)
<1>1. PICK n \in DOMAIN stored, pair \in Pairs :
        LET specs == ReadMembers(pair, stored[n])
        IN ~Failed(specs) /\ Value = EvaluatePair(stored[n], specs.value[1], specs.value[2])
  BY DEF Answers, IsPairAnswer
<1> DEFINE d == stored[n]
           specs == ReadMembers(pair, d)
           left == specs.value[1]
           right == specs.value[2]
<1>2. Published(d) /\ ~Failed(specs) /\ Value = EvaluatePair(d, left, right)
  BY <1>1 DEF Holds
<1>3. pair \in Asked /\ Len(pair) = 2
  BY DEF Pairs
<1>4. \A i \in 1..2 : ReadSpec(specs.value[i])
  BY <1>2, <1>3, MembersAreRead
<1>5. ReadSpec(left) /\ ReadSpec(right)
  BY <1>4
<1> QED BY <1>2, <1>5

\* Satisfied rules of one tier agree about a pair of components that were read.
LEMMA PairTiersAgree ==
  ASSUME NEW d, Published(d), NEW left, NEW right, ReadSpec(left), ReadSpec(right),
         NEW r \in Rivals(EvaluatePair(d, left, right))
  PROVE  r[1].resolved = r[2].resolved
<1> DEFINE v == EvaluatePair(d, left, right)
<1>1. /\ r[1] \in Entries(v) /\ r[1].status = "satisfied"
      /\ r[2] \in Entries(v) /\ r[2].status = "satisfied" /\ Tier(r[1].rule) = Tier(r[2].rule)
  <2> HIDE DEF v
  <2>1. r \in Rivals(v)
    BY DEF v
  <2> QED BY <2>1 DEF Rivals
<1>2. ASSUME NEW x \in Entries(v), x.status = "satisfied"
      PROVE  x.rule \in Matching(d, left, right) /\ x.resolved = x.rule.outcome
  <2>1. PICK rule \in Matching(d, left, right) :
          LET a == Applied(d, left, right, rule)
          IN x.rule = rule /\ x.status = a.status /\ x.resolved = a.resolved /\ x.verdicts = a.verdicts
    BY EntriesAreApplied
  <2> DEFINE a == Applied(d, left, right, rule)
  <2>2. a.status = "satisfied" => a.resolved = rule.outcome
    BY MatchingRules, PublishedIsUnambiguous, ApplyRuleSays DEF Applied
  <2> HIDE DEF a
  <2>3. x.rule = rule /\ x.status = a.status /\ x.resolved = a.resolved
    BY <2>1 DEF a
  <2> QED BY <1>2, <2>2, <2>3
<1> HIDE DEF v
<1>3. r[1].rule.outcome = r[2].rule.outcome
  BY <1>1, <1>2, OneTierAgrees
<1> QED BY <1>1, <1>2, <1>3

\* Satisfied rules of one tier that select one member agree about a set.
LEMMA SetTiersAgree ==
  ASSUME NEW d, Published(d), NEW members, \A m \in ToSet(members) : ReadSpec(m),
         NEW r \in Rivals(EvaluateSetLevel(d, members)),
         SetSides(r[1].rule, members).left \cap SetSides(r[2].rule, members).left # {}
  PROVE  r[1].resolved = r[2].resolved
<1> DEFINE v == EvaluateSetLevel(d, members)
<1>1. /\ r[1] \in Entries(v) /\ r[1].status = "satisfied"
      /\ r[2] \in Entries(v) /\ r[2].status = "satisfied" /\ Tier(r[1].rule) = Tier(r[2].rule)
  <2> HIDE DEF v
  <2>1. r \in Rivals(v)
    BY DEF v
  <2> QED BY <2>1 DEF Rivals
<1>2. ASSUME NEW x \in Entries(v), x.status = "satisfied"
      PROVE  x.rule \in SetMatching(d, members) /\ x.resolved = x.rule.outcome
  <2>0. Unambiguous(d)
    BY PublishedIsUnambiguous
  <2>1. PICK rule \in SetMatching(d, members) :
          LET a == SetApplied(d, members, rule)
          IN x.rule = rule /\ x.status = a.status /\ x.resolved = a.resolved
    BY <2>0, SetEntriesAreApplied
  <2>2. SetApplied(d, members, rule).status = "satisfied" => SetApplied(d, members, rule).resolved = rule.outcome
    BY <2>0, SetAppliedSays
  <2> QED BY <1>2, <2>1, <2>2
<1> HIDE DEF v
<1>3. PICK m : m \in SetSides(r[1].rule, members).left /\ m \in SetSides(r[2].rule, members).left
  OBVIOUS
<1>4. m \in ToSet(members) /\ SelectorMatches(r[1].rule.left, m) /\ SelectorMatches(r[2].rule.left, m)
  BY <1>3 DEF SetSides
<1>5. r[1].rule.outcome = r[2].rule.outcome
  BY <1>1, <1>2, <1>4, OneSetTierAgrees
<1> QED BY <1>1, <1>2, <1>5

\* A set that is answered consists of components that were read.
LEMMA SetAnswerReads ==
  ASSUME Holds, Answers, Answered("query_set")
  PROVE  \E d, members, n :
           /\ Published(d) /\ n \in Nat
           /\ DOMAIN members = 1..n /\ Len(members) = n /\ members = [i \in 1..n |-> members[i]]
           /\ \A i \in 1..n : ReadSpec(members[i])
           /\ ~Failed(EvaluateSet(d, members)) /\ Value = EvaluateSet(d, members).value
<1>1. PICK k \in DOMAIN stored, asked \in Asked :
        LET specs == ReadMembers(asked, stored[k])
            result == EvaluateSet(stored[k], specs.value)
        IN ~Failed(specs) /\ ~Failed(result) /\ Value = result.value
  BY DEF Answers, IsSetAnswer
<1>2. Published(stored[k])
  BY DEF Holds
<1> DEFINE members == ReadMembers(asked, stored[k]).value
           n == Len(asked)
<1>3. n \in Nat /\ members = [i \in 1..n |-> members[i]] /\ \A i \in 1..n : ReadSpec(members[i])
  BY <1>1, MembersAreRead
<1>4. ~Failed(EvaluateSet(stored[k], members)) /\ Value = EvaluateSet(stored[k], members).value
  BY <1>1
<1> HIDE DEF members, n
<1>5. DOMAIN members = 1..n /\ Len(members) = n
  BY <1>3
<1> QED BY <1>2, <1>3, <1>4, <1>5

\* Satisfied rules of one tier never disagree about a pair, nor about a set of which
\* they select the same member: what was published needs no tie-break
\* (ConflictDiagnostics, MatchPairRules, EvaluateSetLevel).
THEOREM TiersAlwaysAgree == Spec => []TiersAgree
<1>1. ASSUME Holds, Answers, Answered("query_pair"), NEW r \in Rivals(Value)
      PROVE  r[1].resolved = r[2].resolved
  <2>1. PICK d, left, right : /\ Published(d) /\ ReadSpec(left) /\ ReadSpec(right)
                              /\ Value = EvaluatePair(d, left, right)
    BY <1>1, PairAnswerReads
  <2> QED BY <1>1, <2>1, PairTiersAgree
<1>2. ASSUME Holds, Answers, Answered("query_set")
      PROVE  /\ \A p \in DOMAIN Value.pairs : \A r \in Rivals(Value.pairs[p]) : r[1].resolved = r[2].resolved
             /\ \A r \in Rivals(Value.set_level) :
                  SetSides(r[1].rule, Value.members).left \cap SetSides(r[2].rule, Value.members).left # {}
                    => r[1].resolved = r[2].resolved
  <2>1. PICK d, members, n :
          /\ Published(d) /\ n \in Nat
          /\ DOMAIN members = 1..n /\ Len(members) = n /\ \A i \in 1..n : ReadSpec(members[i])
          /\ ~Failed(EvaluateSet(d, members)) /\ Value = EvaluateSet(d, members).value
    BY <1>2, SetAnswerReads
  <2>2. /\ Value.set_level = EvaluateSetLevel(d, members) /\ Value.members = members
        /\ \A p \in DOMAIN Value.pairs : /\ p[1] \in 1..n /\ p[2] \in 1..n
                                         /\ Value.pairs[p] = EvaluatePair(d, members[p[1]], members[p[2]])
    BY <2>1, EvaluateSetParts
  <2>3. \A m \in ToSet(members) : ReadSpec(m)
    BY <2>1 DEF ToSet
  <2>4. ASSUME NEW p \in DOMAIN Value.pairs, NEW r \in Rivals(Value.pairs[p])
        PROVE  r[1].resolved = r[2].resolved
    <3>1. ReadSpec(members[p[1]]) /\ ReadSpec(members[p[2]])
      BY <2>1, <2>2
    <3>2. r \in Rivals(EvaluatePair(d, members[p[1]], members[p[2]]))
      BY <2>2
    <3> QED BY <2>1, <3>1, <3>2, PairTiersAgree
  <2>5. ASSUME NEW r \in Rivals(Value.set_level),
               SetSides(r[1].rule, Value.members).left \cap SetSides(r[2].rule, Value.members).left # {}
        PROVE  r[1].resolved = r[2].resolved
    <3>1. r \in Rivals(EvaluateSetLevel(d, members))
      BY <2>2
    <3> QED BY <2>1, <2>2, <2>3, <2>5, <3>1, SetTiersAgree
  <2> QED BY <2>4, <2>5
<1>3. Holds /\ Answers => TiersAgree
  BY <1>1, <1>2 DEF TiersAgree
<1> QED BY <1>3, ServiceInvariant, PTL

-----------------------------------------------------------------------------
(* Negotiation.                                                            *)

\* Finitely many versions have a first and a last (Version::Compare).
LEMMA EndsExist ==
  ASSUME NEW S, IsFiniteSet(S), S # {}, S \subseteq Versions
  PROVE  /\ \E v \in S : \A u \in S : ~Before(u, v)
         /\ \E v \in S : \A u \in S : ~Before(v, u)
<1> DEFINE R == {p \in S \X S : Before(p[1], p[2])}
           n == Cardinality(S)
           rank(x) == Cardinality(Smaller(R, S, x))
<1>1. \A x, y \in S : <<x, y>> \in R <=> Before(x, y)
  OBVIOUS
<1>2. StrictOrder(R, S)
  <2> HIDE DEF R
  <2>1. \A x \in S : ~Before(x, x)
    BY BeforeIsStrict
  <2>2. \A x, y, z \in S : Before(x, y) /\ Before(y, z) => Before(x, z)
    BY BeforeIsTransitive
  <2>3. \A x, y \in S : x = y \/ Before(x, y) \/ Before(y, x)
    BY BeforeIsTotal
  <2> QED BY <1>1, <2>1, <2>2, <2>3 DEF StrictOrder
<1>3. n \in Nat /\ n # 0
  BY FS_CardinalityType, FS_EmptySet
<1> HIDE DEF R
<1>4. \A i \in 1..n : \E x \in S : rank(x) = i - 1
  BY <1>2, RanksAreTaken
<1>5. \A x, y \in S : rank(x) \in 0..n - 1 /\ (Before(x, y) <=> rank(x) < rank(y))
  BY <1>1, <1>2, RanksAreMonotone
<1> HIDE DEF rank, n
<1>6. PICK low \in S : rank(low) = 1 - 1
  BY <1>3, <1>4
<1>7. PICK high \in S : rank(high) = n - 1
  BY <1>3, <1>4
<1>8. \A u \in S : ~Before(u, low)
  BY <1>3, <1>5, <1>6
<1>9. \A u \in S : ~Before(high, u)
  BY <1>3, <1>5, <1>7
<1> QED BY <1>8, <1>9

\* The version the policy selects is one of those in common, and its choice of
\* them (SelectNegotiated).
LEMMA SelectedIsChosen ==
  ASSUME NEW S, IsFiniteSet(S), S # {}, S \subseteq Versions, NEW policy
  PROVE  /\ SelectNegotiated(S, policy) \in S
         /\ \A v \in S : v = SelectNegotiated(S, policy)
              \/ (IF policy = "lowest_common" THEN Before(SelectNegotiated(S, policy), v)
                  ELSE Before(v, SelectNegotiated(S, policy)))
<1> DEFINE Best(v) == \A w \in S : IF policy = "lowest_common" THEN ~Before(w, v) ELSE ~Before(v, w)
           chosen == SelectNegotiated(S, policy)
<1>1. \E v \in S : Best(v)
  BY EndsExist
<1>2. chosen = CHOOSE v \in S : Best(v)
  BY DEF SelectNegotiated
<1> HIDE DEF Best, chosen
<1>3. chosen \in S /\ Best(chosen)
  BY <1>1, <1>2
<1>4. ASSUME NEW v \in S PROVE v = chosen \/ Before(chosen, v) \/ Before(v, chosen)
  BY <1>3, BeforeIsTotal
<1> QED BY <1>3, <1>4 DEF Best, chosen

\* What is left after k members is what the k members have in common.
LEMMA InCommonIsCommon ==
  ASSUME NEW n \in Nat \ {0}, NEW specs, DOMAIN specs = 1..n, NEW section, NEW id
  PROVE  \A k \in 1..n : InCommon(specs, section, id)[k]
           = {v \in Lists(specs[1], section, id) : \A i \in 1..k : v \in Lists(specs[i], section, id)}
<1> DEFINE L == [i \in 1..n |-> Lists(specs[i], section, id)]
           IsWindow(f) == f = [k \in 1..n |-> IF k = 1 THEN L[1] ELSE f[k - 1] \cap L[k]]
           window == CHOOSE f : IsWindow(f)
           Shared(k) == {v \in L[1] : \A i \in 1..k : v \in L[i]}
           g == [k \in 1..n |-> Shared(k)]
<1>1. InCommon(specs, section, id) = window
  <2> DEFINE Written(f) == f = [k \in DOMAIN specs |-> IF k = 1 THEN Lists(specs[1], section, id)
                                   ELSE f[k - 1] \cap Lists(specs[k], section, id)]
  <2>1. InCommon(specs, section, id) = CHOOSE f : Written(f)
    BY DEF InCommon
  <2>2. \A f : [k \in DOMAIN specs |-> IF k = 1 THEN Lists(specs[1], section, id)
                                       ELSE f[k - 1] \cap Lists(specs[k], section, id)]
               = [k \in 1..n |-> IF k = 1 THEN L[1] ELSE f[k - 1] \cap L[k]]
    OBVIOUS
  <2>3. \A f : Written(f) <=> IsWindow(f)
    BY <2>2
  <2> HIDE DEF Written, IsWindow
  <2> QED BY <2>1, <2>3
<1>2. \A k \in 1..n : k = 1 \/ (k - 1 \in 1..n /\ 1..k = (1..(k - 1)) \cup {k})
  OBVIOUS
<1>3. 1 \in 1..n /\ \A i \in 1..1 : i = 1
  OBVIOUS
<1> HIDE DEF L
<1>4. Shared(1) = L[1]
  BY <1>3
<1>5. \A k \in 1..n : k # 1 => Shared(k) = Shared(k - 1) \cap L[k]
  BY <1>2
<1>6. IsWindow(g)
  <2>1. \A k \in 1..n : g[k] = IF k = 1 THEN L[1] ELSE g[k - 1] \cap L[k]
    <3> SUFFICES ASSUME NEW k \in 1..n PROVE g[k] = IF k = 1 THEN L[1] ELSE g[k - 1] \cap L[k]
      OBVIOUS
    <3> HIDE DEF Shared
    <3> QED BY <1>2, <1>4, <1>5
  <2> HIDE DEF Shared
  <2> QED BY <2>1
<1>7. IsWindow(window)
  <2> HIDE DEF IsWindow, g
  <2> QED BY <1>6
<1> HIDE DEF window, g, Shared
<1>8. \A k \in 1..n : window[k] = IF k = 1 THEN L[1] ELSE window[k - 1] \cap L[k]
  BY <1>7
<1> DEFINE T == {k \in Nat : k = 0 \/ window[k] = Shared(k)}
<1>9. 0..n \subseteq T
  <2>1. 0 \in T
    OBVIOUS
  <2>2. ASSUME NEW i \in 1..n, i - 1 \in T PROVE i \in T
    <3>1. CASE i = 1
      BY <1>3, <1>4, <1>8, <3>1
    <3>2. CASE i # 1
      <4>1. window[i - 1] = Shared(i - 1)
        BY <2>2, <3>2
      <4>2. window[i] = Shared(i)
        BY <1>5, <1>8, <3>2, <4>1
      <4> QED BY <4>2
    <3> QED BY <3>1, <3>2
  <2> HIDE DEF T
  <2> QED BY <2>1, <2>2, EveryIteration
<1>10. \A k \in 1..n : window[k] = Shared(k)
  BY <1>9
<1>11. \A i \in 1..n : L[i] = Lists(specs[i], section, id)
  BY DEF L
<1>12. \A k \in 1..n : 1..k \subseteq 1..n
  OBVIOUS
<1>13. ASSUME NEW k \in 1..n
       PROVE  window[k] = {v \in Lists(specs[1], section, id) : \A i \in 1..k : v \in Lists(specs[i], section, id)}
  <2>1. window[k] = {v \in L[1] : \A i \in 1..k : v \in L[i]}
    BY <1>10 DEF Shared
  <2>2. L[1] = Lists(specs[1], section, id) /\ \A i \in 1..k : L[i] = Lists(specs[i], section, id)
    BY <1>3, <1>11, <1>12
  <2> QED BY <2>1, <2>2
<1> QED BY <1>1, <1>13

\* What CommonGround says of one protocol or schema.
Found(specs, section, id, policy, result) ==
  LET shared == {v \in UNION {Lists(m, section, id) : m \in ToSet(specs)} :
                   \A m \in ToSet(specs) : v \in Lists(m, section, id)}
  IN /\ result.status = "agreed" <=>
          shared # {} /\ (policy = "exact_required" => Cardinality(shared) = 1)
     /\ result.status = "agreed" =>
          /\ result.selected \in shared
          /\ \A v \in shared : v = result.selected
               \/ (IF policy = "lowest_common" THEN Before(result.selected, v)
                   ELSE Before(v, result.selected))
     /\ result.status = "not_supported" =>
          \E m \in ToSet(specs) : /\ m.kind = result.owner
                                  /\ section \in m.closed /\ id \notin DOMAIN m[section]

\* The versions a component lists are finitely many versions.
LEMMA ListsVersions ==
  ASSUME NEW spec, ReadSpec(spec), NEW section \in {"protocols", "schemas"}, NEW id
  PROVE  Lists(spec, section, id) \subseteq Versions /\ IsFiniteSet(Lists(spec, section, id))
<1>1. DeclaresVersions(spec[section])
  BY DEF ReadSpec
<1>2. CASE id \in DOMAIN spec[section]
  BY <1>1, <1>2 DEF Lists, DeclaresVersions
<1>3. CASE id \notin DOMAIN spec[section]
  BY <1>3, FS_EmptySet DEF Lists
<1> QED BY <1>2, <1>3

\* What the negotiation of one protocol or schema finds is what the members
\* declare (NegotiateOne).
LEMMA NegotiateOneFinds ==
  ASSUME NEW n \in Nat \ {0}, NEW specs, DOMAIN specs = 1..n, Len(specs) = n,
         \A i \in 1..n : ReadSpec(specs[i]), NEW section \in {"protocols", "schemas"}, NEW id, NEW policy
  PROVE  Found(specs, section, id, policy, NegotiateOne(specs, section, id, policy))
<1> DEFINE members == ToSet(specs)
           shared == {v \in UNION {Lists(m, section, id) : m \in members} :
                        \A m \in members : v \in Lists(m, section, id)}
           window == InCommon(specs, section, id)
           stops == {k \in 1..n : window[k] = {}}
           stop == specs[Min(stops)]
           common == window[n]
           result == NegotiateOne(specs, section, id, policy)
<1>1. \A k \in 1..n : window[k] = {v \in Lists(specs[1], section, id) :
                                      \A i \in 1..k : v \in Lists(specs[i], section, id)}
  BY InCommonIsCommon
<1>2. members = {specs[i] : i \in 1..n} /\ 1 \in 1..n /\ n \in 1..n
  BY DEF ToSet
<1>3. result = IF stops # {}
               THEN IF id \in DOMAIN stop[section] THEN Unsettled("no_overlap", Absent, {})
                    ELSE IF section \in stop.closed THEN Unsettled("not_supported", stop.kind, {})
                    ELSE Unsettled("indeterminate", stop.kind, {})
               ELSE IF policy = "exact_required" /\ Cardinality(common) # 1
               THEN Unsettled("no_overlap", Absent, common)
               ELSE [status |-> "agreed", owner |-> Absent, window |-> common,
                     selected |-> SelectNegotiated(common, policy)]
  BY DEF NegotiateOne
<1> HIDE DEF window, result, members
<1>4. common = shared
  <2>1. \A v : v \in common <=> \A i \in 1..n : v \in Lists(specs[i], section, id)
    BY <1>1, <1>2
  <2>2. \A v : v \in shared <=> \A i \in 1..n : v \in Lists(specs[i], section, id)
    BY <1>2
  <2> QED BY <2>1, <2>2
<1>5. common \subseteq Versions /\ IsFiniteSet(common)
  <2>1. ReadSpec(specs[1])
    BY <1>2
  <2>2. common \subseteq Lists(specs[1], section, id)
    BY <1>1, <1>2
  <2> QED BY <2>1, <2>2, ListsVersions, FS_Subset
<1>6. stops # {} => Min(stops) \in stops
  <2>1. stops \subseteq 1..n /\ IsFiniteSet(1..n) /\ stops \in SUBSET Nat
    BY FS_Interval
  <2> HIDE DEF stops
  <2>2. IsFiniteSet(stops)
    BY <2>1, FS_Subset
  <2> QED BY <2>1, <2>2, GreatestNatural
<1>7. stops # {} => common = {}
  BY <1>1, <1>2
<1>8. stops # {} => stop \in members
  BY <1>2, <1>6
<1>9. stops = {} => common # {}
  BY <1>2
<1> HIDE DEF stops, stop, common, shared
<1>10. CASE stops # {}
  <2>1. result.status # "agreed"
    BY <1>3, <1>10 DEF Unsettled
  <2>2. result.status = "not_supported" =>
          stop.kind = result.owner /\ section \in stop.closed /\ id \notin DOMAIN stop[section]
    BY <1>3, <1>10 DEF Unsettled
  <2>3. shared = {}
    BY <1>4, <1>7, <1>10
  <2> QED BY <1>8, <1>10, <2>1, <2>2, <2>3 DEF Found, result, shared, members
<1>11. CASE stops = {} /\ policy = "exact_required" /\ Cardinality(common) # 1
  <2>1. result.status = "no_overlap"
    BY <1>3, <1>11 DEF Unsettled
  <2>2. policy = "exact_required" /\ Cardinality(shared) # 1
    BY <1>4, <1>11
  <2> QED BY <2>1, <2>2 DEF Found, result, shared, members
<1>12. CASE stops = {} /\ ~(policy = "exact_required" /\ Cardinality(common) # 1)
  <2>1. result.status = "agreed" /\ result.selected = SelectNegotiated(common, policy)
    BY <1>3, <1>12
  <2>2. shared # {} /\ (policy = "exact_required" => Cardinality(shared) = 1)
    BY <1>4, <1>9, <1>12
  <2>3. /\ SelectNegotiated(common, policy) \in common
        /\ \A v \in common : v = SelectNegotiated(common, policy)
             \/ (IF policy = "lowest_common" THEN Before(SelectNegotiated(common, policy), v)
                 ELSE Before(v, SelectNegotiated(common, policy)))
    BY <1>5, <1>9, <1>12, SelectedIsChosen, Zenon
  <2>4. /\ result.selected \in shared
        /\ \A v \in shared : v = result.selected
             \/ (IF policy = "lowest_common" THEN Before(result.selected, v)
                 ELSE Before(v, result.selected))
    BY <1>4, <2>1, <2>3
  <2> QED BY <2>1, <2>2, <2>4 DEF Found, result, shared, members
<1> QED BY <1>10, <1>11, <1>12

\* The same for every protocol and schema that is negotiated (Negotiate).
LEMMA NegotiateFinds ==
  ASSUME NEW n \in Nat \ {0}, NEW specs, DOMAIN specs = 1..n, Len(specs) = n,
         \A i \in 1..n : ReadSpec(specs[i]), NEW policy, NEW taxonomy
  PROVE  CommonGround(specs, Negotiate(specs, policy, taxonomy))
<1> DEFINE negotiation == Negotiate(specs, policy, taxonomy)
<1>1. ASSUME NEW section \in {"protocols", "schemas"}, NEW id \in DOMAIN negotiation.on[section]
      PROVE  Found(specs, section, id, negotiation.policy, negotiation.on[section][id])
  <2>1. /\ negotiation.policy = policy
        /\ negotiation.on[section] = [x \in Subjects(specs, section, taxonomy) |->
                                        NegotiateOne(specs, section, x, policy)]
    BY DEF Negotiate
  <2> HIDE DEF negotiation
  <2>2. negotiation.on[section][id] = NegotiateOne(specs, section, id, policy)
    BY <1>1, <2>1
  <2> QED BY <2>1, <2>2, NegotiateOneFinds
<1> HIDE DEF negotiation
<1>2. CommonGround(specs, negotiation)
  BY <1>1 DEF CommonGround, Found
<1> QED BY <1>2 DEF negotiation

\* The negotiation of a pair is about the two components.
LEMMA PairNegotiates ==
  ASSUME NEW d, NEW left, NEW right, ReadSpec(left), ReadSpec(right), NEW v, v = EvaluatePair(d, left, right)
  PROVE  CommonGround(v.subjects, v.negotiation)
<1>1. v.subjects = <<left, right>> /\ v.negotiation = Negotiate(<<left, right>>, v.negotiation.policy, d.taxonomy)
  <2>1. PairFacts(d, left, right, v, Applications(d, left, right), WeighAll(Applications(d, left, right)))
    BY DecisionOfPair
  <2> QED BY <2>1 DEF PairFacts
<1> DEFINE specs == <<left, right>>
<1>2. /\ 2 \in Nat \ {0} /\ DOMAIN specs = 1..2 /\ Len(specs) = 2
      /\ \A i \in 1..2 : ReadSpec(specs[i])
  OBVIOUS
<1> HIDE DEF specs
<1>3. CommonGround(specs, Negotiate(specs, v.negotiation.policy, d.taxonomy))
  BY <1>2, NegotiateFinds
<1> QED BY <1>1, <1>3 DEF specs

\* The negotiation of a set is about its members.
LEMMA SetNegotiates ==
  ASSUME NEW d, NEW n \in Nat, NEW members, DOMAIN members = 1..n, Len(members) = n,
         \A i \in 1..n : ReadSpec(members[i]), ~Failed(EvaluateSet(d, members)),
         NEW v, v = EvaluateSet(d, members).value
  PROVE  CommonGround(v.members, v.set_level.negotiation)
<1> DEFINE level == EvaluateSetLevel(d, members)
           pairs == [p \in {q \in (DOMAIN members) \X (DOMAIN members) : q[1] < q[2]} |->
                       EvaluatePair(d, members[p[1]], members[p[2]])]
           said == SetDecision(d, members, level, pairs)
<1>1. EvaluateSet(d, members) = IF Len(members) < 2 THEN Error("InvalidArgument")
                                ELSE IF Len(members) > MaxMembers THEN Error("LimitExceeded")
                                ELSE Ok(said)
  BY DEF EvaluateSet
<1>2. Failed(Error("InvalidArgument")) /\ Failed(Error("LimitExceeded"))
  BY DEF Failed, Error
<1>3. \E policy : level.negotiation = Negotiate(members, policy, d.taxonomy)
  <2>1. \A problem, applications : \E policy :
          Conclude(d, "set", members, problem, applications).negotiation = Negotiate(members, policy, d.taxonomy)
    BY DEF Conclude
  <2>2. \E problem, applications : level = Conclude(d, "set", members, problem, applications)
    BY DEF EvaluateSetLevel
  <2> HIDE DEF level
  <2> QED BY <2>1, <2>2
<1>4. said.members = members /\ said.set_level = level
  <2> HIDE DEF level, pairs
  <2> QED BY DEF SetDecision
<1> HIDE DEF said, level
<1>5. ~(Len(members) < 2) /\ EvaluateSet(d, members) = Ok(said)
  BY <1>1, <1>2
<1>6. v = said
  BY <1>5 DEF Ok
<1>7. n # 0
  BY <1>5
<1>8. PICK policy : level.negotiation = Negotiate(members, policy, d.taxonomy)
  BY <1>3
<1>9. CommonGround(members, Negotiate(members, policy, d.taxonomy))
  BY <1>7, NegotiateFinds
<1> QED BY <1>4, <1>6, <1>8, <1>9

\* A version that is agreed on is the policy's choice of those every member
\* declares, and one is agreed on whenever there is one; who is said not to
\* support something does not declare it (NegotiateOne, SelectNegotiated).
THEOREM NegotiationIsAlwaysCommonGround == Spec => []NegotiationIsCommonGround
<1>1. ASSUME Holds, Answers, Answered("query_pair")
      PROVE  CommonGround(Value.subjects, Value.negotiation)
  BY <1>1, PairAnswerReads, PairNegotiates
<1>2. ASSUME Holds, Answers, Answered("query_set")
      PROVE  CommonGround(Value.members, Value.set_level.negotiation)
  <2>1. PICK d, members, n :
          /\ Published(d) /\ n \in Nat
          /\ DOMAIN members = 1..n /\ Len(members) = n /\ \A i \in 1..n : ReadSpec(members[i])
          /\ ~Failed(EvaluateSet(d, members)) /\ Value = EvaluateSet(d, members).value
    BY <1>2, SetAnswerReads
  <2> QED BY <2>1, SetNegotiates
<1>3. Holds /\ Answers => NegotiationIsCommonGround
  BY <1>1, <1>2 DEF NegotiationIsCommonGround
<1> QED BY <1>3, ServiceInvariant, PTL

-----------------------------------------------------------------------------
(* The order in which components are named.                                *)

\* other names the members in the order f.
Reorders(f, n, members, other) ==
  /\ DOMAIN members = 1..n /\ DOMAIN other = 1..n /\ other = [i \in 1..n |-> other[i]]
  /\ \A i \in 1..n : f[i] \in 1..n /\ other[i] = members[f[i]]
  /\ \A i, j \in 1..n : f[i] = f[j] => i = j
  /\ \A k \in 1..n : \E i \in 1..n : f[i] = k

\* In another order each member is named once.
LEMMA ReorderedBy ==
  ASSUME NEW n \in Nat, NEW members, DOMAIN members = 1..n, NEW other \in Reordered(members)
  PROVE  \E f : Reorders(f, n, members, other)
<1>1. PICK f \in Bijection(1..n, 1..n) : other = [i \in 1..n |-> members[f[i]]]
  BY DEF Reordered
<1>2. /\ f \in [1..n -> 1..n]
      /\ \A i, j \in 1..n : f[i] = f[j] => i = j
      /\ \A k \in 1..n : \E i \in 1..n : f[i] = k
  BY DEF Bijection, Injection, Surjection, IsInjective
<1>3. DOMAIN other = 1..n /\ \A i \in 1..n : other[i] = members[f[i]]
  BY <1>1
<1>4. other = [i \in 1..n |-> other[i]]
  BY <1>1
<1> QED BY <1>2, <1>3, <1>4 DEF Reorders

\* The decision about a set follows from who its members are (EvaluateSetLevel).
LEMMA SetLevelReordered ==
  ASSUME NEW d, NEW n \in Nat, NEW members, NEW other, NEW f, Reorders(f, n, members, other)
  PROVE  /\ EvaluateSetLevel(d, other).outcome = EvaluateSetLevel(d, members).outcome
         /\ EvaluateSetLevel(d, other).decider = EvaluateSetLevel(d, members).decider
<1> DEFINE problem(m) == Obstacle(d, "set", SetRegistered(d.taxonomy, m))
           matched(m) == IF problem(m) = "none" THEN ByPrecedence(SetMatching(d, m)) ELSE <<>>
           apps(m) == [k \in DOMAIN matched(m) |-> SetApplied(d, m, matched(m)[k])]
<1>1. \A m : EvaluateSetLevel(d, m) = Conclude(d, "set", m, problem(m), apps(m))
  BY DEF EvaluateSetLevel, SetMatching, SetApplied
<1>2. ToSet(other) = ToSet(members)
  <2>1. \A m \in ToSet(other) : m \in ToSet(members)
    BY DEF Reorders, ToSet
  <2>2. \A m \in ToSet(members) : m \in ToSet(other)
    <3> SUFFICES ASSUME NEW k \in 1..n PROVE members[k] \in ToSet(other)
      BY DEF Reorders, ToSet
    <3>1. PICK i \in 1..n : f[i] = k
      BY DEF Reorders
    <3> QED BY <3>1 DEF Reorders, ToSet
  <2> QED BY <2>1, <2>2
<1>3. \A rule : SetSides(rule, other) = SetSides(rule, members)
  BY <1>2 DEF SetSides
<1>4. SetMatching(d, other) = SetMatching(d, members)
  BY <1>3 DEF SetMatching
<1>5. SetRegistered(d.taxonomy, other) = "none" <=> SetRegistered(d.taxonomy, members) = "none"
  <2> DEFINE codes(m) == [i \in DOMAIN m |-> Registered(d.taxonomy, m[i])]
  <2>1. \A m : DOMAIN m = 1..n =>
          (SetRegistered(d.taxonomy, m) = "none" <=> \A i \in 1..n : Registered(d.taxonomy, m[i]) = "none")
    <3> SUFFICES ASSUME NEW m, DOMAIN m = 1..n
                 PROVE  SetRegistered(d.taxonomy, m) = "none"
                          <=> \A i \in 1..n : Registered(d.taxonomy, m[i]) = "none"
      OBVIOUS
    <3>1. DOMAIN codes(m) = 1..n /\ \A i \in 1..n : codes(m)[i] = Registered(d.taxonomy, m[i])
      OBVIOUS
    <3>2. SetRegistered(d.taxonomy, m) = FirstError(codes(m))
      BY DEF SetRegistered
    <3> HIDE DEF codes
    <3>3. FirstError(codes(m)) = "none" <=> \A i \in 1..n : codes(m)[i] = "none"
      BY <3>1, NoErrorMeansNone
    <3> QED BY <3>1, <3>2, <3>3
  <2>2. (\A i \in 1..n : Registered(d.taxonomy, other[i]) = "none")
          <=> (\A i \in 1..n : Registered(d.taxonomy, members[i]) = "none")
    BY DEF Reorders
  <2>3. DOMAIN members = 1..n /\ DOMAIN other = 1..n
    BY DEF Reorders
  <2> QED BY <2>1, <2>2, <2>3
<1>6. problem(other) = "none" <=> problem(members) = "none"
  BY <1>5 DEF Obstacle
<1> HIDE DEF problem
<1>7. matched(other) = matched(members)
  BY <1>4, <1>6
<1>8. \A rule : SetApplied(d, other, rule) = SetApplied(d, members, rule)
  BY <1>3 DEF SetApplied
<1> HIDE DEF matched
<1>9. apps(other) = apps(members)
  BY <1>7, <1>8
<1> HIDE DEF apps
<1>10. \A s, t, x, y, a : /\ Conclude(d, "set", s, x, a).outcome = Conclude(d, "set", t, y, a).outcome
                          /\ Conclude(d, "set", s, x, a).decider = Conclude(d, "set", t, y, a).decider
  BY DEF Conclude
<1> QED BY <1>1, <1>9, <1>10

\* The pairs of a set of n, as they are chosen.
Chosen(n) == {p \in (1..n) \X (1..n) : p[1] < p[2]}
PairOutcomes(d, n, members) ==
  {EvaluatePair(d, members[p[1]], members[p[2]]).outcome : p \in Chosen(n)}

\* The fields of a decision v about n members.
SetFacts(d, n, members, v) ==
  /\ v.document = d /\ v.members = members /\ v.set_level = EvaluateSetLevel(d, members)
  /\ v.pairs = [p \in Chosen(n) |-> EvaluatePair(d, members[p[1]], members[p[2]])]
  /\ v.outcome = SetOutcome({EvaluateSetLevel(d, members).outcome} \cup PairOutcomes(d, n, members))

\* A set of more than one member, and not too many, is decided by its parts
\* (EvaluateSet).
LEMMA EvaluateSetConcludes ==
  ASSUME NEW d, NEW n \in Nat, NEW members, DOMAIN members = 1..n, members = [i \in 1..n |-> members[i]]
  PROVE  /\ Failed(EvaluateSet(d, members)) => n < 2 \/ n > MaxMembers
         /\ n < 2 \/ n > MaxMembers => Failed(EvaluateSet(d, members))
         /\ ~Failed(EvaluateSet(d, members)) => SetFacts(d, n, members, EvaluateSet(d, members).value)
<1> DEFINE pairs == [p \in Chosen(n) |-> EvaluatePair(d, members[p[1]], members[p[2]])]
           level == EvaluateSetLevel(d, members)
           said == SetDecision(d, members, level, pairs)
<1>1. Len(members) = n
  OBVIOUS
<1>2. EvaluateSet(d, members) = IF Len(members) < 2 THEN Error("InvalidArgument")
                                ELSE IF Len(members) > MaxMembers THEN Error("LimitExceeded")
                                ELSE Ok(said)
  BY DEF EvaluateSet, Chosen
<1>3. {pairs[p].outcome : p \in DOMAIN pairs} = PairOutcomes(d, n, members)
  BY DEF PairOutcomes
<1>4. /\ said.document = d /\ said.members = members /\ said.set_level = level /\ said.pairs = pairs
      /\ said.outcome = SetOutcome({level.outcome} \cup {pairs[p].outcome : p \in DOMAIN pairs})
  <2> HIDE DEF pairs, level
  <2> QED BY DEF SetDecision
<1>5. Failed(Error("InvalidArgument")) /\ Failed(Error("LimitExceeded")) /\ ~Failed(Ok(said)) /\ Ok(said).value = said
  <2> HIDE DEF said
  <2> QED BY DEF Failed, Error, Ok
<1> HIDE DEF said, pairs, level
<1>6. Failed(EvaluateSet(d, members)) <=> n < 2 \/ n > MaxMembers
  BY <1>1, <1>2, <1>5, Zenon
<1>7. ~Failed(EvaluateSet(d, members)) => EvaluateSet(d, members).value = said
  BY <1>1, <1>2, <1>5, Zenon
<1>8. SetFacts(d, n, members, said)
  BY <1>3, <1>4 DEF level, pairs, SetFacts
<1> QED BY <1>6, <1>7, <1>8, Zenon

\* Where no pair rule tells the sides apart, the pairs say the same in any order.
LEMMA PairsReordered ==
  ASSUME NEW d, Published(d), TellsNoSides(d), NEW n \in Nat, NEW members, NEW other,
         NEW f, Reorders(f, n, members, other)
  PROVE  PairOutcomes(d, n, other) = PairOutcomes(d, n, members)
<1> DEFINE Out(m, i, j) == EvaluatePair(d, m[i], m[j]).outcome
<1>1. \A i, j \in 1..n : Out(members, i, j) = Out(members, j, i)
  BY PairMaySwap
<1>2. \A i, j \in 1..n : Out(other, i, j) = Out(other, j, i)
  BY PairMaySwap
<1>3. \A i, j \in 1..n : Out(other, i, j) = Out(members, f[i], f[j])
  BY DEF Reorders
<1>4. PairOutcomes(d, n, other) = {Out(other, p[1], p[2]) : p \in Chosen(n)}
  BY DEF PairOutcomes
<1>5. PairOutcomes(d, n, members) = {Out(members, p[1], p[2]) : p \in Chosen(n)}
  BY DEF PairOutcomes
<1> HIDE DEF Out
<1>6. \A i, j \in 1..n : i # j => \E p \in Chosen(n) : p = <<i, j>> \/ p = <<j, i>>
  <2> SUFFICES ASSUME NEW i \in 1..n, NEW j \in 1..n, i # j
               PROVE  \E p \in Chosen(n) : p = <<i, j>> \/ p = <<j, i>>
    OBVIOUS
  <2>1. CASE i < j
    BY <2>1 DEF Chosen
  <2>2. CASE j < i
    BY <2>2 DEF Chosen
  <2> QED BY <2>1, <2>2
<1>7. \A p \in Chosen(n) : p[1] \in 1..n /\ p[2] \in 1..n /\ p[1] # p[2]
  BY DEF Chosen
<1>8. ASSUME NEW p \in Chosen(n)
      PROVE  \E q \in Chosen(n) : Out(other, p[1], p[2]) = Out(members, q[1], q[2])
  <2>1. f[p[1]] \in 1..n /\ f[p[2]] \in 1..n /\ f[p[1]] # f[p[2]]
    BY <1>7 DEF Reorders
  <2>2. PICK q \in Chosen(n) : q = <<f[p[1]], f[p[2]]>> \/ q = <<f[p[2]], f[p[1]]>>
    BY <1>6, <2>1
  <2>3. Out(members, q[1], q[2]) = Out(members, f[p[1]], f[p[2]])
    BY <1>1, <2>1, <2>2
  <2> QED BY <1>3, <1>7, <2>3
<1>9. ASSUME NEW q \in Chosen(n)
      PROVE  \E p \in Chosen(n) : Out(members, q[1], q[2]) = Out(other, p[1], p[2])
  <2>0. \A k \in 1..n : \E i \in 1..n : f[i] = k
    BY DEF Reorders
  <2>1. PICK i \in 1..n, j \in 1..n : f[i] = q[1] /\ f[j] = q[2]
    BY <1>7, <2>0
  <2>2. i # j
    BY <1>7, <2>1
  <2>3. PICK p \in Chosen(n) : p = <<i, j>> \/ p = <<j, i>>
    BY <1>6, <2>2
  <2>4. Out(other, p[1], p[2]) = Out(other, i, j)
    BY <1>2, <2>3
  <2> QED BY <1>3, <2>1, <2>4
<1> QED BY <1>4, <1>5, <1>8, <1>9

\* Where no pair rule tells the sides apart, the order in which a client names
\* components makes no difference (RuleMatches, EvaluatePair, EvaluateSet).
THEOREM SubjectsMayAlwaysSwap == Spec => []SubjectsMaySwap
<1>1. ASSUME Holds, Answers, Answered("query_pair"), TellsNoSides(Value.document)
      PROVE  LET swapped == EvaluatePair(Value.document, Value.subjects[2], Value.subjects[1])
             IN swapped.outcome = Value.outcome /\ swapped.decider = Value.decider
  <2>1. PICK d, left, right : /\ Published(d) /\ Value = EvaluatePair(d, left, right)
                              /\ Value.document = d /\ Value.subjects = <<left, right>>
    BY <1>1, PairAnswer
  <2>2. /\ EvaluatePair(d, right, left).outcome = EvaluatePair(d, left, right).outcome
        /\ EvaluatePair(d, right, left).decider = EvaluatePair(d, left, right).decider
    BY <1>1, <2>1, PairMaySwap
  <2>3. Value.subjects[1] = left /\ Value.subjects[2] = right
    BY <2>1
  <2> QED BY <2>1, <2>2, <2>3
<1>2. ASSUME Holds, Answers, Answered("query_set"), TellsNoSides(Value.document),
             NEW other \in Reordered(Value.members)
      PROVE  LET again == EvaluateSet(Value.document, other).value
             IN again.outcome = Value.outcome /\ again.set_level.decider = Value.set_level.decider
  <2>1. PICK d, members, n :
          /\ Published(d) /\ n \in Nat
          /\ DOMAIN members = 1..n /\ members = [i \in 1..n |-> members[i]]
          /\ \A i \in 1..n : ReadSpec(members[i])
          /\ ~Failed(EvaluateSet(d, members)) /\ Value = EvaluateSet(d, members).value
    BY <1>2, SetAnswerReads
  <2> DEFINE again == EvaluateSet(d, other).value
  <2>9. SetFacts(d, n, members, EvaluateSet(d, members).value) /\ ~(n < 2 \/ n > MaxMembers)
    BY <2>1, EvaluateSetConcludes, Zenon
  <2>2. /\ Value.document = d /\ Value.members = members /\ Value.set_level = EvaluateSetLevel(d, members)
        /\ Value.outcome = SetOutcome({EvaluateSetLevel(d, members).outcome} \cup PairOutcomes(d, n, members))
    <3> DEFINE v == EvaluateSet(d, members).value
    <3>1. Value = v /\ SetFacts(d, n, members, v)
      BY <2>1, <2>9
    <3> HIDE DEF v
    <3> QED BY <3>1 DEF SetFacts
  <2>3. PICK f : Reorders(f, n, members, other)
    BY <1>2, <2>1, <2>2, ReorderedBy
  <2>4. DOMAIN other = 1..n /\ other = [i \in 1..n |-> other[i]]
    BY <2>3 DEF Reorders
  <2>5. /\ again.set_level = EvaluateSetLevel(d, other)
        /\ again.outcome = SetOutcome({EvaluateSetLevel(d, other).outcome} \cup PairOutcomes(d, n, other))
    <3>1. SetFacts(d, n, other, EvaluateSet(d, other).value)
      BY <2>1, <2>9, <2>4, EvaluateSetConcludes, Zenon
    <3>2. SetFacts(d, n, other, again)
      BY <3>1
    <3> HIDE DEF again
    <3> QED BY <3>2 DEF SetFacts
  <2>6. PairOutcomes(d, n, other) = PairOutcomes(d, n, members)
    BY <1>2, <2>1, <2>2, <2>3, PairsReordered
  <2>7. /\ EvaluateSetLevel(d, other).outcome = EvaluateSetLevel(d, members).outcome
        /\ EvaluateSetLevel(d, other).decider = EvaluateSetLevel(d, members).decider
    BY <2>1, <2>3, SetLevelReordered
  <2> HIDE DEF again
  <2>8. again.outcome = Value.outcome /\ again.set_level.decider = Value.set_level.decider
    BY <2>2, <2>5, <2>6, <2>7
  <2> QED BY <2>2, <2>8 DEF again
<1>3. Holds /\ Answers => SubjectsMaySwap
  BY <1>1, <1>2 DEF SubjectsMaySwap
<1> QED BY <1>3, ServiceInvariant, PTL

-----------------------------------------------------------------------------
(* Which rule decides.                                                     *)

\* Whether a rule, applied to the pair, reaches an outcome.
Reaches(d, left, right, rule) == Applied(d, left, right, rule).resolved # Absent

\* rule is the first of those that match and reach an outcome.
IsFirst(d, left, right, rule) ==
  /\ rule \in Matching(d, left, right) /\ Reaches(d, left, right, rule)
  /\ \A other \in Matching(d, left, right) :
       Reaches(d, left, right, other) => other = rule \/ PrecedenceHigher(rule, other)

Undecided(d, left, right) == \A rule \in Matching(d, left, right) : ~Reaches(d, left, right, rule)

\* The rule that decides is the first, by precedence, that reaches an outcome.
LEMMA FirstDecides ==
  ASSUME NEW d, Unambiguous(d), NEW left, NEW right, NEW v, v = EvaluatePair(d, left, right)
  PROVE  \/ /\ v.decider = Absent /\ v.outcome = "unknown"
            /\ PairProblem(d, left, right) # "none" \/ Undecided(d, left, right)
         \/ /\ PairProblem(d, left, right) = "none"
            /\ \E rule \in Matching(d, left, right) :
                 /\ IsFirst(d, left, right, rule)
                 /\ v.decider = RuleRef(rule) /\ v.outcome = Applied(d, left, right, rule).resolved
<1> DEFINE apps == Applications(d, left, right)
           w == WeighAll(apps)
           S == Matching(d, left, right)
           matched == Matched(d, left, right)
<1>1. PICK n \in Nat :
        /\ DOMAIN matched = 1..n
        /\ \A k \in 1..n : matched[k] \in S
        /\ PairProblem(d, left, right) # "none" => n = 0
        /\ PairProblem(d, left, right) = "none" =>
             /\ \A rule \in S : \E k \in 1..n : matched[k] = rule
             /\ \A j, k \in 1..n : PrecedenceHigher(matched[j], matched[k]) <=> j < k
  BY MatchedInOrder
<1>2. DOMAIN apps = 1..n /\ \A k \in 1..n : apps[k] = Applied(d, left, right, matched[k])
  BY <1>1 DEF Applications
<1>3. \A k \in 1..n : "decided" \in DOMAIN apps[k] /\ apps[k].rule = matched[k]
  <2> SUFFICES ASSUME NEW k \in 1..n PROVE "decided" \in DOMAIN apps[k] /\ apps[k].rule = matched[k]
    OBVIOUS
  <2> HIDE DEF apps
  <2>1. Read(matched[k])
    BY <1>1, MatchingRules
  <2> QED BY <1>2, <2>1, ApplyRuleSays DEF Applied
<1>4. Weighs(w, n, apps)
  <2> HIDE DEF apps
  <2> QED BY <1>2, <1>3, WeighAllWeighs
<1>5. PairFacts(d, left, right, v, apps, w)
  BY DecisionOfPair
<1> HIDE DEF apps, w, matched, S
<1>6. CASE w.decider = 0
  <2>1. \A k \in 1..n : apps[k].resolved = Absent
    BY <1>4, <1>6 DEF Weighs
  <2>2. v.decider = Absent /\ v.outcome = "unknown"
    BY <1>5, <1>6 DEF PairFacts
  <2>3. ASSUME PairProblem(d, left, right) = "none", NEW rule \in S PROVE ~Reaches(d, left, right, rule)
    BY <1>1, <1>2, <2>1, <2>3 DEF Reaches
  <2> QED BY <2>2, <2>3 DEF Undecided, S
<1>7. CASE w.decider # 0
  <2> DEFINE D == w.decider
             rule == matched[D]
  <2>1. D \in 1..n /\ apps[D].resolved # Absent
        /\ \A k \in 1..n : k < D => apps[k].resolved = Absent
    BY <1>4, <1>7 DEF Weighs
  <2>2. PairProblem(d, left, right) = "none"
    BY <1>1, <2>1
  <2>3. v.decider = RuleRef(rule) /\ v.outcome = Applied(d, left, right, rule).resolved
    BY <1>2, <1>3, <1>5, <1>7, <2>1 DEF PairFacts
  <2>4. rule \in S /\ Reaches(d, left, right, rule)
    BY <1>1, <1>2, <2>1 DEF Reaches
  <2>5. ASSUME NEW other \in S, Reaches(d, left, right, other)
        PROVE  other = rule \/ PrecedenceHigher(rule, other)
    <3>1. PICK k \in 1..n : matched[k] = other
      BY <1>1, <2>2
    <3>2. ~(k < D)
      BY <1>2, <2>1, <2>5, <3>1 DEF Reaches
    <3>3. k = D \/ D < k
      BY <2>1, <3>2
    <3> QED BY <1>1, <2>1, <2>2, <3>1, <3>3
  <2> HIDE DEF rule
  <2> QED BY <2>2, <2>3, <2>4, <2>5 DEF IsFirst, S
<1> QED BY <1>6, <1>7

-----------------------------------------------------------------------------
(* What a replay finds changed.                                            *)

\* Taxonomies without a difference are the same (DiffSection).
LEMMA NoTaxonomyDifference ==
  ASSUME NEW before, NEW after, ReadTaxonomy(before.taxonomy), ReadTaxonomy(after.taxonomy),
         DiffGenerations(before, after).taxonomy = {}
  PROVE  before.taxonomy = after.taxonomy
<1> DEFINE a == before.taxonomy
           b == after.taxonomy
<1>1. \A s \in ToSet(Sections) : DiffSection(s, a[s], b[s]) = {}
  BY DEF DiffGenerations
<1> HIDE DEF a, b
<1>2. ASSUME NEW s \in ToSet(Sections) PROVE a[s] = b[s]
  <2> DEFINE x == a[s]
             y == b[s]
  <2>1. DiffSection(s, x, y) = {}
    BY <1>1
  <2>2. x = [id \in DOMAIN x |-> x[id]] /\ y = [id \in DOMAIN y |-> y[id]]
    BY DEF ReadTaxonomy, a, b
  <2> HIDE DEF x, y
  <2>3. \A id \in DOMAIN x : id \in DOMAIN y
    BY <2>1 DEF DiffSection
  <2>4. \A id \in DOMAIN y : id \in DOMAIN x
    BY <2>1 DEF DiffSection
  <2>5. \A id \in DOMAIN x : x[id] = y[id]
    BY <2>1, <2>3 DEF DiffSection
  <2>6. DOMAIN x = DOMAIN y
    BY <2>3, <2>4
  <2>7. x = y
    BY <2>2, <2>5, <2>6
  <2> QED BY <2>7 DEF x, y
<1>3. a = [s \in ToSet(Sections) |-> a[s]] /\ b = [s \in ToSet(Sections) |-> b[s]]
  BY DEF ReadTaxonomy, a, b
<1>4. a = b
  BY <1>2, <1>3
<1> QED BY <1>4 DEF a, b

\* A rule of a published document is found by its identity.
LEMMA TheRuleOf ==
  ASSUME NEW d, Published(d), NEW rule \in ToSet(d.rules)
  PROVE  RuleOf(d, rule.id) = rule /\ rule.id \in RuleIds(d)
<1> DEFINE rules == d.rules
           T == {i \in DOMAIN rules : rules[i].id = rule.id}
<1>1. DOMAIN rules = 1..Len(rules) /\ Len(rules) \in Nat
  BY DEF Published, ReadDocument
<1>2. T # {} /\ T \in SUBSET Nat
  BY <1>1 DEF ToSet
<1>3. IsFiniteSet(T)
  <2>1. IsFiniteSet(1..Len(rules)) /\ T \subseteq 1..Len(rules)
    BY <1>1, FS_Interval
  <2> HIDE DEF T
  <2> QED BY <2>1, FS_Subset
<1> HIDE DEF T
<1>4. Min(T) \in T
  BY <1>2, <1>3, GreatestNatural
<1>5. RuleOf(d, rule.id) = rules[Min(T)]
  BY DEF RuleOf, T
<1>6. rules[Min(T)] \in ToSet(rules) /\ rules[Min(T)].id = rule.id
  BY <1>4 DEF T, ToSet
<1>7. rules[Min(T)] = rule
  BY <1>6, PublishedIsUnambiguous DEF Unique, Unambiguous
<1> QED BY <1>5, <1>7 DEF RuleIds

\* The rules DiffGenerations says are not the same any more.
Touched(before, after) ==
  {r.rule[1] : r \in {x \in DiffGenerations(before, after).rules : x.kind # "unchanged"}}

\* A rule no difference names is in both generations (DiffRule).
LEMMA UntouchedIsKept ==
  ASSUME NEW a, NEW b, Published(a), Published(b), NEW rule,
         rule \in ToSet(a.rules) \/ rule \in ToSet(b.rules), rule.id \notin Touched(a, b)
  PROVE  rule \in ToSet(a.rules) /\ rule \in ToSet(b.rules)
<1> DEFINE id == rule.id
           r == DiffRule(id, a, b)
<1>1. id \in RuleIds(a) \cup RuleIds(b)
  BY TheRuleOf
<1>2. r \in DiffGenerations(a, b).rules
  BY <1>1 DEF DiffGenerations
<1>3. ASSUME NEW d, Published(d), id \in RuleIds(d)
      PROVE  RuleOf(d, id) \in ToSet(d.rules) /\ RuleOf(d, id).id = id
  <2>1. PICK x \in ToSet(d.rules) : x.id = id
    BY <1>3 DEF RuleIds
  <2> QED BY <1>3, <2>1, TheRuleOf
<1>4. r.rule[1] = id
  <2>1. CASE id \notin RuleIds(a)
    BY <1>1, <1>3, <2>1 DEF DiffRule, RuleRef
  <2>2. CASE id \in RuleIds(a) /\ id \notin RuleIds(b)
    BY <1>3, <2>2 DEF DiffRule, RuleRef
  <2>3. CASE id \in RuleIds(a) /\ id \in RuleIds(b)
    BY <1>3, <2>3 DEF DiffRule, RuleRef
  <2> QED BY <2>1, <2>2, <2>3
<1>5. r.kind = "unchanged"
  <2> HIDE DEF r, id
  <2>1. r.kind # "unchanged" => r.rule[1] \in Touched(a, b)
    BY <1>2 DEF Touched
  <2>2. id \notin Touched(a, b)
    BY DEF id
  <2> QED BY <1>4, <2>1, <2>2
<1>6. id \in RuleIds(a) /\ id \in RuleIds(b)
  BY <1>1, <1>5 DEF DiffRule
<1>7. RuleOf(a, id) = RuleOf(b, id)
  BY <1>5, <1>6 DEF DiffRule, SameContent
<1>8. rule \in ToSet(a.rules) => rule = RuleOf(a, id)
  BY TheRuleOf
<1>9. rule \in ToSet(b.rules) => rule = RuleOf(b, id)
  BY TheRuleOf
<1>10. RuleOf(a, id) \in ToSet(a.rules) /\ RuleOf(b, id) \in ToSet(b.rules)
  BY <1>3, <1>6
<1> QED BY <1>7, <1>8, <1>9, <1>10

\* The first rule of one generation still reaches its outcome in the other if no
\* difference names it.
LEMMA FirstMovesOver ==
  ASSUME NEW a, NEW b, Published(a), Published(b), a.taxonomy = b.taxonomy, NEW left, NEW right,
         PairProblem(a, left, right) = "none", NEW rule, IsFirst(a, left, right, rule),
         rule.id \notin Touched(a, b)
  PROVE  /\ PairProblem(b, left, right) = "none"
         /\ rule \in Matching(b, left, right) /\ Reaches(b, left, right, rule)
         /\ Applied(b, left, right, rule) = Applied(a, left, right, rule)
<1>1. rule \in Matching(a, left, right) /\ Reaches(a, left, right, rule)
  BY DEF IsFirst
<1>2. rule \in ToSet(a.rules)
  BY <1>1, MatchingRules, PublishedIsUnambiguous
<1>3. rule \in ToSet(b.rules)
  BY <1>2, UntouchedIsKept
<1>4. rule \in Matching(b, left, right) /\ rule \in ActiveRules(b, "pair")
  BY <1>1, <1>3 DEF Matching, ActiveRules
<1>5. Applied(b, left, right, rule) = Applied(a, left, right, rule)
  BY DEF Applied
<1>6. PairProblem(b, left, right) = "none"
  <2>1. PairRegistered(a.taxonomy, left, right) = "none"
    BY DEF PairProblem, Obstacle, When
  <2> QED BY <1>4, <2>1 DEF PairProblem, Obstacle, When
<1> QED BY <1>1, <1>4, <1>5, <1>6 DEF Reaches

\* If no difference names the first rule of either generation, they are the same
\* rule.
LEMMA SameFirst ==
  ASSUME NEW a, NEW b, Published(a), Published(b), a.taxonomy = b.taxonomy, NEW left, NEW right,
         PairProblem(a, left, right) = "none", PairProblem(b, left, right) = "none",
         NEW x, IsFirst(a, left, right, x), x.id \notin Touched(a, b),
         NEW y, IsFirst(b, left, right, y), y.id \notin Touched(a, b)
  PROVE  x = y
<1> DEFINE S == Matching(a, left, right)
<1>1. x \in S /\ y \in Matching(b, left, right) /\ Reaches(b, left, right, y)
  BY DEF IsFirst
<1>2. y \in ToSet(a.rules)
  BY <1>1, MatchingRules, PublishedIsUnambiguous, UntouchedIsKept
<1>3. y \in S
  BY <1>1, <1>2 DEF Matching, ActiveRules
<1>4. Reaches(a, left, right, y)
  BY <1>1 DEF Reaches, Applied
<1>5. y = x \/ PrecedenceHigher(x, y)
  BY <1>3, <1>4 DEF IsFirst
<1>6. x \in Matching(b, left, right) /\ Reaches(b, left, right, x)
  BY FirstMovesOver
<1>7. x = y \/ PrecedenceHigher(y, x)
  BY <1>6 DEF IsFirst
<1>8. StrictOrder(Higher(S), S)
  BY MatchingRules, PublishedIsUnambiguous, PrecedenceIsStrict
<1>9. ~(PrecedenceHigher(x, y) /\ PrecedenceHigher(y, x))
  <2>1. PrecedenceHigher(x, y) => <<x, y>> \in Higher(S)
    BY <1>1, <1>3 DEF Higher
  <2>2. PrecedenceHigher(y, x) => <<y, x>> \in Higher(S)
    BY <1>1, <1>3 DEF Higher
  <2> HIDE DEF S
  <2> QED BY <1>1, <1>3, <1>8, <2>1, <2>2 DEF StrictOrder
<1> QED BY <1>5, <1>7, <1>9

\* A rule that decided can be named.
LEMMA RefIsThere ==
  ASSUME NEW rule, Read(rule)
  PROVE  RuleRef(rule) # Absent /\ RuleRef(rule)[1] = rule.id
<1>1. RuleRef(rule) \in Nat \X Nat
  BY DEF RuleRef, Read
<1> QED BY <1>1, AbsentAssumption DEF RuleRef

\* Two generations say the same of a pair if no difference names a rule that
\* decided in either.
LEMMA UntouchedDecideTheSame ==
  ASSUME NEW a, NEW b, Published(a), Published(b), a.taxonomy = b.taxonomy, NEW left, NEW right,
         NEW va, va = EvaluatePair(a, left, right), NEW vb, vb = EvaluatePair(b, left, right),
         va.decider = Absent \/ va.decider[1] \notin Touched(a, b),
         vb.decider = Absent \/ vb.decider[1] \notin Touched(a, b)
  PROVE  va.outcome = vb.outcome
<1> DEFINE Nothing(d, v) ==
             /\ v.decider = Absent /\ v.outcome = "unknown"
             /\ PairProblem(d, left, right) # "none" \/ Undecided(d, left, right)
           First(d, v, rule) ==
             /\ PairProblem(d, left, right) = "none"
             /\ rule \in Matching(d, left, right) /\ IsFirst(d, left, right, rule)
             /\ rule.id \notin Touched(a, b)
             /\ v.outcome = Applied(d, left, right, rule).resolved
<1>1. Nothing(a, va) \/ \E rule : First(a, va, rule)
  <2>1. CASE \E rule \in Matching(a, left, right) :
               /\ PairProblem(a, left, right) = "none" /\ IsFirst(a, left, right, rule)
               /\ va.decider = RuleRef(rule) /\ va.outcome = Applied(a, left, right, rule).resolved
    BY <2>1, MatchingRules, PublishedIsUnambiguous, RefIsThere
  <2> QED BY <2>1, FirstDecides, PublishedIsUnambiguous
<1>2. Nothing(b, vb) \/ \E rule : First(b, vb, rule)
  <2>1. CASE \E rule \in Matching(b, left, right) :
               /\ PairProblem(b, left, right) = "none" /\ IsFirst(b, left, right, rule)
               /\ vb.decider = RuleRef(rule) /\ vb.outcome = Applied(b, left, right, rule).resolved
    BY <2>1, MatchingRules, PublishedIsUnambiguous, RefIsThere
  <2> QED BY <2>1, FirstDecides, PublishedIsUnambiguous
<1>3. CASE Nothing(a, va) /\ Nothing(b, vb)
  BY <1>3
<1>4. ASSUME NEW rule, First(a, va, rule), Nothing(b, vb) PROVE FALSE
  BY <1>4, FirstMovesOver DEF Undecided
<1>6. ASSUME NEW rule, First(b, vb, rule), Nothing(a, va) PROVE FALSE
  <2>1. rule \in Matching(b, left, right) /\ Reaches(b, left, right, rule)
    BY <1>6 DEF IsFirst
  <2>2. rule \in ToSet(a.rules)
    BY <1>6, <2>1, MatchingRules, PublishedIsUnambiguous, UntouchedIsKept
  <2>3. rule \in Matching(a, left, right) /\ rule \in ActiveRules(a, "pair")
    BY <2>1, <2>2 DEF Matching, ActiveRules
  <2>4. Reaches(a, left, right, rule)
    BY <2>1 DEF Reaches, Applied
  <2>5. PairProblem(a, left, right) = "none"
    <3>1. PairRegistered(b.taxonomy, left, right) = "none"
      BY <1>6 DEF PairProblem, Obstacle, When
    <3> QED BY <2>3, <3>1 DEF PairProblem, Obstacle, When
  <2> QED BY <1>6, <2>3, <2>4, <2>5 DEF Undecided
<1>7. ASSUME NEW x, First(a, va, x), NEW y, First(b, vb, y) PROVE va.outcome = vb.outcome
  <2>1. x = y
    BY <1>7, SameFirst
  <2>2. Applied(a, left, right, x) = Applied(b, left, right, x)
    BY DEF Applied
  <2> QED BY <1>7, <2>1, <2>2
<1> HIDE DEF Nothing, First
<1> QED BY <1>1, <1>2, <1>3, <1>4, <1>6, <1>7

\* rule comes first, by precedence, of the rules in S.
Leads(rule, S) == rule \in S /\ \A other \in S : other = rule \/ PrecedenceHigher(rule, other)

\* The set rules that reach an outcome, if the members are registered.
SetDeciders(d, members) ==
  {rule \in SetMatching(d, members) :
     SetProblem(d, members) = "none" /\ SetApplied(d, members, rule).resolved # Absent}

\* The rule that decides about a set is the first that reaches an outcome
\* (EvaluateSetLevel).
LEMMA SetLeaderDecides ==
  ASSUME NEW d, Unambiguous(d), NEW members, NEW v, v = EvaluateSetLevel(d, members)
  PROVE  \/ SetDeciders(d, members) = {} /\ v.decider = Absent /\ v.outcome = "unknown"
         \/ \E rule : /\ Leads(rule, SetDeciders(d, members))
                      /\ v.decider = RuleRef(rule) /\ v.outcome = SetApplied(d, members, rule).resolved
<1> DEFINE S == SetMatching(d, members)
           D == SetDeciders(d, members)
           problem == SetProblem(d, members)
<1>1. PICK n, apps :
        /\ n \in Nat
        /\ EvaluateSetLevel(d, members) = Conclude(d, "set", members, problem, apps)
        /\ DOMAIN apps = 1..n
        /\ \A k \in 1..n : \E rule \in S : apps[k] = SetApplied(d, members, rule)
        /\ problem # "none" => n = 0
        /\ problem = "none" =>
             /\ \A rule \in S : \E k \in 1..n : apps[k].rule = rule
             /\ \A j, k \in 1..n : j < k => PrecedenceHigher(apps[j].rule, apps[k].rule)
  BY SetLevelIsWeighed
<1> DEFINE w == WeighAll(apps)
<1>2. \A k \in 1..n : /\ "decided" \in DOMAIN apps[k]
                      /\ apps[k].rule \in S /\ apps[k] = SetApplied(d, members, apps[k].rule)
  BY <1>1, SetAppliedSays
<1>3. Weighs(w, n, apps)
  BY <1>1, <1>2, WeighAllWeighs
<1>4. /\ w.decider # 0 => v.outcome = apps[w.decider].resolved /\ v.decider = RuleRef(apps[w.decider].rule)
      /\ w.decider = 0 => v.outcome = "unknown" /\ v.decider = Absent
  BY <1>1 DEF Conclude
<1> HIDE DEF w
<1>5. \A rule : rule \in D <=> rule \in S /\ problem = "none" /\ SetApplied(d, members, rule).resolved # Absent
  BY DEF SetDeciders
<1> HIDE DEF S, D, problem
<1>6. CASE w.decider = 0
  <2>1. \A k \in 1..n : apps[k].resolved = Absent
    BY <1>3, <1>6 DEF Weighs
  <2>2. ASSUME NEW rule \in D PROVE FALSE
    <3>1. PICK k \in 1..n : apps[k].rule = rule
      BY <1>1, <1>5
    <3> QED BY <1>2, <1>5, <2>1, <3>1
  <2> QED BY <1>4, <1>6, <2>2 DEF D
<1>7. CASE w.decider # 0
  <2> DEFINE K == w.decider
             rule == apps[K].rule
  <2>1. /\ K \in 1..n /\ apps[K].resolved # Absent
        /\ \A k \in 1..n : k < K => apps[k].resolved = Absent
    BY <1>3, <1>7 DEF Weighs
  <2>2. problem = "none"
    BY <1>1, <2>1
  <2>3. rule \in D
    BY <1>2, <1>5, <2>1, <2>2
  <2>4. ASSUME NEW other \in D PROVE other = rule \/ PrecedenceHigher(rule, other)
    <3>1. PICK k \in 1..n : apps[k].rule = other
      BY <1>1, <1>5
    <3>2. ~(k < K)
      BY <1>2, <1>5, <2>1, <3>1
    <3>3. k = K \/ K < k
      BY <1>1, <2>1, <3>2
    <3> QED BY <1>1, <2>1, <2>2, <3>1, <3>3
  <2>5. v.decider = RuleRef(rule) /\ v.outcome = SetApplied(d, members, rule).resolved
    BY <1>2, <1>4, <1>7, <2>1
  <2>6. Leads(rule, D)
    BY <2>3, <2>4 DEF Leads
  <2> QED BY <2>5, <2>6 DEF D
<1> QED BY <1>6, <1>7

\* A set rule that no difference names decides in both generations or in neither.
LEMMA SetDeciderMovesOver ==
  ASSUME NEW a, NEW b, Published(a), Published(b), a.taxonomy = b.taxonomy, NEW members,
         NEW rule, rule.id \notin Touched(a, b)
  PROVE  /\ rule \in SetDeciders(a, members) <=> rule \in SetDeciders(b, members)
         /\ SetApplied(a, members, rule) = SetApplied(b, members, rule)
<1>1. rule \in ActiveRules(a, "set") <=> rule \in ActiveRules(b, "set")
  BY UntouchedIsKept DEF ActiveRules
<1>2. rule \in SetMatching(a, members) <=> rule \in SetMatching(b, members)
  BY <1>1 DEF SetMatching
<1>3. SetApplied(a, members, rule) = SetApplied(b, members, rule)
  BY DEF SetApplied
<1>4. ASSUME NEW x, NEW y, x.taxonomy = y.taxonomy, rule \in SetMatching(x, members),
             rule \in SetMatching(y, members), SetProblem(x, members) = "none"
      PROVE  SetProblem(y, members) = "none"
  <2>1. SetRegistered(x.taxonomy, members) = "none"
    BY <1>4 DEF SetProblem, Obstacle, When
  <2>2. ActiveRules(y, "set") # {}
    BY <1>4 DEF SetMatching
  <2> QED BY <1>4, <2>1, <2>2 DEF SetProblem, Obstacle, When
<1> QED BY <1>2, <1>3, <1>4 DEF SetDeciders

\* Two generations say the same of a set by itself if no difference names a set rule
\* that decided in either.
LEMMA SetUntouchedDecideTheSame ==
  ASSUME NEW a, NEW b, Published(a), Published(b), a.taxonomy = b.taxonomy, NEW members,
         NEW va, va = EvaluateSetLevel(a, members), NEW vb, vb = EvaluateSetLevel(b, members),
         va.decider = Absent \/ va.decider[1] \notin Touched(a, b),
         vb.decider = Absent \/ vb.decider[1] \notin Touched(a, b)
  PROVE  va.outcome = vb.outcome
<1> DEFINE A == SetDeciders(a, members)
           B == SetDeciders(b, members)
           First(rule, S, d, v) == Leads(rule, S) /\ v.outcome = SetApplied(d, members, rule).resolved
<1>0. ASSUME NEW d, Published(d), NEW rule \in SetDeciders(d, members)
      PROVE  Read(rule) /\ rule \in ToSet(d.rules)
  BY <1>0, SetAppliedSays, PublishedIsUnambiguous DEF SetDeciders
<1>1. \/ A = {} /\ va.outcome = "unknown"
      \/ \E rule : First(rule, A, a, va) /\ rule.id \notin Touched(a, b)
  <2>1. ASSUME NEW rule, Leads(rule, A), va.decider = RuleRef(rule) PROVE rule.id \notin Touched(a, b)
    BY <1>0, <2>1, RefIsThere DEF Leads
  <2> HIDE DEF A
  <2> QED BY <2>1, SetLeaderDecides, PublishedIsUnambiguous DEF A
<1>2. \/ B = {} /\ vb.outcome = "unknown"
      \/ \E rule : First(rule, B, b, vb) /\ rule.id \notin Touched(a, b)
  <2>1. ASSUME NEW rule, Leads(rule, B), vb.decider = RuleRef(rule) PROVE rule.id \notin Touched(a, b)
    BY <1>0, <2>1, RefIsThere DEF Leads
  <2> HIDE DEF B
  <2> QED BY <2>1, SetLeaderDecides, PublishedIsUnambiguous DEF B
<1>3. ASSUME NEW rule, rule.id \notin Touched(a, b)
      PROVE  (rule \in A <=> rule \in B) /\ SetApplied(a, members, rule) = SetApplied(b, members, rule)
  BY <1>3, SetDeciderMovesOver
<1>4. StrictOrder(Higher(A), A)
  <2>1. A \subseteq ToSet(a.rules) /\ \A rule \in A : Read(rule)
    BY <1>0
  <2>2. Unique(A)
    BY <2>1, PublishedIsUnambiguous DEF Unique, Unambiguous
  <2> HIDE DEF A
  <2> QED BY <2>1, <2>2, PrecedenceIsStrict
<1> HIDE DEF A, B
<1>5. ASSUME NEW x, First(x, A, a, va), x.id \notin Touched(a, b),
             NEW y, First(y, B, b, vb), y.id \notin Touched(a, b)
      PROVE  va.outcome = vb.outcome
  <2>1. x \in A /\ x \in B /\ y \in A /\ y \in B
    BY <1>3, <1>5 DEF Leads
  <2>2. (y = x \/ PrecedenceHigher(x, y)) /\ (x = y \/ PrecedenceHigher(y, x))
    BY <1>5, <2>1 DEF Leads
  <2>3. /\ PrecedenceHigher(x, y) => <<x, y>> \in Higher(A)
        /\ PrecedenceHigher(y, x) => <<y, x>> \in Higher(A)
    BY <2>1 DEF Higher
  <2>4. x = y
    BY <1>4, <2>1, <2>2, <2>3 DEF StrictOrder
  <2> QED BY <1>3, <1>5, <2>4
<1>6. ASSUME NEW x, First(x, A, a, va), x.id \notin Touched(a, b), B = {} PROVE FALSE
  BY <1>3, <1>6 DEF Leads
<1>7. ASSUME NEW y, First(y, B, b, vb), y.id \notin Touched(a, b), A = {} PROVE FALSE
  BY <1>3, <1>7 DEF Leads
<1> HIDE DEF First
<1> QED BY <1>1, <1>2, <1>5, <1>6, <1>7

\* Two generations say the same of a set if no difference names a rule that decided
\* about a part of it in either.
LEMMA SetsUntouchedSayTheSame ==
  ASSUME NEW a, NEW b, Published(a), Published(b), a.taxonomy = b.taxonomy,
         NEW n \in Nat, NEW members, DOMAIN members = 1..n, members = [i \in 1..n |-> members[i]],
         ~Failed(EvaluateSet(a, members)), ~Failed(EvaluateSet(b, members)),
         \A decider \in DecidersOfParts(a, members) \cup DecidersOfParts(b, members) :
           decider = Absent \/ decider[1] \notin Touched(a, b)
  PROVE  EvaluateSet(a, members).value.outcome = EvaluateSet(b, members).value.outcome
<1> DEFINE va == EvaluateSet(a, members).value
           vb == EvaluateSet(b, members).value
           Pair(d, p) == EvaluatePair(d, members[p[1]], members[p[2]])
<1>1. SetFacts(a, n, members, va) /\ SetFacts(b, n, members, vb)
  BY EvaluateSetConcludes, Zenon
<1>2. ASSUME NEW d, SetFacts(d, n, members, EvaluateSet(d, members).value)
      PROVE  /\ EvaluateSetLevel(d, members).decider \in DecidersOfParts(d, members)
             /\ \A p \in Chosen(n) : Pair(d, p).decider \in DecidersOfParts(d, members)
  <2> DEFINE v == EvaluateSet(d, members).value
             pairs == [p \in Chosen(n) |-> Pair(d, p)]
  <2>1. v.set_level = EvaluateSetLevel(d, members) /\ v.pairs = pairs
    BY <1>2 DEF SetFacts
  <2>2. DecidersOfParts(d, members) = {v.set_level.decider} \cup {v.pairs[p].decider : p \in DOMAIN v.pairs}
    BY DEF DecidersOfParts
  <2> HIDE DEF v
  <2>3. \A p \in Chosen(n) : p \in DOMAIN v.pairs /\ v.pairs[p] = Pair(d, p)
    BY <2>1
  <2> HIDE DEF Pair, pairs
  <2> QED BY <2>1, <2>2, <2>3
<1>3. EvaluateSetLevel(a, members).outcome = EvaluateSetLevel(b, members).outcome
  BY <1>1, <1>2, SetUntouchedDecideTheSame
<1>4. \A p \in Chosen(n) : Pair(a, p).outcome = Pair(b, p).outcome
  BY <1>1, <1>2, UntouchedDecideTheSame
<1>5. PairOutcomes(a, n, members) = PairOutcomes(b, n, members)
  <2>1. \A d, x : x \in PairOutcomes(d, n, members) <=> \E p \in Chosen(n) : x = Pair(d, p).outcome
    BY DEF PairOutcomes
  <2> HIDE DEF Pair
  <2>2. \A x : x \in PairOutcomes(a, n, members) <=> x \in PairOutcomes(b, n, members)
    BY <1>4, <2>1
  <2> QED BY <2>2
<1>6. /\ va.outcome = SetOutcome({EvaluateSetLevel(a, members).outcome} \cup PairOutcomes(a, n, members))
      /\ vb.outcome = SetOutcome({EvaluateSetLevel(b, members).outcome} \cup PairOutcomes(b, n, members))
  <2> HIDE DEF va, vb
  <2> QED BY <1>1 DEF SetFacts
<1> HIDE DEF va, vb
<1>7. va.outcome = vb.outcome
  BY <1>3, <1>5, <1>6
<1> QED BY <1>7 DEF va, vb

\* All has every value when nothing is wrong.
LEMMA AllGives ==
  ASSUME NEW n \in Nat, NEW results, DOMAIN results = 1..n, ~Failed(All(results))
  PROVE  /\ All(results).value = [i \in 1..n |-> results[i].value]
         /\ \A i \in 1..n : ~Failed(results[i])
<1> DEFINE codes == [i \in DOMAIN results |-> results[i].error]
           values == [i \in DOMAIN results |-> results[i].value]
<1>1. DOMAIN codes = 1..n /\ \A i \in 1..n : codes[i] = results[i].error
  OBVIOUS
<1>2. All(results) = IF FirstError(codes) # "none" THEN Error(FirstError(codes)) ELSE Ok(values)
  BY DEF All
<1>3. values = [i \in 1..n |-> results[i].value]
  OBVIOUS
<1> HIDE DEF codes, values
<1>4. FirstError(codes) = "none" /\ All(results).value = values
  BY <1>2 DEF Failed, Error, Ok
<1>5. \A i \in 1..n : codes[i] = "none"
  BY <1>1, <1>4, NoErrorMeansNone
<1> QED BY <1>1, <1>3, <1>4, <1>5 DEF Failed

\* What a generation says of a pair is its decision about it.
LEMMA PairIsSaid ==
  ASSUME NEW document, NEW query, Len(query) = 2, NEW said, said = Says(document, query).value
  PROVE  /\ said.outcome = EvaluatePair(document, query[1], query[2]).outcome
         /\ said.decider = EvaluatePair(document, query[1], query[2]).decider
<1> DEFINE v == EvaluatePair(document, query[1], query[2])
<1>1. Says(document, query) = Ok(PairSays(v))
  BY DEF Says
<1> HIDE DEF v
<1>2. said = PairSays(v)
  BY <1>1 DEF Ok
<1>3. said.outcome = v.outcome /\ said.decider = v.decider
  BY <1>2 DEF PairSays
<1> QED BY <1>3 DEF v

\* What a generation says of a set is the outcome of its decision about it.
LEMMA SetIsSaid ==
  ASSUME NEW document, NEW query, Len(query) # 2, ~Failed(Says(document, query))
  PROVE  /\ ~Failed(EvaluateSet(document, query))
         /\ Says(document, query).value.outcome = EvaluateSet(document, query).value.outcome
<1> DEFINE set == EvaluateSet(document, query)
<1>1. Says(document, query) = IF Len(query) < 2 THEN Error("InvalidArgument")
                              ELSE IF Failed(set) THEN set ELSE Ok(SetSays(set.value))
  BY DEF Says, Then
<1>2. Failed(Error("InvalidArgument"))
  BY DEF Failed, Error
<1> HIDE DEF set
<1>3. ~Failed(set) /\ Says(document, query) = Ok(SetSays(set.value))
  BY <1>1, <1>2
<1>4. Says(document, query).value.outcome = set.value.outcome
  BY <1>3 DEF Ok, SetSays
<1> QED BY <1>3, <1>4 DEF set

\* A change that a replay finds has what both generations say (ReplayDiff).
LEMMA ChangesAreSaid ==
  ASSUME NEW before, NEW after, NEW query, ~Failed(ReplayDiff(before, after, <<query>>)),
         NEW change \in ReplayDiff(before, after, <<query>>).value.changes
  PROVE  /\ change.subjects = query
         /\ ~Failed(Says(before, query)) /\ ~Failed(Says(after, query))
         /\ change.before = Says(before, query).value /\ change.after = Says(after, query).value
<1> DEFINE queries == <<query>>
           said(d) == [i \in DOMAIN queries |-> Says(d, queries[i])]
           was == All(said(before))
           is == All(said(after))
           result == ReplayDiff(before, after, queries)
           compared == [compared |-> Len(queries), changes |-> Changes(queries, was.value, is.value)]
<1>1. result = IF Failed(was) THEN was ELSE IF Failed(is) THEN is ELSE Ok(compared)
  BY DEF ReplayDiff, Then
<1>2. /\ \A d : DOMAIN said(d) = 1..1 /\ said(d)[1] = Says(d, query)
      /\ DOMAIN queries = 1..1 /\ queries[1] = query
  OBVIOUS
<1> HIDE DEF said, queries
<1>3. ~Failed(was) => /\ was.value = [i \in 1..1 |-> said(before)[i].value]
                      /\ \A i \in 1..1 : ~Failed(said(before)[i])
  BY <1>2, AllGives
<1>4. ~Failed(is) => /\ is.value = [i \in 1..1 |-> said(after)[i].value]
                     /\ \A i \in 1..1 : ~Failed(said(after)[i])
  BY <1>2, AllGives
<1>5. 1 \in 1..1 /\ \A i \in 1..1 : i = 1
  OBVIOUS
<1> HIDE DEF was, is, compared, result
<1>6. ~Failed(was) /\ ~Failed(is) /\ result = Ok(compared)
  BY <1>1 DEF result, queries
<1>7. /\ was.value[1] = Says(before, query).value /\ is.value[1] = Says(after, query).value
      /\ ~Failed(Says(before, query)) /\ ~Failed(Says(after, query))
  BY <1>2, <1>3, <1>4, <1>5, <1>6
<1>8. change \in Changes(queries, was.value, is.value)
  <2>1. result.value = compared
    BY <1>6 DEF Ok
  <2>2. change \in result.value.changes
    BY DEF result, queries
  <2> QED BY <2>1, <2>2 DEF compared
<1>9. PICK i \in DOMAIN queries :
        change = [subjects |-> queries[i], before |-> was.value[i], after |-> is.value[i]]
  BY <1>8 DEF Changes
<1>10. i = 1
  BY <1>2, <1>5
<1> QED BY <1>2, <1>7, <1>9, <1>10

\* The rules behind a change that a replay finds, before and after.
DecidersOf(before, after, change) ==
  IF Len(change.subjects) = 2 THEN {change.before.decider, change.after.decider}
  ELSE DecidersOfParts(before, change.subjects) \cup DecidersOfParts(after, change.subjects)

\* A list of n components.
ListOf(query, n) == n \in Nat /\ DOMAIN query = 1..n /\ query = [i \in 1..n |-> query[i]]

\* Where no difference names a rule behind a change, the outcome is the same.
LEMMA OutcomeIsExplained ==
  ASSUME NEW a, NEW b, Published(a), Published(b), a.taxonomy = b.taxonomy,
         NEW n, NEW query, ListOf(query, n),
         ~Failed(ReplayDiff(a, b, <<query>>)), NEW change \in ReplayDiff(a, b, <<query>>).value.changes,
         \A decider \in DecidersOf(a, b, change) : decider = Absent \/ decider[1] \notin Touched(a, b)
  PROVE  change.before.outcome = change.after.outcome
<1>1. /\ change.subjects = query
      /\ ~Failed(Says(a, query)) /\ ~Failed(Says(b, query))
      /\ change.before = Says(a, query).value /\ change.after = Says(b, query).value
  <2>1. change.subjects = query
    BY ChangesAreSaid
  <2>2. change.before = Says(a, query).value /\ change.after = Says(b, query).value
    BY ChangesAreSaid
  <2>3. ~Failed(Says(a, query)) /\ ~Failed(Says(b, query))
    BY ChangesAreSaid, Zenon
  <2> QED BY <2>1, <2>2, <2>3
<1>2. CASE Len(query) = 2
  <2> DEFINE va == EvaluatePair(a, query[1], query[2])
             vb == EvaluatePair(b, query[1], query[2])
  <2>1. /\ change.before.outcome = va.outcome /\ change.before.decider = va.decider
        /\ change.after.outcome = vb.outcome /\ change.after.decider = vb.decider
    BY <1>1, <1>2, PairIsSaid
  <2>2. va = EvaluatePair(a, query[1], query[2]) /\ vb = EvaluatePair(b, query[1], query[2])
    OBVIOUS
  <2> HIDE DEF va, vb
  <2>3. /\ va.decider = Absent \/ va.decider[1] \notin Touched(a, b)
        /\ vb.decider = Absent \/ vb.decider[1] \notin Touched(a, b)
    BY <1>1, <1>2, <2>1 DEF DecidersOf
  <2>4. va.outcome = vb.outcome
    BY <2>2, <2>3, UntouchedDecideTheSame
  <2> QED BY <2>1, <2>4
<1>3. CASE Len(query) # 2
  <2>1. /\ ~Failed(EvaluateSet(a, query)) /\ ~Failed(EvaluateSet(b, query))
        /\ change.before.outcome = EvaluateSet(a, query).value.outcome
        /\ change.after.outcome = EvaluateSet(b, query).value.outcome
    <3>1. ~Failed(Says(a, query)) /\ ~Failed(Says(b, query))
      BY <1>1
    <3>2. /\ ~Failed(EvaluateSet(a, query))
          /\ Says(a, query).value.outcome = EvaluateSet(a, query).value.outcome
      BY <1>3, <3>1, SetIsSaid, Zenon
    <3>3. /\ ~Failed(EvaluateSet(b, query))
          /\ Says(b, query).value.outcome = EvaluateSet(b, query).value.outcome
      BY <1>3, <3>1, SetIsSaid, Zenon
    <3> QED BY <1>1, <3>2, <3>3
  <2>2. \A decider \in DecidersOfParts(a, query) \cup DecidersOfParts(b, query) :
          decider = Absent \/ decider[1] \notin Touched(a, b)
    BY <1>1, <1>3 DEF DecidersOf
  <2>3. EvaluateSet(a, query).value.outcome = EvaluateSet(b, query).value.outcome
    BY <2>1, <2>2, SetsUntouchedSayTheSame DEF ListOf
  <2> QED BY <2>1, <2>3
<1> QED BY <1>2, <1>3

\* An outcome that changed between two generations is explained by their
\* difference: the taxonomy changed, or a rule that decided about the pair or about
\* a part of the set (ReplayDiff, DiffGenerations).
THEOREM ChangesAreAlwaysInTheDiff == Spec => []ChangesAreInTheDiff
<1>1. ASSUME Holds, Answers, Answered("replay_diff"), NEW change \in Value.changes,
             DiffGenerations(stored[answer.of[1]], stored[answer.of[2]]).taxonomy = {},
             change.before.outcome # change.after.outcome
      PROVE  {r[1] : r \in DecidersOf(stored[answer.of[1]], stored[answer.of[2]], change) \ {Absent}}
               \cap Touched(stored[answer.of[1]], stored[answer.of[2]]) # {}
  <2> DEFINE a == stored[answer.of[1]]
             b == stored[answer.of[2]]
  <2>1. PICK members \in Asked :
          LET specs == ReadMembers(members, stored[answer.of[2]])
              result == ReplayDiff(stored[answer.of[1]], stored[answer.of[2]], <<specs.value>>)
          IN ~Failed(specs) /\ ~Failed(result) /\ Value = result.value
    BY <1>1 DEF Answers, IsReplayAnswer
  <2>2. answer.of[1] \in DOMAIN stored /\ answer.of[2] \in DOMAIN stored
    BY <1>1 DEF Answers, IsReplayAnswer
  <2>3. Published(a) /\ Published(b)
    BY <1>1, <2>2 DEF Holds
  <2> DEFINE query == ReadMembers(members, b).value
             n == Len(members)
  <2>4. ~Failed(ReplayDiff(a, b, <<query>>)) /\ Value = ReplayDiff(a, b, <<query>>).value
    BY <2>1
  <2>5. DiffGenerations(a, b).taxonomy = {}
    BY <1>1
  <2>6. n \in Nat /\ query = [i \in 1..n |-> query[i]]
    BY <2>1, MembersAreRead
  <2> HIDE DEF a, b, query, n
  <2>7. a.taxonomy = b.taxonomy
    BY <2>3, <2>5, NoTaxonomyDifference DEF Published, ReadDocument
  <2>8. ListOf(query, n)
    BY <2>6 DEF ListOf
  <2> DEFINE deciders == DecidersOf(a, b, change) \ {Absent}
             ids == {r[1] : r \in deciders}
  <2>9. ~(\A decider \in DecidersOf(a, b, change) : decider = Absent \/ decider[1] \notin Touched(a, b))
    BY <1>1, <2>3, <2>4, <2>7, <2>8, OutcomeIsExplained
  <2>10. ids \cap Touched(a, b) # {}
    <3>1. PICK decider \in DecidersOf(a, b, change) : decider # Absent /\ decider[1] \in Touched(a, b)
      BY <2>9
    <3>2. decider[1] \in ids
      BY <3>1
    <3> QED BY <3>1, <3>2
  <2> QED BY <2>10 DEF a, b
<1>2. Holds /\ Answers => ChangesAreInTheDiff
  BY <1>1 DEF ChangesAreInTheDiff, Touched, DecidersOf
<1> QED BY <1>2, ServiceInvariant, PTL

-----------------------------------------------------------------------------
(* The history of one rule.                                                *)

\* Numbers in their order.
Ascending(S) == InOrder(S, <)

\* std::map iterates the generations in memory in ascending order.
LEMMA NumbersInOrder ==
  ASSUME NEW S \in SUBSET Nat, IsFiniteSet(S), NEW order, order = Ascending(S)
  PROVE  \E n \in Nat : /\ DOMAIN order = 1..n
                        /\ \A i \in 1..n : order[i] \in S
                        /\ \A i, j \in 1..n : i < j => order[i] < order[j]
                        /\ \A x \in S : \E i \in 1..n : order[i] = x
<1> DEFINE n == Cardinality(S)
           R == {p \in S \X S : p[1] < p[2]}
<1>0. n \in Nat
  BY FS_CardinalityType
<1>1. StrictOrder(R, S)
  <2>1. \A x, y \in S : <<x, y>> \in R <=> x < y
    OBVIOUS
  <2>2. \A x, y, z \in S : ~(x < x) /\ (x < y /\ y < z => x < z) /\ (x = y \/ x < y \/ y < x)
    <3> TAKE x, y, z \in S
    <3> x \in Nat /\ y \in Nat /\ z \in Nat
      OBVIOUS
    <3> HIDE DEF R
    <3> QED OBVIOUS
  <2> HIDE DEF R
  <2> QED BY <2>1, <2>2 DEF StrictOrder
<1>2. \A x \in S : {y \in S : y < x} = Smaller(R, S, x)
  BY DEF Smaller
<1>3. Places(order, R, S)
  <2>0. \A i \in 1..n : \E x \in S : Cardinality(Smaller(R, S, x)) = i - 1
    <3> HIDE DEF R
    <3> QED BY <1>1, RanksAreTaken
  <2>1. \A i \in 1..n : \E x \in S : Cardinality({y \in S : y < x}) = i - 1
    <3> HIDE DEF R
    <3> QED BY <1>2, <2>0
  <2>2. \A i \in 1..n : order[i] \in S /\ Cardinality({y \in S : y < order[i]}) = i - 1
    BY <2>1 DEF InOrder, Ascending
  <2>3. order = [i \in 1..n |-> order[i]]
    <3> DEFINE At(i) == CHOOSE x \in S : Cardinality({y \in S : y < x}) = i - 1
    <3>1. order = [i \in 1..n |-> At(i)]
      BY DEF InOrder, Ascending
    <3> HIDE DEF At, n
    <3> QED BY <3>1
  <2> HIDE DEF R
  <2> QED BY <1>2, <2>2, <2>3 DEF Places
<1>4. Sorts(order, R, S)
  <2> HIDE DEF R
  <2> QED BY <1>1, <1>3, PlacedIsSorted, Zenon
<1>5. DOMAIN order = 1..n /\ (\A i \in 1..n : order[i] \in S) /\ Len(order) = n
  <2> HIDE DEF R, n
  <2>1. order \in [1..n -> S]
    BY <1>3 DEF Places, n
  <2>2. Len(order) = n
    BY <1>4 DEF Sorts, n
  <2> QED BY <2>1, <2>2
<1>7. \A i, j \in 1..n : i < j => order[i] < order[j]
  <2>1. \A i, j \in 1..n : i < j => <<order[i], order[j]>> \in R
    <3> HIDE DEF R
    <3> QED BY <1>4, <1>5 DEF Sorts
  <2> QED BY <2>1
<1>8. \A x \in S : \E i \in 1..n : order[i] = x
  <2> HIDE DEF R
  <2> QED BY <1>4, <1>5 DEF Sorts
<1> QED BY <1>0, <1>5, <1>7, <1>8

\* What a record says of the rule, and what the records up to generation g say.
Reports(record) == IF record.present THEN record.content ELSE Absent
ToldBy(records, g) ==
  LET past == {i \in DOMAIN records : records[i].generation <= g}
  IN IF past = {} THEN Absent ELSE Reports(records[Max(past)])

\* Of records no later than a generation the last one tells the content.
LEMMA LastIsTold ==
  ASSUME NEW R, NEW records \in Seq(R), NEW g,
         \A i \in 1..Len(records) : records[i].generation <= g
  PROVE  ToldBy(records, g) = IF records = <<>> THEN Absent ELSE Reports(records[Len(records)])
<1> DEFINE past == {i \in DOMAIN records : records[i].generation <= g}
<1>1. past = 1..Len(records) /\ Len(records) \in Nat
  OBVIOUS
<1>2. ToldBy(records, g) = IF past = {} THEN Absent ELSE Reports(records[Max(past)])
  BY DEF ToldBy
<1> HIDE DEF past
<1>3. CASE records = <<>>
  <2>1. past = {}
    BY <1>1, <1>3
  <2> QED BY <1>2, <1>3, <2>1
<1>4. CASE records # <<>>
  <2>1. Len(records) \in 1..Len(records)
    BY <1>1, <1>4
  <2>2. past # {} /\ Max(past) = Len(records)
    BY <1>1, <2>1, LoopPrefixes
  <2> QED BY <1>2, <1>4, <2>2
<1> QED BY <1>3, <1>4

\* A sequence with one more entry.
LEMMA Appended ==
  ASSUME NEW R, NEW seq \in Seq(R), NEW x \in R
  PROVE  /\ Append(seq, x) \in Seq(R) /\ Len(Append(seq, x)) = Len(seq) + 1 /\ Append(seq, x) # <<>>
         /\ Append(seq, x)[Len(seq) + 1] = x
         /\ \A i \in 1..Len(seq) : Append(seq, x)[i] = seq[i]
OBVIOUS

\* A record tells nothing of the generations before it.
LEMMA LaterRecordsTellNothing ==
  ASSUME NEW R, NEW records \in Seq(R), NEW record \in R, NEW g, ~(record.generation <= g)
  PROVE  ToldBy(Append(records, record), g) = ToldBy(records, g)
<1> DEFINE more == Append(records, record)
           past == {i \in DOMAIN records : records[i].generation <= g}
           pastMore == {i \in DOMAIN more : more[i].generation <= g}
<1>1. Len(records) \in Nat /\ DOMAIN records = 1..Len(records)
  OBVIOUS
<1>2. /\ DOMAIN more = 1..Len(records) + 1
      /\ more[Len(records) + 1] = record
      /\ \A i \in 1..Len(records) : more[i] = records[i]
  OBVIOUS
<1>3. /\ ToldBy(records, g) = IF past = {} THEN Absent ELSE Reports(records[Max(past)])
      /\ ToldBy(more, g) = IF pastMore = {} THEN Absent ELSE Reports(more[Max(pastMore)])
  BY DEF ToldBy
<1> HIDE DEF more
<1>4. pastMore = past
  BY <1>1, <1>2
<1>5. past \in SUBSET (1..Len(records))
  BY <1>1
<1> HIDE DEF past, pastMore
<1>6. past # {} => Max(past) \in 1..Len(records)
  BY <1>1, <1>5, LoopPrefixes
<1> QED BY <1>2, <1>3, <1>4, <1>6 DEF more

\* The rule as a generation has it.
ContentIn(rule, document) == IF rule \in RuleIds(document) THEN RuleOf(document, rule) ELSE Absent

\* What Follow adds when the rule is not what it was.
Noted(rule, document, latest) ==
  IF rule \in RuleIds(document)
  THEN Record(document, RuleRef(RuleOf(document, rule)), RuleOf(document, rule), TRUE)
  ELSE Record(document, <<rule, 0>>, latest, FALSE)

\* A record of a rule that was found reports its content, and one of a rule that
\* was removed reports that it is gone.
LEMMA RecordReports ==
  ASSUME NEW document, NEW ref, NEW content, NEW r
  PROVE  /\ r = Record(document, ref, content, TRUE) =>
              r.generation = document.generation /\ Reports(r) = content
         /\ r = Record(document, ref, content, FALSE) =>
              r.generation = document.generation /\ Reports(r) = Absent
<1>1. ASSUME r = Record(document, ref, content, TRUE)
      PROVE  r.generation = document.generation /\ Reports(r) = content
  <2>1. r.generation = document.generation /\ r.content = content /\ r.present
    BY <1>1 DEF Record
  <2> QED BY <2>1 DEF Reports
<1>2. ASSUME r = Record(document, ref, content, FALSE)
      PROVE  r.generation = document.generation /\ Reports(r) = Absent
  <2>1. r.generation = document.generation /\ ~r.present
    BY <1>2 DEF Record
  <2> QED BY <2>1 DEF Reports
<1> QED BY <1>1, <1>2

\* What Follow adds reports the rule as the generation has it.
LEMMA NotedReports ==
  ASSUME NEW rule, NEW document, NEW latest
  PROVE  /\ Noted(rule, document, latest).generation = document.generation
         /\ Reports(Noted(rule, document, latest)) = ContentIn(rule, document)
<1> DEFINE r == Noted(rule, document, latest)
<1>1. CASE rule \in RuleIds(document)
  <2> DEFINE content == RuleOf(document, rule)
             ref == RuleRef(content)
  <2>1. r = Record(document, ref, content, TRUE)
    BY <1>1 DEF Noted
  <2> HIDE DEF r, ref, content
  <2>2. r = Record(document, ref, content, TRUE)
          => r.generation = document.generation /\ Reports(r) = content
    BY RecordReports, Zenon
  <2>3. r.generation = document.generation /\ Reports(r) = content
    BY <2>1, <2>2, Zenon
  <2> QED BY <1>1, <2>3 DEF ContentIn, r, content
<1>2. CASE rule \notin RuleIds(document)
  <2>1. r = Record(document, <<rule, 0>>, latest, FALSE)
    BY <1>2 DEF Noted
  <2> HIDE DEF r
  <2>2. r.generation = document.generation /\ Reports(r) = Absent
    BY <2>1, RecordReports
  <2> QED BY <1>2, <2>2 DEF ContentIn, r
<1> QED BY <1>1, <1>2

\* Follow, by whether the rule is what it was.
LEMMA FollowCases ==
  ASSUME NEW rule, NEW document, NEW L, NEW R, NEW seen \in [latest : L, records : Seq(R)]
  PROVE  Follow(rule, seen, document) =
           IF seen.latest = ContentIn(rule, document) THEN seen
           ELSE [latest |-> ContentIn(rule, document),
                 records |-> Append(seen.records, Noted(rule, document, seen.latest))]
<1>1. CASE rule \in RuleIds(document)
  BY <1>1, Zenon DEF Follow, Noted, ContentIn
<1>2. CASE rule \notin RuleIds(document)
  BY <1>2, Zenon DEF Follow, Noted, ContentIn
<1> QED BY <1>1, <1>2

\* What is known of a rule after the first k generations were followed.
Tracks(seen, k, rule, documents) ==
  /\ \A i \in 1..Len(seen.records) : \E j \in 1..k : seen.records[i].generation = documents[j].generation
  /\ \A j \in 1..k : ToldBy(seen.records, documents[j].generation) = ContentIn(rule, documents[j])
  /\ seen.latest = IF k = 0 THEN Absent ELSE ContentIn(rule, documents[k])
  /\ seen.latest = IF seen.records = <<>> THEN Absent ELSE Reports(seen.records[Len(seen.records)])

\* After each generation the records tell the content of the rule in that one and
\* in all before it (Follow).
LEMMA FollowTracks ==
  ASSUME NEW n \in Nat, NEW documents, \A j \in 1..n : documents[j].generation \in Nat,
         \A i, j \in 1..n : i < j => documents[i].generation < documents[j].generation,
         NEW rule, NEW L, NEW R, NEW seen \in [latest : L, records : Seq(R)], NEW k \in 1..n,
         Noted(rule, documents[k], seen.latest) \in R, Tracks(seen, k - 1, rule, documents)
  PROVE  Tracks(Follow(rule, seen, documents[k]), k, rule, documents)
<1> DEFINE d == documents[k]
           c == ContentIn(rule, d)
           record == Noted(rule, d, seen.latest)
           records == seen.records
           more == Append(records, record)
<1>1. Follow(rule, seen, d) = IF seen.latest = c THEN seen ELSE [latest |-> c, records |-> more]
  BY FollowCases
<1>2. records \in Seq(R) /\ Len(records) \in Nat /\ DOMAIN records = 1..Len(records)
  OBVIOUS
<1>3. \A i \in 1..Len(records) : records[i].generation < d.generation
  <2> SUFFICES ASSUME NEW i \in 1..Len(records) PROVE records[i].generation < d.generation
    OBVIOUS
  <2>1. PICK j \in 1..(k - 1) : records[i].generation = documents[j].generation
    BY DEF Tracks
  <2>2. j \in 1..n /\ j < k
    OBVIOUS
  <2> QED BY <2>1, <2>2
<1>4. CASE seen.latest = c
  <2>1. \A i \in 1..Len(records) : \E j \in 1..k : records[i].generation = documents[j].generation
    <3>1. 1..(k - 1) \subseteq 1..k
      OBVIOUS
    <3> QED BY <3>1 DEF Tracks
  <2>2. ToldBy(records, d.generation) = c
    <3>1. \A i \in 1..Len(records) : records[i].generation <= d.generation
      <4> SUFFICES ASSUME NEW i \in 1..Len(records) PROVE records[i].generation <= d.generation
        OBVIOUS
      <4>1. PICK j \in 1..(k - 1) : records[i].generation = documents[j].generation
        BY DEF Tracks
      <4>2. j \in 1..n /\ j < k
        OBVIOUS
      <4> QED BY <4>1, <4>2
    <3> HIDE DEF d, records
    <3>2. ToldBy(records, d.generation)
            = IF records = <<>> THEN Absent ELSE Reports(records[Len(records)])
      BY <1>2, <3>1, LastIsTold
    <3> QED BY <1>4, <3>2 DEF Tracks, records
  <2>3. \A j \in 1..k : ToldBy(records, documents[j].generation) = ContentIn(rule, documents[j])
    <3>1. \A j \in 1..k : j = k \/ j \in 1..(k - 1)
      OBVIOUS
    <3> HIDE DEF c
    <3> QED BY <2>2, <3>1 DEF Tracks, c
  <2>4. Follow(rule, seen, d) = seen /\ k # 0
    BY <1>1, <1>4
  <2> QED BY <1>4, <2>1, <2>3, <2>4 DEF Tracks
<1>5. CASE seen.latest # c
  <2> DEFINE next == [latest |-> c, records |-> more]
  <2>0. record.generation = d.generation /\ Reports(record) = c
    BY NotedReports
  <2>1. /\ more \in Seq(R) /\ Len(more) = Len(records) + 1 /\ more # <<>>
        /\ more[Len(records) + 1] = record
        /\ \A i \in 1..Len(records) : more[i] = records[i]
    BY Appended
  <2> HIDE DEF record
  <2>2. \A i \in 1..Len(more) : \E j \in 1..k : more[i].generation = documents[j].generation
    <3> HIDE DEF more, records
    <3> SUFFICES ASSUME NEW i \in 1..Len(more)
                 PROVE  \E j \in 1..k : more[i].generation = documents[j].generation
      OBVIOUS
    <3>1. CASE i = Len(records) + 1
      <4>1. k \in 1..k /\ more[i].generation = documents[k].generation
        BY <2>0, <2>1, <3>1
      <4> QED BY <4>1
    <3>2. CASE i \in 1..Len(records)
      <4>1. PICK j \in 1..(k - 1) : records[i].generation = documents[j].generation
        BY <3>2 DEF Tracks, records
      <4>2. j \in 1..k
        OBVIOUS
      <4> QED BY <2>1, <3>2, <4>1, <4>2
    <3> QED BY <1>2, <2>1, <3>1, <3>2
  <2>3. ToldBy(more, d.generation) = c
    <3>1. \A i \in 1..Len(more) : more[i].generation <= d.generation
      <4> HIDE DEF more, records
      <4> SUFFICES ASSUME NEW i \in 1..Len(more) PROVE more[i].generation <= d.generation
        OBVIOUS
      <4>1. PICK j \in 1..k : more[i].generation = documents[j].generation
        BY <2>2
      <4>2. j \in 1..n /\ (j < k \/ j = k)
        OBVIOUS
      <4> QED BY <4>1, <4>2
    <3> HIDE DEF more, d
    <3>2. ToldBy(more, d.generation) = IF more = <<>> THEN Absent ELSE Reports(more[Len(more)])
      BY <2>1, <3>1, LastIsTold
    <3> QED BY <2>0, <2>1, <3>2
  <2>4. \A j \in 1..k : ToldBy(more, documents[j].generation) = ContentIn(rule, documents[j])
    <3> SUFFICES ASSUME NEW j \in 1..k
                 PROVE  ToldBy(more, documents[j].generation) = ContentIn(rule, documents[j])
      OBVIOUS
    <3>1. CASE j = k
      BY <2>3, <3>1
    <3>2. CASE j \in 1..(k - 1)
      <4>1. ToldBy(records, documents[j].generation) = ContentIn(rule, documents[j])
        BY <3>2 DEF Tracks
      <4>2. ~(record.generation <= documents[j].generation)
        <5>1. j \in 1..n /\ j < k
          BY <3>2
        <5> QED BY <2>0, <5>1
      <4>3. record \in R
        BY DEF record
      <4> HIDE DEF records
      <4>4. ToldBy(more, documents[j].generation) = ToldBy(records, documents[j].generation)
        BY <1>2, <4>2, <4>3, LaterRecordsTellNothing
      <4> QED BY <4>1, <4>4
    <3> QED BY <3>1, <3>2
  <2>5. /\ Follow(rule, seen, d) = next /\ next.latest = c /\ next.records = more /\ k # 0
        /\ more # <<>> /\ Reports(more[Len(more)]) = c
    BY <1>1, <1>5, <2>0, <2>1
  <2> HIDE DEF next, more
  <2> QED BY <2>2, <2>4, <2>5 DEF Tracks
<1> QED BY <1>4, <1>5

\* The history of a rule tells its content in each of the generations it is over
\* (ProvenanceHistory).
LEMMA HistoryTells ==
  ASSUME NEW n \in Nat, NEW documents, DOMAIN documents = 1..n,
         \A j \in 1..n : documents[j].generation \in Nat,
         \A i, j \in 1..n : i < j => documents[i].generation < documents[j].generation,
         NEW rule
  PROVE  \A j \in 1..n :
           ToldBy(ProvenanceHistory(rule, documents), documents[j].generation) = ContentIn(rule, documents[j])
<1> DEFINE L == {ContentIn(rule, documents[k]) : k \in 1..n} \cup {Absent}
           R == {Noted(rule, documents[p[1]], p[2]) : p \in (1..n) \X L}
           A == [latest : L, records : Seq(R)]
           Step(seen, document) == Follow(rule, seen, document)
           start == [latest |-> Absent, records |-> <<>>]
           h == [k \in 1..n |-> [seen \in A |-> Step(seen, documents[k])]]
           IsFold(g) == g = [s \in SUBSET DOMAIN documents |->
                               IF s = {} THEN start
                               ELSE Step(g[s \ {Max(s)}], documents[Max(s)])]
           Good(i, seen) == seen \in A /\ Tracks(seen, i, rule, documents)
<1>1. Good(0, start)
  <2>1. start \in A /\ start.latest = Absent /\ start.records = <<>> /\ Len(start.records) = 0
    OBVIOUS
  <2> HIDE DEF start, A
  <2> QED BY <2>1 DEF Tracks
<1>2. ASSUME NEW i \in 1..n, NEW seen \in A
      PROVE  Step(seen, documents[i]) \in A /\ Noted(rule, documents[i], seen.latest) \in R
  <2> DEFINE d == documents[i]
             c == ContentIn(rule, d)
             record == Noted(rule, d, seen.latest)
  <2>1. c \in L /\ seen.latest \in L
    OBVIOUS
  <2>2. record \in R
    <3>1. <<i, seen.latest>> \in (1..n) \X L
      BY <2>1
    <3> HIDE DEF L
    <3> QED BY <3>1
  <2>3. Follow(rule, seen, d) = IF seen.latest = c THEN seen
                                ELSE [latest |-> c, records |-> Append(seen.records, record)]
    <3> HIDE DEF L, R
    <3> QED BY FollowCases
  <2> HIDE DEF record, c, d
  <2>4. Append(seen.records, record) \in Seq(R)
    <3> HIDE DEF L, R
    <3>1. seen.records \in Seq(R)
      OBVIOUS
    <3> QED BY <2>2, <3>1, Appended
  <2> HIDE DEF L, R
  <2>5. Follow(rule, seen, d) \in A
    BY <2>1, <2>3, <2>4
  <2> QED BY <2>2, <2>5 DEF d, record
<1>3. ASSUME NEW i \in 1..n, NEW seen, Good(i - 1, seen) PROVE Good(i, Step(seen, documents[i]))
  <2>1. seen \in A
    BY <1>3
  <2>2. Tracks(seen, i - 1, rule, documents)
    BY <1>3
  <2>3. Step(seen, documents[i]) \in A /\ Noted(rule, documents[i], seen.latest) \in R
    BY <1>2, <2>1
  <2>4. Tracks(Follow(rule, seen, documents[i]), i, rule, documents)
    <3> HIDE DEF L, R
    <3> QED BY <2>1, <2>2, <2>3, FollowTracks
  <2> HIDE DEF A
  <2> QED BY <2>3, <2>4
<1>4. \E g \in [SUBSET (1..n) -> A] : IsFold(g)
  <2>1. start \in A /\ h \in [1..n -> [A -> A]]
    <3>1. start \in A
      BY <1>1
    <3> HIDE DEF A, Step, start
    <3> QED BY <1>2, <3>1
  <2>2. PICK g \in [SUBSET (1..n) -> A] : Loops(g, n, start, h)
    <3> HIDE DEF A, h, start
    <3> QED BY <2>1, LoopExists, Zenon
  <2>3. ASSUME NEW s \in SUBSET (1..n), s # {}
        PROVE  g[s] = Step(g[s \ {Max(s)}], documents[Max(s)])
    <3>1. Max(s) \in 1..n
      BY <2>3, LoopPrefixes
    <3>2. g[s \ {Max(s)}] \in A
      <4> HIDE DEF A
      <4> QED BY <2>2
    <3> HIDE DEF A, Step, start
    <3> QED BY <2>2, <2>3, <3>1, <3>2 DEF Loops
  <2>4. IsFold(g)
    <3> HIDE DEF A, h, start, Step
    <3>1. g = [s \in SUBSET (1..n) |-> g[s]]
      BY <2>2
    <3> QED BY <2>2, <2>3, <3>1 DEF Loops
  <2> HIDE DEF A, IsFold
  <2> QED BY <2>4
<1> DEFINE fold == CHOOSE g : IsFold(g)
<1>5. IsFold(fold)
  <2>1. \E g : IsFold(g)
    <3> HIDE DEF IsFold, A
    <3> QED BY <1>4
  <2> HIDE DEF IsFold
  <2> QED BY <2>1
<1>6. ProvenanceHistory(rule, documents) = fold[1..n].records
  BY DEF ProvenanceHistory, FoldLeft, MapThenFoldSet
<1> DEFINE T == {i \in 0..n : Good(i, fold[1..i])}
<1>7. 0 \in T
  <2>1. {} \in SUBSET (1..n) /\ 1..0 = {} /\ 0 \in 0..n
    BY LoopPrefixes
  <2>2. fold[{}] = start
    <3> HIDE DEF fold, Step, start
    <3> QED BY <1>5, <2>1
  <2> HIDE DEF fold, Good, start
  <2> QED BY <1>1, <2>1, <2>2
<1>8. ASSUME NEW i \in 1..n, i - 1 \in T PROVE i \in T
  <2>1. /\ 1..i \in SUBSET (1..n) /\ 1..i # {} /\ Max(1..i) = i
        /\ (1..i) \ {i} = 1..(i - 1)
    BY LoopPrefixes
  <2>2. fold[1..i] = Step(fold[1..(i - 1)], documents[i])
    <3> HIDE DEF fold, Step, start
    <3> QED BY <1>5, <2>1
  <2>3. i \in 0..n
    OBVIOUS
  <2> HIDE DEF fold, Good, Step
  <2> QED BY <1>3, <1>8, <2>2, <2>3
<1>9. n \in T
  <2> HIDE DEF T
  <2>1. 0..n \subseteq T
    BY <1>7, <1>8, EveryIteration
  <2> QED BY <2>1
<1>10. Tracks(fold[1..n], n, rule, documents)
  <2> HIDE DEF fold, A
  <2> QED BY <1>9
<1> HIDE DEF fold
<1> QED BY <1>6, <1>10 DEF Tracks

\* The history of a rule tells its content in every generation in memory
\* (ProvenanceHistory, HandleProvenance).
THEOREM ProvenanceAlwaysReconstructs == Spec => []ProvenanceReconstructs
<1>1. ASSUME TypeOK, Answers, Answered("provenance"), NEW g \in history
      PROVE  ToldBy(Value, g) = ContentIn(answer.of, stored[g])
  <2> DEFINE order == Ascending(history)
             documents == [i \in DOMAIN order |-> stored[order[i]]]
  <2>1. Value = ProvenanceHistory(answer.of, documents)
    BY <1>1 DEF Answers, IsProvenanceAnswer, Ascending
  <2>2. history \in SUBSET Nat /\ IsFiniteSet(history) /\ history \subseteq DOMAIN stored
    <3>1. plan \in Seq(SUBSET WrittenDocuments) /\ head \in 0..Len(plan)
      BY <1>1, RequestsAssumption DEF TypeOK, Numbers
    <3>2. head \in Nat
      BY <3>1
    <3>3. history \subseteq 1..head /\ history \subseteq DOMAIN stored
      BY <1>1 DEF TypeOK
    <3>4. IsFiniteSet(1..head) /\ 1..head \in SUBSET Nat
      BY <3>2, FS_Interval
    <3>5. IsFiniteSet(history)
      BY <3>3, <3>4, FS_Subset
    <3> QED BY <3>3, <3>4, <3>5
  <2> HIDE DEF order
  <2>3. PICK n \in Nat : /\ DOMAIN order = 1..n
                         /\ \A i \in 1..n : order[i] \in history
                         /\ \A i, j \in 1..n : i < j => order[i] < order[j]
                         /\ \A x \in history : \E i \in 1..n : order[i] = x
    BY <2>2, NumbersInOrder DEF order
  <2>4. DOMAIN documents = 1..n /\ \A i \in 1..n : documents[i] = stored[order[i]]
    BY <2>3
  <2> HIDE DEF documents
  <2>5. \A i \in 1..n : documents[i].generation = order[i] /\ order[i] \in Nat
    BY <1>1, <2>2, <2>3, <2>4 DEF TypeOK
  <2>6. \A i, j \in 1..n : i < j => documents[i].generation < documents[j].generation
    BY <2>3, <2>5
  <2>7. \A j \in 1..n : ToldBy(ProvenanceHistory(answer.of, documents), documents[j].generation)
                          = ContentIn(answer.of, documents[j])
    <3>1. DOMAIN documents = 1..n /\ \A j \in 1..n : documents[j].generation \in Nat
      BY <2>4, <2>5
    <3> QED BY <2>6, <3>1, HistoryTells, Zenon
  <2>8. PICK i \in 1..n : order[i] = g
    BY <1>1, <2>3
  <2> QED BY <2>1, <2>4, <2>5, <2>7, <2>8
<1>2. ASSUME NEW records, NEW g
      PROVE  LET past == {i \in DOMAIN records : records[i].generation <= g}
                 last == records[Max(past)]
             IN ToldBy(records, g) = IF past = {} \/ ~last.present THEN Absent ELSE last.content
  <2> DEFINE past == {i \in DOMAIN records : records[i].generation <= g}
  <2> HIDE DEF past
  <2>1. ToldBy(records, g) = IF past = {} THEN Absent ELSE Reports(records[Max(past)])
    BY DEF ToldBy, past
  <2> QED BY <2>1 DEF Reports, past
<1>3. TypeOK /\ Answers => ProvenanceReconstructs
  BY <1>1, <1>2, Zenon DEF ProvenanceReconstructs, ContentIn
<1> QED BY <1>3, ServiceInvariant, PTL

-----------------------------------------------------------------------------
(* What becomes known of a component later.                                *)

\* later says all that spec says, and of a section that is complete no more.
Extends(later, spec) ==
  /\ later.family = spec.family /\ later.kind = spec.kind
  /\ later.version = spec.version /\ later.hardware = spec.hardware
  /\ spec.closed \subseteq later.closed
  /\ \A section \in {"capabilities", "protocols", "schemas"} :
       /\ \A id \in DOMAIN spec[section] :
            id \in DOMAIN later[section] /\ later[section][id] = spec[section][id]
       /\ section \in spec.closed => DOMAIN later[section] = DOMAIN spec[section]
  /\ spec.features \subseteq later.features
  /\ "capabilities" \in spec.closed => later.features = spec.features

LEMMA PutKeeps ==
  ASSUME NEW map, NEW id, id \notin DOMAIN map, NEW v
  PROVE  /\ \A x \in DOMAIN map : x \in DOMAIN Put(map, id, v) /\ Put(map, id, v)[x] = map[x]
BY DEF Put

LEMMA LearningExtends ==
  ASSUME NEW spec, ReadSpec(spec), NEW taxonomy, NEW later \in Learns(spec, taxonomy)
  PROVE  Extends(later, spec)
<1> DEFINE sections == {"capabilities", "protocols", "schemas"}
           fields == {"closed", "capabilities", "protocols", "schemas", "features"}
<1>1. \/ \E section \in sections : later = [spec EXCEPT !.closed = @ \cup {section}]
      \/ \E section \in sections : section \notin spec.closed /\
           \E id, v : id \notin DOMAIN spec[section] /\ later = [spec EXCEPT ![section] = Put(@, id, v)]
      \/ "capabilities" \notin spec.closed /\ \E id : later = [spec EXCEPT !.features = @ \cup {id}]
  BY DEF Learns
<1>2. fields \subseteq DOMAIN spec
  BY DEF ReadSpec
<1> HIDE DEF fields
<1>3. CASE \E section \in sections : later = [spec EXCEPT !.closed = @ \cup {section}]
  BY <1>2, <1>3 DEF Extends, fields
<1>4. CASE \E section \in sections : section \notin spec.closed /\
           \E id, v : id \notin DOMAIN spec[section] /\ later = [spec EXCEPT ![section] = Put(@, id, v)]
  <2>0. PICK section \in sections : section \notin spec.closed /\
           \E id, v : id \notin DOMAIN spec[section] /\ later = [spec EXCEPT ![section] = Put(@, id, v)]
    BY <1>4
  <2>1. PICK id, v :
          /\ section \notin spec.closed /\ id \notin DOMAIN spec[section]
          /\ later = [spec EXCEPT ![section] = Put(@, id, v)]
    BY <2>0
  <2>2. later[section] = Put(spec[section], id, v)
    BY <1>2, <2>1 DEF fields
  <2>3. \A f : f # section => later[f] = spec[f]
    BY <1>2, <2>1 DEF fields
  <2>4. \A x \in DOMAIN spec[section] : x \in DOMAIN later[section] /\ later[section][x] = spec[section][x]
    BY <2>1, <2>2, PutKeeps
  <2> QED BY <2>1, <2>3, <2>4 DEF Extends
<1>5. CASE "capabilities" \notin spec.closed /\ \E id : later = [spec EXCEPT !.features = @ \cup {id}]
  BY <1>2, <1>5 DEF Extends, fields
<1> QED BY <1>1, <1>3, <1>4, <1>5

\* What is known of a component and a constraint does not change.
LEMMA VerdictStays ==
  ASSUME NEW c, ReadConstraint(c), NEW taxonomy, NEW spec, NEW later, Extends(later, spec),
         EvaluateConstraint(c, spec, taxonomy) # "indeterminate"
  PROVE  EvaluateConstraint(c, later, taxonomy) = EvaluateConstraint(c, spec, taxonomy)
<1>1. CASE c.wants = "at_least"
  BY <1>1 DEF EvaluateConstraint, Extends
<1>2. CASE c.wants = "at_most"
  BY <1>2 DEF EvaluateConstraint, Extends
<1>3. CASE c.wants \notin {"at_least", "at_most"} /\ c.of = "hardware_classes"
  BY <1>3 DEF EvaluateConstraint, Extends
<1>4. CASE c.wants \notin {"at_least", "at_most"} /\ c.of # "hardware_classes"
  <2>1. c.of \in {"capabilities", "protocols", "schemas", "features"}
    BY <1>4 DEF ReadConstraint, ConstraintKinds
  <2>2. \A s : EvaluateConstraint(c, s, taxonomy)
          = IF IsDeclared(s, c.of, c.id) THEN DeclaredVerdict(c, s, taxonomy) ELSE Undeclared(c, s)
    BY <1>4, <2>1 DEF EvaluateConstraint
  <2>3. CASE IsDeclared(spec, c.of, c.id)
    <3>1. IsDeclared(later, c.of, c.id)
      BY <2>1, <2>3 DEF IsDeclared, Extends
    <3>2. DeclaredVerdict(c, later, taxonomy) = DeclaredVerdict(c, spec, taxonomy)
      <4>1. CASE c.of = "features"
        <5>1. c.range = Absent /\ c.wants \in {"requires", "forbids"}
          BY <4>1 DEF ReadConstraint, ConstraintKinds
        <5> QED BY <5>1 DEF DeclaredVerdict
      <4>2. CASE c.of # "features"
        <5>1. later[c.of][c.id] = spec[c.of][c.id]
          BY <2>1, <2>3, <4>2 DEF IsDeclared, Extends
        <5> QED BY <5>1, Zenon DEF DeclaredVerdict
      <4> QED BY <4>1, <4>2
    <3> QED BY <2>2, <2>3, <3>1, <3>2
  <2>4. CASE ~IsDeclared(spec, c.of, c.id)
    <3>1. IsClosed(spec, c.of)
      BY <2>2, <2>4 DEF Undeclared
    <3>2. ~IsDeclared(later, c.of, c.id) /\ IsClosed(later, c.of)
      BY <2>1, <2>4, <3>1 DEF IsDeclared, IsClosed, Extends
    <3> QED BY <2>2, <2>4, <3>1, <3>2 DEF Undeclared
  <2> QED BY <2>3, <2>4
<1> QED BY <1>1, <1>2, <1>3, <1>4

\* A constraint that is satisfied or violated stays so on every side.
LEMMA ConstraintStays ==
  ASSUME NEW c, ReadConstraint(c), NEW taxonomy,
         NEW left, NEW right, NEW left2, NEW right2, Extends(left2, left), Extends(right2, right),
         ConstraintVerdict(c, PairSides(left, right)[c.side], taxonomy) # "indeterminate"
  PROVE  ConstraintVerdict(c, PairSides(left2, right2)[c.side], taxonomy)
           = ConstraintVerdict(c, PairSides(left, right)[c.side], taxonomy)
<1> DEFINE E(spec) == EvaluateConstraint(c, spec, taxonomy)
<1>1. /\ E(left) # "indeterminate" => E(left2) = E(left)
      /\ E(right) # "indeterminate" => E(right2) = E(right)
  BY VerdictStays
<1> HIDE DEF E
<1>2. \A T : ConstraintVerdict(c, T, taxonomy)
               = IF T = {} THEN "indeterminate" ELSE Worst({E(spec) : spec \in T})
  BY DEF ConstraintVerdict, E
<1>3. \A x, y : /\ PairSides(x, y)["left"] = {x} /\ PairSides(x, y)["right"] = {y}
                /\ PairSides(x, y)["all"] = {x, y}
  BY DEF PairSides
<1>4. c.side \in {"left", "right", "all"}
  BY DEF ReadConstraint, Sides
<1>5. CASE c.side = "left"
  <2>1. \A x, y : ConstraintVerdict(c, PairSides(x, y)[c.side], taxonomy) = Worst({E(x)})
    BY <1>2, <1>3, <1>5
  <2> QED BY <1>1, <2>1 DEF Worst
<1>6. CASE c.side = "right"
  <2>1. \A x, y : ConstraintVerdict(c, PairSides(x, y)[c.side], taxonomy) = Worst({E(y)})
    BY <1>2, <1>3, <1>6
  <2> QED BY <1>1, <2>1 DEF Worst
<1>7. CASE c.side = "all"
  <2>1. \A x, y : ConstraintVerdict(c, PairSides(x, y)[c.side], taxonomy) = Worst({E(x), E(y)})
    <3>1. \A x, y : {E(spec) : spec \in {x, y}} = {E(x), E(y)} /\ {x, y} # {}
      OBVIOUS
    <3> QED BY <1>2, <1>3, <1>7, <3>1
  <2> QED BY <1>1, <2>1 DEF Worst
<1> QED BY <1>4, <1>5, <1>6, <1>7

\* A rule whose constraints are all satisfied or violated says the same later.
LEMMA ApplicationStays ==
  ASSUME NEW d, NEW rule, Read(rule),
         NEW left, NEW right, NEW left2, NEW right2, Extends(left2, left), Extends(right2, right),
         \A c \in Constraints(rule) : Applied(d, left, right, rule).verdicts[c] # "indeterminate"
  PROVE  Applied(d, left2, right2, rule).resolved = Applied(d, left, right, rule).resolved
<1> DEFINE V(x, y) == [c \in Constraints(rule) |-> ConstraintVerdict(c, PairSides(x, y)[c.side], d.taxonomy)]
           Settled(verdicts) == Settle(rule, Worst({verdicts[c] : c \in DOMAIN verdicts}))
<1>1. \A x, y : /\ Applied(d, x, y, rule).verdicts = V(x, y)
                /\ Applied(d, x, y, rule).resolved = Settled(V(x, y)).resolved
  BY Zenon DEF Applied, ApplyRule
<1>2. \A c \in Constraints(rule) :
        ConstraintVerdict(c, PairSides(left2, right2)[c.side], d.taxonomy)
          = ConstraintVerdict(c, PairSides(left, right)[c.side], d.taxonomy)
  <2> SUFFICES ASSUME NEW c \in Constraints(rule)
               PROVE  ConstraintVerdict(c, PairSides(left2, right2)[c.side], d.taxonomy)
                        = ConstraintVerdict(c, PairSides(left, right)[c.side], d.taxonomy)
    OBVIOUS
  <2>1. ConstraintVerdict(c, PairSides(left, right)[c.side], d.taxonomy) # "indeterminate"
    <3>1. V(left, right)[c] # "indeterminate"
      <4> HIDE DEF V
      <4> QED BY <1>1
    <3> QED BY <3>1
  <2>2. ReadConstraint(c)
    BY DEF Read
  <2> QED BY <2>1, <2>2, ConstraintStays
<1>3. V(left2, right2) = V(left, right)
  BY <1>2
<1> HIDE DEF V, Settled
<1> QED BY <1>1, <1>3

\* Learning nothing about who the components are changes no rule that matches.
LEMMA MatchingStays ==
  ASSUME NEW d, NEW left, NEW right, NEW left2, NEW right2, Extends(left2, left), Extends(right2, right)
  PROVE  /\ PairProblem(d, left2, right2) = PairProblem(d, left, right)
         /\ Matching(d, left2, right2) = Matching(d, left, right)
<1>1. \A s : SelectorMatches(s, left2) = SelectorMatches(s, left)
  BY DEF SelectorMatches, NamedFields, Extends
<1>2. \A s : SelectorMatches(s, right2) = SelectorMatches(s, right)
  BY DEF SelectorMatches, NamedFields, Extends
<1>3. \A rule : RuleMatches(rule, left2, right2) = RuleMatches(rule, left, right)
  BY <1>1, <1>2, Zenon DEF RuleMatches, Forward, Backward
<1>4. PairRegistered(d.taxonomy, left2, right2) = PairRegistered(d.taxonomy, left, right)
  BY DEF PairRegistered, Registered, Extends
<1> QED BY <1>3, <1>4 DEF PairProblem, Matching

\* Of rules that match, precedence goes one way.
LEMMA MatchingIsStrict ==
  ASSUME NEW d, Published(d), NEW left, NEW right
  PROVE  \A a, b, c \in Matching(d, left, right) :
           /\ ~PrecedenceHigher(a, a)
           /\ PrecedenceHigher(a, b) /\ PrecedenceHigher(b, c) => PrecedenceHigher(a, c)
<1> DEFINE S == Matching(d, left, right)
           R == Higher(S)
<1>1. \A a, b \in S : <<a, b>> \in R <=> PrecedenceHigher(a, b)
  BY DEF Higher
<1>2. StrictOrder(R, S)
  <2>1. (\A rule \in S : Read(rule)) /\ Unique(S)
    BY MatchingRules, PublishedIsUnambiguous
  <2> HIDE DEF S
  <2> QED BY <2>1, PrecedenceIsStrict
<1> HIDE DEF R, S
<1>3. \A a, b, c \in S :
           /\ ~PrecedenceHigher(a, a)
           /\ PrecedenceHigher(a, b) /\ PrecedenceHigher(b, c) => PrecedenceHigher(a, c)
  BY <1>1, <1>2 DEF StrictOrder
<1> QED BY <1>3 DEF S

\* When no rule is left out, the evidence up to the one that decides has every
\* rule that nothing above it made superfluous (Weigh).
LEMMA ConsideredCovers ==
  ASSUME NEW d, Published(d), NEW left, NEW right, NEW v, v = EvaluatePair(d, left, right), ~v.truncated,
         PairProblem(d, left, right) = "none", NEW rule \in Matching(d, left, right),
         \A other \in Matching(d, left, right) :
           PrecedenceHigher(other, rule) => ~Reaches(d, left, right, other)
  PROVE  \E e \in Considered(v) : e.verdicts = Applied(d, left, right, rule).verdicts
<1> DEFINE apps == Applications(d, left, right)
           w == WeighAll(apps)
           S == Matching(d, left, right)
           matched == Matched(d, left, right)
<1>1. PICK n \in Nat :
        /\ DOMAIN matched = 1..n
        /\ \A k \in 1..n : matched[k] \in S
        /\ \A x \in S : \E k \in 1..n : matched[k] = x
        /\ \A j, k \in 1..n : PrecedenceHigher(matched[j], matched[k]) <=> j < k
  BY MatchedInOrder, PublishedIsUnambiguous
<1>2. DOMAIN apps = 1..n /\ \A k \in 1..n : apps[k] = Applied(d, left, right, matched[k])
  BY <1>1 DEF Applications
<1>3. \A k \in 1..n : "decided" \in DOMAIN apps[k]
  <2> SUFFICES ASSUME NEW k \in 1..n PROVE "decided" \in DOMAIN apps[k]
    OBVIOUS
  <2> HIDE DEF apps
  <2>1. Read(matched[k])
    BY <1>1, MatchingRules, PublishedIsUnambiguous
  <2> QED BY <1>2, <2>1, ApplyRuleSays DEF Applied
<1>4. Weighs(w, n, apps) /\ (w.truncated <=> n > MaxEvidence) /\ DOMAIN w.evidence = 1..Len(w.evidence)
  <2> HIDE DEF apps
  <2> QED BY <1>2, <1>3, WeighAllWeighs, Zenon
<1>5. v.evidence = w.evidence /\ v.truncated = w.truncated
  <2>1. PairFacts(d, left, right, v, apps, w)
    BY DecisionOfPair
  <2> HIDE DEF apps, w
  <2> QED BY <2>1 DEF PairFacts
<1> HIDE DEF apps, w, matched, S
<1>6. ~(n > MaxEvidence)
  BY <1>4, <1>5, Zenon
<1>7. n <= MaxEvidence /\ Len(w.evidence) = n /\ w.decider \in 0..n
  BY <1>4, <1>6, DecisionsAssumption DEF Weighs
<1>8. ASSUME NEW k \in 1..n
      PROVE  /\ w.evidence[k] = Deciding(apps[k]) \/ w.evidence[k] = Passed(apps[k])
             /\ k # w.decider => w.evidence[k] = Passed(apps[k])
  <2>1. Shown(w, k) = k
    BY <1>7, DecisionsAssumption DEF Shown
  <2> QED BY <1>4, <1>7, <2>1 DEF Weighs, KeepsUpTo
<1>9. PICK k \in 1..n : matched[k] = rule
  BY <1>1 DEF S
<1>10. \A j \in 1..k - 1 : ~w.evidence[j].decided
  <2> SUFFICES ASSUME NEW j \in 1..k - 1 PROVE ~w.evidence[j].decided
    OBVIOUS
  <2>1. j \in 1..n /\ j < k
    BY <1>9
  <2>2. apps[j].resolved = Absent
    <3>1. PrecedenceHigher(matched[j], rule) /\ matched[j] \in S
      BY <1>1, <1>9, <2>1
    <3>2. ~Reaches(d, left, right, matched[j])
      BY <3>1 DEF S
    <3> QED BY <1>2, <2>1, <3>2 DEF Reaches
  <2>3. j # w.decider
    BY <1>4, <2>1, <2>2 DEF Weighs
  <2>4. w.evidence[j] = Passed(apps[j])
    BY <1>8, <2>1, <2>3
  <2>5. ~Passed(apps[j]).decided
    BY <1>3, <2>1, MarksAreKept
  <2> QED BY <2>4, <2>5, Zenon
<1>11. w.evidence[k].verdicts = apps[k].verdicts
  <2>1. Deciding(apps[k]).verdicts = apps[k].verdicts /\ Passed(apps[k]).verdicts = apps[k].verdicts
    BY <1>3, MarksAreKept
  <2> QED BY <1>8, <2>1
<1>12. k \in DOMAIN v.evidence
  BY <1>4, <1>5, <1>7
<1>13. v.evidence[k] \in Considered(v)
  BY <1>5, <1>10, <1>12, Zenon DEF Considered
<1> QED BY <1>2, <1>5, <1>9, <1>11, <1>13

\* A decision that rests on no indeterminate constraint is the one that is made
\* when more is known.
LEMMA DecisionStays ==
  ASSUME NEW d, Published(d), NEW left, NEW right, NEW v, v = EvaluatePair(d, left, right), ~v.truncated,
         \A e \in Considered(v) : \A c \in DOMAIN e.verdicts : e.verdicts[c] # "indeterminate",
         NEW left2, NEW right2, Extends(left2, left), Extends(right2, right),
         NEW later, later = EvaluatePair(d, left2, right2)
  PROVE  later.outcome = v.outcome /\ later.decider = v.decider
<1> DEFINE S == Matching(d, left, right)
           Now(rule) == Reaches(d, left, right, rule)
           Later(rule) == Reaches(d, left2, right2, rule)
           Same(rule) == Applied(d, left2, right2, rule).resolved = Applied(d, left, right, rule).resolved
           Higher2(a, b) == PrecedenceHigher(a, b)
<1>1. PairProblem(d, left2, right2) = PairProblem(d, left, right) /\ Matching(d, left2, right2) = S
  BY MatchingStays
<1>2. ASSUME PairProblem(d, left, right) = "none", NEW rule \in S,
             \A other \in S : PrecedenceHigher(other, rule) => ~Now(other)
      PROVE  Same(rule) /\ (Later(rule) <=> Now(rule))
  <2>1. PICK e \in Considered(v) : e.verdicts = Applied(d, left, right, rule).verdicts
    BY <1>2, ConsideredCovers
  <2>2. Read(rule)
    BY MatchingRules, PublishedIsUnambiguous
  <2>3. DOMAIN Applied(d, left, right, rule).verdicts = Constraints(rule)
    BY DEF Applied, ApplyRule
  <2>4. \A c \in Constraints(rule) : Applied(d, left, right, rule).verdicts[c] # "indeterminate"
    BY <2>1, <2>3
  <2>5. Same(rule)
    BY <2>2, <2>4, ApplicationStays
  <2> QED BY <2>5 DEF Reaches
<1>3. \A a, b, c \in S : /\ ~PrecedenceHigher(a, a)
                         /\ PrecedenceHigher(a, b) /\ PrecedenceHigher(b, c) => PrecedenceHigher(a, c)
  BY MatchingIsStrict
<1>4. \/ /\ v.decider = Absent /\ v.outcome = "unknown"
         /\ PairProblem(d, left, right) # "none" \/ Undecided(d, left, right)
      \/ /\ PairProblem(d, left, right) = "none"
         /\ \E rule \in S : /\ IsFirst(d, left, right, rule) /\ v.decider = RuleRef(rule)
                            /\ v.outcome = Applied(d, left, right, rule).resolved
  BY FirstDecides, PublishedIsUnambiguous
<1>5. \/ /\ later.decider = Absent /\ later.outcome = "unknown"
         /\ PairProblem(d, left, right) # "none" \/ Undecided(d, left2, right2)
      \/ /\ PairProblem(d, left, right) = "none"
         /\ \E rule \in S : /\ IsFirst(d, left2, right2, rule) /\ later.decider = RuleRef(rule)
                            /\ later.outcome = Applied(d, left2, right2, rule).resolved
  <2>1. \/ /\ later.decider = Absent /\ later.outcome = "unknown"
           /\ PairProblem(d, left2, right2) # "none" \/ Undecided(d, left2, right2)
        \/ /\ PairProblem(d, left2, right2) = "none"
           /\ \E rule \in Matching(d, left2, right2) :
                /\ IsFirst(d, left2, right2, rule) /\ later.decider = RuleRef(rule)
                /\ later.outcome = Applied(d, left2, right2, rule).resolved
    BY FirstDecides, PublishedIsUnambiguous
  <2> HIDE DEF S
  <2> QED BY <1>1, <2>1, Zenon
<1>6. /\ \A rule : IsFirst(d, left, right, rule) =>
           rule \in S /\ Now(rule) /\ \A other \in S : Now(other) => other = rule \/ PrecedenceHigher(rule, other)
      /\ \A rule : IsFirst(d, left2, right2, rule) =>
           rule \in S /\ Later(rule) /\ \A other \in S : Later(other) => other = rule \/ PrecedenceHigher(rule, other)
  <2> HIDE DEF S
  <2>1. \A rule : IsFirst(d, left, right, rule) =>
           rule \in S /\ Now(rule) /\ \A other \in S : Now(other) => other = rule \/ PrecedenceHigher(rule, other)
    BY DEF IsFirst, S
  <2>2. \A rule : IsFirst(d, left2, right2, rule) =>
           rule \in S /\ Later(rule) /\ \A other \in S : Later(other) => other = rule \/ PrecedenceHigher(rule, other)
    BY <1>1 DEF IsFirst
  <2> QED BY <2>1, <2>2
<1>7. /\ Undecided(d, left, right) <=> \A rule \in S : ~Now(rule)
      /\ Undecided(d, left2, right2) <=> \A rule \in S : ~Later(rule)
  <2> HIDE DEF S
  <2> QED BY <1>1 DEF Undecided, S
<1> HIDE DEF S, Now, Later
<1>8. CASE PairProblem(d, left, right) # "none"
  BY <1>4, <1>5, <1>8
<1>9. CASE PairProblem(d, left, right) = "none" /\ \A rule \in S : ~Now(rule)
  <2>1. \A rule \in S : ~Later(rule)
    BY <1>2, <1>9
  <2> QED BY <1>4, <1>5, <1>6, <1>9, <2>1
<1>10. CASE PairProblem(d, left, right) = "none" /\ \E rule \in S : Now(rule)
  <2>1. PICK rule \in S : /\ IsFirst(d, left, right, rule) /\ v.decider = RuleRef(rule)
                          /\ v.outcome = Applied(d, left, right, rule).resolved
    BY <1>4, <1>7, <1>10
  <2>2. Now(rule) /\ \A other \in S : Now(other) => other = rule \/ PrecedenceHigher(rule, other)
    BY <1>6, <2>1
  <2>3. Same(rule) /\ Later(rule)
    <3>1. \A other \in S : PrecedenceHigher(other, rule) => ~Now(other)
      BY <1>3, <2>2
    <3> QED BY <1>2, <1>10, <2>2, <3>1
  <2>4. PICK x \in S : /\ IsFirst(d, left2, right2, x) /\ later.decider = RuleRef(x)
                       /\ later.outcome = Applied(d, left2, right2, x).resolved
    BY <1>5, <1>7, <1>10, <2>3
  <2>5. Later(x) /\ \A other \in S : Later(other) => other = x \/ PrecedenceHigher(x, other)
    BY <1>6, <2>4
  <2>6. x = rule
    <3> SUFFICES ASSUME x # rule PROVE FALSE
      OBVIOUS
    <3>1. PrecedenceHigher(x, rule)
      BY <2>3, <2>5
    <3>2. ~Now(x)
      BY <1>3, <2>2, <3>1
    <3>3. \A other \in S : PrecedenceHigher(other, x) => ~Now(other)
      BY <1>3, <2>2, <3>1
    <3> QED BY <1>2, <1>10, <2>5, <3>2, <3>3
  <2> QED BY <2>1, <2>3, <2>4, <2>6
<1> QED BY <1>8, <1>9, <1>10

\* A decision that rests on no indeterminate constraint is final: nothing that
\* becomes known of either component later gives another one (EvaluateConstraint,
\* ApplyRule, EvaluatePair).
THEOREM DecidedIsAlwaysFinal == Spec => []DecidedIsFinal
<1>1. ASSUME Holds, Answers, Answered("query_pair"), ~Value.truncated,
             \A e \in Considered(Value) : \A c \in DOMAIN e.verdicts : e.verdicts[c] # "indeterminate",
             NEW left2 \in Learns(Value.subjects[1], Value.document.taxonomy),
             NEW right2 \in Learns(Value.subjects[2], Value.document.taxonomy)
      PROVE  LET later == EvaluatePair(Value.document, left2, right2)
             IN later.outcome = Value.outcome /\ later.decider = Value.decider
  <2>1. PICK d, left, right : /\ Published(d) /\ ReadSpec(left) /\ ReadSpec(right)
                              /\ Value = EvaluatePair(d, left, right)
    BY <1>1, PairAnswerReads
  <2>2. Value.document = d /\ Value.subjects[1] = left /\ Value.subjects[2] = right
    <3>1. PairFacts(d, left, right, Value, Applications(d, left, right), WeighAll(Applications(d, left, right)))
      BY <2>1, DecisionOfPair
    <3> QED BY <3>1 DEF PairFacts
  <2>3. Extends(left2, left) /\ Extends(right2, right)
    BY <1>1, <2>1, <2>2, LearningExtends
  <2> QED BY <1>1, <2>1, <2>2, <2>3, DecisionStays
<1>2. Holds /\ Answers => DecidedIsFinal
  BY <1>1, Zenon DEF DecidedIsFinal
<1> QED BY <1>2, ServiceInvariant, PTL

-----------------------------------------------------------------------------
(* The cells of the version plane.                                         *)

\* Versions in their order.
Rising(S) == InOrder(S, Before)

\* The bounds in use are sorted with none left out (VersionPlaneCovered).
LEMMA VersionsInOrder ==
  ASSUME NEW S \in SUBSET Versions, IsFiniteSet(S), NEW order, order = Rising(S)
  PROVE  \E n \in Nat : /\ DOMAIN order = 1..n /\ Len(order) = n
                        /\ order \in Seq(S)
                        /\ \A i \in 1..n : order[i] \in S
                        /\ \A i, j \in 1..n : i < j => Before(order[i], order[j])
                        /\ \A x \in S : \E i \in 1..n : order[i] = x
<1> DEFINE n == Cardinality(S)
           R == {p \in S \X S : Before(p[1], p[2])}
<1>0. n \in Nat
  BY FS_CardinalityType
<1>1. StrictOrder(R, S)
  <2>1. \A x, y \in S : <<x, y>> \in R <=> Before(x, y)
    OBVIOUS
  <2>2. \A x, y, z \in S : /\ ~Before(x, x)
                           /\ Before(x, y) /\ Before(y, z) => Before(x, z)
                           /\ x = y \/ Before(x, y) \/ Before(y, x)
    <3> TAKE x, y, z \in S
    <3> x \in Versions /\ y \in Versions /\ z \in Versions
      OBVIOUS
    <3> HIDE DEF R
    <3> QED BY BeforeIsStrict, BeforeIsTransitive, BeforeIsTotal
  <2> HIDE DEF R
  <2> QED BY <2>1, <2>2 DEF StrictOrder
<1>2. \A x \in S : {y \in S : Before(y, x)} = Smaller(R, S, x)
  BY DEF Smaller
<1>3. Places(order, R, S)
  <2>0. \A i \in 1..n : \E x \in S : Cardinality(Smaller(R, S, x)) = i - 1
    <3> HIDE DEF R
    <3> QED BY <1>1, RanksAreTaken
  <2>1. \A i \in 1..n : \E x \in S : Cardinality({y \in S : Before(y, x)}) = i - 1
    <3> HIDE DEF R
    <3> QED BY <1>2, <2>0
  <2>2. \A i \in 1..n : order[i] \in S /\ Cardinality({y \in S : Before(y, order[i])}) = i - 1
    BY <2>1 DEF InOrder, Rising
  <2>3. order = [i \in 1..n |-> order[i]]
    <3> DEFINE At(i) == CHOOSE x \in S : Cardinality({y \in S : Before(y, x)}) = i - 1
    <3>1. order = [i \in 1..n |-> At(i)]
      BY DEF InOrder, Rising
    <3> HIDE DEF At, n
    <3> QED BY <3>1
  <2> HIDE DEF R
  <2> QED BY <1>2, <2>2, <2>3 DEF Places
<1>4. Sorts(order, R, S)
  <2> HIDE DEF R
  <2> QED BY <1>1, <1>3, PlacedIsSorted, Zenon
<1>5. DOMAIN order = 1..n /\ (\A i \in 1..n : order[i] \in S) /\ Len(order) = n /\ order \in Seq(S)
  <2> HIDE DEF R, n
  <2>1. order \in [1..n -> S]
    BY <1>3 DEF Places, n
  <2>2. Len(order) = n
    BY <1>4 DEF Sorts, n
  <2> QED BY <1>0, <2>1, <2>2
<1>7. \A i, j \in 1..n : i < j => Before(order[i], order[j])
  <2>1. \A i, j \in 1..n : i < j => <<order[i], order[j]>> \in R
    <3> HIDE DEF R
    <3> QED BY <1>4, <1>5 DEF Sorts
  <2> QED BY <2>1
<1>8. \A x \in S : \E i \in 1..n : order[i] = x
  <2> HIDE DEF R
  <2> QED BY <1>4, <1>5 DEF Sorts
<1> QED BY <1>0, <1>5, <1>7, <1>8

\* lo and hi are the bounds on either side of v: every other one is further away.
Encloses(S, lo, hi, v) ==
  /\ lo = Unbounded \/ (lo \in S /\ Before(lo, v))
  /\ hi = Unbounded \/ (hi \in S /\ Before(v, hi))
  /\ \A b \in S : /\ Before(b, v) => lo # Unbounded /\ ~Before(lo, b)
                  /\ Before(v, b) => hi # Unbounded /\ ~Before(b, hi)

\* A line that is cut at finitely many bounds.
Cut(S) == <<Unbounded>> \o Rising(S) \o <<Unbounded>>

\* The bounds with nothing before the first and nothing after the last.
LEMMA CutHasEnds ==
  ASSUME NEW S \in SUBSET Versions, NEW n \in Nat, NEW order \in Seq(S), order = Rising(S), Len(order) = n
  PROVE  /\ Len(Cut(S)) = n + 2
         /\ Cut(S)[1] = Unbounded /\ Cut(S)[n + 2] = Unbounded
         /\ \A i \in 1..n : Cut(S)[i + 1] = order[i]
<1> DEFINE B == S \cup {Unbounded}
           end == <<Unbounded>>
           first == end \o order
<1>1. end \in Seq(B) /\ Len(end) = 1 /\ end[1] = Unbounded
  OBVIOUS
<1>2. order \in Seq(B)
  BY SeqMonotonic
<1> HIDE DEF end, B
<1>3. /\ first \in Seq(B) /\ Len(first) = 1 + n
      /\ \A i \in 1..1 + n : first[i] = IF i <= 1 THEN end[i] ELSE order[i - 1]
  <2>1. /\ end \o order \in Seq(B) /\ Len(end \o order) = Len(end) + Len(order)
        /\ \A i \in 1..Len(end) + Len(order) :
             (end \o order)[i] = IF i <= Len(end) THEN end[i] ELSE order[i - Len(end)]
    BY <1>1, <1>2, ConcatProperties, Zenon
  <2>2. Len(end) = 1 /\ Len(order) = n
    BY <1>1
  <2> QED BY <2>1, <2>2, Zenon
<1> HIDE DEF first
<1>4. /\ Len(first \o end) = (1 + n) + 1
      /\ \A i \in 1..(1 + n) + 1 : (first \o end)[i] = IF i <= 1 + n THEN first[i] ELSE end[i - (1 + n)]
  <2>1. /\ Len(first \o end) = Len(first) + Len(end)
        /\ \A i \in 1..Len(first) + Len(end) :
             (first \o end)[i] = IF i <= Len(first) THEN first[i] ELSE end[i - Len(first)]
    BY <1>1, <1>3, ConcatProperties, Zenon
  <2>2. Len(first) = 1 + n /\ Len(end) = 1
    BY <1>1, <1>3
  <2> QED BY <2>1, <2>2, Zenon
<1>5. Cut(S) = first \o end
  BY DEF Cut, first, end
<1>6. (1 + n) + 1 = n + 2 /\ 1 \in 1..1 + n /\ 1 \in 1..n + 2 /\ n + 2 \in 1..n + 2 /\ ~(n + 2 <= 1 + n)
      /\ (n + 2) - (1 + n) = 1
  OBVIOUS
<1>7. \A i \in 1..n : i + 1 \in 1..1 + n /\ i + 1 \in 1..n + 2 /\ i + 1 <= 1 + n /\ ~(i + 1 <= 1) /\ (i + 1) - 1 = i
  OBVIOUS
<1>8. Cut(S)[1] = Unbounded
  BY <1>1, <1>3, <1>4, <1>5, <1>6
<1>9. Cut(S)[n + 2] = Unbounded
  BY <1>1, <1>4, <1>5, <1>6
<1>10. \A i \in 1..n : Cut(S)[i + 1] = order[i]
  BY <1>3, <1>4, <1>5, <1>6, <1>7
<1> QED BY <1>4, <1>5, <1>6, <1>8, <1>9, <1>10

\* Every version that is not itself a bound lies in a cell.
LEMMA CellsEnclose ==
  ASSUME NEW S \in SUBSET Versions, IsFiniteSet(S), NEW v \in Versions, v \notin S
  PROVE  \E i \in 1..Len(Cut(S)) - 1 : Encloses(S, Cut(S)[i], Cut(S)[i + 1], v)
<1> DEFINE order == Rising(S)
<1>1. PICK n \in Nat : /\ DOMAIN order = 1..n /\ Len(order) = n
                       /\ order \in Seq(S)
                       /\ \A i \in 1..n : order[i] \in S
                       /\ \A i, j \in 1..n : i < j => Before(order[i], order[j])
                       /\ \A x \in S : \E i \in 1..n : order[i] = x
  BY VersionsInOrder
<1> HIDE DEF order
<1>2. /\ Len(Cut(S)) = n + 2
      /\ Cut(S)[1] = Unbounded /\ Cut(S)[n + 2] = Unbounded
      /\ \A i \in 1..n : Cut(S)[i + 1] = order[i]
  BY <1>1, CutHasEnds DEF order
<1> DEFINE T == {k \in 1..n : Before(order[k], v)}
<1>3. \E m \in 0..n : /\ m # 0 => Before(order[m], v)
                      /\ \A k \in 1..n : Before(order[k], v) => k <= m
  <2>1. CASE T = {}
    <3>1. 0 \in 0..n /\ \A k \in 1..n : ~Before(order[k], v)
      BY <2>1
    <3> QED BY <3>1
  <2>2. CASE T # {}
    <3>1. T \in SUBSET Nat /\ T \subseteq 1..n
      OBVIOUS
    <3>2. IsFiniteSet(T)
      <4>1. IsFiniteSet(1..n)
        BY FS_Interval
      <4> HIDE DEF T
      <4> QED BY <3>1, <4>1, FS_Subset
    <3>3. Max(T) \in T /\ \A k \in T : k <= Max(T)
      <4> HIDE DEF T
      <4> QED BY <2>2, <3>1, <3>2, GreatestNatural
    <3> DEFINE m == Max(T)
    <3>4. m \in T /\ \A k \in T : k <= m
      BY <3>3
    <3> HIDE DEF m
    <3> QED BY <3>4
  <2> QED BY <2>1, <2>2
<1>4. PICK m \in 0..n : /\ m # 0 => Before(order[m], v)
                        /\ \A k \in 1..n : Before(order[k], v) => k <= m
  BY <1>3
<1> DEFINE lo == Cut(S)[m + 1]
           hi == Cut(S)[m + 2]
<1>5. \A k \in 1..n : m < k => Before(v, order[k])
  <2> SUFFICES ASSUME NEW k \in 1..n, m < k PROVE Before(v, order[k])
    OBVIOUS
  <2>1. ~Before(order[k], v) /\ order[k] \in S
    BY <1>1, <1>4
  <2> QED BY <2>1, BeforeIsTotal
<1>6. lo = IF m = 0 THEN Unbounded ELSE order[m]
  BY <1>2
<1>7. hi = IF m = n THEN Unbounded ELSE order[m + 1]
  <2>1. m # n => m + 1 \in 1..n /\ (m + 1) + 1 = m + 2
    OBVIOUS
  <2> QED BY <1>2, <2>1
<1>8. m + 1 \in 1..Len(Cut(S)) - 1 /\ (m + 1) + 1 = m + 2
  BY <1>2
<1> HIDE DEF lo, hi
<1>9. \A x \in S : x # Unbounded
  BY UnboundedAssumption
<1>10. lo = Unbounded \/ (lo \in S /\ Before(lo, v))
  BY <1>1, <1>4, <1>6
<1>11. hi = Unbounded \/ (hi \in S /\ Before(v, hi))
  <2>1. m # n => m + 1 \in 1..n /\ m < m + 1
    OBVIOUS
  <2> QED BY <1>1, <1>5, <1>7, <2>1
<1>12. ASSUME NEW b \in S, Before(b, v) PROVE lo # Unbounded /\ ~Before(lo, b)
  <2>1. PICK k \in 1..n : order[k] = b
    BY <1>1
  <2>2. k <= m
    BY <1>4, <1>12, <2>1
  <2>3. m \in 1..n /\ (k = m \/ k < m)
    BY <2>2
  <2>4. lo = order[m] /\ lo \in S /\ (b = lo \/ Before(b, lo))
    BY <1>1, <1>6, <2>1, <2>3
  <2> QED BY <1>9, <2>4, BeforeIsStrict
<1>13. ASSUME NEW b \in S, Before(v, b) PROVE hi # Unbounded /\ ~Before(b, hi)
  <2>1. PICK k \in 1..n : order[k] = b
    BY <1>1
  <2>2. m < k
    <3>1. CASE k <= m
      <4>1. m # 0 /\ m \in 1..n /\ (k = m \/ k < m)
        BY <3>1
      <4>2. Before(order[m], v) /\ order[m] \in S /\ (b = order[m] \/ Before(b, order[m]))
        BY <1>1, <1>4, <2>1, <4>1
      <4>3. Before(b, v)
        BY <4>2, BeforeIsTransitive
      <4> QED BY <1>13, <4>3, BeforeIsStrict
    <3> QED BY <3>1
  <2>3. m + 1 \in 1..n /\ m # n /\ (k = m + 1 \/ m + 1 < k)
    BY <2>2
  <2>4. hi = order[m + 1] /\ hi \in S /\ (b = hi \/ Before(hi, b))
    BY <1>1, <1>7, <2>1, <2>3
  <2> QED BY <1>9, <2>4, BeforeIsStrict
<1>14. Encloses(S, lo, hi, v)
  BY <1>10, <1>11, <1>12, <1>13 DEF Encloses
<1> QED BY <1>8, <1>14 DEF lo, hi

\* What a selector may say of the version.
SelectorRanges == Optional(ParsedRanges)

\* The bounds of a range are finitely many versions.
LEMMA BoundsAreVersions ==
  ASSUME NEW range \in SelectorRanges
  PROVE  BoundsOf(range) \subseteq Versions /\ IsFiniteSet(BoundsOf(range))
<1>1. CASE range = Absent
  <2>1. BoundsOf(range) = {}
    BY <1>1 DEF BoundsOf
  <2> QED BY <2>1, FS_EmptySet
<1>2. CASE range # Absent
  <2> DEFINE n == Len(range)
             Pair(i) == {range[i].low, range[i].high}
             pairs == {Pair(i) : i \in 1..n}
  <2>1. n \in Nat /\ DOMAIN range = 1..n /\ \A i \in 1..n : range[i] \in IntervalSet
    BY <1>2 DEF SelectorRanges, Optional, ParsedRanges, ProperIntervals
  <2>2. BoundsOf(range) = (UNION pairs) \ {Unbounded}
    BY <1>2, <2>1 DEF BoundsOf
  <2>3. \A p \in pairs : IsFiniteSet(p) /\ p \subseteq Bounds
    <3> SUFFICES ASSUME NEW i \in 1..n PROVE IsFiniteSet(Pair(i)) /\ Pair(i) \subseteq Bounds
      OBVIOUS
    <3>1. IsFiniteSet({range[i].low}) /\ IsFiniteSet({range[i].high})
      BY FS_Singleton
    <3>2. Pair(i) = {range[i].low} \cup {range[i].high}
      OBVIOUS
    <3>3. IsFiniteSet(Pair(i))
      BY <3>1, <3>2, FS_Union
    <3> QED BY <2>1, <3>3 DEF IntervalSet
  <2>4. IsFiniteSet(pairs)
    <3> DEFINE f == [i \in 1..n |-> Pair(i)]
    <3>1. f \in Surjection(1..n, pairs)
      BY DEF Surjection
    <3>2. IsFiniteSet(1..n)
      BY <2>1, FS_Interval
    <3> HIDE DEF f, pairs, n
    <3> QED BY <3>1, <3>2, FS_Surjection
  <2> HIDE DEF pairs
  <2>5. IsFiniteSet(UNION pairs)
    BY <2>3, <2>4, FS_UNION
  <2>6. UNION pairs \subseteq Bounds
    BY <2>3
  <2>7. BoundsOf(range) \subseteq UNION pairs
    BY <2>2
  <2>8. IsFiniteSet(BoundsOf(range))
    BY <2>5, <2>7, FS_Subset
  <2> QED BY <2>2, <2>6, <2>8 DEF Bounds
<1> QED BY <1>1, <1>2

\* Whether a range that need not be there lets a version in.
Lets(range, v) == range = Absent \/ RangeAdmits(range, v)

\* An interval that admits a version between the bounds reaches to the bounds on
\* either side of it, and the other way round (RangeCoversCell).
LEMMA IntervalCoversCell ==
  ASSUME NEW S \in SUBSET Versions, NEW v \in Versions, v \notin S, NEW lo, NEW hi, Encloses(S, lo, hi, v),
         NEW iv \in IntervalSet, iv.low \in S \cup {Unbounded}, iv.high \in S \cup {Unbounded}
  PROVE  ContainsBound(iv, v) <=>
           /\ iv.low # Unbounded => lo # Unbounded /\ ~Before(lo, iv.low)
           /\ iv.high # Unbounded => hi # Unbounded /\ ~Before(iv.high, hi)
<1>1. ASSUME iv.low # Unbounded
      PROVE  Before(iv.low, v) \/ (v = iv.low /\ iv.lowIn) <=> lo # Unbounded /\ ~Before(lo, iv.low)
  <2>1. iv.low \in S /\ iv.low \in Versions /\ v # iv.low
    BY <1>1
  <2>2. ASSUME Before(iv.low, v) PROVE lo # Unbounded /\ ~Before(lo, iv.low)
    BY <2>1, <2>2 DEF Encloses
  <2>3. ASSUME lo # Unbounded, ~Before(lo, iv.low) PROVE Before(iv.low, v)
    <3>1. lo \in Versions /\ Before(lo, v)
      BY <2>3 DEF Encloses
    <3>2. lo = iv.low \/ Before(iv.low, lo)
      BY <2>1, <2>3, <3>1, BeforeIsTotal
    <3> QED BY <2>1, <3>1, <3>2, BeforeIsTransitive
  <2> QED BY <2>1, <2>2, <2>3
<1>2. ASSUME iv.high # Unbounded
      PROVE  Before(v, iv.high) \/ (v = iv.high /\ iv.highIn) <=> hi # Unbounded /\ ~Before(iv.high, hi)
  <2>1. iv.high \in S /\ iv.high \in Versions /\ v # iv.high
    BY <1>2
  <2>2. ASSUME Before(v, iv.high) PROVE hi # Unbounded /\ ~Before(iv.high, hi)
    BY <2>1, <2>2 DEF Encloses
  <2>3. ASSUME hi # Unbounded, ~Before(iv.high, hi) PROVE Before(v, iv.high)
    <3>1. hi \in Versions /\ Before(v, hi)
      BY <2>3 DEF Encloses
    <3>2. hi = iv.high \/ Before(hi, iv.high)
      BY <2>1, <2>3, <3>1, BeforeIsTotal
    <3> QED BY <2>1, <3>1, <3>2, BeforeIsTransitive
  <2> QED BY <2>1, <2>2, <2>3
<1> QED BY <1>1, <1>2, Zenon DEF ContainsBound

\* A range covers the cell of a release exactly when it admits the release.
LEMMA RangeCoversItsCell ==
  ASSUME NEW S \in SUBSET Versions, NEW v \in Versions, v \notin S, ~HasPrerelease(v),
         NEW lo, NEW hi, Encloses(S, lo, hi, v),
         NEW range \in SelectorRanges, BoundsOf(range) \subseteq S
  PROVE  RangeCoversCell(range, lo, hi) <=> Lets(range, v)
<1>1. CASE range = Absent
  BY <1>1 DEF RangeCoversCell, Lets
<1>2. CASE range # Absent
  <2> DEFINE Reaching(iv) == /\ iv.low # Unbounded => lo # Unbounded /\ ~Before(lo, iv.low)
                             /\ iv.high # Unbounded => hi # Unbounded /\ ~Before(iv.high, hi)
  <2>1. \A i \in DOMAIN range : range[i] \in IntervalSet
    BY <1>2 DEF SelectorRanges, Optional, ParsedRanges, ProperIntervals
  <2>2. \A i \in DOMAIN range : range[i].low \in S \cup {Unbounded} /\ range[i].high \in S \cup {Unbounded}
    BY <1>2 DEF BoundsOf
  <2>3. \A i \in DOMAIN range : ContainsBound(range[i], v) <=> Reaching(range[i])
    BY <2>1, <2>2, IntervalCoversCell, Zenon
  <2>4. RangeCoversCell(range, lo, hi) <=> \E i \in DOMAIN range : Reaching(range[i])
    BY <1>2 DEF RangeCoversCell
  <2> HIDE DEF Reaching
  <2> QED BY <1>2, <2>3, <2>4 DEF Lets, RangeAdmits, Admits
<1> QED BY <1>1, <1>2

\* Two selectors whose ranges have been read.
IsBox(box) == box[1].version \in SelectorRanges /\ box[2].version \in SelectorRanges

\* The bounds along one side of some boxes.
BoundsAlong(boxes, k) == UNION {BoundsOf(b[k].version) : b \in boxes}

\* Along either side finitely many versions are bounds.
LEMMA BoundsAlongAreVersions ==
  ASSUME NEW boxes, IsFiniteSet(boxes), \A box \in boxes : IsBox(box), NEW k \in {1, 2}
  PROVE  BoundsAlong(boxes, k) \subseteq Versions /\ IsFiniteSet(BoundsAlong(boxes, k))
<1> DEFINE each == {BoundsOf(b[k].version) : b \in boxes}
<1>1. \A b \in boxes : BoundsOf(b[k].version) \subseteq Versions /\ IsFiniteSet(BoundsOf(b[k].version))
  BY BoundsAreVersions DEF IsBox
<1>2. IsFiniteSet(each)
  <2> DEFINE f == [b \in boxes |-> BoundsOf(b[k].version)]
  <2>1. f \in Surjection(boxes, each)
    BY DEF Surjection
  <2> HIDE DEF f, each
  <2> QED BY <2>1, FS_Surjection
<1>3. \A T \in each : IsFiniteSet(T) /\ T \subseteq Versions
  BY <1>1
<1> HIDE DEF each
<1>4. IsFiniteSet(UNION each) /\ UNION each \subseteq Versions
  BY <1>2, <1>3, FS_UNION
<1> QED BY <1>4 DEF BoundsAlong, each

\* Where the plane is covered, two releases between the bounds that the target
\* lets in are let in by one of the candidates (VersionPlaneCovered).
LEMMA CoveredIsLetIn ==
  ASSUME NEW target, NEW candidates, IsFiniteSet(candidates),
         IsBox(target), \A box \in candidates : IsBox(box),
         VersionPlaneCovered(target, candidates),
         NEW v \in Versions, ~HasPrerelease(v), v \notin BoundsAlong({target} \cup candidates, 1),
         NEW w \in Versions, ~HasPrerelease(w), w \notin BoundsAlong({target} \cup candidates, 2),
         Lets(target[1].version, v), Lets(target[2].version, w)
  PROVE  \E box \in candidates : Lets(box[1].version, v) /\ Lets(box[2].version, w)
<1> DEFINE boxes == {target} \cup candidates
           S == BoundsAlong(boxes, 1)
           T == BoundsAlong(boxes, 2)
           xs == Cut(S)
           ys == Cut(T)
<1>1. IsFiniteSet(boxes) /\ \A box \in boxes : IsBox(box)
  BY FS_Singleton, FS_Union
<1>2. S \subseteq Versions /\ IsFiniteSet(S) /\ T \subseteq Versions /\ IsFiniteSet(T)
  <2> HIDE DEF boxes
  <2> QED BY <1>1, BoundsAlongAreVersions
<1>3. Coords(boxes, 1) = xs /\ Coords(boxes, 2) = ys
  BY DEF Coords, Cut, Rising, BoundsAlong
<1>4. \A box \in boxes : BoundsOf(box[1].version) \subseteq S /\ BoundsOf(box[2].version) \subseteq T
  BY DEF BoundsAlong
<1>5. ASSUME NEW i \in 1..Len(xs) - 1, NEW j \in 1..Len(ys) - 1,
             RangeCoversCell(target[1].version, xs[i], xs[i + 1]),
             RangeCoversCell(target[2].version, ys[j], ys[j + 1])
      PROVE  \E box \in candidates : /\ RangeCoversCell(box[1].version, xs[i], xs[i + 1])
                                     /\ RangeCoversCell(box[2].version, ys[j], ys[j + 1])
  <2> HIDE DEF S, T, xs, ys
  <2> QED BY <1>3, <1>5 DEF VersionPlaneCovered, boxes
<1> HIDE DEF S, T
<1>6. PICK i \in 1..Len(xs) - 1 : Encloses(S, xs[i], xs[i + 1], v)
  BY <1>2, CellsEnclose DEF S
<1>7. PICK j \in 1..Len(ys) - 1 : Encloses(T, ys[j], ys[j + 1], w)
  BY <1>2, CellsEnclose DEF T
<1> HIDE DEF xs, ys
<1>8. v \notin S /\ w \notin T
  BY DEF S, T
<1>9. ASSUME NEW box \in boxes
      PROVE  /\ RangeCoversCell(box[1].version, xs[i], xs[i + 1]) <=> Lets(box[1].version, v)
             /\ RangeCoversCell(box[2].version, ys[j], ys[j + 1]) <=> Lets(box[2].version, w)
  <2> HIDE DEF boxes
  <2>1. box[1].version \in SelectorRanges /\ box[2].version \in SelectorRanges
    BY <1>1 DEF IsBox
  <2>2. BoundsOf(box[1].version) \subseteq S /\ BoundsOf(box[2].version) \subseteq T
    BY <1>4
  <2> QED BY <1>2, <1>6, <1>7, <1>8, <2>1, <2>2, RangeCoversItsCell
<1>10. \E box \in candidates : /\ RangeCoversCell(box[1].version, xs[i], xs[i + 1])
                               /\ RangeCoversCell(box[2].version, ys[j], ys[j + 1])
  BY <1>5, <1>9
<1> QED BY <1>9, <1>10

-----------------------------------------------------------------------------
(* Rules that are shadowed.                                                *)

\* The orientations of a pair rule are boxes of selectors that were read, and
\* there are at most two (RuleOrientations).
LEMMA OrientationsAreBoxes ==
  ASSUME NEW rule, Read(rule), rule.arity = "pair"
  PROVE  /\ IsFiniteSet(Orientations(rule))
         /\ \A box \in Orientations(rule) : \A k \in {1, 2} :
              box[k] \in WrittenSelectors /\ box[k] \in {rule.left, rule.right}
<1> DEFINE there == <<rule.left, rule.right>>
           back == <<rule.right, rule.left>>
<1>1. rule.left \in WrittenSelectors /\ rule.right \in WrittenSelectors /\ rule.symmetry \in Symmetries
  BY DEF Read
<1>2. Orientations(rule) \subseteq {there, back}
  BY <1>1 DEF Orientations, Symmetries
<1>3. IsFiniteSet({there, back})
  <2>1. {there, back} = {there} \cup {back}
    OBVIOUS
  <2> HIDE DEF there, back
  <2>2. IsFiniteSet({there}) /\ IsFiniteSet({back})
    BY FS_Singleton
  <2> QED BY <2>1, <2>2, FS_Union
<1>4. IsFiniteSet(Orientations(rule))
  <2> HIDE DEF there, back
  <2> QED BY <1>2, <1>3, FS_Subset
<1> QED BY <1>1, <1>2, <1>4

\* A rule matches whatever one of its orientations matches (RuleMatches).
LEMMA OrientationMatches ==
  ASSUME NEW rule, Read(rule), rule.arity = "pair", NEW left, NEW right,
         NEW box \in Orientations(rule), SelectorMatches(box[1], left), SelectorMatches(box[2], right)
  PROVE  RuleMatches(rule, left, right)
<1>1. rule.symmetry \in Symmetries
  BY DEF Read
<1>2. CASE box = <<rule.left, rule.right>> /\ rule.symmetry # "right_to_left"
  BY <1>1, <1>2 DEF RuleMatches, Forward, Symmetries
<1>3. CASE box = <<rule.right, rule.left>> /\ rule.symmetry # "left_to_right"
  BY <1>1, <1>3 DEF RuleMatches, Forward, Backward, Symmetries
<1> QED BY <1>1, <1>2, <1>3 DEF Orientations, Symmetries

\* A version that is between the bounds of every rule of a document.
LEMMA BetweenTheBoxes ==
  ASSUME NEW d, NEW spec, BetweenBounds(spec, d), NEW boxes,
         \A box \in boxes : \A k \in {1, 2} :
           \E rule \in ToSet(d.rules) : box[k] \in {rule.left, rule.right},
         NEW k \in {1, 2}
  PROVE  spec.version \notin BoundsAlong(boxes, k)
BY DEF BetweenBounds, BoundsAlong

\* Where a rule is dead, one of its shadowers matches whatever it matches
\* (ReachabilityDiagnostics, RuleRegionSubsumesModuloVersion).
LEMMA ShadowerMatches ==
  ASSUME NEW d, Unambiguous(d), NEW target \in ToSet(d.rules), target.arity = "pair",
         NEW shadowers \in SUBSET ToSet(d.rules), \A s \in shadowers : s.arity = "pair",
         Dead(target, shadowers),
         NEW left, NEW right, ReadSpec(left), ReadSpec(right),
         BetweenBounds(left, d), BetweenBounds(right, d),
         RuleMatches(target, left, right)
  PROVE  \E s \in shadowers : RuleMatches(s, left, right)
<1> DEFINE boxes == UNION {Orientations(s) : s \in shadowers}
<1>1. Read(target) /\ \A s \in shadowers : Read(s)
  BY DEF Unambiguous, ReadDocument
<1>2. IsFiniteSet(boxes)
  <2> DEFINE each == {Orientations(s) : s \in shadowers}
             f == [s \in shadowers |-> Orientations(s)]
  <2>1. IsFiniteSet(shadowers)
    BY FS_Subset DEF Unambiguous
  <2>2. f \in Surjection(shadowers, each)
    BY DEF Surjection
  <2>3. \A T \in each : IsFiniteSet(T)
    BY <1>1, OrientationsAreBoxes
  <2> HIDE DEF each, f
  <2>4. IsFiniteSet(each)
    BY <2>1, <2>2, FS_Surjection
  <2>5. IsFiniteSet(UNION each)
    BY <2>3, <2>4, FS_UNION
  <2> QED BY <2>5 DEF each
<1>3. ASSUME NEW rule \in ToSet(d.rules), Read(rule), rule.arity = "pair", NEW box \in Orientations(rule)
      PROVE  /\ IsBox(box)
             /\ \A k \in {1, 2} : \E r \in ToSet(d.rules) : box[k] \in {r.left, r.right}
  <2>1. \A k \in {1, 2} : box[k] \in WrittenSelectors /\ box[k] \in {rule.left, rule.right}
    BY <1>3, OrientationsAreBoxes
  <2>2. \A s \in WrittenSelectors : s.version \in SelectorRanges
    BY DEF WrittenSelectors, SelectorRanges
  <2>3. box[1] \in WrittenSelectors /\ box[2] \in WrittenSelectors
    BY <2>1
  <2> QED BY <2>1, <2>2, <2>3 DEF IsBox
<1>4. PICK x \in Orientations(target) : SelectorMatches(x[1], left) /\ SelectorMatches(x[2], right)
  BY <1>1, MatchesInAnOrientation
<1> DEFINE candidates == {b \in boxes : BoxSubsumesModuloVersion(b, x)}
           all == {x} \cup candidates
<1>5. VersionPlaneCovered(x, candidates)
  BY DEF Dead
<1>6. IsFiniteSet(candidates)
  BY <1>2, FS_Subset
<1>7. \A b \in boxes : \E s \in shadowers : b \in Orientations(s)
  OBVIOUS
<1>8. \A b \in all : /\ IsBox(b)
                     /\ \A k \in {1, 2} : \E r \in ToSet(d.rules) : b[k] \in {r.left, r.right}
  <2>1. \A b \in boxes : /\ IsBox(b)
                         /\ \A k \in {1, 2} : \E r \in ToSet(d.rules) : b[k] \in {r.left, r.right}
    <3> HIDE DEF boxes
    <3> QED BY <1>1, <1>3, <1>7
  <2>2. IsBox(x) /\ \A k \in {1, 2} : \E r \in ToSet(d.rules) : x[k] \in {r.left, r.right}
    BY <1>1, <1>3
  <2> HIDE DEF boxes
  <2> QED BY <2>1, <2>2
<1> HIDE DEF boxes
<1>9. \A k \in {1, 2} : left.version \notin BoundsAlong(all, k) /\ right.version \notin BoundsAlong(all, k)
  <2> HIDE DEF all
  <2> QED BY <1>8, BetweenTheBoxes
<1>10. /\ left.version \in Versions /\ ~HasPrerelease(left.version)
       /\ right.version \in Versions /\ ~HasPrerelease(right.version)
  BY DEF ReadSpec, BetweenBounds
<1>11. Lets(x[1].version, left.version) /\ Lets(x[2].version, right.version)
  BY <1>4 DEF SelectorMatches, Lets
<1>12. \E b \in candidates : Lets(b[1].version, left.version) /\ Lets(b[2].version, right.version)
  <2>1. IsBox(x) /\ \A b \in candidates : IsBox(b)
    BY <1>8
  <2>2. left.version \notin BoundsAlong({x} \cup candidates, 1)
        /\ right.version \notin BoundsAlong({x} \cup candidates, 2)
    BY <1>9
  <2> HIDE DEF candidates
  <2> QED BY <1>5, <1>6, <1>10, <1>11, <2>1, <2>2, CoveredIsLetIn
<1>13. PICK b \in candidates : Lets(b[1].version, left.version) /\ Lets(b[2].version, right.version)
  BY <1>12
<1>14. PICK s \in shadowers : b \in Orientations(s)
  BY <1>7
<1>15. NamesSubsume(b[1], x[1]) /\ NamesSubsume(b[2], x[2])
  BY DEF BoxSubsumesModuloVersion
<1>16. SelectorMatches(b[1], left) /\ SelectorMatches(b[2], right)
  BY <1>4, <1>13, <1>15 DEF SelectorMatches, NamesSubsume, Lets
<1>17. RuleMatches(s, left, right)
  BY <1>1, <1>14, <1>16, OrientationMatches
<1> QED BY <1>17

\* A diagnostic that says something else than that a rule is unreachable.
SaysElse(report) == \A d \in report : d.code # "UnreachableRule"

\* Only the search for dead rules reports them (ValidateRegistryDocument).
LEMMA OnlyReachabilitySays ==
  ASSUME NEW document
  PROVE  \A d \in Validate(document) :
           d.code = "UnreachableRule" => d \in ReachabilityDiagnostics(document.rules)
<1>1. ASSUME NEW condition, NEW d, d.code # "UnreachableRule"
      PROVE  SaysElse(Reported(condition, d))
  BY <1>1 DEF SaysElse, Reported
<1>2. \A code, about : Wrong(code, about).code = code
  BY DEF Wrong, Diagnostic
<1>3. \A severity, code, about : Diagnostic(severity, code, about).code = code
  BY DEF Diagnostic
<1>4. \A s \in ReferencesKnown \cup {"families", "kinds"} : Undefined[s] # "UnreachableRule"
  BY DEF Undefined, ReferencesKnown
<1>5. ASSUME NEW taxonomy, NEW section \in ReferencesKnown \cup {"families", "kinds"}, NEW id, NEW about
      PROVE  SaysElse(UndefinedIn(taxonomy, section, id, about))
  <2>1. Wrong(Undefined[section], about).code # "UnreachableRule"
    BY <1>2, <1>4
  <2> QED BY <1>1, <2>1 DEF UndefinedIn
<1>6. ASSUME NEW s, NEW taxonomy, NEW about
      PROVE  SaysElse(SelectorDiagnostics(s, taxonomy, about))
  <2>1. \A d \in SelectorDiagnostics(s, taxonomy, about) :
           \/ d \in UndefinedIn(taxonomy, "families", s.family, about)
           \/ d \in UndefinedIn(taxonomy, "kinds", s.kind, about)
           \/ d \in UndefinedIn(taxonomy, "hardware_classes", s.hardware, about)
           \/ d = Wrong("KindFamilyMismatch", about)
           \/ d = Wrong("ImpossibleVersionRange", about)
    BY DEF SelectorDiagnostics, Reported
  <2>2. /\ SaysElse(UndefinedIn(taxonomy, "families", s.family, about))
        /\ SaysElse(UndefinedIn(taxonomy, "kinds", s.kind, about))
        /\ SaysElse(UndefinedIn(taxonomy, "hardware_classes", s.hardware, about))
    BY <1>5 DEF ReferencesKnown
  <2> QED BY <1>2, <2>1, <2>2 DEF SaysElse
<1>7. ASSUME NEW rule PROVE SaysElse(ShapeDiagnostics(rule))
  BY <1>2, <1>3 DEF ShapeDiagnostics, Reported, SaysElse
<1>8. ASSUME NEW c, NEW rule, NEW taxonomy PROVE SaysElse(ConstraintDiagnostics(c, rule, taxonomy))
  <2> DEFINE about == <<"constraint", RuleRef(rule), c>>
  <2>1. \A d \in ConstraintDiagnostics(c, rule, taxonomy) :
           \/ c.of \in ReferencesKnown /\ d \in UndefinedIn(taxonomy, c.of, c.id, about)
           \/ d = Wrong("SetRuleUsesRightSide", about)
           \/ d = Wrong("CapabilityTypeMismatch", about)
           \/ d = Wrong("UnsupportedComparison", about)
           \/ d = Wrong("ImpossibleVersionRange", about)
    BY DEF ConstraintDiagnostics, Reported
  <2>2. c.of \in ReferencesKnown => SaysElse(UndefinedIn(taxonomy, c.of, c.id, about))
    BY <1>5
  <2> HIDE DEF about
  <2> QED BY <1>2, <2>1, <2>2 DEF SaysElse
<1>9. ASSUME NEW rule PROVE SaysElse(ContradictionDiagnostics(rule))
  <2>1. \A d \in ContradictionDiagnostics(rule) : \E about : d = Wrong("UnsatisfiableConstraints", about)
    BY DEF ContradictionDiagnostics, Reported
  <2> QED BY <1>2, <2>1 DEF SaysElse
<1>10. ASSUME NEW rule, NEW taxonomy PROVE SaysElse(ImplicationDiagnostics(rule, taxonomy))
  <2>1. \A d \in ImplicationDiagnostics(rule, taxonomy) : \E i, about :
           \/ d \in UndefinedIn(taxonomy, "capabilities", i.if_present, about)
           \/ d \in UndefinedIn(taxonomy, "capabilities", i.then_required, about)
           \/ d = Wrong("SetRuleUsesRightSide", about)
           \/ d = Wrong("SelfImplication", about)
    BY DEF ImplicationDiagnostics, Reported
  <2>2. \A id, about : SaysElse(UndefinedIn(taxonomy, "capabilities", id, about))
    BY <1>5 DEF ReferencesKnown
  <2> QED BY <1>2, <2>1, <2>2 DEF SaysElse
<1>11. ASSUME NEW rule, NEW rules PROVE SaysElse(LifecycleDiagnostics(rule, rules))
  BY <1>3, <1>2 DEF LifecycleDiagnostics, Reported, SaysElse
<1>12. ASSUME NEW rule PROVE SaysElse(RuleDiagnostics(rule, document))
  <2> DEFINE taxonomy == document.taxonomy
  <2>1. \A d \in RuleDiagnostics(rule, document) :
          \/ d \in ShapeDiagnostics(rule)
          \/ \E s, about : d \in SelectorDiagnostics(s, taxonomy, about)
          \/ \E c : d \in ConstraintDiagnostics(c, rule, taxonomy)
          \/ d \in ContradictionDiagnostics(rule)
          \/ d \in ImplicationDiagnostics(rule, taxonomy)
          \/ d \in LifecycleDiagnostics(rule, ToSet(document.rules))
    BY Zenon DEF RuleDiagnostics
  <2> HIDE DEF taxonomy
  <2> QED BY <1>6, <1>7, <1>8, <1>9, <1>10, <1>11, <2>1, Zenon DEF SaysElse
<1>13. SaysElse(TaxonomyDiagnostics(document.taxonomy))
  <2>1. \A d \in TaxonomyDiagnostics(document.taxonomy) : \E about : d = Wrong("KindFamilyMismatch", about)
    BY DEF TaxonomyDiagnostics
  <2> QED BY <1>2, <2>1 DEF SaysElse
<1>14. SaysElse(DuplicateDiagnostics(document.rules))
  <2>1. \A d \in DuplicateDiagnostics(document.rules) : \E about : d = Wrong("DuplicateRuleIdentity", about)
    BY DEF DuplicateDiagnostics
  <2> QED BY <1>2, <2>1 DEF SaysElse
<1>15. SaysElse(ConflictDiagnostics(document.rules))
  <2>1. \A d \in ConflictDiagnostics(document.rules) : \E about : d = Wrong("ConflictingRules", about)
    BY DEF ConflictDiagnostics
  <2> QED BY <1>2, <2>1 DEF SaysElse
<1>16. SaysElse(CycleDiagnostics(document.rules))
  <2>1. \A d \in CycleDiagnostics(document.rules) : \E about : d = Wrong("ImplicationCycle", about)
    BY DEF CycleDiagnostics
  <2> QED BY <1>2, <2>1 DEF SaysElse
<1>17. SaysElse(UnusedDiagnostics(document))
  <2>1. \A d \in UnusedDiagnostics(document) : \E about :
          \/ d = Diagnostic("info", "UnusedCapability", about)
          \/ d = Diagnostic("info", "UnreferencedTaxonomyEntry", about)
    BY DEF UnusedDiagnostics
  <2> QED BY <1>3, <2>1 DEF SaysElse
<1>18. SaysElse(UNION {RuleDiagnostics(rule, document) : rule \in ToSet(document.rules)})
  BY <1>12 DEF SaysElse
<1> QED BY <1>13, <1>14, <1>15, <1>16, <1>17, <1>18 DEF SaysElse, Validate

\* What is reported as unreachable is an active rule with shadowers under which it
\* is dead (ReachabilityDiagnostics).
LEMMA UnreachableIsDead ==
  ASSUME NEW document, NEW ref \in SaidUnreachable(Validate(document))
  PROVE  \E target \in ToSet(document.rules) :
           /\ IsActive(target) /\ RuleRef(target) = ref
           /\ Dead(target, Shadowers(target, document.rules))
<1> DEFINE rules == document.rules
<1>1. PICK d \in Validate(document) : d.code = "UnreachableRule" /\ d.about[2] = ref
  BY DEF SaidUnreachable
<1>2. d \in ReachabilityDiagnostics(rules)
  BY <1>1, OnlyReachabilitySays
<1>3. \A severity, code, about : Diagnostic(severity, code, about).code = code
                                  /\ Diagnostic(severity, code, about).about = about
  BY DEF Diagnostic
<1>4. d # Diagnostic("info", "ReachabilityAnalysisSkipped", <<"rules">>)
  BY <1>1, <1>3
<1>5. PICK target \in {r \in ToSet(rules) : IsActive(r)} :
        d \in IF Cardinality(Shadowers(target, rules)) > MaxShadowers
              THEN {Diagnostic("info", "ReachabilityAnalysisSkipped", <<"rule", RuleRef(target)>>)}
              ELSE Reported(Shadowers(target, rules) # {} /\ Dead(target, Shadowers(target, rules)),
                            Wrong("UnreachableRule", <<"rule", RuleRef(target)>>))
  BY <1>2, <1>4 DEF ReachabilityDiagnostics
<1>6. d # Diagnostic("info", "ReachabilityAnalysisSkipped", <<"rule", RuleRef(target)>>)
  BY <1>1, <1>3
<1>7. /\ Dead(target, Shadowers(target, rules))
      /\ d = Wrong("UnreachableRule", <<"rule", RuleRef(target)>>)
  BY <1>5, <1>6 DEF Reported
<1>8. d.about[2] = RuleRef(target)
  BY <1>3, <1>7 DEF Wrong
<1> QED BY <1>1, <1>5, <1>7, <1>8

\* A rule that always applies reaches an outcome, whatever its constraints say.
LEMMA AlwaysReaches ==
  ASSUME NEW rule, Read(rule), RuleAlwaysApplies(rule), NEW d, NEW left, NEW right
  PROVE  Reaches(d, left, right, rule)
<1> DEFINE a == Applied(d, left, right, rule)
           v == [c \in Constraints(rule) |->
                   ConstraintVerdict(c, PairSides(left, right)[c.side], d.taxonomy)]
           w == Worst({v[c] : c \in DOMAIN v})
<1>1. a.resolved = Settle(rule, w).resolved
  BY DEF Applied, ApplyRule
<1>2. w \in {"violated", "indeterminate", "satisfied"}
  BY WorstOf
<1>3. /\ rule.on_unmet \in Outcomes /\ rule.on_indeterminate \in Outcomes /\ rule.outcome \in Outcomes
      /\ rule.on_unmet # "skip" /\ rule.on_indeterminate # "skip"
  BY DEF Read, RuleAlwaysApplies, Skips, Outcomes
<1> HIDE DEF a, w
<1>4. a.resolved \in Outcomes
  <2>1. CASE w = "violated"
    BY <1>1, <1>3, <2>1 DEF Settle, Reached
  <2>2. CASE w = "indeterminate"
    BY <1>1, <1>3, <2>2 DEF Settle, Reached
  <2>3. CASE w = "satisfied"
    BY <1>1, <1>3, <2>3 DEF Settle, Reached
  <2> QED BY <1>2, <2>1, <2>2, <2>3
<1> QED BY <1>4, AbsentAssumption DEF Reaches, a

\* A dead rule decides nothing about releases between the bounds.
LEMMA DeadDecidesNothing ==
  ASSUME NEW d, Unambiguous(d), NEW target \in ToSet(d.rules), IsActive(target),
         Dead(target, Shadowers(target, d.rules)),
         NEW left, NEW right, ReadSpec(left), ReadSpec(right),
         BetweenBounds(left, d), BetweenBounds(right, d),
         EvaluatePair(d, left, right).decider # Absent,
         EvaluatePair(d, left, right).decider = RuleRef(target)
  PROVE  FALSE
<1> DEFINE v == EvaluatePair(d, left, right)
<1>1. PICK rule \in Matching(d, left, right) :
        IsFirst(d, left, right, rule) /\ v.decider = RuleRef(rule)
  <2> HIDE DEF v
  <2>1. v = EvaluatePair(d, left, right) /\ v.decider # Absent
    BY DEF v
  <2> QED BY <2>1, FirstDecides
<1>2. rule \in ToSet(d.rules) /\ rule.id = target.id
  BY <1>1, MatchingRules DEF RuleRef
<1>3. rule = target
  BY <1>2 DEF Unambiguous, Unique
<1>4. target.arity = "pair" /\ RuleMatches(target, left, right)
  BY <1>1, <1>3 DEF Matching, ActiveRules
<1> DEFINE shadowers == Shadowers(target, d.rules)
<1>5. \A s \in shadowers : /\ s \in ToSet(d.rules) /\ IsActive(s) /\ s.arity = "pair"
                           /\ RuleAlwaysApplies(s) /\ TierBelow(Tier(target), Tier(s))
  BY <1>4 DEF Shadowers
<1> HIDE DEF shadowers
<1>6. PICK s \in shadowers : RuleMatches(s, left, right)
  <2>1. shadowers \subseteq ToSet(d.rules) /\ Dead(target, shadowers)
    BY <1>5 DEF shadowers
  <2> QED BY <1>4, <1>5, <2>1, ShadowerMatches
<1>7. s \in Matching(d, left, right)
  BY <1>5, <1>6 DEF Matching, ActiveRules
<1>8. Read(s) /\ Read(target)
  BY <1>5 DEF Unambiguous, ReadDocument
<1>9. s = target \/ PrecedenceHigher(target, s)
  BY <1>1, <1>3, <1>5, <1>7, <1>8, AlwaysReaches DEF IsFirst
<1>10. Tier(s) \in Int \X Int \X Int /\ Tier(target) \in Int \X Int \X Int
  BY <1>8, TierType
<1>11. /\ TierBelow(Tier(target), Tier(s))
       /\ ~TierBelow(Tier(s), Tier(target)) /\ Tier(s) # Tier(target)
  BY <1>5, <1>10, TierBelowIsStrict
<1>12. ~PrecedenceHigher(target, s)
  BY <1>11 DEF PrecedenceHigher, KeyHigher, RulePrecedence
<1> QED BY <1>9, <1>11, <1>12

\* A rule that validation reports as unreachable decides nothing about releases
\* between the bounds in use, for every document (ReachabilityDiagnostics,
\* VersionPlaneCovered, MatchPairRules).
THEOREM ShadowedRulesAlwaysNeverDecide == Spec => []ShadowedRulesNeverDecide
<1>1. ASSUME Answers, Answered("validate"), NamesOneRule(Value.report),
             NEW ref \in SaidUnreachable(Value.report), NEW specs \in Known(Value.document),
             \A i \in 1..2 : BetweenBounds(specs.value[i], Value.document)
      PROVE  ~Decides(ref, Value.document, specs)
  <2> DEFINE d == Value.document
             left == specs.value[1]
             right == specs.value[2]
  <2>1. ReadDocument(d) /\ Value.report = Validate(d)
    BY <1>1 DEF Answers, IsAssessment
  <2>2. Unambiguous(d)
    BY <1>1, <2>1, NamesakesAreReported DEF NamesOneRule, Errors
  <2>3. PICK target \in ToSet(d.rules) : /\ IsActive(target) /\ RuleRef(target) = ref
                                         /\ Dead(target, Shadowers(target, d.rules))
    BY <1>1, <2>1, UnreachableIsDead
  <2>4. ReadSpec(left) /\ ReadSpec(right)
    <3>1. PICK pair \in Pairs : specs = ReadMembers(pair, d) /\ ~Failed(specs)
      BY DEF Known
    <3>2. pair \in Asked /\ Len(pair) = 2
      BY DEF Pairs
    <3>3. \A i \in 1..2 : ReadSpec(specs.value[i])
      BY <3>1, <3>2, MembersAreRead
    <3> QED BY <3>3
  <2>5. BetweenBounds(left, d) /\ BetweenBounds(right, d)
    BY <1>1
  <2> HIDE DEF d, left, right
  <2>6. ASSUME EvaluatePair(d, left, right).decider # Absent,
               EvaluatePair(d, left, right).decider = ref
        PROVE  FALSE
    BY <2>2, <2>3, <2>4, <2>5, <2>6, DeadDecidesNothing
  <2> QED BY <2>6 DEF Decides, d, left, right
<1>2. Answers => ShadowedRulesNeverDecide
  BY <1>1 DEF ShadowedRulesNeverDecide
<1> QED BY <1>2, ServiceInvariant, PTL
=============================================================================
