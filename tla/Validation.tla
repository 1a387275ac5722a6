----------------------------- MODULE Validation -----------------------------
(***************************************************************************)
(* ValidateRegistryDocument (src/src/validation.cpp): what is wrong with a  *)
(* document that could be read, and which errors keep it from publication.  *)
(*                                                                         *)
(* A diagnostic keeps its severity, its code and what it is about; the      *)
(* texts, the order and the truncation of the report are left out.         *)
(***************************************************************************)
EXTENDS Rules

CONSTANTS MaxShadowers,  \* ValidationOptions.max_reachability_candidates
          MaxCells,      \* ValidationOptions.max_reachability_cells
          MaxAnalyzed    \* kMaxReachabilityRules

ASSUME AnalysisAssumption == MaxShadowers \in Nat /\ MaxCells \in Nat /\ MaxAnalyzed \in Nat

Diagnostic(severity, code, about) == [severity |-> severity, code |-> code, about |-> about]
Wrong(code, about) == Diagnostic("error", code, about)
Reported(condition, diagnostic) == IF condition THEN {diagnostic} ELSE {}

ReferencesKnown == {"capabilities", "protocols", "schemas", "hardware_classes", "features"}

Undefined == [families |-> "UndefinedFamily", kinds |-> "UndefinedKind",
              protocols |-> "UndefinedProtocol", schemas |-> "UndefinedSchema",
              capabilities |-> "UndefinedCapability", features |-> "UndefinedFeature",
              hardware_classes |-> "UndefinedHardwareClass"]

UndefinedIn(taxonomy, section, id, about) ==
  Reported(id # Absent /\ ~Declares(taxonomy, section, id), Wrong(Undefined[section], about))

-----------------------------------------------------------------------------
(* One rule by itself.                                                     *)

SelectorDiagnostics(s, taxonomy, about) ==
  UndefinedIn(taxonomy, "families", s.family, about)
    \cup UndefinedIn(taxonomy, "kinds", s.kind, about)
    \cup UndefinedIn(taxonomy, "hardware_classes", s.hardware, about)
    \cup Reported(/\ s.family # Absent /\ s.kind # Absent
                  /\ Declares(taxonomy, "kinds", s.kind)
                  /\ taxonomy["kinds"][s.kind] # s.family,
                  Wrong("KindFamilyMismatch", about))
    \cup Reported(s.version = <<>>, Wrong("ImpossibleVersionRange", about))

ShapeDiagnostics(rule) ==
  LET bare == rule.left = AnyComponent /\ rule.right = AnyComponent
  IN Reported(rule.arity = "set" /\ rule.right # AnyComponent,
              Wrong("SetRuleDeclaresRightSelector", <<"rule", RuleRef(rule)>>))
       \cup Reported(rule.arity = "pair" /\ bare, Diagnostic("info", "EmptySelector", <<"rule", RuleRef(rule)>>))

ConstraintDiagnostics(c, rule, taxonomy) ==
  LET about == <<"constraint", RuleRef(rule), c>>
      typed == c.wants = "value" /\ Declares(taxonomy, "capabilities", c.id)
      type == taxonomy["capabilities"][c.id]
  IN Reported(rule.arity = "set" /\ c.side = "right", Wrong("SetRuleUsesRightSide", about))
       \cup (IF c.of \in ReferencesKnown THEN UndefinedIn(taxonomy, c.of, c.id, about) ELSE {})
       \cup Reported(typed /\ c.literal.type # type, Wrong("CapabilityTypeMismatch", about))
       \cup Reported(typed /\ ~ComparisonOpSupported(type, c.op),
                     Wrong("UnsupportedComparison", about))
       \cup Reported(c.range = <<>>, Wrong("ImpossibleVersionRange", about))

\* What the constraints of a side require, and what they forbid.
Facts(rule, side, wants) ==
  {<<c.of, c.id>> : c \in {x \in Constraints(rule) : x.side = side /\ x.wants \in wants}}

\* Of several bounds for one side the last in sorted order is compared.
LastBound(rule, side, wants) ==
  LET versions == {c.version : c \in {x \in Constraints(rule) : x.side = side /\ x.wants = wants}}
  IN IF versions = {} THEN Absent
     ELSE CHOOSE v \in versions : \A w \in versions : v # w => TextBefore(w, v)

ContradictionDiagnostics(rule) ==
  UNION {LET low == LastBound(rule, side, "at_least")
             high == LastBound(rule, side, "at_most")
         IN {Wrong("UnsatisfiableConstraints", <<"side", RuleRef(rule), side, fact>>) :
               fact \in Facts(rule, side, {"requires", "value"}) \cap Facts(rule, side, {"forbids"})}
            \cup Reported(low # Absent /\ high # Absent /\ Before(high, low),
                          Wrong("UnsatisfiableConstraints", <<"side", RuleRef(rule), side, <<"version">>>>))
         : side \in Sides}

ImplicationDiagnostics(rule, taxonomy) ==
  UNION {LET about == <<"implication", RuleRef(rule), i>>
         IN Reported(rule.arity = "set" /\ i.side = "right", Wrong("SetRuleUsesRightSide", about))
            \cup UndefinedIn(taxonomy, "capabilities", i.if_present, about)
            \cup UndefinedIn(taxonomy, "capabilities", i.then_required, about)
            \cup Reported(i.if_present = i.then_required, Wrong("SelfImplication", about))
         : i \in Implications(rule)}

LifecycleDiagnostics(rule, rules) ==
  Reported(rule.state = "deprecated" /\ rule.superseded_by = Absent,
           Diagnostic("warning", "DeprecatedWithoutSuccessor", <<"rule", RuleRef(rule)>>))
    \cup Reported(/\ rule.superseded_by # Absent
                  /\ \A other \in rules : other.id # rule.superseded_by,
                  Diagnostic("warning", "SupersededByMissing", <<"rule", RuleRef(rule)>>))
    \cup Reported(rule.state = "retired", Diagnostic("info", "RetiredRuleDeclared", <<"rule", RuleRef(rule)>>))

SelectorsOf(rule) == IF rule.arity = "pair" THEN {rule.left, rule.right} ELSE {rule.left}

RuleDiagnostics(rule, document) ==
  ShapeDiagnostics(rule)
    \cup (UNION {SelectorDiagnostics(s, document.taxonomy, <<"selector", RuleRef(rule), s>>) : s \in SelectorsOf(rule)})
    \cup (UNION {ConstraintDiagnostics(c, rule, document.taxonomy) : c \in Constraints(rule)})
    \cup ContradictionDiagnostics(rule)
    \cup ImplicationDiagnostics(rule, document.taxonomy)
    \cup LifecycleDiagnostics(rule, ToSet(document.rules))

-----------------------------------------------------------------------------
(* Two rules of one tier that disagree where they overlap, whatever their   *)
(* states.                                                                 *)

RuleRegionsOverlap(a, b) ==
  /\ a.arity = b.arity
  /\ \E x \in Orientations(a), y \in Orientations(b) :
       SelectorsOverlap(x[1], y[1]) /\ SelectorsOverlap(x[2], y[2])

Conflict(a, b) ==
  /\ Tier(a) = Tier(b)
  /\ a.outcome # b.outcome
  /\ RuleRegionsOverlap(a, b)

ConflictDiagnostics(rules) ==
  UNION {{Wrong("ConflictingRules", <<"rules", RuleRef(rules[i]), RuleRef(rules[j])>>) :
            j \in {k \in i + 1..Len(rules) : Conflict(rules[i], rules[k])}} : i \in DOMAIN rules}

-----------------------------------------------------------------------------
(* Rules that can never decide: rules of higher tiers, which always reach a *)
(* verdict, match wherever they do.  The version plane is cut into cells at *)
(* every bound in use; between two neighbouring bounds nothing changes.    *)

\* Variants named after a mistake stand before the definition they distort;
\* nothing in the model uses them.
RuleAppliesWhenUnmet(rule) == rule.on_unmet # "skip"

RuleAlwaysApplies(rule) == rule.on_unmet # "skip" /\ rule.on_indeterminate # "skip"

\* A box is a pair of selectors.
BoxSubsumesModuloVersion(outer, inner) ==
  NamesSubsume(outer[1], inner[1]) /\ NamesSubsume(outer[2], inner[2])

RuleRegionSubsumesModuloVersion(outer, inner) ==
  \A y \in Orientations(inner) : \E x \in Orientations(outer) : BoxSubsumesModuloVersion(x, y)

BoundsOf(range) ==
  IF range = Absent THEN {}
  ELSE (UNION {{range[i].low, range[i].high} : i \in DOMAIN range}) \ {Unbounded}

\* The bounds along one side of the boxes, Unbounded at both ends.
Coords(boxes, k) ==
  <<Unbounded>> \o InOrder(UNION {BoundsOf(b[k].version) : b \in boxes}, Before)
    \o <<Unbounded>>

RangeCoversCell(range, lo, hi) ==
  \/ range = Absent
  \/ \E i \in DOMAIN range :
       /\ range[i].low # Unbounded => lo # Unbounded /\ ~Before(lo, range[i].low)
       /\ range[i].high # Unbounded => hi # Unbounded /\ ~Before(range[i].high, hi)

\* Cells beyond the budget are not looked at: then nothing is said to be covered.
VersionPlaneCovered(target, candidates) ==
  LET xs == Coords({target} \cup candidates, 1)
      ys == Coords({target} \cup candidates, 2)
      Covers(box, i, j) == /\ RangeCoversCell(box[1].version, xs[i], xs[i + 1])
                           /\ RangeCoversCell(box[2].version, ys[j], ys[j + 1])
  IN /\ (Len(xs) - 1) * (Len(ys) - 1) <= MaxCells
     /\ \A i \in 1..Len(xs) - 1, j \in 1..Len(ys) - 1 :
          Covers(target, i, j) => \E box \in candidates : Covers(box, i, j)

Shadowers(target, rules) ==
  {other \in ToSet(rules) :
     /\ IsActive(other) /\ other.arity = target.arity
     /\ RuleAlwaysApplies(other)
     /\ TierBelow(Tier(target), Tier(other))
     /\ RuleRegionSubsumesModuloVersion(other, target)}

Dead(target, shadowers) ==
  LET boxes == UNION {Orientations(s) : s \in shadowers}
  IN \A box \in Orientations(target) :
       VersionPlaneCovered(box, {b \in boxes : BoxSubsumesModuloVersion(b, box)})

ReachabilityDiagnostics(rules) ==
  IF Len(rules) > MaxAnalyzed
  THEN {Diagnostic("info", "ReachabilityAnalysisSkipped", <<"rules">>)}
  ELSE UNION {LET shadowers == Shadowers(target, rules)
              IN IF Cardinality(shadowers) > MaxShadowers
                 THEN {Diagnostic("info", "ReachabilityAnalysisSkipped", <<"rule", RuleRef(target)>>)}
                 ELSE Reported(shadowers # {} /\ Dead(target, shadowers),
                               Wrong("UnreachableRule", <<"rule", RuleRef(target)>>))
              : target \in {r \in ToSet(rules) : IsActive(r)}}

-----------------------------------------------------------------------------
(* Cycles of implications, over all active rules, side by side.            *)

Implied(rules, side) ==
  {<<i.if_present, i.then_required>> :
     i \in {x \in UNION {Implications(r) : r \in {q \in ToSet(rules) : IsActive(q)}} : x.side = side}}

\* The search of the code stops at a depth of 256 and may miss a cycle that is
\* longer; here every cycle is found.
HasCycle(edges) ==
  LET nodes == {e[1] : e \in edges} \cup {e[2] : e \in edges}
      \* From the first to the second in at most n + 1 steps.
      leads[n \in 0..Cardinality(nodes)] ==
        IF n = 0 THEN edges
        ELSE leads[n - 1] \cup {p \in nodes \X nodes :
               \E b \in nodes : <<p[1], b>> \in leads[n - 1] /\ <<b, p[2]>> \in edges}
  IN \E node \in nodes : <<node, node>> \in leads[Cardinality(nodes)]

CycleDiagnostics(rules) ==
  {Wrong("ImplicationCycle", <<"side", side>>) : side \in {s \in Sides : HasCycle(Implied(rules, s))}}

-----------------------------------------------------------------------------
(* The whole document.                                                     *)

TaxonomyDiagnostics(taxonomy) ==
  {Wrong("KindFamilyMismatch", <<"kind", kind>>) :
     kind \in {k \in DOMAIN taxonomy["kinds"] :
                 ~Declares(taxonomy, "families", taxonomy["kinds"][k])}}

\* A rule whose identity an earlier rule has.
DuplicateDiagnostics(rules) ==
  {Wrong("DuplicateRuleIdentity", <<"rule", RuleRef(rules[i])>>) :
     i \in {k \in DOMAIN rules : \E j \in 1..k - 1 : rules[j].id = rules[k].id}}

Referenced(rules, section) ==
  {c.id : c \in {x \in UNION {Constraints(r) : r \in rules} : x.of = section}}
    \cup (IF section = "capabilities"
          THEN UNION {{i.if_present, i.then_required} : i \in UNION {Implications(r) : r \in rules}}
          ELSE {})

UnusedDiagnostics(document) ==
  LET Unused(section) == DOMAIN document.taxonomy[section]
                           \ Referenced(ToSet(document.rules), section)
  IN {Diagnostic("info", "UnusedCapability", <<"capability", id>>) : id \in Unused("capabilities")}
       \cup {Diagnostic("info", "UnreferencedTaxonomyEntry", <<"feature", id>>) : id \in Unused("features")}

Validate(document) ==
  TaxonomyDiagnostics(document.taxonomy)
    \cup DuplicateDiagnostics(document.rules)
    \cup (UNION {RuleDiagnostics(rule, document) : rule \in ToSet(document.rules)})
    \cup ConflictDiagnostics(document.rules)
    \cup ReachabilityDiagnostics(document.rules)
    \cup CycleDiagnostics(document.rules)
    \cup UnusedDiagnostics(document)

Errors(report) == {d \in report : d.severity = "error"}
Publishable(report) == Errors(report) = {}
=============================================================================
