-------------------------------- MODULE Rules --------------------------------
(***************************************************************************)
(* Rules and the documents that hold them (src/src/rule.cpp,                *)
(* src/src/document.cpp): how they are read, which of two rules takes       *)
(* precedence, and which components a rule is about.                       *)
(*                                                                         *)
(* The identity of a rule is its place in the order of identities.  The     *)
(* constraints and implications of a rule are sorted when it is read, so    *)
(* they are a bag.  The digest of a rule or a document stands for its       *)
(* content, so digests are compared by comparing contents.                 *)
(***************************************************************************)
EXTENDS Components

CONSTANTS FormatVersion,   \* kRegistryDocumentFormatVersion
          MaxRules,        \* DocumentLimits.max_rules
          MaxConstraints,  \* kMaxConstraintsPerRule
          MaxImplications  \* kMaxImplicationsPerRule

ASSUME RulesAssumption ==
  /\ MaxRules \in Nat /\ MaxConstraints \in Nat /\ MaxImplications \in Nat

-----------------------------------------------------------------------------
(* Constraints.  wants is one of "requires", "forbids", "value", "at_least" *)
(* and "at_most"; of is the section of the taxonomy it speaks of, or        *)
(* "version".                                                              *)

Sides == {"left", "right", "all"}

\* ParseConstraint: a range that was not written is any range.
ParseConstraint(written) ==
  [wants |-> written.wants, of |-> written.of, side |-> written.side, id |-> written.id,
   op |-> written.op, version |-> written.version,
   literal |-> IF written.wants = "value" THEN ReadLiteral(written.json) ELSE Absent,
   range |-> IF /\ written.wants = "requires" /\ written.of \in {"protocols", "schemas"}
                /\ written.range = Absent
             THEN AnyRange ELSE written.range]

AsBag(entries) ==
  [c \in ToSet(entries) |-> Cardinality({i \in DOMAIN entries : entries[i] = c})]
BagSize(bag) == MapThenSumSet(LAMBDA c : bag[c], DOMAIN bag)

Constraints(rule) == DOMAIN rule.constraints
Implications(rule) == DOMAIN rule.implications

\* Whether the text of version a comes before that of b: a prerelease begins
\* with the text of its release (components of one digit).
TextBefore(a, b) == IF SameTuple(a, b) /\ HasPrerelease(a) # HasPrerelease(b)
                    THEN HasPrerelease(b) ELSE Before(a, b)

-----------------------------------------------------------------------------
(* Reading rules.                                                          *)

Outcomes == {"compatible", "incompatible", "unknown"}
ASSUME AbsentAssumption == Absent \notin Outcomes /\ Absent \notin Nat \X Nat

Skips == {"incompatible", "unknown", "skip"}
Symmetries == {"symmetric", "left_to_right", "right_to_left"}

\* What a constraint may want of which section.
ConstraintKinds ==
  ({"requires", "forbids"} \X {"capabilities", "protocols", "schemas", "features", "hardware_classes"})
    \cup {<<"value", "capabilities">>, <<"at_least", "version">>, <<"at_most", "version">>}

WrittenConstraints ==
  {c \in [wants : {"requires", "forbids", "value", "at_least", "at_most"},
          of : {"capabilities", "protocols", "schemas", "features", "hardware_classes", "version"},
          side : Sides, id : Optional(STRING), op : {"eq", "ne", "lt", "le", "gt", "ge"},
          version : Optional(Versions), json : Optional(WrittenValues), range : Optional(ParsedRanges)] :
     /\ <<c.wants, c.of>> \in ConstraintKinds
     /\ c.wants = "value" => c.json # Absent
     /\ c.of = "version" => c.version # Absent
     /\ c.range # Absent => c.wants = "requires" /\ c.of \in {"protocols", "schemas"}}

WrittenRules ==
  [id : Nat, revision : Optional(Nat), priority : Optional(Int),
   origin : Optional({"standard", "vendor", "operator", "local_override"}),
   symmetry : Optional(Symmetries), arity : Optional({"pair", "set"}), outcome : Outcomes,
   left : WrittenSelectors, right : Optional(WrittenSelectors),
   constraints : Seq(WrittenConstraints),
   implications : Seq([if_present : STRING, then_required : STRING, side : Sides]),
   negotiation : Optional({"highest_common", "lowest_common", "exact_required"}),
   on_unmet : Optional(Skips), on_indeterminate : Optional(Skips),
   state : Optional({"active", "deprecated", "retired"}), superseded_by : Optional(Nat)]

WrittenDocuments ==
  [format_version : Nat, generation : Nat, epoch : Nat,
   taxonomy : [ToSet(Sections) -> Seq([id : STRING, of : STRING])], rules : Seq(WrittenRules)]

Defaults ==
  [revision |-> 1, priority |-> 0, origin |-> "standard", symmetry |-> "symmetric",
   arity |-> "pair", negotiation |-> "highest_common", on_unmet |-> "incompatible",
   on_indeterminate |-> "unknown", state |-> "active"]

ParseRule(written) ==
  LET Given(f) == IF f \in DOMAIN Defaults /\ written[f] = Absent THEN Defaults[f] ELSE written[f]
      rule == [f \in DOMAIN written |-> Given(f)]
      error == FirstError(<<
        When((rule.arity = "pair") # (rule.right # Absent), "InvalidDocument"),
        When(Len(rule.constraints) > MaxConstraints, "LimitExceeded"),
        When(Len(rule.implications) > MaxImplications, "LimitExceeded")>>)
  IN IF error # "none" THEN Error(error)
     ELSE Ok([rule EXCEPT
       !.right = IF @ = Absent THEN AnyComponent ELSE @,
       !.constraints = AsBag([i \in DOMAIN @ |-> ParseConstraint(@[i])]),
       !.implications = AsBag(@)])

RuleRef(rule) == <<rule.id, rule.revision>>

\* RegistryDocument::Normalize.
Normalize(rules) ==
  Sorted(rules, LAMBDA a, b : a.id < b.id \/ (a.id = b.id /\ a.revision < b.revision))

ParseRegistryDocument(written) ==
  LET taxonomy == ParseTaxonomy(written.taxonomy)
      rules == [i \in DOMAIN written.rules |-> ParseRule(written.rules[i])]
      error == FirstError(<<
        When(written.format_version # FormatVersion, "UnsupportedFormatVersion"),
        taxonomy.error,
        When(Len(written.rules) > MaxRules, "LimitExceeded")>>
        \o [i \in DOMAIN rules |-> rules[i].error])
  IN IF error # "none" THEN Error(error)
     ELSE Ok([generation |-> written.generation, epoch |-> written.epoch,
              taxonomy |-> taxonomy.value,
              rules |-> Normalize([i \in DOMAIN rules |-> rules[i].value])])

IsActive(rule) == rule.state = "active"
ActiveRules(document, arity) ==
  {rule \in ToSet(document.rules) : IsActive(rule) /\ rule.arity = arity}

-----------------------------------------------------------------------------
(* Precedence.                                                             *)

OriginRank == [standard |-> 0, vendor |-> 10, operator |-> 20, local_override |-> 30]

SelectorSpecificity(s) ==
  8 * Cardinality({f \in NamedFields : s[f] # Absent})
    + (IF s.version = Absent THEN 0
       ELSE IF RangeIsExact(s.version) THEN 24
       ELSE IF RangeIsAny(s.version) THEN 0 ELSE 12)

AtMost16(n) == IF n < 16 THEN n ELSE 16

ComputeSpecificity(rule) ==
  SelectorSpecificity(rule.left)
    + (IF rule.arity = "pair" THEN SelectorSpecificity(rule.right) ELSE 0)
    + 2 * AtMost16(BagSize(rule.constraints)) + AtMost16(BagSize(rule.implications))

\* RuleTier.
Tier(rule) == <<rule.priority, ComputeSpecificity(rule), OriginRank[rule.origin]>>

TierBelow(a, b) ==
  \/ a[1] < b[1]
  \/ a[1] = b[1] /\ a[2] < b[2]
  \/ a[1] = b[1] /\ a[2] = b[2] /\ a[3] < b[3]

KeyHigher(a, b) ==
  \/ TierBelow(b.tier, a.tier)
  \/ a.tier = b.tier /\ (a.id < b.id \/ (a.id = b.id /\ a.revision < b.revision))

RulePrecedence(rule) == [tier |-> Tier(rule), id |-> rule.id, revision |-> rule.revision]
PrecedenceHigher(a, b) == KeyHigher(RulePrecedence(a), RulePrecedence(b))

-----------------------------------------------------------------------------
(* Which pairs of components a rule is about.                              *)

Forward(rule, left, right) == SelectorMatches(rule.left, left) /\ SelectorMatches(rule.right, right)
Backward(rule, left, right) == Forward(rule, right, left)

\* Variants named after a mistake stand before the definition they distort;
\* nothing in the model uses them.
RuleMatchesForward(rule, left, right) == Forward(rule, left, right)

RuleMatches(rule, left, right) ==
  CASE rule.symmetry = "left_to_right" -> Forward(rule, left, right)
    [] rule.symmetry = "right_to_left" -> Backward(rule, left, right)
    [] rule.symmetry = "symmetric" -> Forward(rule, left, right) \/ Backward(rule, left, right)

Mirrored(rule, left, right) ==
  /\ rule.symmetry # "left_to_right"
  /\ Backward(rule, left, right)
  /\ rule.symmetry = "right_to_left" \/ ~Forward(rule, left, right)

OrientationsAsWritten(rule) ==
  {<<rule.left, IF rule.arity = "pair" THEN rule.right ELSE AnyComponent>>}

\* RuleOrientations: the pairs of selectors a rule stands for, left and right.
Orientations(rule) ==
  CASE rule.arity = "set" -> {<<rule.left, AnyComponent>>}
    [] rule.arity = "pair" /\ rule.symmetry = "left_to_right" -> {<<rule.left, rule.right>>}
    [] rule.arity = "pair" /\ rule.symmetry = "right_to_left" -> {<<rule.right, rule.left>>}
    [] rule.arity = "pair" /\ rule.symmetry = "symmetric" ->
         {<<rule.left, rule.right>>, <<rule.right, rule.left>>}
=============================================================================
