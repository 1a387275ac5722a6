------------------------------ MODULE Decisions ------------------------------
(***************************************************************************)
(* RegistryGeneration (src/src/registry.cpp): what a published document     *)
(* says of a pair and of a set of components, with the evidence, and what   *)
(* protocol and schema versions they can agree on.                         *)
(***************************************************************************)
EXTENDS Rules

CONSTANTS MaxEvidence,   \* kMaxEvidenceRules
          MaxMembers     \* kMaxSetMembers

ASSUME DecisionsAssumption == MaxEvidence \in Nat \ {0} /\ MaxMembers \in Nat

-----------------------------------------------------------------------------
(* A constraint and a component: satisfied, violated, or indeterminate when *)
(* the component leaves open what it does not declare.                     *)

Verdict(holds) == IF holds THEN "satisfied" ELSE "violated"

\* Whether what spec declares of a section is all there is.  Features go by
\* the knowledge of capabilities.
IsClosed(spec, section) ==
  (IF section = "features" THEN "capabilities" ELSE section) \in spec.closed

IsDeclared(spec, section, id) ==
  id \in IF section = "features" THEN spec.features ELSE DOMAIN spec[section]

\* What a declared capability, protocol, schema or feature says.
DeclaredVerdict(c, spec, taxonomy) ==
  CASE c.wants = "forbids" -> "violated"
    [] c.wants = "requires" /\ c.range = Absent -> "satisfied"
    [] c.wants = "requires" /\ c.range # Absent ->
         Verdict(\E v \in spec[c.of][c.id] : RangeAdmits(c.range, v))
    [] c.wants = "value" ->
         Verdict(/\ Declares(taxonomy, c.of, c.id) => taxonomy[c.of][c.id] = c.literal.type
                 /\ ApplyComparison(c.op, spec[c.of][c.id], c.literal))

\* Variants named after a mistake stand before the definition they distort;
\* nothing in the model uses them.
UndeclaredMeansAbsent(c, spec) == Verdict(c.wants = "forbids")

Undeclared(c, spec) ==
  IF IsClosed(spec, c.of) THEN Verdict(c.wants = "forbids") ELSE "indeterminate"

EvaluateConstraint(c, spec, taxonomy) ==
  CASE c.wants = "at_least" -> Verdict(~Before(spec.version, c.version))
    [] c.wants = "at_most" -> Verdict(~Before(c.version, spec.version))
    [] c.of = "hardware_classes" ->
         IF spec.hardware = Absent THEN "indeterminate"
         ELSE Verdict((spec.hardware = c.id) = (c.wants = "requires"))
    [] c.of \notin {"version", "hardware_classes"} ->
         IF IsDeclared(spec, c.of, c.id) THEN DeclaredVerdict(c, spec, taxonomy)
         ELSE Undeclared(c, spec)

\* Of verdicts, the worst.
Worst(verdicts) ==
  IF "violated" \in verdicts THEN "violated"
  ELSE IF "indeterminate" \in verdicts THEN "indeterminate" ELSE "satisfied"

\* A constraint on a side no component is on is indeterminate.
ConstraintVerdict(c, targets, taxonomy) ==
  IF targets = {} THEN "indeterminate"
  ELSE Worst({EvaluateConstraint(c, spec, taxonomy) : spec \in targets})

-----------------------------------------------------------------------------
(* A rule.  resolver gives the components on each side.                    *)

Skipped == [status |-> "skipped", resolved |-> Absent]
Reached(status, outcome) == [status |-> status, resolved |-> outcome]

\* The violated constraints come before the indeterminate ones.
Settle(rule, worst) ==
  CASE worst = "violated" ->
         IF rule.on_unmet = "skip" THEN Skipped ELSE Reached("violated", rule.on_unmet)
    [] worst = "indeterminate" ->
         IF rule.on_indeterminate = "skip" THEN Skipped
         ELSE Reached("indeterminate", rule.on_indeterminate)
    [] worst = "satisfied" -> Reached("satisfied", rule.outcome)

ApplyRule(rule, taxonomy, resolver, mirrored) ==
  LET verdicts == [c \in Constraints(rule) |-> ConstraintVerdict(c, resolver[c.side], taxonomy)]
      settled == Settle(rule, Worst({verdicts[c] : c \in DOMAIN verdicts}))
  IN [rule |-> rule, status |-> settled.status, resolved |-> settled.resolved,
      verdicts |-> verdicts, mirrored |-> mirrored, decided |-> FALSE]

-----------------------------------------------------------------------------
(* The rules that matched, in order of precedence.  The first that reaches  *)
(* an outcome decides.  The evidence keeps MaxEvidence of them; a rule      *)
(* beyond that which decides takes the place of the last one kept.         *)

ByPrecedence(rules) == InOrder(rules, PrecedenceHigher)

\* decider is the place of the rule that decides, or 0.
NotDecided == [total |-> 0, decider |-> 0, evidence |-> <<>>, truncated |-> FALSE]

KeepTheFirst(evidence, entry) ==
  IF Len(evidence) < MaxEvidence THEN Append(evidence, entry) ELSE evidence

Keep(evidence, entry) ==
  IF Len(evidence) < MaxEvidence THEN Append(evidence, entry)
  ELSE IF entry.decided THEN [evidence EXCEPT ![MaxEvidence] = entry] ELSE evidence

Weigh(decision, application) ==
  LET decides == decision.decider = 0 /\ application.resolved # Absent
      place == decision.total + 1
  IN [total |-> place,
      decider |-> IF decides THEN place ELSE decision.decider,
      evidence |-> Keep(decision.evidence, [application EXCEPT !.decided = decides]),
      truncated |-> decision.truncated \/ Len(decision.evidence) >= MaxEvidence]

WeighAll(applications) == FoldLeft(Weigh, NotDecided, applications)

\* RecordOverrideNotes.
Overridden(decision, outcome) ==
  {RuleRef(e.rule) : e \in {x \in ToSet(decision.evidence) :
                             ~x.decided /\ x.resolved \notin {Absent, outcome}}}

\* What is wrong with the component itself, and then nothing is evaluated.
Registered(taxonomy, spec) ==
  IF ~Declares(taxonomy, "families", spec.family) THEN "unregistered_component_family"
  ELSE IF ~Declares(taxonomy, "kinds", spec.kind) THEN "unregistered_component_kind"
  ELSE When(taxonomy["kinds"][spec.kind] # spec.family, "kind_family_mismatch")

\* A pair is looked over field by field, a set member by member.
PairRegistered(taxonomy, left, right) ==
  LET found == {Registered(taxonomy, left), Registered(taxonomy, right)}
  IN FirstError(<<When("unregistered_component_family" \in found, "unregistered_component_family"),
                  When("unregistered_component_kind" \in found, "unregistered_component_kind"),
                  When("kind_family_mismatch" \in found, "kind_family_mismatch")>>)

SetRegistered(taxonomy, members) ==
  FirstError([i \in DOMAIN members |-> Registered(taxonomy, members[i])])

-----------------------------------------------------------------------------
(* Negotiation of one protocol or schema, member after member.             *)

SelectNegotiated(window, policy) ==
  CHOOSE v \in window : \A w \in window :
    IF policy = "lowest_common" THEN ~Before(w, v) ELSE ~Before(v, w)

Unsettled(status, owner, window) ==
  [status |-> status, owner |-> owner, window |-> window, selected |-> Absent]

Lists(spec, section, id) == IF id \in DOMAIN spec[section] THEN spec[section][id] ELSE {}

InCommonOfThoseThatSay(specs, section, id) ==
  LET window[n \in DOMAIN specs] ==
        IF n = 1 THEN Lists(specs[1], section, id)
        ELSE IF id \in DOMAIN specs[n][section]
        THEN window[n - 1] \cap Lists(specs[n], section, id) ELSE window[n - 1]
  IN window

\* What the first n members have in common.
InCommon(specs, section, id) ==
  LET window[n \in DOMAIN specs] ==
        IF n = 1 THEN Lists(specs[1], section, id)
        ELSE window[n - 1] \cap Lists(specs[n], section, id)
  IN window

NegotiateOne(specs, section, id, policy) ==
  LET window == InCommon(specs, section, id)
      stops == {n \in DOMAIN specs : window[n] = {}}
      stop == specs[Min(stops)]
      common == window[Len(specs)]
  IN IF stops # {}
     THEN IF id \in DOMAIN stop[section] THEN Unsettled("no_overlap", Absent, {})
          ELSE IF section \in stop.closed THEN Unsettled("not_supported", stop.kind, {})
          ELSE Unsettled("indeterminate", stop.kind, {})
     ELSE IF policy = "exact_required" /\ Cardinality(common) # 1
     THEN Unsettled("no_overlap", Absent, common)
     ELSE [status |-> "agreed", owner |-> Absent, window |-> common,
           selected |-> SelectNegotiated(common, policy)]

\* What some member declares and the taxonomy knows.  Beyond the limit the first
\* ones are kept, in an order of their own.
Subjects(specs, section, taxonomy) ==
  LET ids == (UNION {DOMAIN specs[i][section] : i \in DOMAIN specs}) \cap DOMAIN taxonomy[section]
      order == SetToSeq(ids)
  IN {order[i] : i \in {k \in DOMAIN order : k <= MaxNegotiated}}

Negotiate(specs, policy, taxonomy) ==
  [policy |-> policy,
   on |-> [section \in {"protocols", "schemas"} |->
             [id \in Subjects(specs, section, taxonomy) |-> NegotiateOne(specs, section, id, policy)]]]

-----------------------------------------------------------------------------
(* Decisions.  applications are the rules that matched, applied.           *)

Conclude(document, arity, subjects, problem, applications) ==
  LET weighed == WeighAll(applications)
      decided == weighed.decider # 0
      decider == applications[weighed.decider]
      outcome == IF decided THEN decider.resolved ELSE "unknown"
      reason == IF problem # "none" THEN problem
                ELSE IF decided THEN "decided_by_rule"
                ELSE IF applications = <<>> THEN "no_matching_rule" ELSE "all_matched_rules_skipped"
      policy == IF decided THEN decider.rule.negotiation ELSE "highest_common"
  IN [document |-> document, arity |-> arity, subjects |-> subjects, outcome |-> outcome, reason |-> reason,
      decider |-> IF decided THEN RuleRef(decider.rule) ELSE Absent,
      evidence |-> weighed.evidence, truncated |-> weighed.truncated,
      total |-> weighed.total,
      unmet |-> IF decided
                THEN {c \in DOMAIN decider.verdicts : decider.verdicts[c] # "satisfied"}
                ELSE {},
      overridden |-> IF decided THEN Overridden(weighed, outcome) ELSE {},
      negotiation |-> Negotiate(subjects, policy, document.taxonomy)]

\* Nothing is matched when a component is not registered or no rule is active.
Obstacle(document, arity, problem) ==
  IF problem # "none" THEN problem
  ELSE When(ActiveRules(document, arity) = {}, "no_active_rules")

\* MatchPairRules.
MatchPairRules(document, left, right) ==
  ByPrecedence({rule \in ActiveRules(document, "pair") : RuleMatches(rule, left, right)})

\* The left side is the first component, also for a rule that matched mirrored.
PairSides(left, right) == [left |-> {left}, right |-> {right}, all |-> {left, right}]

EvaluatePair(document, left, right) ==
  LET problem == Obstacle(document, "pair", PairRegistered(document.taxonomy, left, right))
      matched == IF problem = "none" THEN MatchPairRules(document, left, right) ELSE <<>>
      Apply(rule) ==
        ApplyRule(rule, document.taxonomy, PairSides(left, right), Mirrored(rule, left, right))
  IN Conclude(document, "pair", <<left, right>>, problem, [k \in DOMAIN matched |-> Apply(matched[k])])

\* The left side of a set rule are the members it selects; it has no right side.
SetSides(rule, members) ==
  [left |-> {m \in ToSet(members) : SelectorMatches(rule.left, m)}, right |-> {},
   all |-> ToSet(members)]

EvaluateSetLevel(document, members) ==
  LET problem == Obstacle(document, "set", SetRegistered(document.taxonomy, members))
      About(rule) == SetSides(rule, members).left # {}
      matched == IF problem = "none" THEN ByPrecedence({rule \in ActiveRules(document, "set") : About(rule)})
                 ELSE <<>>
      Apply(rule) == ApplyRule(rule, document.taxonomy, SetSides(rule, members), FALSE)
  IN Conclude(document, "set", members, problem, [k \in DOMAIN matched |-> Apply(matched[k])])

\* Incompatible if any part is, compatible only if every part is.
SetOutcome(outcomes) ==
  IF "incompatible" \in outcomes THEN "incompatible"
  ELSE IF "unknown" \in outcomes THEN "unknown" ELSE "compatible"

SetDecision(document, members, level, pairs) ==
  [document |-> document, members |-> members, set_level |-> level, pairs |-> pairs,
   outcome |-> SetOutcome({level.outcome} \cup {pairs[p].outcome : p \in DOMAIN pairs})]

EvaluateSet(document, members) ==
  LET chosen == {p \in (DOMAIN members) \X (DOMAIN members) : p[1] < p[2]}
  IN IF Len(members) < 2 THEN Error("InvalidArgument")
     ELSE IF Len(members) > MaxMembers THEN Error("LimitExceeded")
     ELSE Ok(SetDecision(document, members, EvaluateSetLevel(document, members),
               [p \in chosen |-> EvaluatePair(document, members[p[1]], members[p[2]])]))

\* ComputeDecisionId: the content the digest is taken of.
DecisionId(decision) ==
  [generation |-> decision.document, arity |-> decision.arity,
   subjects |-> [i \in DOMAIN decision.subjects |-> Semantic(decision.subjects[i])],
   outcome |-> decision.outcome, reason |-> decision.reason, decider |-> decision.decider,
   matched |-> [i \in DOMAIN decision.evidence |-> RuleRef(decision.evidence[i].rule)],
   negotiation |-> decision.negotiation, truncated |-> decision.truncated]

SetDecisionId(decision) ==
  [generation |-> decision.document, outcome |-> decision.outcome,
   subjects |-> [i \in DOMAIN decision.members |-> Semantic(decision.members[i])],
   set_level |-> DecisionId(decision.set_level),
   pairs |-> [p \in DOMAIN decision.pairs |-> DecisionId(decision.pairs[p])]]
=============================================================================
