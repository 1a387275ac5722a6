-------------------------------- MODULE Replay --------------------------------
(***************************************************************************)
(* What changed between generations (src/src/decision_io.cpp): their rules  *)
(* and taxonomies, the decisions about given components, and the history of *)
(* one rule.                                                               *)
(***************************************************************************)
EXTENDS Decisions

\* Variants named after a mistake stand before the definition they distort;
\* nothing in the model uses them.

-----------------------------------------------------------------------------
(* DiffGenerations.                                                        *)

RuleIds(document) == {rule.id : rule \in ToSet(document.rules)}
RuleOf(document, id) ==
  LET rules == document.rules
  IN rules[Min({i \in DOMAIN rules : rules[i].id = id})]

\* ConstraintSortKey: an integer and a text that is spelled like it are the
\* same here, although their types differ.
SortKey(c) ==
  IF c.literal # Absent /\ c.literal.type \in {"integer", "text"}
  THEN [c EXCEPT !.literal = [type |-> "text", rank |-> @.rank]] ELSE c

\* ConstraintListsEqual.
SortKeys(constraints) ==
  [key \in {SortKey(c) : c \in DOMAIN constraints} |->
     MapThenSumSet(LAMBDA c : constraints[c], {c \in DOMAIN constraints : SortKey(c) = key})]

ComparedAsTheyAre ==
  {"revision", "priority", "origin", "symmetry", "arity", "outcome", "left", "right",
   "implications", "negotiation", "on_unmet", "on_indeterminate", "state", "superseded_by"}

ChangedFields(a, b) ==
  {f \in ComparedAsTheyAre : a[f] # b[f]}
    \cup (IF SortKeys(a.constraints) # SortKeys(b.constraints) THEN {"constraints"} ELSE {})

SameRevision(a, b) == a.revision = b.revision

\* The digests of two rules are equal.
SameContent(a, b) == a = b

DiffRule(id, before, after) ==
  CASE id \notin RuleIds(before) ->
         [rule |-> RuleRef(RuleOf(after, id)), kind |-> "added", changed |-> {}]
    [] id \notin RuleIds(after) ->
         [rule |-> RuleRef(RuleOf(before, id)), kind |-> "removed", changed |-> {}]
    [] id \in RuleIds(before) \cap RuleIds(after) ->
         LET a == RuleOf(before, id)
             b == RuleOf(after, id)
         IN [rule |-> RuleRef(b), kind |-> IF SameContent(a, b) THEN "unchanged" ELSE "modified",
             changed |-> ChangedFields(a, b)]

DiffSection(section, a, b) ==
  {<<section, "removed", id>> : id \in DOMAIN a \ DOMAIN b}
    \cup {<<section, "added", id>> : id \in DOMAIN b \ DOMAIN a}
    \cup {<<section, "changed", id>> : id \in {x \in DOMAIN a \cap DOMAIN b : a[x] # b[x]}}

DiffGenerations(before, after) ==
  [rules |-> {DiffRule(id, before, after) : id \in RuleIds(before) \cup RuleIds(after)},
   taxonomy |-> UNION {DiffSection(s, before.taxonomy[s], after.taxonomy[s]) : s \in ToSet(Sections)}]

-----------------------------------------------------------------------------
(* ReplayDiff: each query, two components or a set, is evaluated on both    *)
(* generations.                                                            *)

\* What a generation says of a query: the outcome, the identity of the decision
\* and, of a pair, the rule that decided.
PairSays(decision) ==
  [outcome |-> decision.outcome, id |-> DecisionId(decision), decider |-> decision.decider]

SetSays(decision) ==
  [outcome |-> decision.outcome, id |-> SetDecisionId(decision), decider |-> Absent]

Says(document, query) ==
  IF Len(query) < 2 THEN Error("InvalidArgument")
  ELSE IF Len(query) = 2 THEN Ok(PairSays(EvaluatePair(document, query[1], query[2])))
  ELSE Then(EvaluateSet(document, query), LAMBDA decision : Ok(SetSays(decision)))

Changes(queries, was, is) ==
  {[subjects |-> queries[i], before |-> was[i], after |-> is[i]] :
     i \in {k \in DOMAIN queries : was[k].outcome # is[k].outcome \/ was[k].id # is[k].id}}

ReplayDiff(before, after, queries) ==
  Then(All([i \in DOMAIN queries |-> Says(before, queries[i])]), LAMBDA was :
    Then(All([i \in DOMAIN queries |-> Says(after, queries[i])]), LAMBDA is :
      Ok([compared |-> Len(queries), changes |-> Changes(queries, was, is)])))

-----------------------------------------------------------------------------
(* ProvenanceHistory: what became of one rule over generations in           *)
(* ascending order.                                                        *)

Record(document, ref, content, present) ==
  [generation |-> document.generation, rule |-> ref, content |-> content, present |-> present]

FollowRememberingRemoved(rule, seen, document) ==
  LET found == rule \in RuleIds(document)
      content == RuleOf(document, rule)
  IN IF found /\ content # seen.latest
     THEN [latest |-> content,
           records |-> Append(seen.records, Record(document, RuleRef(content), content, TRUE))]
     ELSE IF ~found /\ seen.latest # Absent
     THEN [seen EXCEPT !.records = Append(@, Record(document, <<rule, 0>>, seen.latest, FALSE))]
     ELSE seen

\* latest is the content the rule was last seen with.
Follow(rule, seen, document) ==
  LET found == rule \in RuleIds(document)
      content == RuleOf(document, rule)
  IN IF found /\ content # seen.latest
     THEN [latest |-> content,
           records |-> Append(seen.records, Record(document, RuleRef(content), content, TRUE))]
     ELSE IF ~found /\ seen.latest # Absent
     THEN [latest |-> Absent,
           records |-> Append(seen.records, Record(document, <<rule, 0>>, seen.latest, FALSE))]
     ELSE seen

ProvenanceHistory(rule, generations) ==
  FoldLeft(LAMBDA seen, document : Follow(rule, seen, document),
           [latest |-> Absent, records |-> <<>>], generations).records
=============================================================================
