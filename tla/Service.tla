------------------------------- MODULE Service -------------------------------
(***************************************************************************)
(* The requests of the service (src/src/protocol.cpp) and what the          *)
(* authority does for each of them (src/src/authority.cpp), from the        *)
(* document a publisher submits to the decision a client reads.             *)
(*                                                                         *)
(* Requests are answered one at a time here; how publications race and fail *)
(* half-way is in Authority.tla and Store.tla.  The answer to one request   *)
(* is delivered before the next one is made.                               *)
(***************************************************************************)
EXTENDS Validation, Replay

CONSTANTS Plans,         \* sequences of sets: the documents submitted at each head
          Asked,         \* the pairs and sets of components queries are about
          MaxIdentity,   \* largest PublisherEpoch and Incarnation
          AllowPublish, AllowPrune  \* of RequestContext

ASSUME RequestsAssumption ==
  /\ MaxIdentity \in Nat \ {0}
  /\ Plans \subseteq Seq(SUBSET WrittenDocuments)
  /\ Asked \subseteq Seq(WrittenComponents)

VARIABLES plan,      \* the documents publishers have, by the head they are based on
          stored,    \* disk: the published documents by number
          history,   \* memory: the numbers of history_
          head,      \* memory and disk: the number of the current generation, or 0
          identity,  \* memory and disk: epoch and incarnation, which advance together
          answer     \* the response on its way to the client

registry == <<plan, stored, history, head, identity>>
vars == <<registry, answer>>

NoAnswer == [op |-> "none", of |-> Absent, result |-> Ok(Absent)]

Init == /\ plan \in Plans
        /\ stored = <<>>
        /\ history = {}
        /\ head = 0
        /\ identity = 1
        /\ answer = NoAnswer

Respond(op, of, result) ==
  /\ answer = NoAnswer
  /\ answer' = [op |-> op, of |-> of, result |-> result]

\* A request that changes nothing.
Reply(op, of, result) == Respond(op, of, result) /\ UNCHANGED registry

Deliver == answer # NoAnswer /\ answer' = NoAnswer /\ UNCHANGED registry

Submitted == IF head < Len(plan) THEN plan[head + 1] ELSE {}
Numbers == 0..Len(plan)
Selectors == Numbers \cup {Absent}

-----------------------------------------------------------------------------
(* Which generation a request is about.                                    *)

Snapshot == IF head = 0 THEN Error("NotFound") ELSE Ok(stored[head])

\* In memory or on disk, and gone when it was pruned.
SnapshotAt(n) == IF n \in DOMAIN stored THEN Ok(stored[n]) ELSE Error("NotFound")

SelectGeneration(n) == IF n = Absent THEN Snapshot ELSE SnapshotAt(n)

\* CheckStamp: stamp is what a client believes the service to be.
CheckStamp(stamp) ==
  IF stamp.incarnation # identity THEN "StaleIncarnation"
  ELSE When(head # 0 /\ stamp.generation # head, "StaleGeneration")

\* ExecuteRequest refuses any operation whose stamp is stale.
RefuseStamp(stamp) ==
  /\ CheckStamp(stamp) # "none"
  /\ Reply("any", stamp, Error(CheckStamp(stamp)))

-----------------------------------------------------------------------------
(* Documents.                                                              *)

\* A dry run leaves the epoch the publisher wrote in place.
SimulatePublish(document) ==
  LET candidate == [document EXCEPT !.generation = head + 1]
  IN IF Publishable(Validate(candidate)) THEN Ok(candidate) ELSE Error("ValidationFailed")

Assessed(document, report) ==
  [document |-> document, report |-> report,
   would_publish_as |-> IF Publishable(report) THEN SimulatePublish(document).value ELSE Absent]

HandleValidate(written) ==
  Reply("validate", written,
    Then(ParseRegistryDocument(written), LAMBDA document : Ok(Assessed(document, Validate(document)))))

\* RegistryAuthority::Publish, up to its commit.
Prepared(document, expected) ==
  LET candidate == [document EXCEPT !.generation = head + 1, !.epoch = identity]
  IN IF expected # head THEN Error("StaleGeneration")
     ELSE IF Publishable(Validate(candidate)) THEN Ok(candidate) ELSE Error("ValidationFailed")

PublishResult(written, expected, dry_run) ==
  IF ~AllowPublish THEN Error("ImmutableGeneration")
  ELSE Then(ParseRegistryDocument(written), LAMBDA document :
         IF expected = Absent THEN Error("InvalidArgument")
         ELSE IF dry_run THEN SimulatePublish(document)
         ELSE Prepared(document, expected))

Commit(written, result) ==
  /\ Respond("publish", written, result)
  /\ IF Failed(result) THEN UNCHANGED registry
     ELSE /\ stored' = Put(stored, head + 1, result.value)
          /\ history' = history \cup {head + 1}
          /\ head' = head + 1
          /\ UNCHANGED <<plan, identity>>

HandlePublish(written, expected) == Commit(written, PublishResult(written, expected, FALSE))

HandleDryRun(written, expected) ==
  Reply("dry_run", written, PublishResult(written, expected, TRUE))

-----------------------------------------------------------------------------
(* Queries.  The components are read with the taxonomy of the generation    *)
(* that is asked.                                                          *)

ReadMembers(members, document) ==
  All([i \in DOMAIN members |-> ParseComponentSpec(members[i], document.taxonomy)])

HandleQueryPair(n, pair) ==
  Reply("query_pair", <<n, pair>>,
    Then(SelectGeneration(n), LAMBDA document :
      Then(ReadMembers(pair, document), LAMBDA specs :
        Ok(EvaluatePair(document, specs[1], specs[2])))))

HandleQuerySet(n, members) ==
  Reply("query_set", <<n, members>>,
    Then(SelectGeneration(n), LAMBDA document :
      IF members = <<>> THEN Error("InvalidArgument")
      ELSE Then(ReadMembers(members, document), LAMBDA specs : EvaluateSet(document, specs))))

-----------------------------------------------------------------------------
(* History.                                                                *)

HandleDiff(from, to) ==
  Reply("diff", <<from, to>>,
    Then(SnapshotAt(from), LAMBDA before :
      Then(SnapshotAt(to), LAMBDA after : Ok(DiffGenerations(before, after)))))

\* The components are read with the taxonomy of the later generation only.
HandleReplay(from, to, queries) ==
  Reply("replay_diff", <<from, to, queries>>,
    Then(SnapshotAt(to), LAMBDA after :
      Then(All([i \in DOMAIN queries |-> ReadMembers(queries[i], after)]), LAMBDA read :
        Then(SnapshotAt(from), LAMBDA before : ReplayDiff(before, after, read)))))

\* Of the generations in memory only.
HandleProvenance(rule) ==
  Reply("provenance", rule,
    Ok(LET numbers == InOrder(history, <)
       IN ProvenanceHistory(rule, [i \in DOMAIN numbers |-> stored[numbers[i]]])))

HandleGenerations == Reply("generations", Absent, Ok(history \cup DOMAIN stored))

Counts(document) ==
  [rule_count |-> Len(document.rules),
   active_rule_count |-> Cardinality({i \in DOMAIN document.rules : IsActive(document.rules[i])}),
   capability_count |-> Cardinality(DOMAIN document.taxonomy["capabilities"]),
   kind_count |-> Cardinality(DOMAIN document.taxonomy["kinds"])]

HandleStatus ==
  Reply("status", Absent,
    Ok([generation |-> head, identity |-> identity, retained_generations |-> Cardinality(history),
        counts |-> IF head = 0 THEN Absent ELSE Counts(stored[head])]))

\* Variants named after a mistake stand before the definition they distort;
\* nothing in the model uses them.
ExpendableEvenHead(keep) == {n \in DOMAIN stored : Cardinality({k \in DOMAIN stored : n <= k}) > keep}

\* The oldest, but never the head.
Expendable(keep) ==
  {n \in DOMAIN stored : n < head /\ Cardinality({k \in DOMAIN stored : n <= k}) > keep}

\* RegistryAuthority::Prune: what goes from disk goes from memory too.
HandlePrune(keep) ==
  LET removed == Expendable(keep)
      result == IF AllowPrune THEN Ok(removed) ELSE Error("ImmutableGeneration")
  IN /\ Respond("prune", keep, result)
     /\ IF Failed(result) THEN UNCHANGED registry
        ELSE /\ stored' = [n \in DOMAIN stored \ removed |-> stored[n]]
             /\ history' = history \ removed
             /\ UNCHANGED <<plan, head, identity>>

\* The process ends and is opened again: of the history only the head is kept
\* in memory.
Restart ==
  /\ answer = NoAnswer /\ identity < MaxIdentity
  /\ identity' = identity + 1
  /\ history' = {head} \ {0}
  /\ UNCHANGED <<plan, stored, head, answer>>

-----------------------------------------------------------------------------
Publication ==
  \E written \in Submitted :
    \/ HandleValidate(written)
    \/ \E expected \in Selectors : HandlePublish(written, expected) \/ HandleDryRun(written, expected)

Pairs == {members \in Asked : Len(members) = 2}

Query ==
  \E n \in Selectors :
    \/ \E pair \in Pairs : HandleQueryPair(n, pair)
    \/ \E members \in Asked : HandleQuerySet(n, members)

History ==
  \/ \E from, to \in Numbers :
       \/ HandleDiff(from, to)
       \/ \E members \in Asked : HandleReplay(from, to, <<members>>)
  \/ \E rule \in UNION {RuleIds(stored[n]) : n \in DOMAIN stored} : HandleProvenance(rule)
  \/ HandleGenerations

Operation ==
  \/ HandleStatus
  \/ \E keep \in Numbers : HandlePrune(keep)
  \/ \E incarnation \in 1..MaxIdentity, n \in Numbers :
       RefuseStamp([incarnation |-> incarnation, generation |-> n])

Next == Publication \/ Query \/ History \/ Operation \/ Deliver \/ Restart

Spec == Init /\ [][Next]_vars
-----------------------------------------------------------------------------
(* Properties.                                                             *)

TypeOK ==
  /\ plan \in Plans
  /\ head \in Numbers /\ DOMAIN stored \subseteq 1..head
  /\ \A n \in DOMAIN stored : stored[n].generation = n
  /\ head # 0 => head \in history
  /\ history \subseteq DOMAIN stored
  /\ identity \in 1..MaxIdentity
  /\ answer.op \in {"none", "any", "validate", "publish", "dry_run", "query_pair", "query_set", "diff",
                    "replay_diff", "provenance", "generations", "status", "prune"}

Answered(op) == answer.op = op /\ ~Failed(answer.result)
Value == answer.result.value
Entries(decision) == ToSet(decision.evidence)

\* The satisfied rules of a decision, two by two, that precedence does not order.
Rivals(decision) ==
  LET satisfied == {x \in Entries(decision) : x.status = "satisfied"}
  IN {r \in satisfied \X satisfied : Tier(r[1].rule) = Tier(r[2].rule)}

\* Rules of one tier that are satisfied by the same components say the same of
\* them: what was published needs no tie-break (README "Precedence and conflict
\* resolution"; ConflictDiagnostics, MatchPairRules).  Of a set, two rules are about
\* the same components when both select some member.
TiersAgree ==
  /\ Answered("query_pair") => \A r \in Rivals(Value) : r[1].resolved = r[2].resolved
  /\ Answered("query_set") =>
       /\ \A p \in DOMAIN Value.pairs : \A r \in Rivals(Value.pairs[p]) : r[1].resolved = r[2].resolved
       /\ \A r \in Rivals(Value.set_level) :
            SetSides(r[1].rule, Value.members).left \cap SetSides(r[2].rule, Value.members).left # {}
              => r[1].resolved = r[2].resolved

\* What may become known of a component: that a section is complete, or one more
\* entry of a section that is not.
Learns(spec, taxonomy) ==
  LET Adding(section, values(_)) ==
        IF section \in spec.closed THEN {}
        ELSE UNION {{[spec EXCEPT ![section] = Put(@, id, v)] : v \in values(id)} :
                      id \in DOMAIN taxonomy[section] \ DOMAIN spec[section]}
  IN {[spec EXCEPT !.closed = @ \cup {section}] : section \in {"capabilities", "protocols", "schemas"}}
       \cup Adding("capabilities", LAMBDA id : [type : {taxonomy["capabilities"][id]}, rank : 0..2])
       \cup Adding("protocols", LAMBDA id : {{v} : v \in {s.version : s \in ToSet(Value.subjects)}})
       \cup Adding("schemas", LAMBDA id : {{v} : v \in {s.version : s \in ToSet(Value.subjects)}})
       \cup (IF "capabilities" \in spec.closed THEN {}
             ELSE {[spec EXCEPT !.features = @ \cup {id}] : id \in DOMAIN taxonomy["features"]})

\* The rules that were weighed until one decided, when none was left out.
Considered(decision) ==
  LET evidence == decision.evidence
  IN {evidence[i] : i \in {k \in DOMAIN evidence : \A j \in 1..k - 1 : ~evidence[j].decided}}

\* A decision that rests on no indeterminate constraint is final: nothing that
\* becomes known of either component later gives another one (EvaluateConstraint,
\* ApplyRule, Weigh).
DecidedIsFinal ==
  Answered("query_pair") /\ ~Value.truncated =>
    LET taxonomy == Value.document.taxonomy
    IN (\A e \in Considered(Value) : \A c \in DOMAIN e.verdicts : e.verdicts[c] # "indeterminate")
         => \A left \in Learns(Value.subjects[1], taxonomy), right \in Learns(Value.subjects[2], taxonomy) :
              LET later == EvaluatePair(Value.document, left, right)
              IN later.outcome = Value.outcome /\ later.decider = Value.decider

\* However many rules matched, the evidence has the one that decided, everything
\* before it declined, and it says when rules are missing (Weigh).
ShowsDecider(decision) ==
  LET evidence == decision.evidence
      deciding == {i \in DOMAIN evidence : evidence[i].decided}
  IN /\ Cardinality(deciding) = (IF decision.decider = Absent THEN 0 ELSE 1)
     /\ \A i \in deciding : /\ RuleRef(evidence[i].rule) = decision.decider
                            /\ evidence[i].resolved = decision.outcome
                            /\ \A j \in 1..i - 1 : evidence[j].status = "skipped"
     /\ decision.truncated <=> decision.total > Len(evidence)

\* So does the decision about a pair, and of a set the one about the set and
\* those about its pairs (EvaluatePair, EvaluateSet).
DeciderIsInEvidence ==
  /\ Answered("query_pair") => ShowsDecider(Value)
  /\ Answered("query_set") =>
       ShowsDecider(Value.set_level) /\ \A p \in DOMAIN Value.pairs : ShowsDecider(Value.pairs[p])

\* A version is agreed on exactly when every member declares one in common, and is
\* then the policy's choice of all of them; a member that is said not to support
\* something is complete and does not declare it (NegotiateOne, SelectNegotiated).
CommonGround(members, negotiation) ==
  \A section \in {"protocols", "schemas"} : \A id \in DOMAIN negotiation.on[section] :
    LET result == negotiation.on[section][id]
        shared == {v \in UNION {Lists(m, section, id) : m \in ToSet(members)} :
                     \A m \in ToSet(members) : v \in Lists(m, section, id)}
    IN /\ result.status = "agreed" <=>
            shared # {} /\ (negotiation.policy = "exact_required" => Cardinality(shared) = 1)
       /\ result.status = "agreed" =>
            /\ result.selected \in shared
            /\ \A v \in shared : v = result.selected
                 \/ (IF negotiation.policy = "lowest_common" THEN Before(result.selected, v)
                     ELSE Before(v, result.selected))
       /\ result.status = "not_supported" =>
            \E m \in ToSet(members) : /\ m.kind = result.owner
                                      /\ section \in m.closed /\ id \notin DOMAIN m[section]

NegotiationIsCommonGround ==
  /\ Answered("query_pair") => CommonGround(Value.subjects, Value.negotiation)
  /\ Answered("query_set") => CommonGround(Value.members, Value.set_level.negotiation)

\* The components of the pairs that are asked about, where the document knows them.
Known(document) ==
  {specs \in {ReadMembers(pair, document) : pair \in Pairs} : ~Failed(specs)}

Decides(ref, document, specs) ==
  LET decider == EvaluatePair(document, specs.value[1], specs.value[2]).decider
  IN decider # Absent /\ decider = ref

\* A version between two bounds of the rules.
BetweenBounds(spec, document) ==
  /\ ~HasPrerelease(spec.version)
  /\ \A rule \in ToSet(document.rules) :
       spec.version \notin BoundsOf(rule.left.version) \cup BoundsOf(rule.right.version)

SaidUnreachable(report) == {d.about[2] : d \in {x \in report : x.code = "UnreachableRule"}}

\* No two rules of the document share an identity: they might share the revision
\* as well, and a diagnostic that names one of them would name both.
NamesOneRule(report) == \A d \in report : d.code # "DuplicateRuleIdentity"

\* A rule that is reported as unreachable decides nothing about components whose
\* versions are between the bounds in use, whatever the other rules make of their
\* constraints (ReachabilityDiagnostics, VersionPlaneCovered).
ShadowedRulesNeverDecide ==
  Answered("validate") /\ NamesOneRule(Value.report) =>
    \A ref \in SaidUnreachable(Value.report) : \A specs \in Known(Value.document) :
      (\A i \in 1..2 : BetweenBounds(specs.value[i], Value.document))
        => ~Decides(ref, Value.document, specs)

\* README: "The detector never reports a false unreachable rule."
UnreachableIsNeverFalse ==
  Answered("validate") /\ NamesOneRule(Value.report) =>
    \A ref \in SaidUnreachable(Value.report) : \A specs \in Known(Value.document) :
      ~Decides(ref, Value.document, specs)

\* No pair rule tells which component is named first.
TellsNoSides(document) ==
  \A rule \in ToSet(document.rules) :
    rule.arity = "pair" => rule.symmetry = "symmetric" /\ \A c \in Constraints(rule) : c.side = "all"

Reordered(members) ==
  {[i \in DOMAIN members |-> members[f[i]]] : f \in Bijection(DOMAIN members, DOMAIN members)}

\* Where every pair rule is symmetric and its constraints are about both sides, it
\* does not matter in which order the components are named, two or more of them
\* (RuleMatches, EvaluatePair, EvaluateSet).
SubjectsMaySwap ==
  /\ Answered("query_pair") /\ TellsNoSides(Value.document) =>
       LET swapped == EvaluatePair(Value.document, Value.subjects[2], Value.subjects[1])
       IN swapped.outcome = Value.outcome /\ swapped.decider = Value.decider
  /\ Answered("query_set") /\ TellsNoSides(Value.document) =>
       \A members \in Reordered(Value.members) :
         LET again == EvaluateSet(Value.document, members).value
         IN again.outcome = Value.outcome /\ again.set_level.decider = Value.set_level.decider

\* rule.hpp: "Left / Right : the corresponding side of a pair rule."
ConstraintsFollowTheirSide ==
  Answered("query_pair") =>
    \A e \in {x \in Entries(Value) : x.mirrored} : \A c \in DOMAIN e.verdicts :
      e.verdicts[c] = ConstraintVerdict(c, PairSides(Value.subjects[2], Value.subjects[1])[c.side],
                                        Value.document.taxonomy)

\* The history of a rule tells its content in every generation in memory, also
\* after it was removed and came back unchanged (ProvenanceHistory).
ProvenanceReconstructs ==
  Answered("provenance") =>
    \A n \in history :
      LET past == {i \in DOMAIN Value : Value[i].generation <= n}
          last == Value[Max(past)]
          told == IF past = {} \/ ~last.present THEN Absent ELSE last.content
      IN told = IF answer.of \in RuleIds(stored[n]) THEN RuleOf(stored[n], answer.of) ELSE Absent

\* The rules that decide something about a set: about all of it, or about two members.
DecidersOfParts(document, members) ==
  LET set == EvaluateSet(document, members).value
  IN {set.set_level.decider} \cup {set.pairs[p].decider : p \in DOMAIN set.pairs}

\* An outcome that a replay finds changed is explained by the difference of the
\* two generations: of the taxonomy, or of a rule that decided before or after,
\* about the two components or about a part of the set (ReplayDiff, DiffGenerations).
ChangesAreInTheDiff ==
  Answered("replay_diff") =>
    LET before == stored[answer.of[1]]
        after == stored[answer.of[2]]
        diff == DiffGenerations(before, after)
        touched == {r.rule[1] : r \in {x \in diff.rules : x.kind # "unchanged"}}
        Deciders(change) ==
          IF Len(change.subjects) = 2 THEN {change.before.decider, change.after.decider}
          ELSE DecidersOfParts(before, change.subjects) \cup DecidersOfParts(after, change.subjects)
    IN diff.taxonomy # {} \/
       \A change \in Value.changes :
         change.before.outcome # change.after.outcome =>
           {r[1] : r \in Deciders(change) \ {Absent}} \cap touched # {}
=============================================================================
