------------------------------ MODULE MCService ------------------------------
EXTENDS Service

V(major, minor, pre) == [major |-> major, minor |-> minor, patch |-> 0, pre |-> pre]
V10 == V(1, 0, Release)
V11 == V(1, 1, Release)
V12 == V(1, 2, Release)
V20 == V(2, 0, Release)
V20pre == V(2, 0, 0)

Is(v) == <<Exactly(v)>>
From(v) == <<[AnyInterval EXCEPT !.low = v]>>
Below(v) == <<[AnyInterval EXCEPT !.high = v, !.highIn = FALSE]>>

-----------------------------------------------------------------------------
\* Taxonomies.
E(id, of) == [id |-> id, of |-> of]
World == [families |-> <<E("net", "")>>, kinds |-> <<E("nic", "net"), E("switch", "net")>>,
          protocols |-> <<E("rdma", "")>>, schemas |-> <<E("conf", "")>>,
          hardware_classes |-> <<E("gen3", "")>>, features |-> <<E("boot", "")>>,
          capabilities |-> <<E("roce", "flag"), E("lanes", "integer")>>]
Retyped == [World EXCEPT !.capabilities = <<E("roce", "flag"), E("lanes", "text")>>,
                         !.features = <<E("boot", ""), E("attest", "")>>, !.schemas = <<>>]

-----------------------------------------------------------------------------
\* Components.
Flag(b) == [shape |-> "boolean", rank |-> b, version |-> Absent]
Integer(n) == [shape |-> "integer", rank |-> n, version |-> Absent]
Text(n) == [shape |-> "string", rank |-> n, version |-> Absent]
Has(id, json) == [id |-> id, json |-> json]
Speaks(id, versions) == [id |-> id, versions |-> versions]

Nic == [instance |-> "i", vendor |-> "v", family |-> "net", kind |-> "nic", version |-> V11,
        hardware |-> "gen3", closed |-> {"capabilities", "protocols", "schemas"},
        features |-> <<E("boot", "")>>, capabilities |-> <<Has("roce", Flag(1)), Has("lanes", Integer(1))>>,
        protocols |-> <<Speaks("rdma", <<V10, V11>>)>>, schemas |-> <<Speaks("conf", <<V10>>)>>]
OldNic == [Nic EXCEPT !.version = V10, !.capabilities = <<Has("roce", Flag(0))>>, !.schemas = <<>>]
OpenNic == [Nic EXCEPT !.version = V12, !.closed = {}, !.capabilities = <<>>, !.features = <<>>,
                       !.hardware = Absent, !.protocols = <<>>]
Switch == [Nic EXCEPT !.kind = "switch", !.version = V20, !.closed = {"protocols"},
                      !.capabilities = <<Has("lanes", Integer(1))>>, !.features = <<>>,
                      !.protocols = <<Speaks("rdma", <<V11, V20>>)>>]
Preview == [Switch EXCEPT !.version = V20pre, !.protocols = <<Speaks("rdma", <<V20, V10>>)>>,
                          !.closed = {"capabilities"}, !.schemas = <<>>]
Stranger == [Nic EXCEPT !.kind = "router"]
Misread == [Nic EXCEPT !.capabilities = <<Has("lanes", Flag(1))>>]
Crowded == [Nic EXCEPT !.features = <<E("boot", ""), E("boot", ""), E("boot", "")>>]

Components == {Nic, OldNic, OpenNic, Switch, Preview}
MCAsked ==
  ({<<a, b>> : a, b \in Components} \ {<<a, a>> : a \in {OldNic, Preview}})
    \cup {<<>>, <<Nic>>, <<Stranger, Nic>>, <<Misread, Nic>>, <<Nic, Crowded>>,
          <<Nic, Switch, OpenNic>>, <<OldNic, Nic, Preview>>, <<Nic, Nic, Nic, Nic>>}

-----------------------------------------------------------------------------
\* Rules.
Where(kind, version) == [AnyComponent EXCEPT !.kind = kind, !.version = version]
Base == [id |-> 1, revision |-> Absent, priority |-> Absent, origin |-> Absent, symmetry |-> Absent,
         arity |-> Absent, outcome |-> "compatible", left |-> Where("nic", Absent),
         right |-> Where("nic", Absent), constraints |-> <<>>, implications |-> <<>>,
         negotiation |-> Absent, on_unmet |-> Absent, on_indeterminate |-> Absent,
         state |-> Absent, superseded_by |-> Absent]

C(wants, of, side, id) ==
  [wants |-> wants, of |-> of, side |-> side, id |-> id, op |-> "ge", version |-> Absent,
   json |-> Absent, range |-> Absent]
Lanes(side, json) == [C("value", "capabilities", side, "lanes") EXCEPT !.json = json]
Bound(wants, side, v) == [C(wants, "version", side, Absent) EXCEPT !.version = v]
Speak(side, range) == [C("requires", "protocols", side, "rdma") EXCEPT !.range = range]

Sided == [Base EXCEPT !.right = Where("switch", Absent),
                      !.constraints = <<C("requires", "capabilities", "left", "roce")>>]
Mixed == [Base EXCEPT !.right = Where("switch", Absent)]
Shy == [Base EXCEPT !.constraints = <<C("forbids", "capabilities", "all", "lanes")>>,
                    !.on_unmet = "skip", !.on_indeterminate = "skip", !.priority = 1]

\* Each rule by itself.
Alone ==
  {Sided, Shy,
   [Base EXCEPT !.constraints = <<Lanes("all", Integer(1)), C("forbids", "features", "right", "boot")>>],
   [Base EXCEPT !.constraints = <<Lanes("all", Flag(1))>>],
   [Base EXCEPT !.constraints = <<C("requires", "features", "left", "boot"),
                                  C("forbids", "features", "left", "boot")>>],
   [Base EXCEPT !.constraints = <<Bound("at_least", "left", V20), Bound("at_most", "left", V10)>>],
   [Base EXCEPT !.constraints = <<Bound("at_least", "all", V11), C("requires", "hardware_classes", "right", "gen3")>>,
                !.on_unmet = "unknown"],
   [Base EXCEPT !.right = AnyComponent, !.constraints = <<Speak("right", From(V11))>>,
                !.negotiation = "lowest_common"],
   [Base EXCEPT !.left = AnyComponent, !.right = AnyComponent,
                !.constraints = <<C("requires", "schemas", "all", "conf")>>,
                !.negotiation = "exact_required"],
   [Base EXCEPT !.left = Where("router", <<>>), !.symmetry = "left_to_right"],
   [Base EXCEPT !.implications = <<[if_present |-> "roce", then_required |-> "lanes", side |-> "all"],
                                   [if_present |-> "lanes", then_required |-> "roce", side |-> "all"]>>],
   [Base EXCEPT !.state = "deprecated"],
   [Base EXCEPT !.state = "retired", !.superseded_by = 2],
   [Base EXCEPT !.arity = "set"],
   [Base EXCEPT !.arity = "set", !.right = Absent, !.constraints = <<C("requires", "capabilities", "right", "roce")>>]}

\* Two rules of one tier, of every symmetry.
Tied ==
  {<<[Mixed EXCEPT !.symmetry = s], [Mixed EXCEPT !.id = 2, !.symmetry = t, !.outcome = o,
                                     !.left = Mixed.right, !.right = Mixed.left]>> :
     s, t \in {"symmetric", "left_to_right", "right_to_left"}, o \in {"compatible", "incompatible"}}

\* A rule below another: ranges that touch, exact versions, rules that may skip.
Over(range) == [Base EXCEPT !.id = 2, !.priority = 1, !.left = Where("nic", range),
                            !.right = AnyComponent, !.outcome = "incompatible"]
Stacked ==
  {<<[Base EXCEPT !.left = Where("nic", low)], over>> :
     low \in {Is(V10), From(V11), Below(V20)},
     over \in {Over(Absent), Over(From(V11)), Over(Is(V20)),
               [Over(Absent) EXCEPT !.constraints = <<C("requires", "capabilities", "left", "roce")>>,
                                    !.on_indeterminate = "skip"]}}

\* A rule below another that has its identity.
Namesakes == <<Base, [Over(Absent) EXCEPT !.id = 1, !.revision = 2]>>

\* Three rules, of which two may skip.
Skipping == <<Shy, [Shy EXCEPT !.id = 2], [Base EXCEPT !.id = 3]>>

\* Set rules.
OfSet(id, kind, outcome) ==
  [Base EXCEPT !.id = id, !.arity = "set", !.left = Where(kind, Absent), !.right = Absent,
               !.outcome = outcome]
Sets == {<<OfSet(1, "nic", "compatible"), [Base EXCEPT !.id = 2], [Mixed EXCEPT !.id = 3]>>,
         <<OfSet(1, "nic", "compatible"), OfSet(2, "switch", "incompatible")>>,
         <<OfSet(1, "nic", "compatible"), OfSet(2, "nic", "incompatible")>>}

-----------------------------------------------------------------------------
\* Documents.
Doc(taxonomy, rules) ==
  [format_version |-> FormatVersion, generation |-> 9, epoch |-> 1, taxonomy |-> taxonomy,
   rules |-> rules]
Rulesets == {<<r>> : r \in Alone} \cup Tied \cup Stacked \cup Sets \cup {Skipping, Namesakes, <<>>}
Unreadable ==
  {[Doc(World, <<Base>>) EXCEPT !.format_version = FormatVersion + 1],
   Doc(World, <<Base, Base, Base, Base>>),
   Doc([World EXCEPT !.features = <<E("boot", ""), E("boot", "")>>], <<Base>>),
   Doc([World EXCEPT !.families = <<>>], <<Base, Base>>)}

\* A rule that changes, goes and comes back, over a changing taxonomy.
Even == {Doc(World, <<Base>>),
         Doc(World, <<[Base EXCEPT !.id = 2, !.constraints = <<Lanes("all", Integer(1))>>]>>)}
Odd == {Doc(World, <<[Base EXCEPT !.outcome = "incompatible"], OfSet(3, "switch", "incompatible")>>),
        Doc(Retyped, <<[Base EXCEPT !.id = 2, !.constraints = <<Lanes("all", Text(1))>>]>>)}

MCPlans == {<<{Doc(World, rules)}>> : rules \in Rulesets} \cup {<<Unreadable>>, <<Even, Odd, Even>>}
=============================================================================
