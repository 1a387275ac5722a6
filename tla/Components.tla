----------------------------- MODULE Components -----------------------------
(***************************************************************************)
(* The declared world of the registry (src/src/taxonomy.cpp) and the        *)
(* components queries are about (src/src/component.cpp).                    *)
(*                                                                         *)
(* What is read from JSON is a record whose fields have the right shape;    *)
(* the model keeps the order of its entries and every reason, other than a  *)
(* wrong shape, for which the code refuses it.  Identifiers are members of  *)
(* small sets, descriptions are left out, and the value of a capability is  *)
(* its place in the order the comparisons use.                             *)
(***************************************************************************)
EXTENDS Ranges, FiniteSets, Integers

CONSTANTS Absent,          \* a field that is not there
          MaxDeclared,     \* TaxonomyLimits: entries of a section
          MaxEntries,      \* ComponentSpecLimits: entries of a list
          MaxVersions,     \* kMaxCapabilityVersionsPerId
          MaxNegotiated    \* kMaxNegotiatedSubjects

ASSUME LimitsAssumption ==
  /\ MaxDeclared \in Nat /\ MaxEntries \in Nat /\ MaxVersions \in Nat
  /\ MaxNegotiated \in Nat

\* Result<T>: a value or an error.
Ok(v) == [error |-> "none", value |-> v]
Error(code) == [error |-> code, value |-> Absent]
Failed(result) == result.error # "none"

\* Of errors in the order the code meets them.
FirstError(codes) ==
  LET errors == {i \in DOMAIN codes : codes[i] # "none"}
  IN IF errors = {} THEN "none" ELSE codes[Min(errors)]

When(condition, code) == IF condition THEN code ELSE "none"

\* What is made of a value that is there; an error is handed on.
Then(result, Use(_)) == IF Failed(result) THEN result ELSE Use(result.value)

\* Every value, or the first error.
All(results) ==
  LET error == FirstError([i \in DOMAIN results |-> results[i].error])
  IN IF error # "none" THEN Error(error) ELSE Ok([i \in DOMAIN results |-> results[i].value])

\* map with one more entry, or with another value for one it has.
Put(map, key, v) == [k \in DOMAIN map \cup {key} |-> IF k = key THEN v ELSE map[k]]

\* A map read from a list of entries; a later entry replaces an earlier one.
AsMap(entries, Value(_)) ==
  [id \in {entries[i].id : i \in DOMAIN entries} |->
     Value(entries[CHOOSE i \in DOMAIN entries :
                     entries[i].id = id /\ \A k \in i + 1..Len(entries) : entries[k].id # id])]

-----------------------------------------------------------------------------
(* The taxonomy: for each section what is declared, with the family of a    *)
(* kind and the type of a capability.                                      *)

Sections == <<"families", "kinds", "protocols", "schemas", "hardware_classes",
              "features", "capabilities">>

SectionError(entries) ==
  IF Len(entries) > MaxDeclared THEN "LimitExceeded"
  ELSE When(Cardinality({e.id : e \in ToSet(entries)}) < Len(entries), "DuplicateIdentity")

ParseTaxonomy(written) ==
  LET error == FirstError([i \in DOMAIN Sections |-> SectionError(written[Sections[i]])])
  IN IF error # "none" THEN Error(error)
     ELSE Ok([s \in ToSet(Sections) |-> AsMap(written[s], LAMBDA e : e.of)])

Declares(taxonomy, section, id) == id \in DOMAIN taxonomy[section]

-----------------------------------------------------------------------------
(* Values.  A JSON scalar has a shape, a rank, and the rank it has as a     *)
(* version if its text is one.                                             *)

ShapeOf == [flag |-> "boolean", integer |-> "integer", text |-> "string", version |-> "string"]

\* CapabilityValue::FromJson.
ReadValue(type, json) ==
  IF json.shape # ShapeOf[type] THEN Error("InvalidCapabilityValue")
  ELSE IF type # "version" THEN Ok([type |-> type, rank |-> json.rank])
  ELSE IF json.version = Absent THEN Error("InvalidVersion")
  ELSE Ok([type |-> "version", rank |-> json.version])

\* ConstraintLiteral::FromJson: a text that can be read as a version is one.
ReadLiteral(json) ==
  IF json.shape = "boolean" THEN [type |-> "flag", rank |-> json.rank]
  ELSE IF json.shape = "integer" THEN [type |-> "integer", rank |-> json.rank]
  ELSE IF json.version # Absent THEN [type |-> "version", rank |-> json.version]
  ELSE [type |-> "text", rank |-> json.rank]

ComparisonOpSupported(type, op) == type = "flag" => op \in {"eq", "ne"}

ApplyComparison(op, a, b) ==
  /\ a.type = b.type
  /\ ComparisonOpSupported(a.type, op)
  /\ CASE op = "eq" -> a.rank = b.rank
       [] op = "ne" -> a.rank # b.rank
       [] op = "lt" -> a.rank < b.rank
       [] op = "le" -> a.rank <= b.rank
       [] op = "gt" -> a.rank > b.rank
       [] op = "ge" -> a.rank >= b.rank

-----------------------------------------------------------------------------
(* Components.                                                             *)

\* The error of one list of a specification: its length first, then the first
\* entry that is not declared or cannot be read.
ListError(entries, declared, EntryError(_)) ==
  IF Len(entries) > MaxEntries THEN "LimitExceeded"
  ELSE FirstError([i \in DOMAIN entries |->
         IF entries[i].id \notin declared THEN "UndefinedReference" ELSE EntryError(entries[i])])

VersionsError(entry) ==
  IF entry.versions = <<>> THEN "InvalidDocument"
  ELSE When(Len(entry.versions) > MaxVersions, "LimitExceeded")

\* Families, kinds and the hardware class of a component need not be declared.
ParseComponentSpec(written, taxonomy) ==
  LET Declared(section) == DOMAIN taxonomy[section]
      Value(e) == ReadValue(taxonomy["capabilities"][e.id], e.json)
      error == FirstError(<<
        ListError(written.features, Declared("features"), LAMBDA e : "none"),
        ListError(written.capabilities, Declared("capabilities"), LAMBDA e : Value(e).error),
        ListError(written.protocols, Declared("protocols"), VersionsError),
        ListError(written.schemas, Declared("schemas"), VersionsError)>>)
  IN IF error # "none" THEN Error(error)
     ELSE Ok([written EXCEPT
       !.features = {e.id : e \in ToSet(@)},
       !.capabilities = AsMap(@, LAMBDA e : Value(e).value),
       !.protocols = AsMap(@, LAMBDA e : ToSet(e.versions)),
       !.schemas = AsMap(@, LAMBDA e : ToSet(e.versions))])

\* SemanticSpecJson: who a component is, apart from what it is.
Semantic(spec) == [spec EXCEPT !.instance = Absent, !.vendor = Absent]

-----------------------------------------------------------------------------
(* What can be written of versions and components.  ParseRange gives none   *)
(* but these ranges (ParseIsCanonical in VersionsProofs).                   *)

Optional(S) == S \cup {Absent}
ParsedRanges == {range \in Seq(ProperIntervals) : Canonical(range)}

Shapes == {"boolean", "integer", "string"}
WrittenValues == [shape : Shapes, rank : Int, version : Optional(Int)]
WrittenVersions == Seq([id : STRING, versions : Seq(Versions)])
WrittenComponents ==
  [instance : Optional(STRING), vendor : Optional(STRING), family : STRING, kind : STRING,
   version : Versions, hardware : Optional(STRING),
   closed : SUBSET {"capabilities", "protocols", "schemas"},
   features : Seq([id : STRING, of : STRING]),
   capabilities : Seq([id : STRING, json : WrittenValues]),
   protocols : WrittenVersions, schemas : WrittenVersions]

-----------------------------------------------------------------------------
(* Selectors.  A field that is Absent selects everything.                  *)

NamedFields == {"family", "kind", "hardware"}
WrittenSelectors ==
  [family : Optional(STRING), kind : Optional(STRING), hardware : Optional(STRING),
   version : Optional(ParsedRanges)]
AnyComponent == [family |-> Absent, kind |-> Absent, hardware |-> Absent, version |-> Absent]

SelectorMatches(selector, spec) ==
  /\ \A f \in NamedFields : selector[f] \in {Absent, spec[f]}
  /\ selector.version = Absent \/ RangeAdmits(selector.version, spec.version)

\* The fields other than the version: no component of inner is outside outer.
NamesSubsume(outer, inner) == \A f \in NamedFields : outer[f] \in {Absent, inner[f]}

SelectorsOverlap(a, b) ==
  /\ \A f \in NamedFields : a[f] = Absent \/ b[f] = Absent \/ a[f] = b[f]
  /\ a.version = Absent \/ b.version = Absent \/ RangesOverlap(a.version, b.version)
=============================================================================
