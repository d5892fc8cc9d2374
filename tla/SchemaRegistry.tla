---------------------------- MODULE SchemaRegistry ----------------------------
(***************************************************************************)
(* The registry of src/schema/registry.rs: schemas by event type and        *)
(* version, registered in any order and any number of times, each compared  *)
(* with the schema of the next lower version that is there; and payloads    *)
(* validated against the schema of one version.                             *)
(*                                                                          *)
(* A schema is the four keywords the code reads; a JSON value is its kind,  *)
(* and an object the kinds of its fields.  register takes &mut self, so a   *)
(* call is one step; validate and latest_schema_for only read.              *)
(***************************************************************************)
EXTENDS Integers

CONSTANTS
    EventTypes,
    Versions,       \* the versions that callers use, 0 included
    Fields,         \* names of properties and of payload fields
    Annotations,    \* what a property says besides its type
    Schemas,        \* the values that callers register
    MaxCalls        \* bound: calls of register

Kinds == {"array", "boolean", "integer", "float", "null", "object", "string"}

\* The names validate_type knows, one it does not, and a schema without one.
TypeNames == (Kinds \ {"float"}) \cup {"number", "unsupported", "untyped"}

PartialFunctions(S, T) == UNION {[D -> T] : D \in SUBSET S}

Property == [type : TypeNames, rest : Annotations]

\* additional: FALSE only if additionalProperties is false.
Schema ==
    [type : TypeNames, properties : PartialFunctions(Fields, Property),
     required : SUBSET Fields, additional : BOOLEAN]

\* JSON that validate_schema_shape refuses.
Misshapen == [type |-> "misshapen"]

Unregistered == [type |-> "unregistered"]

\* Only an object has fields.
Payload ==
    {p \in [kind : Kinds, fields : PartialFunctions(Fields, Kinds)] :
        p.kind # "object" => DOMAIN p.fields = {}}

Keys == EventTypes \X Versions

ASSUME VersionsAssumption == Versions \subseteq Nat
ASSUME SchemasAssumption == \A s \in Schemas : s = Misshapen \/ s \in Schema
ASSUME CallsAssumption == MaxCalls \in Nat

VARIABLES
    schemas,        \* schemas[<<event_type, version>>]
    \* history
    calls,
    registered_at,  \* the call that registered a key last; 0 if none did
    last_call       \* arguments and result of the last register

vars == <<schemas, calls, registered_at, last_call>>

IsRegistered(k) == schemas[k] # Unregistered

Results == {"none", "Ok", "InvalidVersion", "InvalidSchema", "BreakingChange"}

\* Keys hold schemas, never what the shape check refuses, and version 0 none.
TypeOK ==
    /\ schemas \in [Keys -> Schema \cup {Unregistered}]
    /\ calls \in Nat
    /\ registered_at \in [Keys -> Nat]
    /\ last_call.result \in Results
    /\ \A k \in Keys : IsRegistered(k) => k[2] > 0

Init ==
    /\ schemas = [k \in Keys |-> Unregistered]
    /\ calls = 0
    /\ registered_at = [k \in Keys |-> 0]
    /\ last_call = [result |-> "none"]
-----------------------------------------------------------------------------
(* validate_against_schema: properties and required are not looked at when  *)
(* the payload is no object.                                                *)

HasType(t, kind) ==
    \/ t = "untyped"
    \/ t = "number" /\ kind \in {"integer", "float"}
    \/ t = kind /\ kind # "float"

ValidatesRequired(s, fields) == s.required \subseteq DOMAIN fields

ValidatesProperties(s, fields) ==
    \A f \in DOMAIN s.properties \cap DOMAIN fields :
        HasType(s.properties[f].type, fields[f])

ValidatesAdditional(s, fields) ==
    s.additional \/ DOMAIN fields \subseteq DOMAIN s.properties

Validates(s, p) ==
    /\ HasType(s.type, p.kind)
    /\ p.kind = "object" =>
          /\ ValidatesRequired(s, p.fields)
          /\ ValidatesProperties(s, p.fields)
          /\ ValidatesAdditional(s, p.fields)

\* What validate answers.
Validate(t, v, p) ==
    CASE v = 0 -> "InvalidVersion"
      [] v # 0 /\ ~IsRegistered(<<t, v>>) -> "SchemaNotFound"
      [] OTHER -> IF Validates(schemas[<<t, v>>], p) THEN "Ok" ELSE "PayloadInvalid"
-----------------------------------------------------------------------------
(* register.                                                                *)

WithoutRequired(previous, next) ==
    \A f \in DOMAIN previous.properties :
        f \in DOMAIN next.properties /\ next.properties[f] = previous.properties[f]

\* enforce_additive_policy.
Additive(previous, next) ==
    /\ \A f \in DOMAIN previous.properties :
          f \in DOMAIN next.properties /\ next.properties[f] = previous.properties[f]
    /\ next.required \subseteq previous.required

OfAnyType(t, v) ==
    {k \in Keys : IsRegistered(k) /\ k[2] < v}

\* The candidates of latest_schema_for.
Below(t, v) ==
    {k \in Keys : IsRegistered(k) /\ k[1] = t /\ k[2] < v}

EarliestBelow(k, t, v) ==
    k \in Below(t, v) /\ \A c \in Below(t, v) : k[2] <= c[2]

IsLatestBelow(k, t, v) ==
    k \in Below(t, v) /\ \A c \in Below(t, v) : c[2] <= k[2]

AnyShape(s) == TRUE

HasSchemaShape(s) == s # Misshapen

Outcome(t, v, s) ==
    CASE v = 0 -> "InvalidVersion"
      [] v # 0 /\ ~HasSchemaShape(s) -> "InvalidSchema"
      [] OTHER -> IF \/ Below(t, v) = {}
                     \/ \E k \in Keys : IsLatestBelow(k, t, v) /\ Additive(schemas[k], s)
                    THEN "Ok" ELSE "BreakingChange"

\* A key that is taken is overwritten, and nothing above it is looked at.
Register(t, v, s) ==
    LET result == Outcome(t, v, s) IN
    /\ calls < MaxCalls
    /\ calls' = calls + 1
    /\ last_call' = [result |-> result, type |-> t, version |-> v, schema |-> s]
    /\ IF result = "Ok"
         THEN /\ schemas' = [schemas EXCEPT ![<<t, v>>] = s]
              /\ registered_at' = [registered_at EXCEPT ![<<t, v>>] = calls + 1]
         ELSE UNCHANGED <<schemas, registered_at>>

Next == \E t \in EventTypes, v \in Versions, s \in Schemas : Register(t, v, s)

Spec == Init /\ [][Next]_vars
-----------------------------------------------------------------------------
(* Properties.                                                              *)

Older(j, k) == IsRegistered(j) /\ IsRegistered(k) /\ j[1] = k[1] /\ j[2] < k[2]

\* From version j to version k the schemas that stand were registered in the
\* order of their versions.
Ascending(j, k) ==
    \A c, d \in Keys :
        Older(c, d) /\ c[1] = j[1] /\ j[2] <= c[2] /\ d[2] <= k[2]
            => registered_at[c] < registered_at[d]

\* Each schema is compared with its predecessor alone, yet any two versions of
\* a type are additive, however far apart, if what stands between them came in
\* the order of the versions; overwriting and gaps included.
AscendingIsAdditive ==
    \A j, k \in Keys :
        Older(j, k) /\ Ascending(j, k) => Additive(schemas[j], schemas[k])

Declared(p, s) == DOMAIN p.fields \subseteq DOMAIN s.properties

\* What additive is for: a payload that was valid under an older version and
\* has only declared fields is valid under a newer one, unless that one gives
\* another "type" for the whole payload, which the policy does not compare.
OldPayloadsPass ==
    \A j, k \in Keys :
        Older(j, k) /\ Ascending(j, k) =>
            \A p \in Payload :
                /\ Validate(j[1], j[2], p) = "Ok" /\ Declared(p, schemas[j])
                /\ schemas[k].type \in {"untyped", schemas[j].type}
                => Validate(k[1], k[2], p) = "Ok"

\* A change is refused as breaking only because of an older version of the
\* same event type, however many others are registered.
OnlyBreakingRefused ==
    last_call.result = "BreakingChange" =>
        \E k \in Keys :
            /\ IsRegistered(k)
            /\ k[1] = last_call.type /\ k[2] < last_call.version
            /\ ~Additive(schemas[k], last_call.schema)
=============================================================================
