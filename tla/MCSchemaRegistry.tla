--------------------------- MODULE MCSchemaRegistry ---------------------------
(* Small instances of SchemaRegistry for TLC. *)
EXTENDS SchemaRegistry, TLC

CONSTANTS t1, t2, f1, f2

Is(type) == [type |-> type, rest |-> "plain"]

ObjectSchema(properties, required, additional) ==
    [type |-> "object", properties |-> properties, required |-> required,
     additional |-> additional]

Bare == ObjectSchema(<<>>, {}, TRUE)

\* Every way to change a schema: a property more, of another type, with
\* another annotation; required, no longer required; closed; another type.
Evolution ==
    {Bare,
     ObjectSchema(f1 :> Is("string"), {}, TRUE),
     ObjectSchema(f1 :> Is("number"), {}, FALSE),
     ObjectSchema(f1 :> [type |-> "string", rest |-> "described"], {}, TRUE),
     ObjectSchema(f1 :> Is("string") @@ f2 :> Is("integer"), {f1}, FALSE),
     [Bare EXCEPT !.type = "untyped", !.required = {f2}],
     [Bare EXCEPT !.type = "array"],
     Misshapen}

\* A field with either of two types.
TwoTypes == {Bare, ObjectSchema(f1 :> Is("string"), {}, TRUE),
             ObjectSchema(f1 :> Is("integer"), {}, TRUE)}

Symmetry == Permutations(EventTypes)

(* A property that only a violated run checks. *)

\* docs/ops/RUNBOOK.md:49 has register refuse a version that "changed field
\* types from a previously registered schema": no two versions of an event
\* type disagree on the type of a field.
FieldTypesKept ==
    \A j, k \in Keys : Older(j, k) =>
        \A f \in DOMAIN schemas[j].properties \cap DOMAIN schemas[k].properties :
            schemas[j].properties[f].type = schemas[k].properties[f].type
=============================================================================
