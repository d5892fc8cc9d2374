------------------------- MODULE SchemaRegistryProofs -------------------------
(***************************************************************************)
(* The additive policy for any schemas, versions and event types: comparing *)
(* a schema with its predecessor alone makes all versions that came in      *)
(* order additive, and old payloads pass the newer ones.                    *)
(***************************************************************************)
EXTENDS SchemaRegistry, WellFoundedInduction, TLAPS

\* A key is a pair of a type and a number.
LEMMA KeyTyped ==
  ASSUME NEW k \in Keys
  PROVE  k[1] \in EventTypes /\ k[2] \in Nat /\ k = <<k[1], k[2]>>
<1>1. PICK t \in EventTypes, v \in Versions : k = <<t, v>>
  BY DEF Keys
<1>2. v \in Nat
  BY VersionsAssumption
<1> QED BY <1>1, <1>2

\* What is registered has the shape of a schema, under a version above 0.
LEMMA OkIsTyped ==
  ASSUME NEW t \in EventTypes, NEW v \in Versions, NEW s \in Schemas,
         Outcome(t, v, s) = "Ok"
  PROVE  s \in Schema /\ v > 0 /\ <<t, v>> \in Keys
<1>1. v # 0 /\ s # Misshapen
  BY DEF Outcome, HasSchemaShape
<1> QED BY <1>1, SchemasAssumption, VersionsAssumption DEF Keys

\* register has one of four results.
LEMMA OutcomeTyped ==
  ASSUME NEW t, NEW v, NEW s
  PROVE  Outcome(t, v, s) \in Results
BY DEF Outcome, Results

\* No key ever holds what the shape check refuses, and version 0 holds nothing.
THEOREM RegistryTyped == Spec => []TypeOK
<1>1. Init => TypeOK
  <2> SUFFICES ASSUME Init PROVE TypeOK
    OBVIOUS
  <2>1. \A k \in Keys : schemas[k] = Unregistered
    BY DEF Init
  <2> QED BY <2>1 DEF Init, TypeOK, Results, IsRegistered
<1>2. TypeOK /\ [Next]_vars => TypeOK'
  <2> SUFFICES ASSUME TypeOK, [Next]_vars PROVE TypeOK'
    OBVIOUS
  <2>1. CASE UNCHANGED vars
    BY <2>1 DEF vars, TypeOK, IsRegistered
  <2>2. ASSUME NEW t \in EventTypes, NEW v \in Versions, NEW s \in Schemas, Register(t, v, s)
        PROVE  TypeOK'
    <3>1. last_call'.result \in Results /\ calls' \in Nat
      BY <2>2, OutcomeTyped DEF Register, TypeOK
    <3>2. CASE Outcome(t, v, s) = "Ok"
      <4>1. s \in Schema /\ v > 0 /\ <<t, v>> \in Keys
        BY <3>2, OkIsTyped
      <4>2. /\ schemas' = [schemas EXCEPT ![<<t, v>>] = s]
            /\ registered_at' = [registered_at EXCEPT ![<<t, v>>] = calls + 1]
        BY <2>2, <3>2 DEF Register
      <4>3. ASSUME NEW k \in Keys, IsRegistered(k)' PROVE k[2] > 0
        <5>1. CASE k = <<t, v>>
          BY <4>1, <5>1
        <5>2. CASE k # <<t, v>>
          BY <4>2, <4>3, <5>2 DEF TypeOK, IsRegistered
        <5> QED BY <5>1, <5>2
      <4> QED BY <3>1, <4>1, <4>2, <4>3 DEF TypeOK
    <3>3. CASE Outcome(t, v, s) # "Ok"
      BY <2>2, <3>1, <3>3 DEF Register, TypeOK, IsRegistered
    <3> QED BY <3>2, <3>3
  <2> QED BY <2>1, <2>2 DEF Next
<1> QED BY <1>1, <1>2, PTL DEF Spec
-----------------------------------------------------------------------------
\* Additive changes add up.
LEMMA AdditiveTransitive ==
  ASSUME NEW a, NEW b, NEW c, Additive(a, b), Additive(b, c)
  PROVE  Additive(a, c)
BY DEF Additive

\* Stamps of registrations are those of past calls.
AscendingInv ==
    /\ TypeOK
    /\ \A k \in Keys : registered_at[k] <= calls
    /\ AscendingIsAdditive

\* Nothing is registered at first.
LEMMA InitAscending == Init /\ TypeOK => AscendingInv
BY DEF Init, AscendingInv, AscendingIsAdditive, Older, IsRegistered

\* A schema that was compared with its predecessor is additive to whatever
\* its predecessor is additive to.
LEMMA AdditiveBelow ==
  ASSUME AscendingInv,
         NEW t \in EventTypes, NEW v \in Versions, NEW s \in Schemas,
         NEW j \in Keys, IsRegistered(j), j[1] = t, j[2] < v,
         Outcome(t, v, s) = "Ok",
         \A c, d \in Keys :
            Older(c, d) /\ c[1] = t /\ j[2] <= c[2] /\ d[2] < v
                => registered_at[c] < registered_at[d]
  PROVE  Additive(schemas[j], s)
<1>1. j \in Below(t, v)
  BY DEF Below
<1>2. PICK u \in Keys : IsLatestBelow(u, t, v) /\ Additive(schemas[u], s)
  BY <1>1 DEF Outcome
<1>3. u \in Below(t, v) /\ j[2] <= u[2]
  BY <1>1, <1>2 DEF IsLatestBelow
<1>4. IsRegistered(u) /\ u[1] = t /\ u[2] < v
  BY <1>3 DEF Below
<1>5. j[2] \in Nat /\ u[2] \in Nat /\ v \in Nat
  BY VersionsAssumption DEF Keys
<1>6. CASE j = u
  BY <1>2, <1>6
<1>7. CASE j # u
  <2>1. j[2] < u[2]
    <3>1. j = <<t, j[2]>> /\ u = <<t, u[2]>>
      BY <1>4, KeyTyped
    <3> QED BY <1>3, <1>5, <1>7, <3>1
  <2>2. Older(j, u)
    BY <1>4, <2>1 DEF Older
  <2>3. ASSUME NEW c \in Keys, NEW d \in Keys,
               Older(c, d), c[1] = j[1], j[2] <= c[2], d[2] <= u[2]
        PROVE  registered_at[c] < registered_at[d]
    <3>1. d[2] \in Nat /\ d[2] < v
      <4>1. d[2] \in Nat
        BY KeyTyped
      <4> QED BY <1>4, <1>5, <2>3, <4>1
    <3> QED BY <2>3, <3>1
  <2>4. Ascending(j, u)
    BY <2>3 DEF Ascending
  <2> QED BY <1>2, <2>2, <2>4, AdditiveTransitive DEF AscendingInv, AscendingIsAdditive
<1> QED BY <1>6, <1>7

\* A registration keeps all ascending pairs additive: pairs that end in the
\* new schema by comparison, and a pair with the new schema at its start or
\* inside is no longer ascending.
LEMMA RegisterKeepsAscending ==
  ASSUME AscendingInv, TypeOK',
         NEW t \in EventTypes, NEW v \in Versions, NEW s \in Schemas, Register(t, v, s)
  PROVE  AscendingInv'
<1> DEFINE x == <<t, v>>
<1>1. CASE Outcome(t, v, s) # "Ok"
  BY <1>1 DEF Register, AscendingInv, AscendingIsAdditive, Older, Ascending,
              IsRegistered, TypeOK
<1>2. CASE Outcome(t, v, s) = "Ok"
  <2>1. s \in Schema /\ x \in Keys /\ calls \in Nat
    BY <1>2, OkIsTyped DEF AscendingInv, TypeOK
  <2>2. s # Unregistered
    BY <2>1 DEF Schema, Unregistered, TypeNames, Kinds
  <2>3. /\ calls' = calls + 1
        /\ schemas'[x] = s /\ registered_at'[x] = calls + 1
        /\ \A k \in Keys \ {x} : /\ schemas'[k] = schemas[k]
                                 /\ registered_at'[k] = registered_at[k]
    BY <1>2, <2>1 DEF Register, AscendingInv, TypeOK
  <2>4. \A k \in Keys : registered_at[k] \in Nat /\ registered_at[k] <= calls
    BY DEF AscendingInv, TypeOK
  <2>5. \A k \in Keys : registered_at'[k] <= calls'
    BY <2>1, <2>3, <2>4
  <2>6. ASSUME NEW c \in Keys \ {x}, NEW d \in Keys \ {x}
        PROVE  Older(c, d)' <=> Older(c, d)
    BY <2>3 DEF Older, IsRegistered
  <2>7. ASSUME NEW j \in Keys, NEW k \in Keys, Older(j, k)', Ascending(j, k)'
        PROVE  Additive(schemas'[j], schemas'[k])
    <3>1. /\ j[2] \in Nat /\ k[2] \in Nat /\ v \in Nat
          /\ j[1] = k[1] /\ j[2] < k[2] /\ j # k
      <4>1. j[1] = k[1] /\ j[2] < k[2]
        BY <2>7 DEF Older
      <4>2. j[2] \in Nat /\ k[2] \in Nat /\ v \in Nat
        BY KeyTyped, VersionsAssumption
      <4> QED BY <4>1, <4>2
    <3>2. \A c, d \in Keys :
             Older(c, d)' /\ c[1] = j[1] /\ j[2] <= c[2] /\ d[2] <= k[2]
               => registered_at'[c] < registered_at'[d]
      BY <2>7 DEF Ascending
    <3>3. k # x => ~(j[2] <= v /\ v < k[2] /\ j[1] = t)
      <4> SUFFICES ASSUME k # x, j[2] <= v, v < k[2], j[1] = t PROVE FALSE
        OBVIOUS
      <4>1. Older(x, k)'
        BY <2>1, <2>2, <2>3, <2>7, <3>1 DEF Older, IsRegistered
      <4>2. registered_at'[x] < registered_at'[k]
        BY <2>1, <3>1, <3>2, <4>1
      <4> QED BY <2>1, <2>3, <2>4, <4>2
    <3>4. CASE k = x
      <4>1. j # x /\ j[1] = t /\ j[2] < v
        BY <3>1, <3>4
      <4>2. IsRegistered(j) /\ schemas'[j] = schemas[j]
        BY <2>3, <2>7, <4>1 DEF Older, IsRegistered
      <4>3. ASSUME NEW c \in Keys, NEW d \in Keys,
                   Older(c, d), c[1] = t, j[2] <= c[2], d[2] < v
            PROVE  registered_at[c] < registered_at[d]
        <5>1. c[2] \in Nat /\ d[2] \in Nat /\ c[2] < d[2]
          BY <4>3, VersionsAssumption DEF Keys, Older
        <5>2. c # x /\ d # x
          BY <3>1, <4>3, <5>1
        <5>3. Older(c, d)' /\ d[2] <= k[2]
          BY <2>6, <3>1, <3>4, <4>3, <5>1, <5>2
        <5> QED BY <2>3, <3>2, <4>1, <4>3, <5>2, <5>3
      <4>4. Additive(schemas[j], s)
        BY <1>2, <4>1, <4>2, <4>3, AdditiveBelow
      <4> QED BY <2>3, <3>4, <4>2, <4>4
    <3>5. CASE k # x
      <4>1. j # x
        BY <3>1, <3>3, <3>5
      <4>2. Older(j, k)
        BY <2>6, <2>7, <3>5, <4>1
      <4>3. ASSUME NEW c \in Keys, NEW d \in Keys,
                   Older(c, d), c[1] = j[1], j[2] <= c[2], d[2] <= k[2]
            PROVE  registered_at[c] < registered_at[d]
        <5>1. c[2] \in Nat /\ d[2] \in Nat /\ c[2] < d[2] /\ c[1] = d[1]
          BY <4>3, VersionsAssumption DEF Keys, Older
        <5>2. d = k \/ d[2] < k[2]
          <6>1. d = <<j[1], d[2]>> /\ k = <<j[1], k[2]>>
            BY <3>1, <4>3, <5>1, KeyTyped
          <6> QED BY <3>1, <4>3, <5>1, <6>1
        <5>3. c # x /\ d # x
          BY <3>1, <3>3, <3>5, <4>3, <5>1, <5>2
        <5> QED BY <2>3, <2>6, <3>2, <4>3, <5>3
      <4>4. Ascending(j, k)
        BY <4>3 DEF Ascending
      <4> QED BY <2>3, <3>5, <4>1, <4>2, <4>4 DEF AscendingInv, AscendingIsAdditive
    <3> QED BY <3>4, <3>5
  <2>8. AscendingIsAdditive'
    BY <2>7 DEF AscendingIsAdditive
  <2> QED BY <2>5, <2>8 DEF AscendingInv
<1> QED BY <1>1, <1>2

\* Any two versions whose stretch was registered in order are additive, though
\* register compares neighbours only, for any schemas, gaps and overwriting.
THEOREM OrderMakesAdditive == Spec => []AscendingIsAdditive
<1>1. AscendingInv /\ TypeOK' /\ [Next]_vars => AscendingInv'
  <2> SUFFICES ASSUME AscendingInv, TypeOK', [Next]_vars PROVE AscendingInv'
    OBVIOUS
  <2>1. CASE UNCHANGED vars
    BY <2>1 DEF vars, AscendingInv, AscendingIsAdditive, Older, Ascending, IsRegistered
  <2> QED BY <2>1, RegisterKeepsAscending DEF Next
<1>2. AscendingInv => AscendingIsAdditive
  BY DEF AscendingInv
<1> QED BY <1>1, <1>2, InitAscending, RegistryTyped, PTL DEF Spec
-----------------------------------------------------------------------------
\* One additive change, seen from a payload.
LEMMA AdditiveKeepsValid ==
  ASSUME NEW a, NEW b, NEW p, Additive(a, b), Validates(a, p), Declared(p, a),
         b.type \in {"untyped", a.type}
  PROVE  Validates(b, p)
<1>1. HasType(b.type, p.kind)
  BY DEF Validates, HasType
<1>2. ASSUME p.kind = "object" PROVE ValidatesRequired(b, p.fields)
  BY <1>2 DEF Validates, ValidatesRequired, Additive
<1>3. ASSUME p.kind = "object" PROVE ValidatesProperties(b, p.fields)
  BY <1>3 DEF Validates, ValidatesProperties, Additive, Declared
<1>4. ASSUME p.kind = "object" PROVE ValidatesAdditional(b, p.fields)
  BY <1>4 DEF ValidatesAdditional, Additive, Declared
<1> QED BY <1>1, <1>2, <1>3, <1>4 DEF Validates

\* The policy protects old payloads: what validate accepted for an older
\* version it accepts for a newer one, within the stated limits.
THEOREM OldPayloadsKept == Spec => []OldPayloadsPass
<1>1. TypeOK /\ AscendingIsAdditive => OldPayloadsPass
  <2> SUFFICES ASSUME TypeOK, AscendingIsAdditive,
                      NEW j \in Keys, NEW k \in Keys, Older(j, k), Ascending(j, k),
                      NEW p \in Payload,
                      Validate(j[1], j[2], p) = "Ok", Declared(p, schemas[j]),
                      schemas[k].type \in {"untyped", schemas[j].type}
               PROVE  Validate(k[1], k[2], p) = "Ok"
    BY DEF OldPayloadsPass
  <2>1. j = <<j[1], j[2]>> /\ k = <<k[1], k[2]>>
    BY DEF Keys
  <2>2. Additive(schemas[j], schemas[k]) /\ IsRegistered(j) /\ IsRegistered(k)
    BY DEF AscendingIsAdditive, Older
  <2>3. k[2] # 0
    BY <2>2, VersionsAssumption DEF TypeOK, Keys
  <2>4. Validates(schemas[j], p)
    BY <2>1 DEF Validate
  <2>5. Validates(schemas[k], p)
    BY <2>2, <2>4, AdditiveKeepsValid
  <2> QED BY <2>1, <2>2, <2>3, <2>5 DEF Validate
<1> QED BY <1>1, RegistryTyped, OrderMakesAdditive, PTL

\* latest_schema_for finds a schema whenever there is a candidate.
LEMMA LatestExists ==
  ASSUME NEW t \in EventTypes, NEW v \in Versions, Below(t, v) # {}
  PROVE  \E k \in Keys : IsLatestBelow(k, t, v)
<1> DEFINE less == OpToRel(<, Nat)
           gaps == {v - k[2] : k \in Below(t, v)}
<1>1. v \in Nat /\ \A k \in Below(t, v) : k \in Keys /\ k[2] \in Nat /\ k[2] < v
  BY KeyTyped, VersionsAssumption DEF Below
<1>2. gaps \subseteq Nat /\ gaps # {}
  BY <1>1
<1>3. PICK n \in gaps : \A m \in gaps : <<m, n>> \notin less
  BY <1>2, NatLessThanWellFounded, WFMin
<1>4. PICK k \in Below(t, v) : n = v - k[2]
  OBVIOUS
<1>5. ASSUME NEW c \in Below(t, v) PROVE c[2] <= k[2]
  <2>1. ~(v - c[2] < n)
    BY <1>1, <1>2, <1>3 DEF OpToRel
  <2> QED BY <1>1, <1>4, <2>1
<1> QED BY <1>1, <1>4, <1>5 DEF IsLatestBelow

\* A refusal always has an older version of the same type to show for it.
THEOREM RefusalsJustified == Spec => []OnlyBreakingRefused
<1>1. Init => OnlyBreakingRefused
  BY DEF Init, OnlyBreakingRefused
<1>2. OnlyBreakingRefused /\ [Next]_vars => OnlyBreakingRefused'
  <2> SUFFICES ASSUME OnlyBreakingRefused, [Next]_vars PROVE OnlyBreakingRefused'
    OBVIOUS
  <2>1. CASE UNCHANGED vars
    BY <2>1 DEF vars, OnlyBreakingRefused, IsRegistered
  <2>2. ASSUME NEW t \in EventTypes, NEW v \in Versions, NEW s \in Schemas, Register(t, v, s)
        PROVE  OnlyBreakingRefused'
    <3> SUFFICES ASSUME last_call'.result = "BreakingChange" PROVE OnlyBreakingRefused'
      BY DEF OnlyBreakingRefused
    <3>1. /\ Outcome(t, v, s) = "BreakingChange" /\ UNCHANGED schemas
          /\ last_call'.type = t /\ last_call'.version = v /\ last_call'.schema = s
      BY <2>2 DEF Register
    <3>2. /\ Below(t, v) # {}
          /\ \A k \in Keys : IsLatestBelow(k, t, v) => ~Additive(schemas[k], s)
      BY <3>1 DEF Outcome
    <3>3. PICK k \in Keys : IsLatestBelow(k, t, v)
      BY <3>2, LatestExists
    <3>4. IsRegistered(k) /\ k[1] = t /\ k[2] < v
      BY <3>3 DEF IsLatestBelow, Below
    <3> QED BY <3>1, <3>2, <3>3, <3>4 DEF OnlyBreakingRefused, IsRegistered
  <2> QED BY <2>1, <2>2 DEF Next
<1> QED BY <1>1, <1>2, PTL DEF Spec
=============================================================================
