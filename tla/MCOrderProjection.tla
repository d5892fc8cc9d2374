-------------------------- MODULE MCOrderProjection --------------------------
(* Small instances of OrderProjection for TLC. *)
EXTENDS OrderProjection

CONSTANTS o1, k1, k2, c1

\* One order and two items; every kind of event that the projection reacts to.
OneOrder ==
    {Created(o1, c1, "open"), ItemAdded(o1, k1, 1), ItemAdded(o1, k2, 4),
     Cancelled(o1), Malformed}

\* An order that is opened and cancelled.
Cancellation == {Created(o1, c1, "open"), Cancelled(o1)}

Symmetry == Permutations(Projectors)

\* Nothing reads the counters, so states that differ in them alone are one.
ButMetrics ==
    <<log, rows, tables, checkpoint, projector, calls, faults, removals,
      top, reused, lost, applied, overlapped, rewound>>

CreatedFirst == \A n \in Published : n = 1 <=> log[n].type = "order.created"

(* A property that only a violated run checks. *)

\* docs/security/THREAT_MODEL.md:10 has the read models "reflect committed
\* event state": when the checkpoint says that all rows are in, they are.
ReflectsLog ==
    AtRest /\ CreatedFirst /\ checkpoint = Len(log) => tables = Projected(Len(log))
=============================================================================
