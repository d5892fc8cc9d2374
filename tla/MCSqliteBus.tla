---------------------------- MODULE MCSqliteBus ----------------------------
(* Small instances of SqliteBus for TLC. *)
EXTENDS SqliteBus, TLC

CONSTANTS e1, e2, w1, w2

\* Two clones of the bus with different budgets.
UnequalRetries == w1 :> 2 @@ w2 :> 1

\* One retry for every worker.
OneRetry == [w \in Workers |-> 2]

\* The default of SqliteBus::new.
DefaultRetries == [w \in Workers |-> 3]

\* Housekeeping that leaves claimed rows alone.
Unclaimed == RowStatus \ {"in_progress"}

(* A property that only a violated run checks. *)

\* docs/ops/RUNBOOK.md:19 says that after a crash "events will resume from
\* pending state automatically"; src/lib.rs:6 promises at-least-once delivery.
AtLeastOnce ==
    \A e \in Events :
        outbox[e].status = "pending" ~> outbox[e].status \in {"acked", "dlq"}
=============================================================================
