------------------------ MODULE SqliteBusRefinement ------------------------
(***************************************************************************)
(* The durable bus implements EventLifecycle: seen through Phase, each step *)
(* of the bus moves at most one event, and only as the lifecycle allows.    *)
(***************************************************************************)
EXTENDS SqliteBusProofs

SamePhase(f) ==
  /\ outbox'[f].status = outbox[f].status
  /\ handled_at'[f] = handled_at[f]
  /\ oks'[f] = oks[f]

\* An event whose status, handled_at and successes stay keeps its phase.
LEMMA PhaseKept ==
  ASSUME NEW f \in Events, SamePhase(f)
  PROVE  Phase(f)' = Phase(f)
BY DEF Phase, SamePhase

\* A step that leaves rows, handled_events and successes alone changes no phase.
LEMMA Stutter ==
  ASSUME \A f \in Events : SamePhase(f)
  PROVE  UNCHANGED phase
BY PhaseKept DEF phase

\* A step that changes the phase of one event is a Move of the lifecycle.
LEMMA Moves ==
  ASSUME NEW e \in Events, NEW from, NEW to,
         \A f \in Events \ {e} : SamePhase(f),
         Phase(e) \in from, Phase(e)' = to
  PROVE  Lifecycle!Move(e, from, to)
<1>1. \A f \in Events \ {e} : Phase(f)' = Phase(f)
  BY PhaseKept
<1> QED BY <1>1 DEF Lifecycle!Move, phase

\* An event in handled_events is done, whatever its row says.
LEMMA HandledIsDone ==
  ASSUME TypeInv, ClaimInv, NEW e \in Events, handled_at[e] > 0
  PROVE  Phase(e) = "done"
<1>1. outbox[e].status \in {"none", "pending", "in_progress", "acked"}
  BY DEF ClaimInv, EventInv, TypeInv, TypeOK, RowType, RowStatus
<1> QED BY <1>1 DEF Phase

\* The empty outbox is the initial state of the lifecycle.
LEMMA InitRefines == Init => Lifecycle!Init
<1> SUFFICES ASSUME Init PROVE Lifecycle!Init
  OBVIOUS
<1>1. ASSUME NEW e \in Events PROVE Phase(e) = "new"
  BY DEF Init, NoRow, Row, Phase, Claimable
<1> QED BY <1>1 DEF Lifecycle!Init, phase

\* claim_next starts an event, or takes up a copy of one that is done.
LEMMA StartRefines ==
  ASSUME TypeInv, ClaimInv, NEW w \in Workers, ClaimNext(w)
  PROVE  [Lifecycle!Next]_phase
<1>1. PICK e \in Events :
        /\ OldestDue(e)
        /\ outbox' = [outbox EXCEPT ![e].status = "in_progress"]
  BY DEF ClaimNext
<1>2. /\ outbox[e].status \in Claimable
      /\ outbox'[e].status = "in_progress"
      /\ \A f \in Events \ {e} : outbox'[f] = outbox[f]
  BY <1>1 DEF OldestDue, Due, TypeInv, TypeOK, RowType
<1>3. UNCHANGED <<handled_at, oks>>
  BY DEF ClaimNext, history
<1>4. CASE handled_at[e] > 0
  <2>1. Phase(e)' = Phase(e)
    <3>1. Phase(e) = "done"
      BY <1>4, HandledIsDone
    <3>2. Phase(e)' = "done"
      BY <1>2, <1>3, <1>4 DEF Phase
    <3> QED BY <3>1, <3>2
  <2> QED BY <1>2, <1>3, <2>1, PhaseKept DEF phase, SamePhase
<1>5. CASE ~(handled_at[e] > 0)
  <2>1. oks[e] = 0
    BY <1>2, <1>5 DEF ClaimInv, EventInv, Claimable, TypeInv, TypeOK
  <2>2. Phase(e) = "queued" /\ Phase(e)' = "running"
    BY <1>2, <1>3, <1>5, <2>1 DEF Phase, Claimable
  <2>3. Lifecycle!Start(e)
    BY <1>2, <1>3, <2>2, Moves DEF SamePhase, Lifecycle!Start
  <2> QED BY <2>3 DEF Lifecycle!Next
<1> QED BY <1>4, <1>5

\* The three steps that take a verdict into account are those of an event
\* that is running, or of one that was done before.
LEMMA VerdictRefines ==
  ASSUME TypeInv, ClaimInv, NEW w \in Workers,
         HandlerOk(w) \/ MarkHandled(w) \/ MarkFailed(w)
  PROVE  [Lifecycle!Next]_phase
<1>1. worker[w].pc \in {"calling", "marking", "failing"}
  BY DEF HandlerOk, MarkHandled, MarkFailed
<1>2. worker[w].pc \in LadenPc
  BY <1>1, Points
<1>3. PICK e \in Events :
        /\ worker[w].event = e
        /\ outbox[e].status = "in_progress"
  BY <1>2, Alone
<1>4. EventInv(e) /\ HolderInv(w) /\ handled_at[e] \in Nat
  BY <1>3 DEF ClaimInv, TypeInv, TypeOK
<1>5. CASE HandlerOk(w)
  <2>1. oks[e] = 0
    BY <1>2, <1>3, <1>4, <1>5 DEF HandlerOk, HolderInv
  <2>2. handled_at[e] = 0
    BY <1>4, <2>1 DEF EventInv
  <2>3. /\ UNCHANGED <<outbox, handled_at>>
        /\ oks'[e] = 1
        /\ \A f \in Events \ {e} : oks'[f] = oks[f]
    BY <1>3, <1>5, <2>1 DEF HandlerOk, database, TypeInv, TypeOK
  <2>4. Phase(e) = "running" /\ Phase(e)' = "effected"
    BY <1>3, <2>1, <2>2, <2>3 DEF Phase, Claimable
  <2>5. Lifecycle!Effect(e)
    BY <2>3, <2>4, Moves DEF SamePhase, Lifecycle!Effect
  <2> QED BY <2>5 DEF Lifecycle!Next
<1>6. CASE MarkHandled(w)
  <2>1. oks[e] = 1 /\ worker[w].stamp > 0
    BY <1>2, <1>3, <1>4, <1>6 DEF MarkHandled, HolderInv
  <2>2. /\ oks' = oks
        /\ handled_at'[e] > 0
        /\ outbox'[e].status = "acked"
        /\ \A f \in Events \ {e} : handled_at'[f] = handled_at[f] /\ outbox'[f] = outbox[f]
    BY <1>3, <1>4, <1>6, <2>1 DEF MarkHandled, history, TypeInv, TypeOK, RowType
  <2>3. Phase(e)' = "done" /\ \A f \in Events \ {e} : SamePhase(f)
    BY <2>2 DEF Phase, SamePhase
  <2>4. CASE handled_at[e] = 0
    <3>1. Phase(e) = "effected"
      BY <1>3, <2>1, <2>4 DEF Phase
    <3>2. Lifecycle!Finish(e)
      BY <2>3, <3>1, Moves DEF Lifecycle!Finish
    <3> QED BY <3>2 DEF Lifecycle!Next
  <2>5. CASE handled_at[e] > 0
    <3>1. Phase(e) = "done"
      BY <1>3, <2>5, HandledIsDone
    <3> QED BY <2>3, <3>1, PhaseKept DEF phase
  <2> QED BY <1>4, <2>4, <2>5
<1>7. CASE MarkFailed(w)
  <2> DEFINE status == Verdict(w, worker[w].attempts + 1)
  <2>1. oks[e] = 0
    BY <1>2, <1>3, <1>4, <1>7 DEF MarkFailed, HolderInv
  <2>2. handled_at[e] = 0
    BY <1>4, <2>1 DEF EventInv
  <2>3. /\ UNCHANGED <<handled_at, oks>>
        /\ outbox'[e].status = status
        /\ \A f \in Events \ {e} : outbox'[f] = outbox[f]
    BY <1>3, <1>7 DEF MarkFailed, Row, history, TypeInv, TypeOK
  <2>4. Phase(e) = "running" /\ \A f \in Events \ {e} : SamePhase(f)
    BY <1>3, <2>1, <2>2, <2>3 DEF Phase, SamePhase, Claimable
  <2> status \in {"dlq", "retrying"}
    BY DEF Verdict
  <2> HIDE DEF status
  <2>5. CASE status = "dlq"
    <3>1. Phase(e)' = "dead"
      BY <2>1, <2>2, <2>3, <2>5 DEF Phase, Claimable
    <3>2. Lifecycle!Bury(e)
      BY <2>4, <3>1, Moves DEF Lifecycle!Bury
    <3> QED BY <3>2 DEF Lifecycle!Next
  <2>6. CASE status = "retrying"
    <3>1. Phase(e)' = "queued"
      BY <2>1, <2>2, <2>3, <2>6 DEF Phase, Claimable
    <3>2. Lifecycle!Nack(e)
      BY <2>4, <3>1, Moves DEF Lifecycle!Nack
    <3> QED BY <3>2 DEF Lifecycle!Next
  <2> QED BY <2>5, <2>6
<1> QED BY <1>5, <1>6, <1>7

\* The operator statements requeue a dead event, discard one or change nothing.
LEMMA OperatorRefines ==
  ASSUME ClaimsStay, TypeInv, ClaimInv, NEW e \in Events, Operator(e)
  PROVE  [Lifecycle!Next]_phase
<1>1. EventInv(e) /\ handled_at[e] \in Nat /\ outbox[e].status \in RowStatus \cup {"none"}
  BY DEF ClaimInv, TypeInv, TypeOK, RowType
<1>2. outbox[e].status \notin {"in_progress", "none"}
  BY RemovableAssumption DEF ClaimsStay, Operator, RequeueDlq, ForceRetry, RemoveRow, RowStatus
<1>3. UNCHANGED <<handled_at, oks>>
  BY DEF Operator, RequeueDlq, ForceRetry, RemoveRow, history
<1>4. \A f \in Events \ {e} : SamePhase(f)
  BY <1>3 DEF Operator, RequeueDlq, ForceRetry, RemoveRow, SamePhase, TypeInv, TypeOK
<1>5. CASE handled_at[e] > 0
  <2>1. Phase(e) = "done"
    BY <1>5, HandledIsDone
  <2>2. RemoveRow(e)
        \/ (outbox[e].status = "retrying" \/ outbox[e].status = "dlq")
    BY DEF Operator, RequeueDlq, ForceRetry
  <2>3. RemoveRow(e)
    BY <1>1, <1>5, <2>2 DEF EventInv
  <2>4. outbox'[e].status = "none"
    BY <2>3 DEF RemoveRow, NoRow, Row, TypeInv, TypeOK
  <2>5. Phase(e)' = "done"
    BY <1>3, <1>5, <2>4 DEF Phase
  <2> QED BY <1>4, <2>1, <2>5, PhaseKept DEF phase
<1>6. CASE handled_at[e] = 0
  <2>1. oks[e] = 0 /\ outbox[e].status # "acked"
    BY <1>1, <1>2, <1>6 DEF EventInv
  <2>2. CASE RequeueDlq(e)
    <3>1. outbox[e].status = "dlq" /\ outbox'[e].status = "pending"
      BY <2>2 DEF RequeueDlq, Row, TypeInv, TypeOK
    <3>2. Phase(e) = "dead" /\ Phase(e)' = "queued"
      BY <1>3, <1>6, <2>1, <3>1 DEF Phase, Claimable
    <3>3. Lifecycle!Requeue(e)
      BY <1>4, <3>2, Moves DEF Lifecycle!Requeue
    <3> QED BY <3>3 DEF Lifecycle!Next
  <2>3. CASE ForceRetry(e)
    <3>1. outbox[e].status = "retrying" /\ outbox'[e].status = "pending"
      BY <2>3 DEF ForceRetry, TypeInv, TypeOK, RowType
    <3>2. Phase(e) = "queued" /\ Phase(e)' = "queued"
      BY <1>3, <1>6, <2>1, <3>1 DEF Phase, Claimable
    <3> QED BY <1>4, <3>2, PhaseKept DEF phase
  <2>4. CASE RemoveRow(e)
    <3>1. outbox'[e].status = "none"
      BY <2>4 DEF RemoveRow, NoRow, Row, TypeInv, TypeOK
    <3>2. Phase(e) \in {"queued", "dead"} /\ Phase(e)' = "new"
      BY <1>1, <1>2, <1>3, <1>6, <2>1, <3>1 DEF Phase, Claimable, RowStatus
    <3>3. Lifecycle!Discard(e)
      BY <1>4, <3>2, Moves DEF Lifecycle!Discard
    <3> QED BY <3>3 DEF Lifecycle!Next
  <2> QED BY <2>2, <2>3, <2>4 DEF Operator
<1> QED BY <1>1, <1>5, <1>6

\* publish queues a new event, or changes nothing.
LEMMA InsertRefines ==
  ASSUME TypeInv, ClaimInv, NEW p \in Publishers, PublishInsert(p)
  PROVE  [Lifecycle!Next]_phase
<1>1. PICK e \in Events : publisher[p].event = e
  BY DEF PublishInsert, TypeInv, BegunOK
<1>2. UNCHANGED <<handled_at, oks>>
  BY DEF PublishInsert
<1>3. EventInv(e) /\ handled_at[e] \in Nat
  BY DEF ClaimInv, TypeInv, TypeOK
<1>4. CASE outbox[e].status # "none"
  BY <1>1, <1>2, <1>4, Stutter DEF PublishInsert, SamePhase
<1>5. CASE outbox[e].status = "none"
  <2>1. outbox'[e].status = "pending" /\ \A f \in Events \ {e} : SamePhase(f)
    BY <1>1, <1>2, <1>5 DEF PublishInsert, Row, SamePhase, TypeInv, TypeOK
  <2>2. CASE handled_at[e] > 0
    <3>1. Phase(e)' = "done" /\ Phase(e) = "done"
      BY <1>2, <1>5, <2>1, <2>2 DEF Phase
    <3> QED BY <2>1, <3>1, PhaseKept DEF phase
  <2>3. CASE handled_at[e] = 0
    <3>1. Phase(e) = "new" /\ Phase(e)' = "queued"
      BY <1>2, <1>3, <1>5, <2>1, <2>3 DEF Phase, Claimable, EventInv
    <3>2. Lifecycle!Publish(e)
      BY <2>1, <3>1, Moves DEF Lifecycle!Publish
    <3> QED BY <3>2 DEF Lifecycle!Next
  <2> QED BY <1>3, <2>2, <2>3
<1> QED BY <1>4, <1>5

\* Every other step is invisible to the lifecycle.
LEMMA SilentRefines ==
  ASSUME TypeInv,
         \/ \E w \in Workers :
              \/ Subscribe(w) \/ ClaimNone(w) \/ Wake(w)
              \/ AlreadyHandled(w) \/ NotYetHandled(w) \/ LastSeen(w)
              \/ HandlerErr(w) \/ ReadAttempts(w)
              \/ CountProcessed(w) \/ CountFailed(w)
              \/ DropSubscription(w) \/ DbError(w)
         \/ \E p \in Publishers :
              PublishAck(p) \/ AbandonPublish(p) \/ \E e \in Events : PublishBegin(p, e)
         \/ Tick
         \/ Crash
         \/ UNCHANGED vars
  PROVE  UNCHANGED phase
<1>1. CASE Tick
  <2>1. \A f \in Events : SamePhase(f)
    BY <1>1 DEF Tick, SamePhase, history, TypeInv, TypeOK, RowType
  <2> QED BY <2>1, Stutter
<1>2. CASE ~Tick
  <2>1. \A f \in Events : SamePhase(f)
    BY <1>2
    DEF SamePhase, Subscribe, ClaimNone, Wake, AlreadyHandled, NotYetHandled, LastSeen,
        HandlerErr, ReadAttempts, CountProcessed, CountFailed, DropSubscription, DbError,
        PublishAck, AbandonPublish, PublishBegin, Crash, database, history, vars
  <2> QED BY <2>1, Stutter
<1> QED BY <1>1, <1>2

\* Every step of the bus is a step of the lifecycle or a stutter.
LEMMA NextRefines ==
  ASSUME ClaimsStay
  PROVE  TypeInv /\ ClaimInv /\ [Next]_vars => [Lifecycle!Next]_phase
<1> SUFFICES ASSUME TypeInv, ClaimInv, [Next]_vars
             PROVE  [Lifecycle!Next]_phase
  OBVIOUS
<1>1. CASE UNCHANGED vars \/ Tick \/ Crash
  BY <1>1, SilentRefines
<1>2. ASSUME NEW p \in Publishers,
             PublisherStep(p) \/ AbandonPublish(p) \/ \E e \in Events : PublishBegin(p, e)
      PROVE  [Lifecycle!Next]_phase
  BY <1>2, SilentRefines, InsertRefines DEF PublisherStep
<1>3. ASSUME NEW w \in Workers,
             Subscribe(w) \/ WorkerStep(w) \/ DropSubscription(w) \/ DbError(w)
      PROVE  [Lifecycle!Next]_phase
  BY <1>3, SilentRefines, StartRefines, VerdictRefines DEF WorkerStep
<1>4. ASSUME NEW e \in Events, Operator(e)
      PROVE  [Lifecycle!Next]_phase
  BY <1>4, OperatorRefines
<1> QED BY <1>1, <1>2, <1>3, <1>4 DEF Next

\* The durable bus implements the lifecycle: through drops, crashes, database
\* errors and operators that leave claimed rows alone, an event takes effect
\* at most once, its effect is never undone, and dead letters had none
\* (process_once, mark_handled, mark_failed).
THEOREM BusImplementsLifecycle ==
  ASSUME ClaimsStay
  PROVE  Spec => LifecycleSpec
<1>1. TypeInv /\ ClaimInv /\ [Next]_vars => [Lifecycle!Next]_phase
  BY NextRefines
<1>2. Spec => [](TypeInv /\ ClaimInv)
  BY SafetyInvariant
<1> QED BY <1>1, <1>2, InitRefines, PTL DEF Spec, LifecycleSpec, Lifecycle!Spec
=============================================================================
