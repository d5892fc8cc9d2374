-------------------------- MODULE SqliteBusProofs --------------------------
(***************************************************************************)
(* Theorems about the durable bus, for every set of events, workers and     *)
(* publishers, every retry budget and every bound.                          *)
(***************************************************************************)
EXTENDS SqliteBus, TLAPS

(***************************************************************************)
(* Types.  A worker has an event exactly while it stands at a laden point;  *)
(* without that the row ReadAttempts reads would have no type.              *)
(***************************************************************************)

LadenOK == \A w \in Workers : worker[w].pc \in LadenPc <=> worker[w].event \in Events

BegunOK == \A p \in Publishers : publisher[p].pc = "begun" => publisher[p].event \in Events

TypeInv == TypeOK /\ LadenOK /\ BegunOK

\* Rows built from typed columns are typed (INSERT of publish, UPDATE of mark_failed).
LEMMA RowTyped ==
  ASSUME NEW s \in RowStatus, NEW a \in Nat, NEW t \in Nat, NEW c \in Nat
  PROVE  Row(s, a, t, c) \in RowType
BY DEF Row, RowType

\* And so are rows with another status or wait (claim_next, the runbook's UPDATE, time).
LEMMA RowEdited ==
  ASSUME NEW row \in RowType
  PROVE  /\ \A s \in RowStatus : [row EXCEPT !.status = s] \in RowType
         /\ \A t \in Nat : [row EXCEPT !.wait = t] \in RowType
BY DEF RowType

\* A worker without an event is typed, wherever it stands.
LEMMA UnladenTyped ==
  ASSUME NEW pc \in WorkerPc \ LadenPc
  PROVE  /\ Unladen(pc) \in WorkerType
         /\ Unladen(pc).pc = pc
         /\ Unladen(pc).event = None
BY DEF Unladen, WorkerType, EventOrNone

\* Which points are laden.
LEMMA Points ==
  /\ "claimed" \in WorkerPc /\ "fresh" \in WorkerPc
  /\ "claimed" \in LadenPc /\ "fresh" \in LadenPc
  /\ "calling" \in WorkerPc /\ "marking" \in WorkerPc
  /\ "calling" \in LadenPc /\ "marking" \in LadenPc
  /\ "nacked" \in WorkerPc /\ "failing" \in WorkerPc
  /\ "nacked" \in LadenPc /\ "failing" \in LadenPc
  /\ "off" \in WorkerPc /\ "off" \notin LadenPc
  /\ "idle" \in WorkerPc /\ "idle" \notin LadenPc
  /\ "asleep" \in WorkerPc /\ "asleep" \notin LadenPc
  /\ "processed" \in WorkerPc /\ "processed" \notin LadenPc
  /\ "failed" \in WorkerPc /\ "failed" \notin LadenPc
BY DEF WorkerPc, LadenPc

\* A stamp is a positive number, whatever the clock shows (Utc::now).
LEMMA StampTyped ==
  ASSUME NEW clock \in Nat
  PROVE  \A stamp \in Stamps(clock) : stamp \in Nat /\ stamp > 0
BY ClockAssumption DEF Stamps

\* The fresh database and process are typed (SqliteBus::new).
LEMMA InitTypeInv == Init => TypeInv
BY NoneAssumption DEF Init, TypeInv, TypeOK, LadenOK, BegunOK, Unladen, NotPublishing, NoMetrics,
   NoRow, Row, WorkerPc, LadenPc, EventOrNone, RowStatus, RowType, WorkerType, PublisherType

\* The steps of publish keep the types.
LEMMA PublisherTypeInv ==
  ASSUME TypeInv, NEW p \in Publishers,
         \/ \E e \in Events : PublishBegin(p, e)
         \/ PublisherStep(p)
         \/ AbandonPublish(p)
  PROVE  TypeInv'
<1> USE DEF TypeInv, TypeOK, LadenOK, BegunOK, database, clocks, history, EventOrNone
<1>1. CASE \E e \in Events : PublishBegin(p, e)
  <2>1. PICK e \in Events, stamp \in Stamps(publishClock) :
          publisher' = [publisher EXCEPT ![p] =
                           [pc |-> "begun", event |-> e, stamp |-> stamp]]
    BY <1>1 DEF PublishBegin
  <2>2. stamp \in Nat
    BY StampTyped
  <2> QED BY <1>1, <2>1, <2>2 DEF PublishBegin, PublisherType
<1>2. CASE PublishInsert(p)
  <2> DEFINE e == publisher[p].event
  <2>1. e \in Events /\ publisher[p].stamp \in Nat
    BY <1>2 DEF PublishInsert, PublisherType
  <2>2. Row("pending", 0, 0, publisher[p].stamp) \in RowType
    BY <2>1, RowTyped DEF RowStatus
  <2>3. outbox' \in [Events -> RowType] /\ inserts' \in [Events -> Nat]
    BY <1>2, <2>1, <2>2 DEF PublishInsert
  <2> QED BY <1>2, <2>3 DEF PublishInsert, PublisherType
<1>3. CASE PublishAck(p)
  BY <1>3, NoneAssumption DEF PublishAck, NotPublishing, PublisherType
<1>4. CASE AbandonPublish(p)
  BY <1>4, NoneAssumption, FaultsAssumption DEF AbandonPublish, NotPublishing, Fault, PublisherType
<1> QED BY <1>1, <1>2, <1>3, <1>4 DEF PublisherStep

\* Moving a worker on changes its point and perhaps one more field.
LEMMA WorkerTyped ==
  ASSUME worker \in [Workers -> WorkerType], outbox \in [Events -> RowType],
         handledClock \in Nat, LadenOK,
         NEW w \in Workers, Subscribe(w) \/ WorkerStep(w)
  PROVE  worker' \in [Workers -> WorkerType] /\ LadenOK'
<1>1. ASSUME NEW pc \in WorkerPc \ LadenPc, worker' = [worker EXCEPT ![w] = Unladen(pc)]
      PROVE  worker' \in [Workers -> WorkerType] /\ LadenOK'
  BY <1>1, UnladenTyped, NoneAssumption DEF LadenOK
<1>2. CASE Subscribe(w)
  BY <1>1, <1>2, Points DEF Subscribe
<1>3. CASE ClaimNext(w)
  <2>1. PICK e \in Events : worker' = [worker EXCEPT ![w].pc = "claimed", ![w].event = e]
    BY <1>3 DEF ClaimNext
  <2>2. worker' \in [Workers -> WorkerType]
    <3>1. "claimed" \in WorkerPc
      BY Points
    <3> QED BY <2>1, <3>1 DEF WorkerType, EventOrNone
  <2>3. LadenOK'
    BY <2>1, Points DEF LadenOK, WorkerType
  <2> QED BY <2>2, <2>3
<1>4. CASE ClaimNone(w) \/ Wake(w)
  BY <1>4, Points DEF ClaimNone, Wake, WorkerType, LadenOK
<1>5. CASE AlreadyHandled(w) \/ HandlerOk(w)
  <2>0. worker[w].pc \in LadenPc
    BY <1>5, Points DEF AlreadyHandled, HandlerOk
  <2>1. PICK stamp \in Stamps(handledClock) :
          worker' = [worker EXCEPT ![w].pc = "marking", ![w].stamp = stamp]
    BY <1>5 DEF AlreadyHandled, HandlerOk, BeginMark
  <2>2. worker' \in [Workers -> WorkerType]
    <3>1. "marking" \in WorkerPc /\ stamp \in Nat
      BY Points, StampTyped
    <3> QED BY <2>1, <3>1 DEF WorkerType
  <2>3. LadenOK'
    BY <2>0, <2>1, Points DEF LadenOK, WorkerType
  <2> QED BY <2>2, <2>3
<1>6. CASE NotYetHandled(w)
  BY <1>6, Points DEF NotYetHandled, WorkerType, LadenOK
<1>7. CASE LastSeen(w)
  <2>1. PICK seen \in EventOrNone :
          worker' = [worker EXCEPT ![w].pc = "calling", ![w].last_seen = seen]
    BY <1>7 DEF LastSeen
  <2>2. worker' \in [Workers -> WorkerType]
    <3>1. "calling" \in WorkerPc
      BY Points
    <3> QED BY <2>1, <3>1 DEF WorkerType
  <2>3. worker[w].pc \in LadenPc
    BY <1>7, Points DEF LastSeen
  <2>4. LadenOK'
    BY <2>1, <2>3, Points DEF LadenOK, WorkerType
  <2> QED BY <2>2, <2>4
<1>8. CASE HandlerErr(w)
  <2>1. /\ worker[w].pc \in LadenPc
        /\ worker' = [worker EXCEPT ![w].pc = "nacked", ![w].retry_in = Backoff]
    BY <1>8, Points DEF HandlerErr
  <2>2. worker' \in [Workers -> WorkerType]
    <3>1. "nacked" \in WorkerPc
      BY Points
    <3> QED BY <2>1, <3>1, BackoffAssumption DEF WorkerType
  <2>3. LadenOK'
    BY <2>1, Points DEF LadenOK, WorkerType
  <2> QED BY <2>2, <2>3
<1>9. CASE MarkHandled(w) \/ MarkFailed(w)
  BY <1>1, <1>9, Points DEF MarkHandled, MarkFailed
<1>10. CASE ReadAttempts(w)
  <2> DEFINE e == worker[w].event
  <2>1. worker[w].pc \in LadenPc /\ e \in Events /\ outbox[e].attempts \in Nat
    BY <1>10, Points DEF ReadAttempts, RowType, LadenOK
  <2>2. CASE outbox[e].status = "none"
    BY <1>1, <1>10, <2>2, Points DEF ReadAttempts
  <2>3. CASE outbox[e].status # "none"
    <3>1. worker' = [worker EXCEPT ![w] =
                        [@ EXCEPT !.pc = "failing", !.attempts = outbox[e].attempts]]
      BY <1>10, <2>3 DEF ReadAttempts
    <3> HIDE DEF e
    <3>2. worker' \in [Workers -> WorkerType]
      <4>1. "failing" \in WorkerPc
        BY Points
      <4> QED BY <2>1, <3>1, <4>1 DEF WorkerType
    <3>3. LadenOK'
      BY <2>1, <3>1, Points DEF LadenOK, WorkerType
    <3> QED BY <3>2, <3>3
  <2> QED BY <2>2, <2>3
<1>11. CASE CountProcessed(w) \/ CountFailed(w)
  BY <1>11, Points DEF CountProcessed, CountFailed, WorkerType, LadenOK
<1> QED BY <1>2, <1>3, <1>4, <1>5, <1>6, <1>7, <1>8, <1>9, <1>10, <1>11 DEF WorkerStep

\* What a worker writes to the database is a row.
LEMMA WorkerRowTyped ==
  ASSUME worker \in [Workers -> WorkerType], outbox \in [Events -> RowType],
         handled_at \in [Events -> Nat], LadenOK,
         NEW w \in Workers, ClaimNext(w) \/ MarkHandled(w) \/ MarkFailed(w)
  PROVE  outbox' \in [Events -> RowType] /\ handled_at' \in [Events -> Nat]
<1>1. CASE ClaimNext(w)
  <2>1. PICK e \in Events : outbox' = [outbox EXCEPT ![e].status = "in_progress"]
    BY <1>1 DEF ClaimNext
  <2>2. [outbox[e] EXCEPT !.status = "in_progress"] \in RowType
    BY RowEdited DEF RowStatus
  <2>3. outbox' = [outbox EXCEPT ![e] = [outbox[e] EXCEPT !.status = "in_progress"]]
    BY <2>1
  <2>4. outbox' \in [Events -> RowType]
    BY <2>2, <2>3
  <2>5. handled_at' = handled_at
    BY <1>1 DEF ClaimNext
  <2> QED BY <2>4, <2>5
<1>2. CASE MarkHandled(w)
  BY <1>2 DEF MarkHandled, RowType, RowStatus, WorkerType
<1>3. CASE MarkFailed(w)
  <2> DEFINE e == worker[w].event
  <2>1. /\ e \in Events
        /\ worker[w].attempts + 1 \in Nat
        /\ worker[w].retry_in \in Nat
        /\ outbox[e].created \in Nat
    BY <1>3, Points DEF MarkFailed, WorkerType, RowType, LadenOK
  <2> QED BY <1>3, <2>1, RowTyped DEF MarkFailed, Verdict, RowStatus
<1> QED BY <1>1, <1>2, <1>3

\* The steps of process_once keep the types.
LEMMA WorkerTypeInv ==
  ASSUME TypeInv, NEW w \in Workers, Subscribe(w) \/ WorkerStep(w)
  PROVE  TypeInv'
<1>1. worker' \in [Workers -> WorkerType] /\ LadenOK'
  BY WorkerTyped DEF TypeInv, TypeOK
<1>2. ClaimNext(w) \/ MarkHandled(w) \/ MarkFailed(w) =>
        outbox' \in [Events -> RowType] /\ handled_at' \in [Events -> Nat]
  BY WorkerRowTyped DEF TypeInv, TypeOK
<1>3. LastSeen(w) => calls' \in [Events -> Nat]
  <2>1. calls \in [Events -> Nat]
    BY DEF TypeInv, TypeOK
  <2>2. ASSUME LastSeen(w) PROVE calls' = [calls EXCEPT ![worker[w].event] = @ + 1]
    BY <2>2 DEF LastSeen
  <2> QED BY <2>1, <2>2
<1>4. HandlerOk(w) => oks' \in [Events -> Nat]
  <2>1. oks \in [Events -> Nat]
    BY DEF TypeInv, TypeOK
  <2>2. ASSUME HandlerOk(w) PROVE oks' = [oks EXCEPT ![worker[w].event] = @ + 1]
    BY <2>2 DEF HandlerOk
  <2> QED BY <2>1, <2>2
<1> USE <1>1 DEF TypeInv, TypeOK, BegunOK, database, clocks, history
<1>5. CASE Subscribe(w) \/ ClaimNone(w) \/ Wake(w) \/ NotYetHandled(w) \/ HandlerErr(w) \/ ReadAttempts(w)
  BY <1>5 DEF Subscribe, ClaimNone, Wake, NotYetHandled, HandlerErr, ReadAttempts
<1>6. CASE ClaimNext(w) \/ MarkHandled(w) \/ MarkFailed(w)
  BY <1>2, <1>6 DEF ClaimNext, MarkHandled, MarkFailed
<1>7. CASE AlreadyHandled(w)
  BY <1>7 DEF AlreadyHandled, BeginMark
<1>8. CASE LastSeen(w)
  BY <1>3, <1>8 DEF LastSeen
<1>9. CASE HandlerOk(w)
  <2>1. /\ handledClock' \in Nat
        /\ UNCHANGED <<outbox, handled_at, publisher, metrics, publishClock, faults,
                       requeues, inserts, calls>>
    BY <1>9 DEF HandlerOk, BeginMark
  <2> QED BY <1>4, <1>9, <2>1
<1>10. CASE CountProcessed(w) \/ CountFailed(w)
  BY <1>10 DEF CountProcessed, CountFailed
<1> QED BY <1>5, <1>6, <1>7, <1>8, <1>9, <1>10 DEF WorkerStep

\* Time, operators, subscriptions and faults keep the types.
LEMMA EnvironmentTypeInv ==
  ASSUME TypeInv,
         \/ Tick \/ Crash
         \/ \E w \in Workers : DropSubscription(w) \/ DbError(w)
         \/ \E e \in Events : Operator(e)
  PROVE  TypeInv'
<1> USE NoneAssumption, Points DEF TypeInv, TypeOK, LadenOK, BegunOK, database, clocks, history
<1>1. CASE Tick
  <2>1. outbox' \in [Events -> RowType]
    <3>1. \A t \in Nat : Pass(t) \in Nat
      BY DEF Pass
    <3>2. \A e \in Events : outbox[e] \in RowType /\ outbox[e].wait \in Nat
      BY DEF RowType
    <3>3. \A e \in Events : [outbox[e] EXCEPT !.wait = Pass(@)] \in RowType
      BY <3>1, <3>2, RowEdited
    <3> QED BY <1>1, <3>3 DEF Tick
  <2>2. worker' \in [Workers -> WorkerType]
    <3>1. \A t \in Nat : Pass(t) \in Nat
      BY DEF Pass
    <3>2. \A w \in Workers : [worker[w] EXCEPT !.retry_in = Pass(@)] \in WorkerType
      BY <3>1 DEF WorkerType
    <3> QED BY <1>1, <3>2 DEF Tick
  <2>3. \A w \in Workers : worker'[w].pc = worker[w].pc /\ worker'[w].event = worker[w].event
    BY <1>1 DEF Tick, WorkerType
  <2> QED BY <1>1, <2>1, <2>2, <2>3 DEF Tick
<1>2. CASE Crash
  BY <1>2, UnladenTyped, FaultsAssumption DEF Crash, Fault, NotPublishing, NoMetrics, PublisherType, EventOrNone
<1>3. ASSUME NEW w \in Workers, DropSubscription(w) \/ DbError(w) PROVE TypeInv'
  BY <1>3, UnladenTyped, FaultsAssumption DEF DropSubscription, DbError, Fault
<1>4. ASSUME NEW e \in Events, Operator(e) PROVE TypeInv'
  <2>1. CASE RequeueDlq(e)
    <3>1. Row("pending", 0, 0, outbox[e].created) \in RowType
      BY RowTyped DEF RowStatus, RowType
    <3> QED BY <2>1, <3>1 DEF RequeueDlq
  <2>2. CASE ForceRetry(e)
    <3>1. outbox' \in [Events -> RowType]
      <4>1. [[outbox[e] EXCEPT !.status = "pending"] EXCEPT !.wait = 0] \in RowType
        <5>1. outbox[e] \in RowType /\ "pending" \in RowStatus /\ 0 \in Nat
          BY DEF RowStatus
        <5> QED BY <5>1, RowEdited
      <4>2. outbox' = [outbox EXCEPT ![e] = [[outbox[e] EXCEPT !.status = "pending"] EXCEPT !.wait = 0]]
        BY <2>2 DEF ForceRetry
      <4> QED BY <4>1, <4>2
    <3> QED BY <2>2, <3>1 DEF ForceRetry
  <2>3. CASE RemoveRow(e)
    BY <2>3 DEF RemoveRow, NoRow, Row, RowType
  <2> QED BY <1>4, <2>1, <2>2, <2>3 DEF Operator
<1> QED BY <1>1, <1>2, <1>3, <1>4

\* Every step keeps the types.
LEMMA NextTypeInv == TypeInv /\ [Next]_vars => TypeInv'
<1> SUFFICES ASSUME TypeInv, [Next]_vars PROVE TypeInv'
  OBVIOUS
<1>1. CASE UNCHANGED vars
  BY <1>1 DEF vars, TypeInv, TypeOK, LadenOK, BegunOK
<1>2. CASE Next
  BY <1>2, PublisherTypeInv, WorkerTypeInv, EnvironmentTypeInv DEF Next
<1> QED BY <1>1, <1>2

\* The rows, workers, publishers, counters and clocks of the bus are well typed
\* in every reachable state.
THEOREM TypeCorrect == Spec => []TypeOK
<1>1. TypeInv => TypeOK
  BY DEF TypeInv
<1> QED BY <1>1, InitTypeInv, NextTypeInv, PTL DEF Spec

(***************************************************************************)
(* Safety.  ClaimInv is inductive as long as nobody removes claimed rows.   *)
(* Three lemmas say what an action may touch and keep it: a worker and the  *)
(* row it holds or takes, workers that let go, a row that nobody holds.     *)
(***************************************************************************)

ClaimsStay == "in_progress" \notin Removable

Untouched(f) ==
  /\ outbox'[f] = outbox[f]
  /\ handled_at'[f] = handled_at[f]
  /\ calls'[f] = calls[f]
  /\ oks'[f] = oks[f]

\* An event whose row and history a step leaves alone keeps its invariant.
LEMMA EventInvKept ==
  ASSUME NEW f \in Events, EventInv(f), Untouched(f)
  PROVE  EventInv(f)'
BY DEF EventInv, Untouched, Affordable

\* A worker that a step leaves alone, with its row, keeps its invariant.
LEMMA HolderInvKept ==
  ASSUME NEW v \in Workers, HolderInv(v), worker'[v] = worker[v],
         worker[v].pc \in LadenPc => Untouched(worker[v].event)
  PROVE  HolderInv(v)'
BY DEF HolderInv, Untouched

\* A step of worker w that touches no event but e.
LEMMA HeldRow ==
  ASSUME TypeInv, ClaimInv, TypeInv', NEW w \in Workers, NEW e \in Events,
         \A v \in Workers \ {w} : worker'[v] = worker[v] /\ ~Holds(v, e),
         worker'[w].event \in {e, None},
         \A f \in Events \ {e} : Untouched(f),
         EventInv(e)', HolderInv(w)'
  PROVE  ClaimInv'
<1>1. \A f \in Events : EventInv(f)'
  BY EventInvKept DEF ClaimInv
<1>2. ASSUME NEW v \in Workers PROVE HolderInv(v)'
  <2>1. CASE v = w
    BY <2>1
  <2>2. CASE v # w
    <3>1. worker[v].pc \in LadenPc => worker[v].event \in Events \ {e}
      BY <2>2 DEF TypeInv, LadenOK, Holds
    <3> QED BY <2>2, <3>1, HolderInvKept DEF ClaimInv
  <2> QED BY <2>1, <2>2
<1>3. OneHolder'
  BY NoneAssumption DEF ClaimInv, OneHolder, Holds
<1> QED BY <1>1, <1>2, <1>3 DEF ClaimInv

\* A step that leaves the database alone and moves workers between unladen
\* points or unloads them.
LEMMA LetGo ==
  ASSUME TypeInv, ClaimInv, TypeInv',
         \A f \in Events : Untouched(f),
         \A v \in Workers : worker'[v] = worker[v] \/ worker'[v].pc \notin LadenPc
  PROVE  ClaimInv'
<1>1. \A f \in Events : EventInv(f)'
  BY EventInvKept DEF ClaimInv
<1>2. ASSUME NEW v \in Workers PROVE HolderInv(v)'
  <2>1. CASE worker'[v] = worker[v]
    <3>1. worker[v].pc \in LadenPc => worker[v].event \in Events
      BY DEF TypeInv, LadenOK
    <3> QED BY <2>1, <3>1, HolderInvKept DEF ClaimInv
  <2>2. CASE worker'[v].pc \notin LadenPc
    BY <2>2 DEF HolderInv
  <2> QED BY <2>1, <2>2
<1>3. \A v \in Workers, f \in Events : Holds(v, f)' => Holds(v, f)
  BY DEF Holds, TypeInv, LadenOK
<1>4. OneHolder'
  BY <1>3 DEF ClaimInv, OneHolder
<1> QED BY <1>1, <1>2, <1>4 DEF ClaimInv

\* A step that touches one row that is not in_progress, and no worker.
LEMMA FreeRow ==
  ASSUME TypeInv, ClaimInv, NEW e \in Events,
         outbox[e].status # "in_progress",
         worker' = worker,
         \A f \in Events \ {e} : Untouched(f),
         EventInv(e)'
  PROVE  ClaimInv'
<1>1. \A f \in Events : EventInv(f)'
  BY EventInvKept DEF ClaimInv
<1>2. ASSUME NEW v \in Workers PROVE HolderInv(v)'
  <2>1. worker[v].pc \in LadenPc => worker[v].event \in Events \ {e}
    BY DEF TypeInv, LadenOK, ClaimInv, HolderInv
  <2> QED BY <2>1, HolderInvKept DEF ClaimInv
<1>3. OneHolder'
  BY DEF ClaimInv, OneHolder, Holds
<1> QED BY <1>1, <1>2, <1>3 DEF ClaimInv

\* ClaimInv holds of the fresh database.
LEMMA InitClaimInv == Init => ClaimInv
BY NoneAssumption, Points DEF Init, ClaimInv, EventInv, HolderInv, OneHolder, Holds, Unladen, NoRow, Row, Affordable

\* The holder of an event, and that it is alone.
LEMMA Alone ==
  ASSUME TypeInv, ClaimInv, NEW w \in Workers, worker[w].pc \in LadenPc
  PROVE  /\ worker[w].event \in Events
         /\ outbox[worker[w].event].status = "in_progress"
         /\ \A v \in Workers \ {w} : ~Holds(v, worker[w].event)
BY DEF TypeInv, LadenOK, ClaimInv, HolderInv, OneHolder, Holds

\* claim_next takes a row that nobody holds.
LEMMA ClaimNextKeeps ==
  ASSUME TypeInv, ClaimInv, TypeInv', NEW w \in Workers, ClaimNext(w)
  PROVE  ClaimInv'
<1>1. PICK e \in Events :
        /\ OldestDue(e)
        /\ outbox' = [outbox EXCEPT ![e].status = "in_progress"]
        /\ worker' = [worker EXCEPT ![w].pc = "claimed", ![w].event = e]
  BY DEF ClaimNext
<1>2. outbox[e].status \in Claimable
  BY <1>1 DEF OldestDue, Due
<1>3. \A v \in Workers : ~Holds(v, e)
  BY <1>2 DEF Holds, TypeInv, LadenOK, ClaimInv, HolderInv, Claimable
<1>4. /\ outbox'[e].status = "in_progress"
      /\ outbox'[e].attempts = outbox[e].attempts
      /\ \A f \in Events \ {e} : outbox'[f] = outbox[f]
  BY <1>1 DEF TypeInv, TypeOK, RowType
<1>5. /\ worker'[w].pc = "claimed"
      /\ worker'[w].event = e
      /\ \A v \in Workers \ {w} : worker'[v] = worker[v]
  BY <1>1 DEF TypeInv, TypeOK, WorkerType
<1>6. UNCHANGED <<handled_at, calls, oks>>
  BY DEF ClaimNext, history
<1>7. EventInv(e)'
  BY <1>2, <1>4, <1>6 DEF ClaimInv, EventInv, Affordable, Claimable
<1>8. HolderInv(w)'
  BY <1>2, <1>4, <1>5, <1>6 DEF ClaimInv, EventInv, HolderInv, Claimable, TypeInv, TypeOK
<1> QED BY <1>3, <1>4, <1>5, <1>6, <1>7, <1>8, HeldRow DEF Untouched

\* already_handled, last_seen and the call of the handler.
LEMMA HandlingKeeps ==
  ASSUME TypeInv, ClaimInv, TypeInv', NEW w \in Workers,
         AlreadyHandled(w) \/ NotYetHandled(w) \/ LastSeen(w)
  PROVE  ClaimInv'
<1>1. worker[w].pc \in {"claimed", "fresh"}
  BY DEF AlreadyHandled, NotYetHandled, LastSeen
<1>2. worker[w].pc \in LadenPc
  BY <1>1, Points
<1>3. PICK e \in Events :
        /\ worker[w].event = e
        /\ outbox[e].status = "in_progress"
        /\ \A v \in Workers \ {w} : ~Holds(v, e)
  BY <1>2, Alone
<1>4. EventInv(e) /\ HolderInv(w)
  BY <1>3 DEF ClaimInv
<1>5. UNCHANGED <<outbox, handled_at, oks>>
  BY DEF AlreadyHandled, NotYetHandled, LastSeen, database, history
<1> USE <1>2, <1>3
<1>6. CASE AlreadyHandled(w)
  <2>1. /\ worker'[w].pc = "marking" /\ worker'[w].event = e
        /\ worker'[w].stamp > 0
        /\ \A v \in Workers \ {w} : worker'[v] = worker[v]
    <3>1. PICK stamp \in Stamps(handledClock) :
            worker' = [worker EXCEPT ![w].pc = "marking", ![w].stamp = stamp]
      BY <1>6 DEF AlreadyHandled, BeginMark
    <3>2. worker \in [Workers -> WorkerType] /\ stamp > 0
      BY StampTyped DEF TypeInv, TypeOK
    <3> QED BY <3>1, <3>2 DEF WorkerType
  <2>2. calls' = calls
    BY <1>6 DEF AlreadyHandled, history
  <2>3. \A f \in Events : Untouched(f)
    BY <1>5, <2>2 DEF Untouched
  <2>4. HolderInv(w)'
    BY <1>4, <1>5, <1>6, <2>1, <2>2 DEF HolderInv, AlreadyHandled, EventInv
  <2>5. EventInv(e)'
    BY <1>4, <2>3, EventInvKept
  <2> QED BY <2>1, <2>3, <2>4, <2>5, HeldRow
<1>7. CASE NotYetHandled(w)
  <2>1. /\ worker'[w].pc = "fresh" /\ worker'[w].event = e
        /\ \A v \in Workers \ {w} : worker'[v] = worker[v]
    BY <1>7 DEF NotYetHandled, TypeInv, TypeOK, WorkerType
  <2>2. calls' = calls
    BY <1>7 DEF NotYetHandled, history
  <2>3. \A f \in Events : Untouched(f)
    BY <1>5, <2>2 DEF Untouched
  <2>4. HolderInv(w)'
    BY <1>4, <1>5, <1>7, <2>1, <2>2 DEF HolderInv, NotYetHandled
  <2>5. EventInv(e)'
    BY <1>4, <2>3, EventInvKept
  <2> QED BY <2>1, <2>3, <2>4, <2>5, HeldRow
<1>8. CASE LastSeen(w)
  <2>1. handled_at[e] = 0
    <3>1. oks[e] = 0
      BY <1>4, <1>8 DEF LastSeen, HolderInv
    <3>2. handled_at[e] \in Nat
      BY DEF TypeInv, TypeOK
    <3> QED BY <1>4, <3>1, <3>2 DEF EventInv
  <2>2. PICK seen \in EventOrNone :
          /\ seen # None => IsLastSeen(seen)
          /\ worker' = [worker EXCEPT ![w].pc = "calling", ![w].last_seen = seen]
    BY <1>8 DEF LastSeen
  <2>3. seen # e
    BY <2>1, <2>2, NoneAssumption DEF IsLastSeen
  <2>4. /\ worker'[w].pc = "calling" /\ worker'[w].event = e
        /\ worker'[w].last_seen # e
        /\ \A v \in Workers \ {w} : worker'[v] = worker[v]
    BY <2>2, <2>3 DEF TypeInv, TypeOK, WorkerType
  <2>5. /\ calls'[e] = calls[e] + 1
        /\ \A f \in Events \ {e} : calls'[f] = calls[f]
    BY <1>8 DEF LastSeen, TypeInv, TypeOK
  <2>6. calls[e] = outbox[e].attempts /\ oks[e] = 0
    BY <1>4, <1>8 DEF LastSeen, HolderInv
  <2>7. HolderInv(w)'
    BY <1>5, <2>4, <2>5, <2>6 DEF HolderInv
  <2>8. EventInv(e)'
    BY <1>4, <1>5, <2>5, <2>6 DEF EventInv, Affordable
  <2> QED BY <1>5, <2>4, <2>5, <2>7, <2>8, HeldRow DEF Untouched
<1> QED BY <1>6, <1>7, <1>8

\* The handler returned, Ok or Err.
LEMMA VerdictKeeps ==
  ASSUME TypeInv, ClaimInv, TypeInv', NEW w \in Workers, HandlerOk(w) \/ HandlerErr(w)
  PROVE  ClaimInv'
<1>1. worker[w].pc = "calling"
  BY DEF HandlerOk, HandlerErr
<1>2. worker[w].pc \in LadenPc
  BY <1>1, Points
<1>3. PICK e \in Events :
        /\ worker[w].event = e
        /\ outbox[e].status = "in_progress"
        /\ \A v \in Workers \ {w} : ~Holds(v, e)
  BY <1>2, Alone
<1>4. EventInv(e) /\ HolderInv(w)
  BY <1>3 DEF ClaimInv
<1>5. oks[e] = 0 /\ calls[e] = outbox[e].attempts + 1
  BY <1>1, <1>2, <1>3, <1>4 DEF HolderInv
<1>6. UNCHANGED <<outbox, handled_at, calls>>
  BY DEF HandlerOk, HandlerErr, database, history
<1>7. CASE HandlerOk(w)
  <2>1. /\ worker'[w].pc = "marking" /\ worker'[w].event = e
        /\ worker'[w].stamp > 0
        /\ \A v \in Workers \ {w} : worker'[v] = worker[v]
    <3>1. PICK stamp \in Stamps(handledClock) :
            worker' = [worker EXCEPT ![w].pc = "marking", ![w].stamp = stamp]
      BY <1>7 DEF HandlerOk, BeginMark
    <3>2. worker \in [Workers -> WorkerType] /\ stamp > 0
      BY StampTyped DEF TypeInv, TypeOK
    <3> QED BY <1>3, <3>1, <3>2 DEF WorkerType
  <2>2. /\ oks'[e] = 1
        /\ \A f \in Events \ {e} : oks'[f] = oks[f]
    BY <1>3, <1>5, <1>7 DEF HandlerOk, TypeInv, TypeOK
  <2>3. HolderInv(w)'
    BY <1>3, <1>6, <2>1, <2>2 DEF HolderInv
  <2>4. EventInv(e)'
    BY <1>3, <1>4, <1>6, <2>2 DEF EventInv, Affordable
  <2> QED BY <1>3, <1>6, <2>1, <2>2, <2>3, <2>4, HeldRow DEF Untouched
<1>8. CASE HandlerErr(w)
  <2>1. /\ worker'[w].pc = "nacked" /\ worker'[w].event = e
        /\ \A v \in Workers \ {w} : worker'[v] = worker[v]
    BY <1>3, <1>8 DEF HandlerErr, TypeInv, TypeOK, WorkerType
  <2>2. oks' = oks
    BY <1>8 DEF HandlerErr, history
  <2>3. \A f \in Events : Untouched(f)
    BY <1>6, <2>2 DEF Untouched
  <2>4. HolderInv(w)'
    BY <1>3, <1>5, <1>6, <2>1, <2>2 DEF HolderInv
  <2>5. EventInv(e)'
    BY <1>3, <1>4, <2>3, EventInvKept
  <2> QED BY <1>3, <2>1, <2>3, <2>4, <2>5, HeldRow
<1> QED BY <1>7, <1>8

\* mark_handled and the two statements of mark_failed.
LEMMA RecordKeeps ==
  ASSUME TypeInv, ClaimInv, TypeInv', NEW w \in Workers,
         MarkHandled(w) \/ ReadAttempts(w) \/ MarkFailed(w)
  PROVE  ClaimInv'
<1>1. worker[w].pc \in {"marking", "nacked", "failing"}
  BY DEF MarkHandled, ReadAttempts, MarkFailed
<1>2. worker[w].pc \in LadenPc
  BY <1>1, Points
<1>3. PICK e \in Events :
        /\ worker[w].event = e
        /\ outbox[e].status = "in_progress"
        /\ \A v \in Workers \ {w} : ~Holds(v, e)
  BY <1>2, Alone
<1>4. EventInv(e) /\ HolderInv(w)
  BY <1>3 DEF ClaimInv
<1>5. UNCHANGED <<calls, oks>>
  BY DEF MarkHandled, ReadAttempts, MarkFailed, history
<1>6. CASE MarkHandled(w)
  <2>1. worker'[w] = Unladen("processed") /\ \A v \in Workers \ {w} : worker'[v] = worker[v]
    BY <1>6 DEF MarkHandled, TypeInv, TypeOK
  <2>2. worker'[w].pc \notin LadenPc /\ worker'[w].event = None
    BY <2>1, Points, UnladenTyped
  <2>3. /\ outbox'[e].status = "acked"
        /\ outbox'[e].attempts = outbox[e].attempts
        /\ \A f \in Events \ {e} : outbox'[f] = outbox[f]
    BY <1>3, <1>6 DEF MarkHandled, TypeInv, TypeOK, RowType
  <2>4. oks[e] = 1 /\ worker[w].stamp > 0
    BY <1>2, <1>3, <1>4, <1>6 DEF MarkHandled, HolderInv
  <2>5. handled_at'[e] > 0 /\ \A f \in Events \ {e} : handled_at'[f] = handled_at[f]
    BY <1>3, <1>6, <2>4 DEF MarkHandled, TypeInv, TypeOK
  <2>6. HolderInv(w)'
    BY <2>2 DEF HolderInv
  <2>7. EventInv(e)'
    BY <1>3, <1>4, <1>5, <2>3, <2>4, <2>5 DEF EventInv, Affordable
  <2> QED BY <1>3, <1>5, <2>1, <2>2, <2>3, <2>5, <2>6, <2>7, HeldRow DEF Untouched
<1>7. CASE ReadAttempts(w)
  <2>1. worker' = [worker EXCEPT ![w] =
                      [@ EXCEPT !.pc = "failing", !.attempts = outbox[e].attempts]]
    BY <1>3, <1>7 DEF ReadAttempts
  <2>2. /\ worker'[w].pc = "failing" /\ worker'[w].event = e
        /\ worker'[w].attempts = outbox[e].attempts
        /\ \A v \in Workers \ {w} : worker'[v] = worker[v]
    BY <1>3, <2>1 DEF TypeInv, TypeOK, WorkerType
  <2>3. UNCHANGED <<outbox, handled_at>>
    BY <1>7 DEF ReadAttempts, database
  <2>4. \A f \in Events : Untouched(f)
    BY <1>5, <2>3 DEF Untouched
  <2>5. HolderInv(w)'
    BY <1>2, <1>3, <1>4, <1>5, <1>7, <2>2, <2>3 DEF HolderInv, ReadAttempts
  <2>6. EventInv(e)'
    BY <1>3, <1>4, <2>4, EventInvKept
  <2> QED BY <1>3, <2>2, <2>4, <2>5, <2>6, HeldRow
<1>8. CASE MarkFailed(w)
  <2> DEFINE n == outbox[e].attempts
             status == IF n + 1 >= MaxRetries[w] THEN "dlq" ELSE "retrying"
  <2>1. worker'[w] = Unladen("failed") /\ \A v \in Workers \ {w} : worker'[v] = worker[v]
    BY <1>8 DEF MarkFailed, TypeInv, TypeOK
  <2>2. worker'[w].pc \notin LadenPc /\ worker'[w].event = None
    BY <2>1, Points, UnladenTyped
  <2>3. worker[w].attempts = n /\ oks[e] = 0 /\ calls[e] = n + 1 /\ n \in Nat
    BY <1>2, <1>3, <1>4, <1>8 DEF MarkFailed, HolderInv, TypeInv, TypeOK, RowType
  <2>4. outbox' = [outbox EXCEPT ![e] = Row(status, n + 1, worker[w].retry_in, @.created)]
    BY <1>3, <1>8, <2>3 DEF MarkFailed, Verdict
  <2>5. /\ outbox'[e].status = status
        /\ outbox'[e].attempts = n + 1
        /\ \A f \in Events \ {e} : outbox'[f] = outbox[f]
    BY <1>3, <2>4 DEF Row, TypeInv, TypeOK
  <2>6. handled_at' = handled_at /\ handled_at[e] = 0
    BY <1>3, <1>4, <1>8, <2>3 DEF MarkFailed, EventInv, TypeInv, TypeOK
  <2>7. HolderInv(w)'
    BY <2>2 DEF HolderInv
  <2>8. /\ status = "dlq" => n + 1 >= MaxRetries[w]
        /\ status # "dlq" => n + 1 < MaxRetries[w]
        /\ n + 1 > 1 => \E v \in Workers : n + 1 <= MaxRetries[v]
    BY <1>3, <1>4, <2>3, RetriesAssumption DEF EventInv, Affordable
  <2>9. EventInv(e)'
    BY <1>5, <2>3, <2>5, <2>6, <2>8 DEF EventInv, Affordable
  <2> QED BY <1>3, <1>5, <2>1, <2>2, <2>5, <2>6, <2>7, <2>9, HeldRow DEF Untouched
<1> QED BY <1>6, <1>7, <1>8

\* Everything that neither touches a row nor takes one up.
LEMMA LetGoKeeps ==
  ASSUME TypeInv, ClaimInv, TypeInv',
         \/ \E w \in Workers :
              \/ Subscribe(w) \/ ClaimNone(w) \/ Wake(w)
              \/ CountProcessed(w) \/ CountFailed(w)
              \/ DropSubscription(w) \/ DbError(w)
         \/ \E p \in Publishers :
              PublishAck(p) \/ AbandonPublish(p) \/ \E e \in Events : PublishBegin(p, e)
         \/ Crash
         \/ UNCHANGED vars
  PROVE  ClaimInv'
<1>1. \A f \in Events : Untouched(f)
  BY DEF Untouched, Subscribe, ClaimNone, Wake, CountProcessed, CountFailed, DropSubscription,
         DbError, PublishAck, AbandonPublish, PublishBegin, Crash, database, history, vars
<1>2. \A v \in Workers : worker'[v] = worker[v] \/ worker'[v].pc \notin LadenPc
  <2>1. ASSUME NEW w \in Workers,
               \/ Subscribe(w) \/ ClaimNone(w) \/ Wake(w)
               \/ CountProcessed(w) \/ CountFailed(w)
               \/ DropSubscription(w) \/ DbError(w)
        PROVE  \A v \in Workers : worker'[v] = worker[v] \/ worker'[v].pc \notin LadenPc
    BY <2>1, Points, UnladenTyped
    DEF Subscribe, ClaimNone, Wake, CountProcessed, CountFailed, DropSubscription, DbError,
        TypeInv, TypeOK, WorkerType
  <2>2. ASSUME Crash PROVE \A v \in Workers : worker'[v].pc \notin LadenPc
    BY <2>2, Points, UnladenTyped DEF Crash
  <2> QED BY <2>1, <2>2 DEF PublishAck, AbandonPublish, PublishBegin, vars
<1> QED BY <1>1, <1>2, LetGo

\* Time runs in the rows and in the workers, and changes nothing that matters here.
LEMMA TickKeeps ==
  ASSUME TypeInv, ClaimInv, Tick
  PROVE  ClaimInv'
<1>1. ASSUME NEW f \in Events PROVE EventInv(f)'
  <2>1. /\ outbox'[f].status = outbox[f].status
        /\ outbox'[f].attempts = outbox[f].attempts
    BY DEF Tick, TypeInv, TypeOK, RowType
  <2> QED BY <2>1 DEF ClaimInv, EventInv, Affordable, Tick, history
<1>2. ASSUME NEW v \in Workers
      PROVE  /\ worker'[v].pc = worker[v].pc /\ worker'[v].event = worker[v].event
             /\ worker'[v].last_seen = worker[v].last_seen
             /\ worker'[v].attempts = worker[v].attempts
             /\ worker'[v].stamp = worker[v].stamp
  BY DEF Tick, TypeInv, TypeOK, WorkerType
<1>3. ASSUME NEW v \in Workers PROVE HolderInv(v)'
  <2>1. CASE worker[v].pc \in LadenPc
    <3>1. PICK e \in Events : worker[v].event = e
      BY <2>1 DEF TypeInv, LadenOK
    <3>2. /\ outbox'[e].status = outbox[e].status
          /\ outbox'[e].attempts = outbox[e].attempts
      BY DEF Tick, TypeInv, TypeOK, RowType
    <3>3. UNCHANGED <<handled_at, calls, oks>>
      BY DEF Tick, history
    <3> QED BY <1>2, <2>1, <3>1, <3>2, <3>3 DEF ClaimInv, HolderInv
  <2>2. CASE worker[v].pc \notin LadenPc
    BY <1>2, <2>2 DEF HolderInv
  <2> QED BY <2>1, <2>2
<1>4. OneHolder'
  BY <1>2 DEF ClaimInv, OneHolder, Holds
<1> QED BY <1>1, <1>3, <1>4 DEF ClaimInv

\* An insert finds no row; operators touch rows that are not in_progress.
LEMMA FreeRowKeeps ==
  ASSUME ClaimsStay, TypeInv, ClaimInv,
         \/ \E p \in Publishers : PublishInsert(p)
         \/ \E e \in Events : Operator(e)
  PROVE  ClaimInv'
<1>1. ASSUME NEW p \in Publishers, PublishInsert(p) PROVE ClaimInv'
  <2>1. PICK e \in Events : publisher[p].event = e
    BY <1>1 DEF PublishInsert, TypeInv, BegunOK
  <2>2. UNCHANGED <<worker, handled_at, calls, oks>>
    BY <1>1 DEF PublishInsert
  <2>3. CASE outbox[e].status = "none"
    <3>1. /\ outbox'[e].status = "pending" /\ outbox'[e].attempts = 0
          /\ \A f \in Events \ {e} : outbox'[f] = outbox[f]
      BY <1>1, <2>1, <2>3 DEF PublishInsert, Row, TypeInv, TypeOK
    <3>2. EventInv(e)'
      BY <2>2, <2>3, <3>1 DEF ClaimInv, EventInv, Affordable
    <3> QED BY <2>2, <2>3, <3>1, <3>2, FreeRow DEF Untouched
  <2>4. CASE outbox[e].status # "none"
    <3>1. outbox' = outbox
      BY <1>1, <2>1, <2>4 DEF PublishInsert
    <3> QED BY <2>2, <3>1 DEF ClaimInv, EventInv, HolderInv, OneHolder, Holds, Affordable
  <2> QED BY <2>3, <2>4
<1>2. ASSUME NEW e \in Events, Operator(e) PROVE ClaimInv'
  <2>1. outbox[e].status # "in_progress"
    BY <1>2 DEF ClaimsStay, Operator, RequeueDlq, ForceRetry, RemoveRow
  <2>2. EventInv(e) /\ handled_at[e] \in Nat /\ outbox[e].attempts \in Nat
    BY DEF ClaimInv, TypeInv, TypeOK, RowType
  <2>3. UNCHANGED <<worker, handled_at, oks>>
    BY <1>2 DEF Operator, RequeueDlq, ForceRetry, RemoveRow, history
  <2>4. \A f \in Events \ {e} : Untouched(f)
    BY <1>2 DEF Operator, RequeueDlq, ForceRetry, RemoveRow, Untouched, TypeInv, TypeOK, history
  <2>5. CASE RequeueDlq(e)
    <3>1. outbox'[e].status = "pending" /\ outbox'[e].attempts = 0 /\ calls'[e] = 0
      BY <2>5 DEF RequeueDlq, Row, TypeInv, TypeOK
    <3>2. EventInv(e)'
      BY <2>2, <2>3, <2>5, <3>1 DEF EventInv, RequeueDlq, Affordable
    <3> QED BY <2>1, <2>3, <2>4, <3>2, FreeRow
  <2>6. CASE ForceRetry(e)
    <3>1. /\ outbox'[e].status = "pending"
          /\ outbox'[e].attempts = outbox[e].attempts
          /\ calls'[e] = calls[e]
      BY <2>6 DEF ForceRetry, TypeInv, TypeOK, RowType, history
    <3>2. EventInv(e)'
      BY <2>2, <2>3, <2>6, <3>1 DEF EventInv, ForceRetry, Affordable
    <3> QED BY <2>1, <2>3, <2>4, <3>2, FreeRow
  <2>7. CASE RemoveRow(e)
    <3>1. outbox'[e].status = "none" /\ outbox'[e].attempts = 0 /\ calls'[e] = 0
      BY <2>7 DEF RemoveRow, NoRow, Row, TypeInv, TypeOK
    <3>2. EventInv(e)'
      BY <2>1, <2>2, <2>3, <3>1 DEF EventInv, Affordable
    <3> QED BY <2>1, <2>3, <2>4, <3>2, FreeRow
  <2> QED BY <1>2, <2>5, <2>6, <2>7 DEF Operator
<1> QED BY <1>1, <1>2

\* Every step keeps ClaimInv, if operators leave claimed rows alone.
LEMMA NextClaimInv ==
  ASSUME ClaimsStay
  PROVE  TypeInv /\ TypeInv' /\ ClaimInv /\ [Next]_vars => ClaimInv'
<1> SUFFICES ASSUME TypeInv, TypeInv', ClaimInv, [Next]_vars PROVE ClaimInv'
  OBVIOUS
<1>1. CASE UNCHANGED vars
  BY <1>1, LetGoKeeps
<1>2. ASSUME NEW p \in Publishers,
             PublisherStep(p) \/ AbandonPublish(p) \/ \E e \in Events : PublishBegin(p, e)
      PROVE  ClaimInv'
  BY <1>2, LetGoKeeps, FreeRowKeeps DEF PublisherStep
<1>3. ASSUME NEW w \in Workers,
             Subscribe(w) \/ WorkerStep(w) \/ DropSubscription(w) \/ DbError(w)
      PROVE  ClaimInv'
  BY <1>3, LetGoKeeps, ClaimNextKeeps, HandlingKeeps, VerdictKeeps, RecordKeeps DEF WorkerStep
<1>4. CASE (\E e \in Events : Operator(e)) \/ Tick \/ Crash
  BY <1>4, LetGoKeeps, FreeRowKeeps, TickKeeps
<1> QED BY <1>1, <1>2, <1>3, <1>4 DEF Next

\* Types and ClaimInv hold in every reachable state.
LEMMA SafetyInvariant ==
  ASSUME ClaimsStay
  PROVE  Spec => [](TypeInv /\ ClaimInv)
<1>1. TypeInv /\ ClaimInv /\ [Next]_vars => (TypeInv /\ ClaimInv)'
  BY NextTypeInv, NextClaimInv
<1> QED BY <1>1, InitTypeInv, InitClaimInv, PTL DEF Spec

\* The inductive invariant holds in every reachable state, whatever faults
\* strike, as long as nobody removes claimed rows.
THEOREM ClaimsConsistent ==
  ASSUME ClaimsStay
  PROVE  Spec => []ClaimInv
BY SafetyInvariant, PTL

\* ClaimInv is strong enough for every property below.
LEMMA ClaimInvImplies ==
  TypeInv /\ ClaimInv =>
    /\ ExclusiveClaim
    /\ NeverCalledAgain
    /\ CallsAccounted
    /\ RetryBudget
    /\ OwnIdNeverLastSeen
<1> SUFFICES ASSUME TypeInv, ClaimInv
    PROVE  /\ ExclusiveClaim /\ NeverCalledAgain /\ CallsAccounted
           /\ RetryBudget /\ OwnIdNeverLastSeen
  OBVIOUS
<1>1. ExclusiveClaim
  BY DEF ExclusiveClaim, ClaimInv, OneHolder, HolderInv, Holds, TypeInv, LadenOK
<1>2. NeverCalledAgain
  <2>1. \A e \in Events : oks[e] <= 1
    BY DEF ClaimInv, EventInv
  <2>2. ASSUME NEW e \in Events, NEW w \in Workers, oks[e] = 1, Holds(w, e)
        PROVE  worker[w].pc \notin {"fresh", "calling"}
    BY <2>2, Points DEF ClaimInv, HolderInv, Holds
  <2> QED BY <2>1, <2>2 DEF NeverCalledAgain
<1>3. CallsAccounted
  BY DEF CallsAccounted, Claimable, ClaimInv, EventInv
<1>4. RetryBudget
  <2> SUFFICES ASSUME NEW e \in Events, calls[e] > 1
               PROVE  \E w \in Workers : calls[e] <= MaxRetries[w]
    BY DEF RetryBudget
  <2> DEFINE n == outbox[e].attempts
  <2>1. EventInv(e) /\ n \in Nat
    BY DEF ClaimInv, TypeInv, TypeOK, RowType
  <2>2. CASE calls[e] = n
    BY <2>1, <2>2 DEF EventInv
  <2>3. CASE calls[e] = n + 1
    <3>1. outbox[e].status # "dlq" /\ n > 0
      BY <2>1, <2>3 DEF EventInv
    <3>2. PICK w \in Workers : n < MaxRetries[w]
      BY <2>1, <3>1 DEF EventInv, Affordable
    <3> QED BY <2>1, <2>3, <3>2, RetriesAssumption
  <2> QED BY <2>1, <2>2, <2>3 DEF EventInv
<1>5. OwnIdNeverLastSeen
  BY Points DEF OwnIdNeverLastSeen, ClaimInv, HolderInv
<1> QED BY <1>1, <1>2, <1>3, <1>4, <1>5

\* Two workers never hold the same event, and a held row stays in_progress
\* (claim_next).
THEOREM ClaimsExclusive ==
  ASSUME ClaimsStay
  PROVE  Spec => []ExclusiveClaim
BY SafetyInvariant, ClaimInvImplies, PTL

\* After a handler returned Ok for an event no handler is called for it again
\* (process_once).
THEOREM CalledOnceDone ==
  ASSUME ClaimsStay
  PROVE  Spec => []NeverCalledAgain
BY SafetyInvariant, ClaimInvImplies, PTL

\* The attempts of a waiting or dead row are its handler calls (mark_failed).
THEOREM AttemptsCountCalls ==
  ASSUME ClaimsStay
  PROVE  Spec => []CallsAccounted
BY SafetyInvariant, ClaimInvImplies, PTL

\* A handler is called once for an event, or as often as the most generous
\* clone of the bus allows (mark_failed).
THEOREM BudgetKept ==
  ASSUME ClaimsStay
  PROVE  Spec => []RetryBudget
BY SafetyInvariant, ClaimInvImplies, PTL

\* A verdict is that of the holder, whose copy of attempts is the row's, which
\* are one less than the calls.
LEMMA HolderJudges ==
  ASSUME TypeInv, ClaimInv, NEW w \in Workers, MarkFailed(w), NEW e \in Events,
         NEW status \in {"dlq", "retrying"}, Becomes(e, status)
  PROVE  /\ LetsGo(w, e)
         /\ status = "dlq" => calls[e] >= MaxRetries[w]
         /\ status = "retrying" => calls[e] < MaxRetries[w]
<1>1. worker[w].event = e
  BY DEF MarkFailed, Becomes, TypeInv, TypeOK
<1>2. worker[w].pc = "failing" /\ worker[w].pc \in LadenPc
  BY Points DEF MarkFailed
<1>3. /\ outbox[e].status = "in_progress" /\ worker[w].attempts = outbox[e].attempts
      /\ calls[e] = outbox[e].attempts + 1
  BY <1>1, <1>2 DEF ClaimInv, HolderInv
<1>4. LetsGo(w, e)
  <2>1. worker'[w] = Unladen("failed")
    BY DEF MarkFailed, TypeInv, TypeOK
  <2>2. worker'[w].event = None
    BY <2>1 DEF Unladen
  <2> QED BY <1>1, <2>2, NoneAssumption DEF LetsGo, Holds
<1>5. status = Verdict(w, calls[e])
  <2>1. outbox' = [outbox EXCEPT ![e] =
                      Row(Verdict(w, calls[e]), calls[e], worker[w].retry_in, @.created)]
    BY <1>1, <1>3 DEF MarkFailed
  <2> QED BY <2>1 DEF Becomes, Row, TypeInv, TypeOK
<1>6. calls[e] \in Int /\ MaxRetries[w] \in Int
  BY RetriesAssumption DEF TypeInv, TypeOK
<1> QED BY <1>4, <1>5, <1>6 DEF Verdict

\* Rows are buried by clones whose own budget is spent, and put back by clones
\* whose budget is not (mark_failed).
THEOREM VerdictsFit ==
  ASSUME ClaimsStay
  PROVE  Spec => VerdictsFitBudget
<1>1. ASSUME TypeInv, ClaimInv, Next, NEW e \in Events,
             NEW status \in {"dlq", "retrying"}, Becomes(e, status)
      PROVE  \E w \in Workers : MarkFailed(w)
  <2>1. /\ outbox \in [Events -> RowType]
        /\ outbox[e].status # status /\ outbox'[e].status = status
    BY <1>1 DEF TypeInv, TypeOK, Becomes
  <2>2. ~UNCHANGED outbox
    BY <2>1
  <2>3. ASSUME NEW w \in Workers, ClaimNext(w) \/ MarkHandled(w) PROVE FALSE
    <3>1. ~ClaimNext(w)
      BY <2>1 DEF ClaimNext, RowType
    <3>2. ~MarkHandled(w)
      BY <2>1 DEF MarkHandled, RowType
    <3> QED BY <2>3, <3>1, <3>2
  <2>4. ~Tick
    BY <2>1 DEF Tick, RowType
  <2>5. ASSUME NEW f \in Events, Operator(f) PROVE FALSE
    BY <2>1, <2>5 DEF Operator, RequeueDlq, ForceRetry, RemoveRow, NoRow, Row, RowType
  <2>6. ASSUME NEW p \in Publishers, PublishInsert(p) PROVE FALSE
    BY <2>1, <2>6 DEF PublishInsert, Row
  <2>7. \/ UNCHANGED outbox \/ Tick
        \/ \E w \in Workers : ClaimNext(w) \/ MarkHandled(w) \/ MarkFailed(w)
        \/ \E f \in Events : Operator(f)
        \/ \E p \in Publishers : PublishInsert(p)
    BY <1>1 DEF Next, PublishBegin, PublisherStep, PublishAck, AbandonPublish, Subscribe, WorkerStep,
       ClaimNone, Wake, AlreadyHandled, NotYetHandled, LastSeen, HandlerOk, HandlerErr, ReadAttempts,
       CountProcessed, CountFailed, DropSubscription, DbError, Crash, database
  <2> QED BY <2>2, <2>3, <2>4, <2>5, <2>6, <2>7
<1>2. ASSUME TypeInv, ClaimInv, Next, NEW e \in Events
      PROVE  /\ Becomes(e, "dlq") =>
                   \E w \in Workers : LetsGo(w, e) /\ calls[e] >= MaxRetries[w]
             /\ Becomes(e, "retrying") =>
                   \E w \in Workers : LetsGo(w, e) /\ calls[e] < MaxRetries[w]
  <2>1. ASSUME Becomes(e, "dlq")
        PROVE  \E w \in Workers : LetsGo(w, e) /\ calls[e] >= MaxRetries[w]
    BY <1>1, <1>2, <2>1, HolderJudges
  <2>2. ASSUME Becomes(e, "retrying")
        PROVE  \E w \in Workers : LetsGo(w, e) /\ calls[e] < MaxRetries[w]
    BY <1>1, <1>2, <2>2, HolderJudges
  <2> QED BY <2>1, <2>2
<1>3. TypeInv /\ ClaimInv /\ [Next]_vars =>
        [\A e \in Events :
            /\ Becomes(e, "dlq") =>
                  \E w \in Workers : LetsGo(w, e) /\ calls[e] >= MaxRetries[w]
            /\ Becomes(e, "retrying") =>
                  \E w \in Workers : LetsGo(w, e) /\ calls[e] < MaxRetries[w]]_vars
  BY <1>2
<1> QED BY <1>3, SafetyInvariant, PTL DEF Spec, VerdictsFitBudget

\* A handler is never told that its own event was the last one handled
\* (last_seen).
THEOREM LastSeenIsAnother ==
  ASSUME ClaimsStay
  PROVE  Spec => []OwnIdNeverLastSeen
BY SafetyInvariant, ClaimInvImplies, PTL

(***************************************************************************)
(* What acked means, also when claimed rows are deleted: whoever comes to   *)
(* mark_handled comes from an Ok or from a row of handled_events, and       *)
(* neither is ever taken back, although the row may have become another's.  *)
(***************************************************************************)

MarkingIsEarned ==
    \A w \in Workers :
        worker[w].pc = "marking" => oks[worker[w].event] > 0 /\ worker[w].stamp > 0

\* A step that acks nothing and begins to mark only what was earned.
LEMMA MarksKept ==
  ASSUME TypeInv, AckedWasProcessed, MarkingIsEarned,
         handled_at' = handled_at,
         \A e \in Events : oks'[e] \in {oks[e], oks[e] + 1},
         \A e \in Events : outbox'[e].status = "acked" => outbox[e].status = "acked",
         \A w \in Workers : worker'[w].pc = "marking" =>
            \/ /\ worker[w].pc = "marking" /\ worker'[w].stamp = worker[w].stamp
               /\ worker'[w].event = worker[w].event
            \/ oks'[worker'[w].event] > 0 /\ worker'[w].stamp > 0
  PROVE  (AckedWasProcessed /\ MarkingIsEarned)'
<1>1. \A e \in Events : oks[e] > 0 => oks'[e] > 0
  BY DEF TypeInv, TypeOK
<1>2. AckedWasProcessed'
  BY <1>1 DEF AckedWasProcessed
<1>3. MarkingIsEarned'
  BY <1>1, Points DEF MarkingIsEarned, TypeInv, LadenOK
<1> QED BY <1>2, <1>3

\* process_once and subscribe.
LEMMA WorkerMarks ==
  ASSUME TypeInv, AckedWasProcessed, MarkingIsEarned,
         NEW w \in Workers, Subscribe(w) \/ WorkerStep(w)
  PROVE  (AckedWasProcessed /\ MarkingIsEarned)'
<1> USE DEF database, clocks, history
<1>1. /\ worker \in [Workers -> WorkerType] /\ outbox \in [Events -> RowType]
      /\ handled_at \in [Events -> Nat] /\ oks \in [Events -> Nat] /\ handledClock \in Nat
      /\ worker[w].pc \in LadenPc <=> worker[w].event \in Events
  BY DEF TypeInv, TypeOK, LadenOK
<1>2. \A v \in Workers \ {w} : worker'[v] = worker[v]
  BY <1>1 DEF Subscribe, WorkerStep, ClaimNext, ClaimNone, Wake, AlreadyHandled, NotYetHandled, LastSeen,
     HandlerOk, HandlerErr, BeginMark, MarkHandled, ReadAttempts, MarkFailed, CountProcessed, CountFailed
<1>3. CASE \/ Subscribe(w) \/ ClaimNone(w) \/ Wake(w) \/ NotYetHandled(w) \/ HandlerErr(w)
           \/ ReadAttempts(w) \/ CountProcessed(w) \/ CountFailed(w) \/ LastSeen(w) \/ ClaimNext(w)
           \/ MarkFailed(w)
  <2>1. worker'[w].pc # "marking"
    <3>1. CASE ClaimNext(w)
      <4>1. PICK e \in Events : worker' = [worker EXCEPT ![w].pc = "claimed", ![w].event = e]
        BY <3>1 DEF ClaimNext
      <4> QED BY <1>1, <4>1 DEF WorkerType
    <3>2. CASE LastSeen(w)
      <4>1. PICK seen \in EventOrNone :
              worker' = [worker EXCEPT ![w].pc = "calling", ![w].last_seen = seen]
        BY <3>2 DEF LastSeen
      <4> QED BY <1>1, <4>1 DEF WorkerType
    <3>3. CASE \/ Subscribe(w) \/ ClaimNone(w) \/ Wake(w) \/ MarkFailed(w)
               \/ CountProcessed(w) \/ CountFailed(w)
      BY <1>1, <3>3 DEF Subscribe, ClaimNone, Wake, MarkFailed, CountProcessed, CountFailed,
         Unladen, WorkerType
    <3>4. CASE NotYetHandled(w) \/ HandlerErr(w)
      BY <1>1, <3>4 DEF NotYetHandled, HandlerErr, WorkerType
    <3>5. CASE ReadAttempts(w)
      BY <1>1, <3>5 DEF ReadAttempts, Unladen, WorkerType
    <3> QED BY <1>3, <3>1, <3>2, <3>3, <3>4, <3>5
  <2>2. UNCHANGED <<handled_at, oks>>
    BY <1>3 DEF Subscribe, ClaimNone, Wake, NotYetHandled, HandlerErr, ReadAttempts, CountProcessed,
       CountFailed, LastSeen, ClaimNext, MarkFailed
  <2>3. \A e \in Events : outbox'[e].status = "acked" => outbox[e].status = "acked"
    <3>1. CASE ClaimNext(w)
      BY <1>1, <3>1 DEF ClaimNext, RowType
    <3>2. CASE MarkFailed(w)
      BY <1>1, <3>2 DEF MarkFailed, Verdict, Row
    <3>3. CASE UNCHANGED outbox
      BY <3>3
    <3> QED BY <1>3, <3>1, <3>2, <3>3 DEF Subscribe, ClaimNone, Wake, NotYetHandled, HandlerErr,
            ReadAttempts, CountProcessed, CountFailed, LastSeen
  <2> QED BY <1>2, <2>1, <2>2, <2>3, MarksKept
<1>4. CASE AlreadyHandled(w) \/ HandlerOk(w)
  <2>1. PICK stamp \in Stamps(handledClock) :
          worker' = [worker EXCEPT ![w].pc = "marking", ![w].stamp = stamp]
    BY <1>4 DEF AlreadyHandled, HandlerOk, BeginMark
  <2>2. worker'[w].stamp > 0 /\ worker'[w].event = worker[w].event /\ worker[w].event \in Events
    BY <1>1, <1>4, <2>1, StampTyped, Points DEF AlreadyHandled, HandlerOk, WorkerType
  <2>3. oks'[worker[w].event] > 0 /\ \A e \in Events : oks'[e] \in {oks[e], oks[e] + 1}
    <3>1. CASE AlreadyHandled(w)
      BY <1>1, <2>2, <3>1 DEF AlreadyHandled, AckedWasProcessed
    <3>2. CASE HandlerOk(w)
      BY <1>1, <2>2, <3>2 DEF HandlerOk
    <3> QED BY <1>4, <3>1, <3>2
  <2>4. UNCHANGED <<outbox, handled_at>>
    BY <1>4 DEF AlreadyHandled, HandlerOk
  <2> QED BY <1>2, <2>2, <2>3, <2>4, MarksKept
<1>5. CASE MarkHandled(w)
  <2>1. PICK e \in Events : e = worker[w].event
    BY <1>1, <1>5, Points DEF MarkHandled
  <2>2. /\ oks[e] > 0 /\ worker[w].stamp > 0 /\ UNCHANGED oks
        /\ handled_at' = [handled_at EXCEPT ![e] = IF @ = 0 THEN worker[w].stamp ELSE @]
        /\ \A f \in Events \ {e} : outbox'[f] = outbox[f]
        /\ worker'[w].pc = "processed"
    BY <1>1, <1>5, <2>1 DEF MarkHandled, MarkingIsEarned, Unladen
  <2>3. handled_at'[e] > 0 /\ \A f \in Events \ {e} : handled_at'[f] = handled_at[f]
    BY <1>1, <2>2
  <2>4. AckedWasProcessed'
    BY <2>2, <2>3 DEF AckedWasProcessed
  <2>5. MarkingIsEarned'
    BY <1>2, <2>2 DEF MarkingIsEarned
  <2> QED BY <2>4, <2>5
<1> QED BY <1>3, <1>4, <1>5 DEF WorkerStep

\* Publishers, time, operators and faults.
LEMMA OthersMark ==
  ASSUME TypeInv, AckedWasProcessed, MarkingIsEarned,
         \/ \E p \in Publishers, e \in Events : PublishBegin(p, e)
         \/ \E p \in Publishers : PublisherStep(p) \/ AbandonPublish(p)
         \/ \E w \in Workers : DropSubscription(w) \/ DbError(w)
         \/ \E e \in Events : Operator(e)
         \/ Tick \/ Crash
  PROVE  (AckedWasProcessed /\ MarkingIsEarned)'
<1> USE DEF database, clocks, history
<1>1. worker \in [Workers -> WorkerType] /\ outbox \in [Events -> RowType]
  BY DEF TypeInv, TypeOK
<1>2. UNCHANGED <<handled_at, oks>>
  BY DEF PublishBegin, PublisherStep, PublishInsert, PublishAck, AbandonPublish, DropSubscription,
     DbError, Operator, RequeueDlq, ForceRetry, RemoveRow, Tick, Crash
<1>3. \A e \in Events : outbox'[e].status = "acked" => outbox[e].status = "acked"
  <2>1. CASE \E p \in Publishers : PublisherStep(p)
    BY <1>1, <2>1 DEF PublisherStep, PublishInsert, PublishAck, Row
  <2>2. CASE \E e \in Events : Operator(e)
    BY <1>1, <2>2 DEF Operator, RequeueDlq, ForceRetry, RemoveRow, NoRow, Row, RowType
  <2>3. CASE Tick
    BY <1>1, <2>3 DEF Tick, RowType
  <2>4. CASE UNCHANGED outbox
    BY <2>4
  <2> QED BY <2>1, <2>2, <2>3, <2>4 DEF PublishBegin, AbandonPublish, DropSubscription, DbError, Crash
<1>4. \A w \in Workers : worker'[w].pc = "marking" =>
         /\ worker[w].pc = "marking" /\ worker'[w].stamp = worker[w].stamp
         /\ worker'[w].event = worker[w].event
  <2>1. CASE Tick
    BY <1>1, <2>1 DEF Tick, WorkerType
  <2>2. CASE Crash \/ \E w \in Workers : DropSubscription(w) \/ DbError(w)
    BY <1>1, <2>2 DEF Crash, DropSubscription, DbError, Unladen
  <2>3. CASE UNCHANGED worker
    BY <2>3
  <2> QED BY <2>1, <2>2, <2>3 DEF PublishBegin, PublisherStep, PublishInsert, PublishAck, AbandonPublish,
          Operator, RequeueDlq, ForceRetry, RemoveRow
<1> QED BY <1>2, <1>3, <1>4, MarksKept

\* Every acked row was handled and recorded as handled, and what is recorded
\* was a success, whatever rows operators delete (mark_handled).
THEOREM AckedProcessed == Spec => []AckedWasProcessed
<1>1. Init => AckedWasProcessed /\ MarkingIsEarned
  BY DEF Init, AckedWasProcessed, MarkingIsEarned, NoRow, Row, Unladen
<1>2. TypeInv /\ AckedWasProcessed /\ MarkingIsEarned /\ [Next]_vars
         => (AckedWasProcessed /\ MarkingIsEarned)'
  <2> SUFFICES ASSUME TypeInv, AckedWasProcessed, MarkingIsEarned, [Next]_vars
               PROVE  (AckedWasProcessed /\ MarkingIsEarned)'
    OBVIOUS
  <2>1. CASE UNCHANGED vars
    BY <2>1 DEF vars, AckedWasProcessed, MarkingIsEarned
  <2>2. CASE Next
    BY <2>2, WorkerMarks, OthersMark DEF Next
  <2> QED BY <2>1, <2>2
<1> QED BY <1>1, <1>2, InitTypeInv, NextTypeInv, PTL DEF Spec

(***************************************************************************)
(* Stranded claims, without and with the deletion of claimed rows.          *)
(***************************************************************************)

\* A row that is claimed was due.
ClaimedIsDue == \A e \in Events : outbox[e].status = "in_progress" => outbox[e].wait = 0

\* Where a step makes no claim and parts no worker from a claimed row, it
\* strands nothing.
LEMMA NothingStranded ==
  ASSUME OnlyFaultsStrand, faults' = faults,
         \A e \in Events : outbox'[e].status = "in_progress" =>
            \/ /\ outbox[e].status = "in_progress"
               /\ \A w \in Workers : Holds(w, e) => Holds(w, e)'
            \/ \E w \in Workers : Holds(w, e)'
  PROVE  OnlyFaultsStrand'
BY DEF OnlyFaultsStrand, Stranded

\* A fault counts itself.
LEMMA FaultCounts ==
  ASSUME TypeInv,
         \/ Crash \/ \E w \in Workers : DropSubscription(w) \/ DbError(w)
         \/ \E p \in Publishers : AbandonPublish(p)
  PROVE  OnlyFaultsStrand'
<1>1. faults' = faults + 1 /\ faults \in Nat
  BY DEF Crash, DropSubscription, DbError, AbandonPublish, Fault, TypeInv, TypeOK
<1> QED BY <1>1 DEF OnlyFaultsStrand

\* A worker lets go of a row only with its verdict on it.
LEMMA WorkerStrandsNothing ==
  ASSUME TypeInv, OnlyFaultsStrand, NEW w \in Workers, Subscribe(w) \/ WorkerStep(w)
  PROVE  OnlyFaultsStrand'
<1> USE DEF database, clocks, history
<1>1. /\ worker \in [Workers -> WorkerType] /\ outbox \in [Events -> RowType]
      /\ worker[w].pc \in LadenPc <=> worker[w].event \in Events
  BY DEF TypeInv, TypeOK, LadenOK
<1>2. faults' = faults
  BY DEF Subscribe, WorkerStep, ClaimNext, ClaimNone, Wake, AlreadyHandled, NotYetHandled, LastSeen,
     HandlerOk, HandlerErr, MarkHandled, ReadAttempts, MarkFailed, CountProcessed, CountFailed
<1>3. ASSUME UNCHANGED outbox, \A v \in Workers : worker[v].event \in Events => worker'[v].event = worker[v].event
      PROVE  OnlyFaultsStrand'
  BY <1>2, <1>3, NothingStranded DEF Holds
<1>4. CASE Subscribe(w)
  <2>1. worker[w].event \notin Events /\ UNCHANGED outbox
    BY <1>1, <1>4, Points DEF Subscribe
  <2>2. \A v \in Workers \ {w} : worker'[v] = worker[v]
    BY <1>1, <1>4 DEF Subscribe
  <2> QED BY <1>3, <2>1, <2>2
<1>5. CASE \/ ClaimNone(w) \/ Wake(w) \/ AlreadyHandled(w) \/ NotYetHandled(w) \/ LastSeen(w)
           \/ HandlerOk(w) \/ HandlerErr(w) \/ CountProcessed(w) \/ CountFailed(w)
  <2>1. UNCHANGED outbox
    BY <1>5 DEF ClaimNone, Wake, AlreadyHandled, NotYetHandled, LastSeen, HandlerOk, HandlerErr,
       CountProcessed, CountFailed
  <2>2. \A v \in Workers : worker'[v].event = worker[v].event
    <3>1. CASE AlreadyHandled(w) \/ HandlerOk(w)
      <4>1. PICK stamp \in Stamps(handledClock) :
              worker' = [worker EXCEPT ![w].pc = "marking", ![w].stamp = stamp]
        BY <3>1 DEF AlreadyHandled, HandlerOk, BeginMark
      <4> QED BY <1>1, <4>1 DEF WorkerType
    <3>2. CASE LastSeen(w)
      <4>1. PICK seen \in EventOrNone :
              worker' = [worker EXCEPT ![w].pc = "calling", ![w].last_seen = seen]
        BY <3>2 DEF LastSeen
      <4> QED BY <1>1, <4>1 DEF WorkerType
    <3>3. CASE \/ ClaimNone(w) \/ Wake(w) \/ NotYetHandled(w) \/ HandlerErr(w)
               \/ CountProcessed(w) \/ CountFailed(w)
      BY <1>1, <3>3 DEF ClaimNone, Wake, NotYetHandled, HandlerErr, CountProcessed, CountFailed, WorkerType
    <3> QED BY <1>5, <3>1, <3>2, <3>3
  <2> QED BY <1>3, <2>1, <2>2
<1>6. CASE ClaimNext(w)
  <2>1. PICK e \in Events :
          /\ outbox' = [outbox EXCEPT ![e].status = "in_progress"]
          /\ worker' = [worker EXCEPT ![w].pc = "claimed", ![w].event = e]
    BY <1>6 DEF ClaimNext
  <2>2. worker[w].event \notin Events
    BY <1>1, <1>6, Points DEF ClaimNext
  <2>3. Holds(w, e)' /\ \A v \in Workers \ {w} : worker'[v] = worker[v]
    BY <1>1, <2>1 DEF Holds, WorkerType
  <2>4. \A f \in Events \ {e} : outbox'[f] = outbox[f]
    BY <1>1, <2>1
  <2> QED BY <1>2, <2>2, <2>3, <2>4, NothingStranded DEF Holds
<1>7. CASE MarkHandled(w) \/ MarkFailed(w)
  <2> DEFINE e == worker[w].event
  <2>1. e \in Events
    BY <1>1, <1>7, Points DEF MarkHandled, MarkFailed
  <2>2. outbox'[e].status # "in_progress"
    <3>1. CASE MarkHandled(w)
      BY <1>1, <2>1, <3>1 DEF MarkHandled, RowType
    <3>2. CASE MarkFailed(w)
      BY <1>1, <2>1, <3>2 DEF MarkFailed, Verdict, Row, RowType
    <3> QED BY <1>7, <3>1, <3>2
  <2>3. \A f \in Events \ {e} : outbox'[f] = outbox[f]
    BY <1>1, <1>7 DEF MarkHandled, MarkFailed
  <2>4. \A v \in Workers \ {w} : worker'[v] = worker[v]
    BY <1>1, <1>7 DEF MarkHandled, MarkFailed
  <2> QED BY <1>2, <2>1, <2>2, <2>3, <2>4, NothingStranded DEF Holds
<1>8. CASE ReadAttempts(w)
  <2> DEFINE e == worker[w].event
  <2>1. UNCHANGED outbox /\ \A v \in Workers \ {w} : worker'[v] = worker[v]
    BY <1>1, <1>8 DEF ReadAttempts
  <2>2. outbox[e].status = "none" \/ worker'[w].event = e
    BY <1>1, <1>8 DEF ReadAttempts, WorkerType
  <2> QED BY <1>2, <2>1, <2>2, NothingStranded DEF Holds
<1> QED BY <1>4, <1>5, <1>6, <1>7, <1>8 DEF WorkerStep

\* Publishers, time and operators claim nothing and part nobody from a row.
LEMMA OthersStrandNothing ==
  ASSUME TypeInv, OnlyFaultsStrand,
         \/ \E p \in Publishers, e \in Events : PublishBegin(p, e)
         \/ \E p \in Publishers : PublisherStep(p)
         \/ \E e \in Events : Operator(e)
         \/ Tick
  PROVE  OnlyFaultsStrand'
<1>1. outbox \in [Events -> RowType] /\ worker \in [Workers -> WorkerType]
  BY DEF TypeInv, TypeOK
<1>2. faults' = faults /\ \A w \in Workers : worker'[w].event = worker[w].event
  BY <1>1 DEF PublishBegin, PublisherStep, PublishInsert, PublishAck, Operator, RequeueDlq, ForceRetry,
     RemoveRow, Tick, WorkerType, history
<1>3. \A e \in Events : outbox'[e].status = "in_progress" => outbox[e].status = "in_progress"
  <2>1. CASE \E p \in Publishers, e \in Events : PublishBegin(p, e)
    BY <2>1 DEF PublishBegin, database
  <2>2. CASE \E p \in Publishers : PublisherStep(p)
    BY <1>1, <2>2 DEF PublisherStep, PublishInsert, PublishAck, database, Row
  <2>3. CASE \E e \in Events : Operator(e)
    BY <1>1, <2>3 DEF Operator, RequeueDlq, ForceRetry, RemoveRow, NoRow, Row, RowType
  <2>4. CASE Tick
    BY <1>1, <2>4 DEF Tick, RowType
  <2> QED BY <2>1, <2>2, <2>3, <2>4
<1> QED BY <1>2, <1>3, NothingStranded DEF Holds

\* A claim without a worker is the work of a fault, whatever operators delete
\* (process_once).
THEOREM FaultsStrand == Spec => []OnlyFaultsStrand
<1>1. Init => OnlyFaultsStrand
  BY DEF Init, OnlyFaultsStrand, Stranded, NoRow, Row
<1>2. TypeInv /\ OnlyFaultsStrand /\ [Next]_vars => OnlyFaultsStrand'
  <2> SUFFICES ASSUME TypeInv, OnlyFaultsStrand, [Next]_vars PROVE OnlyFaultsStrand'
    OBVIOUS
  <2>1. CASE UNCHANGED vars
    BY <2>1 DEF vars, OnlyFaultsStrand, Stranded, Holds
  <2>2. CASE Next
    BY <2>2, FaultCounts, WorkerStrandsNothing, OthersStrandNothing DEF Next
  <2> QED BY <2>1, <2>2
<1> QED BY <1>1, <1>2, InitTypeInv, NextTypeInv, PTL DEF Spec

\* A claimed row waits for nothing, so that time leaves it alone.
LEMMA ClaimedIsDueKept ==
  TypeInv /\ ClaimedIsDue /\ [Next]_vars => ClaimedIsDue'
<1> SUFFICES ASSUME TypeInv, ClaimedIsDue, [Next]_vars PROVE ClaimedIsDue'
  OBVIOUS
<1> USE DEF ClaimedIsDue, database
<1>1. outbox \in [Events -> RowType]
  BY DEF TypeInv, TypeOK
<1>2. CASE UNCHANGED outbox
  BY <1>2
<1>3. ASSUME NEW w \in Workers, ClaimNext(w) PROVE ClaimedIsDue'
  BY <1>1, <1>3 DEF ClaimNext, OldestDue, Due, RowType
<1>4. ASSUME NEW w \in Workers, MarkHandled(w) \/ MarkFailed(w) PROVE ClaimedIsDue'
  <2>1. MarkHandled(w) => ClaimedIsDue'
    BY <1>1 DEF MarkHandled, RowType
  <2>2. MarkFailed(w) => ClaimedIsDue'
    BY <1>1 DEF MarkFailed, Verdict, Row, RowType
  <2> QED BY <1>4, <2>1, <2>2
<1>5. CASE Tick
  BY <1>1, <1>5 DEF Tick, Pass, RowType
<1>6. ASSUME NEW e \in Events, Operator(e) PROVE ClaimedIsDue'
  BY <1>1, <1>6 DEF Operator, RequeueDlq, ForceRetry, RemoveRow, NoRow, Row, RowType
<1>7. ASSUME NEW p \in Publishers, PublishInsert(p) PROVE ClaimedIsDue'
  BY <1>1, <1>7 DEF PublishInsert, Row
<1>8. \/ UNCHANGED outbox \/ Tick
      \/ \E w \in Workers : ClaimNext(w) \/ MarkHandled(w) \/ MarkFailed(w)
      \/ \E e \in Events : Operator(e)
      \/ \E p \in Publishers : PublishInsert(p)
  BY DEF Next, vars, PublishBegin, PublisherStep, PublishAck, AbandonPublish, Subscribe, WorkerStep,
     ClaimNone, Wake, AlreadyHandled, NotYetHandled, LastSeen, HandlerOk, HandlerErr, ReadAttempts,
     CountProcessed, CountFailed, DropSubscription, DbError, Crash
<1> QED BY <1>2, <1>3, <1>4, <1>5, <1>6, <1>7, <1>8

\* No step writes the row of a stranded claim, a new subscription, a restart
\* and the runbook's statements included (claim_next).
THEOREM StrandedForGood ==
  ASSUME ClaimsStay
  PROVE  Spec => StrandedIsForever
<1>1. Init => ClaimedIsDue
  BY DEF Init, ClaimedIsDue, NoRow, Row
<1>2. ASSUME TypeInv, ClaimedIsDue, Next
      PROVE  \A e \in Events : Stranded(e) => outbox'[e] = outbox[e]
  <2> SUFFICES ASSUME NEW e \in Events, Stranded(e) PROVE outbox'[e] = outbox[e]
    OBVIOUS
  <2>1. /\ outbox \in [Events -> RowType] /\ outbox[e].wait = 0
        /\ outbox[e].status = "in_progress" /\ \A w \in Workers : worker[w].event # e
    BY <1>2 DEF TypeInv, TypeOK, ClaimedIsDue, Stranded, Holds
  <2>2. ASSUME NEW w \in Workers, ClaimNext(w) PROVE outbox'[e] = outbox[e]
    BY <2>1, <2>2 DEF ClaimNext, OldestDue, Due, Claimable
  <2>3. ASSUME NEW w \in Workers, MarkHandled(w) \/ MarkFailed(w) PROVE outbox'[e] = outbox[e]
    BY <2>1, <2>3 DEF MarkHandled, MarkFailed
  <2>4. CASE Tick
    <3>1. outbox'[e] = [outbox[e] EXCEPT !.wait = 0]
      BY <2>1, <2>4 DEF Tick, Pass
    <3> QED BY <2>1, <3>1 DEF RowType
  <2>5. ASSUME NEW f \in Events, Operator(f) PROVE outbox'[e] = outbox[e]
    BY <2>1, <2>5 DEF Operator, RequeueDlq, ForceRetry, RemoveRow, ClaimsStay
  <2>6. ASSUME NEW p \in Publishers, PublishInsert(p) PROVE outbox'[e] = outbox[e]
    BY <2>1, <2>6 DEF PublishInsert
  <2>7. \/ UNCHANGED outbox \/ Tick
        \/ \E w \in Workers : ClaimNext(w) \/ MarkHandled(w) \/ MarkFailed(w)
        \/ \E f \in Events : Operator(f)
        \/ \E p \in Publishers : PublishInsert(p)
    BY <1>2 DEF Next, PublishBegin, PublisherStep, PublishAck, AbandonPublish, Subscribe, WorkerStep,
       ClaimNone, Wake, AlreadyHandled, NotYetHandled, LastSeen, HandlerOk, HandlerErr, ReadAttempts,
       CountProcessed, CountFailed, DropSubscription, DbError, Crash, database
  <2> QED BY <2>2, <2>3, <2>4, <2>5, <2>6, <2>7
<1>3. TypeInv /\ ClaimedIsDue /\ [Next]_vars
        => [\A e \in Events : Stranded(e) => outbox'[e] = outbox[e]]_vars
  BY <1>2
<1> QED BY <1>1, <1>3, ClaimedIsDueKept, InitTypeInv, NextTypeInv, PTL DEF Spec, StrandedIsForever
=============================================================================
