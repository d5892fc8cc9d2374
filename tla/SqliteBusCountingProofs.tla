----------------------- MODULE SqliteBusCountingProofs -----------------------
(***************************************************************************)
(* What is proved of the durable bus by counting.                           *)
(*                                                                          *)
(* Successes: what survives the deletion of rows under the workers that     *)
(* hold them is that no event is handled successfully more often than it    *)
(* was inserted.  Every insert is worth one token.  A row that is waiting   *)
(* or dead has one, a worker has one from its claim to the verdict of its   *)
(* handler, and a success keeps one for good.  A deleted row takes its      *)
(* token along, and whatever two workers on one event write to its row,     *)
(* none is made.                                                            *)
(*                                                                          *)
(* Counters: while no fault strikes and rows are neither removed nor        *)
(* requeued, the metrics agree with the table.                              *)
(***************************************************************************)
EXTENDS SqliteBusProofs, FoldProofs

\* The token of a row.
Waits(e) == IF outbox[e].status \in {"pending", "retrying", "dlq"} THEN 1 ELSE 0

\* The workers with a token of e.
Tries(e) == {w \in Workers : Holds(w, e) /\ worker[w].pc # "marking"}

Tokens(e) ==
    /\ IsFiniteSet(Tries(e))
    /\ Waits(e) + Cardinality(Tries(e)) + oks[e] <= inserts[e]

TokenInv == \A e \in Events : Tokens(e)

\* The terms of the sum are numbers.
LEMMA TokenTypes ==
  ASSUME TypeInv, NEW e \in Events, Tokens(e)
  PROVE  /\ Waits(e) \in {0, 1} /\ Cardinality(Tries(e)) \in Nat
         /\ oks[e] \in Nat /\ inserts[e] \in Nat
BY FS_CardinalityType DEF Tokens, Waits, TypeInv, TypeOK

\* Nothing is gained.
LEMMA TokensKept ==
  ASSUME TypeInv, TypeInv', NEW e \in Events, Tokens(e), Tries(e)' \subseteq Tries(e),
         Waits(e)' <= Waits(e), oks'[e] = oks[e], inserts'[e] = inserts[e]
  PROVE  Tokens(e)'
<1>1. IsFiniteSet(Tries(e)') /\ Cardinality(Tries(e)') <= Cardinality(Tries(e))
  BY FS_Subset DEF Tokens
<1>2. Cardinality(Tries(e)') \in Nat
  BY <1>1, FS_CardinalityType
<1>3. Waits(e)' \in {0, 1}
  BY DEF Waits
<1> QED BY <1>1, <1>2, <1>3, TokenTypes DEF Tokens

\* A worker spends its token on the row or on a success, or drops it.
LEMMA TokenSpent ==
  ASSUME TypeInv, TypeInv', NEW e \in Events, Tokens(e),
         NEW w \in Tries(e), Tries(e)' \subseteq Tries(e) \ {w},
         \/ Waits(e)' <= Waits(e) /\ oks'[e] = oks[e] + 1
         \/ oks'[e] = oks[e],
         inserts'[e] = inserts[e]
  PROVE  Tokens(e)'
<1>1. /\ IsFiniteSet(Tries(e) \ {w})
      /\ Cardinality(Tries(e) \ {w}) = Cardinality(Tries(e)) - 1
  BY FS_RemoveElement DEF Tokens
<1>2. /\ IsFiniteSet(Tries(e)')
      /\ Cardinality(Tries(e)') <= Cardinality(Tries(e) \ {w})
  BY <1>1, FS_Subset
<1>3. Cardinality(Tries(e)') \in Nat
  BY <1>2, FS_CardinalityType
<1>4. Waits(e)' \in {0, 1}
  BY DEF Waits
<1> QED BY <1>1, <1>2, <1>3, <1>4, TokenTypes DEF Tokens

\* claim_next moves the token of the row to the worker.
LEMMA TokenClaimed ==
  ASSUME TypeInv, NEW e \in Events, Tokens(e), NEW w \in Workers,
         Tries(e)' \subseteq Tries(e) \cup {w},
         Waits(e) = 1, Waits(e)' = 0, oks'[e] = oks[e], inserts'[e] = inserts[e]
  PROVE  Tokens(e)'
<1>1. /\ IsFiniteSet(Tries(e) \cup {w})
      /\ Cardinality(Tries(e) \cup {w}) <= Cardinality(Tries(e)) + 1
  <2>1. IsFiniteSet(Tries(e)) /\ Cardinality(Tries(e)) \in Nat
    BY TokenTypes DEF Tokens
  <2> QED BY <2>1, FS_AddElement
<1>2. /\ IsFiniteSet(Tries(e)')
      /\ Cardinality(Tries(e)') <= Cardinality(Tries(e) \cup {w})
  BY <1>1, FS_Subset
<1>3. Cardinality(Tries(e)') \in Nat /\ Cardinality(Tries(e) \cup {w}) \in Nat
  BY <1>1, <1>2, FS_CardinalityType
<1> QED BY <1>1, <1>2, <1>3, TokenTypes DEF Tokens

\* An insert makes one.
LEMMA TokenMade ==
  ASSUME TypeInv, NEW e \in Events, Tokens(e), Tries(e)' = Tries(e),
         Waits(e) = 0, oks'[e] = oks[e], inserts'[e] = inserts[e] + 1
  PROVE  Tokens(e)'
<1>1. Waits(e)' \in {0, 1}
  BY DEF Waits
<1> QED BY <1>1, TokenTypes DEF Tokens

\* A worker that another's step leaves alone keeps its tokens, and has none of
\* an event that it does not hold.
LEMMA TriesOf ==
  ASSUME NEW w \in Workers, \A v \in Workers \ {w} : worker'[v] = worker[v], NEW e \in Events
  PROVE  /\ Tries(e)' \subseteq Tries(e) \cup {w}
         /\ worker'[w].event # e \/ worker'[w].pc = "marking" => Tries(e)' \subseteq Tries(e) \ {w}
         /\ Holds(w, e) /\ worker[w].pc # "marking" => Tries(e)' \subseteq Tries(e)
BY DEF Tries, Holds

\* publish inserts, or leaves a row alone.
LEMMA PublisherTokens ==
  ASSUME TypeInv, TypeInv', TokenInv, NEW p \in Publishers,
         \/ \E e \in Events : PublishBegin(p, e)
         \/ PublisherStep(p) \/ AbandonPublish(p)
  PROVE  TokenInv'
<1> USE DEF database, history
<1>1. UNCHANGED <<worker, oks>> /\ \A e \in Events : Tries(e)' = Tries(e)
  BY DEF PublishBegin, PublisherStep, PublishInsert, PublishAck, AbandonPublish, Tries, Holds
<1>2. ASSUME UNCHANGED <<outbox, inserts>> PROVE TokenInv'
  BY <1>1, <1>2 DEF TokenInv, Tokens, Waits
<1>3. ASSUME PublishInsert(p), outbox[publisher[p].event].status = "none" PROVE TokenInv'
  <2>1. PICK e \in Events :
          /\ e = publisher[p].event
          /\ outbox' = [outbox EXCEPT ![e] = Row("pending", 0, 0, publisher[p].stamp)]
          /\ inserts' = [inserts EXCEPT ![e] = @ + 1]
    BY <1>3 DEF PublishInsert, TypeInv, TypeOK, BegunOK
  <2>2. /\ Waits(e) = 0 /\ inserts'[e] = inserts[e] + 1
        /\ \A f \in Events \ {e} : outbox'[f] = outbox[f] /\ inserts'[f] = inserts[f]
    BY <1>3, <2>1 DEF Waits, TypeInv, TypeOK
  <2>3. Tokens(e)'
    BY <1>1, <2>1, <2>2, TokenMade DEF TokenInv
  <2>4. ASSUME NEW f \in Events \ {e} PROVE Tokens(f)'
    BY <1>1, <2>2 DEF TokenInv, Tokens, Waits
  <2> QED BY <2>3, <2>4 DEF TokenInv
<1>4. \/ UNCHANGED <<outbox, inserts>>
      \/ PublishInsert(p) /\ outbox[publisher[p].event].status = "none"
  BY DEF PublishBegin, PublisherStep, PublishInsert, PublishAck, AbandonPublish
<1> QED BY <1>2, <1>3, <1>4

\* Workers that stay where they are or let go, with rows that wait no more
\* than before.
LEMMA NothingGained ==
  ASSUME TypeInv, TypeInv', TokenInv, UNCHANGED <<oks, inserts>>,
         \A w \in Workers, e \in Events :
            Holds(w, e)' /\ worker'[w].pc # "marking" => Holds(w, e) /\ worker[w].pc # "marking",
         \A e \in Events : Waits(e)' <= Waits(e)
  PROVE  TokenInv'
<1>1. \A e \in Events : Tries(e)' \subseteq Tries(e)
  BY DEF Tries
<1> QED BY <1>1, TokensKept DEF TokenInv

\* subscribe and process_once move tokens, or drop them.
LEMMA WorkerTokens ==
  ASSUME TypeInv, TypeInv', TokenInv, NEW w \in Workers, Subscribe(w) \/ WorkerStep(w)
  PROVE  TokenInv'
<1> USE DEF database, history
<1>1. /\ worker \in [Workers -> WorkerType] /\ outbox \in [Events -> RowType]
      /\ oks \in [Events -> Nat] /\ inserts \in [Events -> Nat]
      /\ worker[w].pc \in LadenPc <=> worker[w].event \in Events
      /\ \A f \in Events : Waits(f) \in {0, 1}
  BY DEF TypeInv, TypeOK, LadenOK, Waits
<1>2. \A v \in Workers \ {w} : worker'[v] = worker[v]
  BY <1>1 DEF Subscribe, WorkerStep, ClaimNext, ClaimNone, Wake, AlreadyHandled, NotYetHandled, LastSeen,
     HandlerOk, HandlerErr, BeginMark, MarkHandled, ReadAttempts, MarkFailed, CountProcessed, CountFailed
<1>3. UNCHANGED inserts
  BY DEF Subscribe, WorkerStep, ClaimNext, ClaimNone, Wake, AlreadyHandled, NotYetHandled, LastSeen,
     HandlerOk, HandlerErr, MarkHandled, ReadAttempts, MarkFailed, CountProcessed, CountFailed
<1>4. CASE \/ Subscribe(w) \/ ClaimNone(w) \/ Wake(w) \/ NotYetHandled(w) \/ HandlerErr(w)
           \/ ReadAttempts(w) \/ CountProcessed(w) \/ CountFailed(w) \/ LastSeen(w)
  <2>1. UNCHANGED <<outbox, oks>>
    BY <1>4 DEF Subscribe, ClaimNone, Wake, NotYetHandled, HandlerErr, ReadAttempts, CountProcessed,
       CountFailed, LastSeen
  <2>2. worker'[w].event \in {worker[w].event, None} /\ worker[w].pc # "marking"
    <3>1. CASE LastSeen(w)
      <4>1. PICK seen \in EventOrNone :
              worker' = [worker EXCEPT ![w].pc = "calling", ![w].last_seen = seen]
        BY <3>1 DEF LastSeen
      <4> QED BY <1>1, <3>1, <4>1 DEF WorkerType, LastSeen
    <3>2. CASE \/ Subscribe(w) \/ ClaimNone(w) \/ Wake(w) \/ NotYetHandled(w) \/ HandlerErr(w)
               \/ ReadAttempts(w) \/ CountProcessed(w) \/ CountFailed(w)
      <4>1. CASE Subscribe(w) \/ ClaimNone(w) \/ Wake(w) \/ CountProcessed(w) \/ CountFailed(w)
        BY <1>1, <4>1 DEF Subscribe, ClaimNone, Wake, CountProcessed, CountFailed, WorkerType, Unladen
      <4>2. CASE NotYetHandled(w) \/ HandlerErr(w)
        BY <1>1, <4>2 DEF NotYetHandled, HandlerErr, WorkerType
      <4>3. CASE ReadAttempts(w)
        BY <1>1, <4>3 DEF ReadAttempts, WorkerType, Unladen
      <4> QED BY <3>2, <4>1, <4>2, <4>3
    <3> QED BY <1>4, <3>1, <3>2
  <2>3. \A f \in Events : Waits(f)' = Waits(f)
    BY <2>1 DEF Waits
  <2> QED BY <1>1, <1>2, <1>3, <2>1, <2>2, <2>3, NothingGained, NoneAssumption DEF Holds
<1>5. CASE ClaimNext(w)
  <2>1. PICK f \in Events :
          /\ outbox[f].status \in Claimable
          /\ outbox' = [outbox EXCEPT ![f].status = "in_progress"]
          /\ worker' = [worker EXCEPT ![w].pc = "claimed", ![w].event = f]
    BY <1>5 DEF ClaimNext, OldestDue, Due
  <2>2. UNCHANGED oks /\ worker[w].event \notin Events
    BY <1>1, <1>5, Points DEF ClaimNext
  <2>3. Waits(f) = 1 /\ Waits(f)' = 0
    BY <1>1, <2>1 DEF Waits, Claimable, RowType
  <2>4. Tokens(f)'
    BY <1>2, <1>3, <2>2, <2>3, TriesOf, TokenClaimed DEF TokenInv
  <2>5. ASSUME NEW g \in Events \ {f} PROVE Tokens(g)'
    <3>1. Waits(g)' = Waits(g) /\ worker'[w].event # g
      BY <1>1, <2>1 DEF Waits, WorkerType
    <3>2. Tries(g)' \subseteq Tries(g)
      BY <1>2, <3>1, TriesOf
    <3> QED BY <1>1, <1>3, <2>2, <3>1, <3>2, TokensKept DEF TokenInv
  <2> QED BY <2>4, <2>5 DEF TokenInv
<1>6. CASE AlreadyHandled(w) \/ HandlerOk(w)
  <2>1. PICK stamp \in Stamps(handledClock) :
          worker' = [worker EXCEPT ![w].pc = "marking", ![w].stamp = stamp]
    BY <1>6 DEF AlreadyHandled, HandlerOk, BeginMark
  <2>2. PICK e \in Events :
          e = worker[w].event /\ worker'[w].pc = "marking" /\ UNCHANGED outbox /\ w \in Tries(e)
    BY <1>1, <1>6, <2>1, Points DEF AlreadyHandled, HandlerOk, Tries, Holds, WorkerType
  <2>3. \A f \in Events : Waits(f)' = Waits(f) /\ Tries(f)' \subseteq Tries(f) \ {w}
    BY <1>2, <2>2, TriesOf DEF Waits
  <2>4. oks'[e] \in {oks[e], oks[e] + 1} /\ \A f \in Events \ {e} : oks'[f] = oks[f]
    BY <1>1, <1>6, <2>2 DEF AlreadyHandled, HandlerOk
  <2>5. Tokens(e)'
    <3>1. Waits(e)' <= Waits(e)
      BY <1>1, <2>2, <2>3
    <3> QED BY <1>3, <2>2, <2>3, <2>4, <3>1, TokenSpent DEF TokenInv
  <2>6. ASSUME NEW f \in Events \ {e} PROVE Tokens(f)'
    BY <1>1, <1>3, <2>3, <2>4, TokensKept DEF TokenInv
  <2> QED BY <2>5, <2>6 DEF TokenInv
<1>7. CASE MarkHandled(w) \/ MarkFailed(w)
  <2>1. PICK e \in Events :
          /\ e = worker[w].event /\ UNCHANGED oks /\ worker'[w].event = None
          /\ \A f \in Events \ {e} : outbox'[f] = outbox[f]
    BY <1>1, <1>7, Points DEF MarkHandled, MarkFailed, Unladen
  <2>2. \A f \in Events : Tries(f)' \subseteq Tries(f) \ {w}
    BY <1>2, <2>1, TriesOf, NoneAssumption
  <2>3. ASSUME NEW f \in Events \ {e} PROVE Tokens(f)'
    <3>1. Waits(f)' = Waits(f)
      BY <2>1 DEF Waits
    <3> QED BY <1>1, <1>3, <2>1, <2>2, <3>1, TokensKept DEF TokenInv
  <2>4. Tokens(e)'
    <3>1. CASE MarkHandled(w)
      <4>1. Waits(e)' = 0
        BY <1>1, <2>1, <3>1 DEF MarkHandled, Waits, RowType
      <4> QED BY <1>1, <1>3, <2>1, <2>2, <4>1, TokensKept DEF TokenInv
    <3>2. CASE MarkFailed(w)
      <4>1. w \in Tries(e)
        BY <2>1, <3>2 DEF MarkFailed, Tries, Holds
      <4> QED BY <1>3, <2>1, <2>2, <4>1, TokenSpent DEF TokenInv
    <3> QED BY <1>7, <3>1, <3>2
  <2> QED BY <2>3, <2>4 DEF TokenInv
<1> QED BY <1>4, <1>5, <1>6, <1>7 DEF WorkerStep

\* Time, operators and faults make no tokens.
LEMMA EnvironmentTokens ==
  ASSUME TypeInv, TypeInv', TokenInv,
         \/ Tick \/ Crash
         \/ \E w \in Workers : DropSubscription(w) \/ DbError(w)
         \/ \E e \in Events : Operator(e)
  PROVE  TokenInv'
<1> USE DEF database, history
<1>1. worker \in [Workers -> WorkerType] /\ outbox \in [Events -> RowType]
  BY DEF TypeInv, TypeOK
<1>2. UNCHANGED <<oks, inserts>>
  BY DEF Tick, Crash, DropSubscription, DbError, Operator, RequeueDlq, ForceRetry, RemoveRow
<1>3. \A w \in Workers :
         \/ worker'[w].event = None
         \/ worker'[w].event = worker[w].event /\ worker'[w].pc = worker[w].pc
  <2>1. CASE Tick
    BY <1>1, <2>1 DEF Tick, WorkerType
  <2>2. CASE \/ Crash \/ \E w \in Workers : DropSubscription(w) \/ DbError(w)
    BY <1>1, <2>2 DEF Crash, DropSubscription, DbError, Unladen
  <2>3. CASE \E e \in Events : Operator(e)
    BY <2>3 DEF Operator, RequeueDlq, ForceRetry, RemoveRow
  <2> QED BY <2>1, <2>2, <2>3
<1>4. \A e \in Events : Waits(e)' <= Waits(e)
  <2>1. CASE Tick
    BY <1>1, <2>1 DEF Tick, Waits, RowType
  <2>2. CASE UNCHANGED outbox
    BY <2>2 DEF Waits
  <2>3. CASE \E e \in Events : Operator(e)
    BY <1>1, <2>3 DEF Operator, RequeueDlq, ForceRetry, RemoveRow, Waits, Row, NoRow, RowType
  <2> QED BY <2>1, <2>2, <2>3 DEF Crash, DropSubscription, DbError
<1> QED BY <1>2, <1>3, <1>4, NothingGained, NoneAssumption DEF Holds

\* Whatever rows are deleted, and whatever faults strike, a handler succeeds at
\* most once per row ever inserted (process_once, mark_failed).
THEOREM SuccessesInserted == Spec => []SuccessPerInsert
<1>1. Init => TokenInv
  <2> SUFFICES ASSUME Init, NEW e \in Events PROVE Tokens(e)
    BY DEF TokenInv
  <2>1. Tries(e) = {} /\ Waits(e) = 0 /\ oks[e] = 0 /\ inserts[e] = 0
    BY NoneAssumption DEF Init, Tries, Holds, Unladen, Waits, NoRow, Row
  <2> QED BY <2>1, FS_EmptySet DEF Tokens
<1>2. TypeInv /\ TokenInv /\ [Next]_vars => TokenInv'
  <2> SUFFICES ASSUME TypeInv, TokenInv, [Next]_vars PROVE TokenInv'
    OBVIOUS
  <2>1. TypeInv'
    BY NextTypeInv
  <2>2. CASE UNCHANGED vars
    BY <2>2 DEF vars, TokenInv, Tokens, Tries, Holds, Waits
  <2>3. CASE Next
    BY <2>1, <2>3, PublisherTokens, WorkerTokens, EnvironmentTokens DEF Next
  <2> QED BY <2>2, <2>3
<1>3. TypeInv /\ TokenInv => SuccessPerInsert
  BY TokenTypes DEF TokenInv, Tokens, SuccessPerInsert
<1> QED BY <1>1, <1>2, <1>3, InitTypeInv, NextTypeInv, PTL DEF Spec
-----------------------------------------------------------------------------
(* The counters.  Each worker between its verdict and its counter stands    *)
(* for the difference, in both pairs; the second is a sum over the table.   *)

\* Rows stay, and so do their attempts: no removal and no DLQ requeue.
TableKept == Removable = {} /\ MaxRequeues = 0

FiniteBus == IsFiniteSet(Workers) /\ IsFiniteSet(Events)

At(pc) == {w \in Workers : worker[w].pc = pc}
AckedRows == {e \in Events : outbox[e].status = "acked"}
AllAttempts == [e \in Events |-> outbox[e].attempts]

\* The property, and the same of the next state, in these terms.
LEMMA CountersMean ==
  /\ CountersAgree <=>
       (faults = 0 =>
          /\ metrics.processed + Cardinality(At("processed")) = Cardinality(AckedRows)
          /\ metrics.failed + Cardinality(At("failed")) = SumFunction(AllAttempts))
  /\ CountersAgree' <=>
       (faults' = 0 =>
          /\ metrics'.processed + Cardinality(At("processed")') = Cardinality(AckedRows')
          /\ metrics'.failed + Cardinality(At("failed")') = SumFunction(AllAttempts'))
BY DEF CountersAgree, At, AckedRows, AllAttempts

\* The terms are numbers.
LEMMA CounterTypes ==
  ASSUME FiniteBus, TypeInv
  PROVE  /\ metrics.processed \in Nat /\ metrics.failed \in Nat
         /\ \A pc \in WorkerPc : IsFiniteSet(At(pc)) /\ Cardinality(At(pc)) \in Nat
         /\ IsFiniteSet(AckedRows) /\ Cardinality(AckedRows) \in Nat
         /\ AllAttempts \in [Events -> Int] /\ SumFunction(AllAttempts) \in Int
<1>1. metrics.processed \in Nat /\ metrics.failed \in Nat
  BY DEF TypeInv, TypeOK
<1>2. \A pc \in WorkerPc : IsFiniteSet(At(pc))
  <2> SUFFICES ASSUME NEW pc \in WorkerPc PROVE IsFiniteSet(At(pc))
    OBVIOUS
  <2>1. At(pc) \in SUBSET Workers
    BY DEF At
  <2> QED BY <2>1, FS_Subset DEF FiniteBus
<1>3. IsFiniteSet(AckedRows)
  <2>1. AckedRows \in SUBSET Events
    BY DEF AckedRows
  <2> QED BY <2>1, FS_Subset DEF FiniteBus
<1>4. AllAttempts \in [Events -> Int]
  BY DEF AllAttempts, TypeInv, TypeOK, RowType
<1>5. SumFunction(AllAttempts) \in Int
  BY <1>4, SumTyped DEF FiniteBus
<1> QED BY <1>1, <1>2, <1>3, <1>4, <1>5, FS_CardinalityType

\* Rows that keep their status and attempts.
RowsKept ==
    \A e \in Events : outbox'[e].status = outbox[e].status /\ outbox'[e].attempts = outbox[e].attempts

\* Such rows add up to what they did.
LEMMA RowsAddUp == RowsKept => AckedRows' = AckedRows /\ AllAttempts' = AllAttempts
BY DEF RowsKept, AckedRows, AllAttempts

\* A step that reaches neither the counters nor what they count.
LEMMA NothingCounted ==
  ASSUME CountersAgree, faults' = faults,
         metrics'.processed = metrics.processed, metrics'.failed = metrics.failed,
         AckedRows' = AckedRows, AllAttempts' = AllAttempts,
         \A w \in Workers : worker'[w].pc = worker[w].pc
             \/ {worker'[w].pc, worker[w].pc} \cap {"processed", "failed"} = {}
  PROVE  CountersAgree'
<1>1. At("processed")' = At("processed") /\ At("failed")' = At("failed")
  BY DEF At
<1> QED BY <1>1, CountersMean

\* A worker that comes to a point is one more there, one that leaves it one less.
LEMMA Arrives ==
  ASSUME FiniteBus, TypeInv, NEW w \in Workers, NEW pc \in WorkerPc,
         \A v \in Workers \ {w} : worker'[v] = worker[v],
         worker[w].pc # pc, worker'[w].pc = pc
  PROVE  Cardinality(At(pc)') = Cardinality(At(pc)) + 1
<1>1. At(pc)' = At(pc) \cup {w} /\ w \notin At(pc)
  BY DEF At
<1>2. IsFiniteSet(At(pc))
  BY CounterTypes
<1> QED BY <1>1, <1>2, FS_AddElement

LEMMA Leaves ==
  ASSUME FiniteBus, TypeInv, NEW w \in Workers, NEW pc \in WorkerPc,
         \A v \in Workers \ {w} : worker'[v] = worker[v],
         worker[w].pc = pc, worker'[w].pc # pc
  PROVE  Cardinality(At(pc)') = Cardinality(At(pc)) - 1
<1>1. At(pc)' = At(pc) \ {w} /\ w \in At(pc)
  BY DEF At
<1>2. IsFiniteSet(At(pc))
  BY CounterTypes
<1> QED BY <1>1, <1>2, FS_RemoveElement

\* And a worker that is not there before and after changes nothing.
LEMMA Elsewhere ==
  ASSUME NEW w \in Workers, NEW pc,
         \A v \in Workers \ {w} : worker'[v] = worker[v],
         worker[w].pc # pc, worker'[w].pc # pc
  PROVE  At(pc)' = At(pc)
BY DEF At

\* mark_handled acks a row that was not.
LEMMA CountersHandled ==
  ASSUME FiniteBus, TypeInv, TypeInv', ClaimInv, CountersAgree, NEW w \in Workers, MarkHandled(w)
  PROVE  CountersAgree'
<1>1. PICK e \in Events :
        /\ e = worker[w].event /\ outbox[e].status = "in_progress"
        /\ outbox' = [outbox EXCEPT ![e].status = IF @ = "none" THEN @ ELSE "acked"]
        /\ worker[w].pc = "marking" /\ worker' = [worker EXCEPT ![w] = Unladen("processed")]
        /\ UNCHANGED <<metrics, faults>>
  BY Alone, Points DEF MarkHandled
<1>2. /\ worker'[w].pc = "processed" /\ \A v \in Workers \ {w} : worker'[v] = worker[v]
  BY <1>1 DEF TypeInv, TypeOK, Unladen
<1>3. /\ outbox'[e].status = "acked" /\ \A f \in Events : outbox'[f].attempts = outbox[f].attempts
      /\ \A f \in Events \ {e} : outbox'[f] = outbox[f]
  BY <1>1 DEF TypeInv, TypeOK, RowType
<1>4. Cardinality(At("processed")') = Cardinality(At("processed")) + 1
  BY <1>1, <1>2, Arrives DEF WorkerPc
<1>5. At("failed")' = At("failed")
  BY <1>1, <1>2, Elsewhere
<1>6. AckedRows' = AckedRows \cup {e} /\ e \notin AckedRows
  BY <1>1, <1>3 DEF AckedRows
<1>7. Cardinality(AckedRows') = Cardinality(AckedRows) + 1
  BY <1>6, CounterTypes, FS_AddElement
<1>8. AllAttempts' = AllAttempts
  BY <1>3 DEF AllAttempts
<1>9. metrics.processed \in Nat /\ Cardinality(At("processed")) \in Nat /\ Cardinality(AckedRows) \in Nat
  BY CounterTypes DEF WorkerPc
<1> QED BY <1>1, <1>4, <1>5, <1>7, <1>8, <1>9, CountersMean

\* The second half of mark_failed adds one to the attempts of its row.
LEMMA CountersFailed ==
  ASSUME FiniteBus, TypeInv, TypeInv', ClaimInv, CountersAgree, NEW w \in Workers, MarkFailed(w)
  PROVE  CountersAgree'
<1>1. PICK e \in Events : e = worker[w].event /\ outbox[e].status = "in_progress"
  BY Alone, Points DEF MarkFailed
<1>2. /\ worker[w].pc = "failing" /\ worker[w].attempts = outbox[e].attempts
      /\ worker' = [worker EXCEPT ![w] = Unladen("failed")]
      /\ outbox' = [outbox EXCEPT ![e] =
                       Row(Verdict(w, worker[w].attempts + 1), worker[w].attempts + 1,
                           worker[w].retry_in, @.created)]
      /\ UNCHANGED <<metrics, faults>>
  BY <1>1, Points DEF MarkFailed, ClaimInv, HolderInv
<1>3. /\ worker'[w].pc = "failed" /\ \A v \in Workers \ {w} : worker'[v] = worker[v]
  BY <1>2 DEF TypeInv, TypeOK, Unladen
<1>4. /\ outbox'[e].status \in {"dlq", "retrying"} /\ outbox'[e].attempts = outbox[e].attempts + 1
      /\ \A f \in Events \ {e} : outbox'[f] = outbox[f]
  BY <1>2 DEF TypeInv, TypeOK, Row, Verdict
<1>5. Cardinality(At("failed")') = Cardinality(At("failed")) + 1
  BY <1>2, <1>3, Arrives DEF WorkerPc
<1>6. At("processed")' = At("processed")
  BY <1>2, <1>3, Elsewhere
<1>7. AckedRows' = AckedRows
  BY <1>1, <1>4 DEF AckedRows
<1>8. SumFunction(AllAttempts') = SumFunction(AllAttempts) + 1
  <2>1. AllAttempts \in [Events -> Int] /\ AllAttempts' \in [Events -> Int]
    BY DEF AllAttempts, TypeInv, TypeOK, RowType
  <2>2. AllAttempts'[e] = AllAttempts[e] + 1 /\ \A f \in Events \ {e} : AllAttempts'[f] = AllAttempts[f]
    BY <1>4 DEF AllAttempts
  <2>3. PICK g \in [Events -> Int] : g = AllAttempts'
    BY <2>1
  <2> QED BY <2>1, <2>2, <2>3, SumIncreased DEF FiniteBus
<1>9. metrics.failed \in Nat /\ Cardinality(At("failed")) \in Nat /\ SumFunction(AllAttempts) \in Int
  BY CounterTypes DEF WorkerPc
<1> QED BY <1>2, <1>5, <1>6, <1>7, <1>8, <1>9, CountersMean

\* A worker that counts has counted.
LEMMA CountersCounted ==
  ASSUME FiniteBus, TypeInv, CountersAgree, NEW w \in Workers, CountProcessed(w) \/ CountFailed(w)
  PROVE  CountersAgree'
<1>1. /\ worker' = [worker EXCEPT ![w].pc = "idle"] /\ UNCHANGED <<outbox, faults>>
      /\ \/ worker[w].pc = "processed" /\ metrics' = [metrics EXCEPT !.processed = @ + 1]
         \/ worker[w].pc = "failed" /\ metrics' = [metrics EXCEPT !.failed = @ + 1]
  BY DEF CountProcessed, CountFailed, database
<1>2. worker'[w].pc = "idle" /\ \A v \in Workers \ {w} : worker'[v] = worker[v]
  BY <1>1 DEF TypeInv, TypeOK, WorkerType
<1>3. AckedRows' = AckedRows /\ AllAttempts' = AllAttempts
  BY <1>1 DEF AckedRows, AllAttempts
<1>4. /\ metrics.processed \in Nat /\ metrics.failed \in Nat
      /\ Cardinality(At("processed")) \in Nat /\ Cardinality(At("failed")) \in Nat
  BY CounterTypes DEF WorkerPc
<1>5. ASSUME worker[w].pc = "processed", metrics' = [metrics EXCEPT !.processed = @ + 1]
      PROVE  CountersAgree'
  <2>1. metrics'.processed = metrics.processed + 1 /\ metrics'.failed = metrics.failed
    BY <1>5 DEF TypeInv, TypeOK
  <2>2. Cardinality(At("processed")') = Cardinality(At("processed")) - 1
    BY <1>2, <1>5, Leaves DEF WorkerPc
  <2>3. At("failed")' = At("failed")
    BY <1>2, <1>5, Elsewhere
  <2> QED BY <1>1, <1>3, <1>4, <2>1, <2>2, <2>3, CountersMean
<1>6. ASSUME worker[w].pc = "failed", metrics' = [metrics EXCEPT !.failed = @ + 1]
      PROVE  CountersAgree'
  <2>1. metrics'.failed = metrics.failed + 1 /\ metrics'.processed = metrics.processed
    BY <1>6 DEF TypeInv, TypeOK
  <2>2. Cardinality(At("failed")') = Cardinality(At("failed")) - 1
    BY <1>2, <1>6, Leaves DEF WorkerPc
  <2>3. At("processed")' = At("processed")
    BY <1>2, <1>6, Elsewhere
  <2> QED BY <1>1, <1>3, <1>4, <2>1, <2>2, <2>3, CountersMean
<1> QED BY <1>1, <1>5, <1>6

\* The steps of process_once before a verdict, and subscribe.
LEMMA CountersWorking ==
  ASSUME TypeInv, TypeInv', ClaimInv, CountersAgree, NEW w \in Workers,
         \/ Subscribe(w) \/ ClaimNext(w) \/ ClaimNone(w) \/ Wake(w)
         \/ AlreadyHandled(w) \/ NotYetHandled(w) \/ LastSeen(w)
         \/ HandlerOk(w) \/ HandlerErr(w) \/ ReadAttempts(w)
  PROVE  CountersAgree'
<1> USE DEF database, clocks, history
<1>1. worker \in [Workers -> WorkerType] /\ outbox \in [Events -> RowType]
  BY DEF TypeInv, TypeOK
<1>2. UNCHANGED <<metrics, faults>>
  BY DEF Subscribe, ClaimNext, ClaimNone, Wake, AlreadyHandled, NotYetHandled, LastSeen,
     HandlerOk, HandlerErr, ReadAttempts
<1>3. \A v \in Workers \ {w} : worker'[v] = worker[v]
  BY <1>1 DEF Subscribe, ClaimNext, ClaimNone, Wake, AlreadyHandled, NotYetHandled, LastSeen,
     HandlerOk, HandlerErr, BeginMark, ReadAttempts
<1>4. {worker'[w].pc, worker[w].pc} \cap {"processed", "failed"} = {}
  <2>1. CASE Subscribe(w) \/ ClaimNone(w) \/ Wake(w)
    BY <1>1, <2>1 DEF Subscribe, ClaimNone, Wake, Unladen, WorkerType
  <2>2. CASE ClaimNext(w)
    <3>1. PICK e \in Events : worker' = [worker EXCEPT ![w].pc = "claimed", ![w].event = e]
      BY <2>2 DEF ClaimNext
    <3>2. worker'[w].pc = "claimed"
      BY <1>1, <3>1 DEF WorkerType
    <3> QED BY <2>2, <3>2 DEF ClaimNext
  <2>3. CASE NotYetHandled(w) \/ HandlerErr(w)
    BY <1>1, <2>3 DEF NotYetHandled, HandlerErr, WorkerType
  <2>4. CASE AlreadyHandled(w) \/ HandlerOk(w)
    BY <1>1, <2>4 DEF AlreadyHandled, HandlerOk, BeginMark, WorkerType
  <2>5. CASE LastSeen(w)
    <3>1. PICK seen \in EventOrNone :
            worker' = [worker EXCEPT ![w].pc = "calling", ![w].last_seen = seen]
      BY <2>5 DEF LastSeen
    <3>2. worker'[w].pc = "calling"
      BY <1>1, <3>1 DEF WorkerType
    <3> QED BY <2>5, <3>2 DEF LastSeen
  <2>6. CASE ReadAttempts(w)
    <3>1. outbox[worker[w].event].status = "in_progress" /\ worker[w].pc = "nacked"
      BY <2>6, Alone, Points DEF ReadAttempts
    <3>2. worker' = [worker EXCEPT ![w] =
                       [@ EXCEPT !.pc = "failing", !.attempts = outbox[worker[w].event].attempts]]
      BY <2>6, <3>1 DEF ReadAttempts
    <3> QED BY <1>1, <3>1, <3>2 DEF WorkerType
  <2> QED BY <2>1, <2>2, <2>3, <2>4, <2>5, <2>6
<1>5. AckedRows' = AckedRows /\ AllAttempts' = AllAttempts
  <2>1. CASE ClaimNext(w)
    <3>1. PICK e \in Events :
            outbox[e].status \in Claimable /\ outbox' = [outbox EXCEPT ![e].status = "in_progress"]
      BY <2>1 DEF ClaimNext, OldestDue, Due
    <3>2. /\ outbox'[e].status = "in_progress" /\ outbox'[e].attempts = outbox[e].attempts
          /\ \A f \in Events \ {e} : outbox'[f] = outbox[f]
      BY <1>1, <3>1 DEF RowType
    <3> QED BY <3>1, <3>2 DEF AckedRows, AllAttempts, Claimable
  <2>2. CASE UNCHANGED outbox
    BY <2>2 DEF AckedRows, AllAttempts
  <2> QED BY <2>1, <2>2 DEF Subscribe, ClaimNone, Wake, AlreadyHandled, NotYetHandled, LastSeen,
          HandlerOk, HandlerErr, ReadAttempts
<1> QED BY <1>2, <1>3, <1>4, <1>5, NothingCounted

\* publish: a new row has no attempts and is not acked.
LEMMA CountersPublished ==
  ASSUME TypeInv, ClaimInv, CountersAgree, NEW p \in Publishers,
         \/ \E e \in Events : PublishBegin(p, e)
         \/ PublishInsert(p) \/ PublishAck(p)
  PROVE  CountersAgree'
<1> USE DEF database, clocks, history
<1>1. UNCHANGED <<worker, faults>>
  BY DEF PublishBegin, PublishInsert, PublishAck
<1>2. metrics'.processed = metrics.processed /\ metrics'.failed = metrics.failed
  BY DEF PublishBegin, PublishInsert, PublishAck, TypeInv, TypeOK
<1>3. AckedRows' = AckedRows /\ AllAttempts' = AllAttempts
  <2>1. CASE UNCHANGED outbox
    BY <2>1 DEF AckedRows, AllAttempts
  <2>2. CASE PublishInsert(p) /\ outbox[publisher[p].event].status = "none"
    <3>1. PICK e \in Events :
            /\ e = publisher[p].event /\ outbox[e].status = "none"
            /\ outbox' = [outbox EXCEPT ![e] = Row("pending", 0, 0, publisher[p].stamp)]
      BY <2>2 DEF PublishInsert, TypeInv, BegunOK
    <3>2. /\ outbox'[e].status = "pending" /\ outbox'[e].attempts = outbox[e].attempts
          /\ \A f \in Events \ {e} : outbox'[f] = outbox[f]
      BY <3>1 DEF TypeInv, TypeOK, Row, ClaimInv, EventInv
    <3> QED BY <3>1, <3>2 DEF AckedRows, AllAttempts
  <2> QED BY <2>1, <2>2 DEF PublishBegin, PublishInsert, PublishAck
<1> QED BY <1>1, <1>2, <1>3, NothingCounted

\* Time and a forced retry; a fault ends the claim of the property.
LEMMA CountersEnvironment ==
  ASSUME TableKept, TypeInv, CountersAgree,
         \/ Tick \/ Crash
         \/ \E w \in Workers : DropSubscription(w) \/ DbError(w)
         \/ \E p \in Publishers : AbandonPublish(p)
         \/ \E e \in Events : Operator(e)
  PROVE  CountersAgree'
<1> USE DEF database, clocks, history
<1>1. /\ worker \in [Workers -> WorkerType] /\ outbox \in [Events -> RowType]
      /\ faults \in Nat /\ requeues \in Nat
  BY DEF TypeInv, TypeOK
<1>2. CASE Tick
  <2>1. RowsKept
    BY <1>1, <1>2 DEF Tick, RowsKept, RowType
  <2>2. UNCHANGED <<metrics, faults>> /\ \A w \in Workers : worker'[w].pc = worker[w].pc
    BY <1>1, <1>2 DEF Tick, WorkerType
  <2> QED BY <2>1, <2>2, RowsAddUp, NothingCounted
<1>3. CASE \E e \in Events : Operator(e)
  <2>1. PICK e \in Events : ForceRetry(e)
    BY <1>1, <1>3 DEF Operator, RequeueDlq, RemoveRow, TableKept
  <2>2. /\ outbox'[e].status = "pending" /\ outbox[e].status = "retrying"
        /\ outbox'[e].attempts = outbox[e].attempts
        /\ \A f \in Events \ {e} : outbox'[f] = outbox[f]
    BY <1>1, <2>1 DEF ForceRetry, RowType
  <2>3. AckedRows' = AckedRows /\ AllAttempts' = AllAttempts
    BY <2>2 DEF AckedRows, AllAttempts
  <2> QED BY <2>1, <2>3, NothingCounted DEF ForceRetry
<1>4. CASE \/ Crash
           \/ \E w \in Workers : DropSubscription(w) \/ DbError(w)
           \/ \E p \in Publishers : AbandonPublish(p)
  <2>1. faults' = faults + 1
    BY <1>4 DEF Crash, DropSubscription, DbError, AbandonPublish, Fault
  <2>2. faults' # 0
    BY <1>1, <2>1
  <2> QED BY <2>2, CountersMean
<1> QED BY <1>2, <1>3, <1>4

\* While no fault strikes and no operator removes or requeues rows, the
\* counters of observability.rs agree with the table: processed with the acked
\* rows, failed with the attempts of all rows together, for any finite number
\* of events and workers, any budgets and any backoff (count, mark_handled,
\* mark_failed).
THEOREM CountersAddUp ==
  ASSUME FiniteBus, TableKept
  PROVE  Spec => []CountersAgree
<1>1. Init => CountersAgree
  <2> SUFFICES ASSUME Init PROVE CountersAgree
    OBVIOUS
  <2>1. At("processed") = {} /\ At("failed") = {} /\ AckedRows = {}
    BY DEF Init, At, AckedRows, Unladen, NoRow, Row
  <2>2. AllAttempts \in [Events -> Int] /\ \A e \in Events : AllAttempts[e] = 0
    BY DEF Init, AllAttempts, NoRow, Row
  <2>3. SumFunction(AllAttempts) = 0
    BY <2>2, SumOfZeros DEF FiniteBus
  <2>4. Cardinality({}) = 0
    BY FS_EmptySet
  <2>5. metrics.processed = 0 /\ metrics.failed = 0
    BY DEF Init, NoMetrics
  <2> QED BY <2>1, <2>3, <2>4, <2>5, CountersMean
<1>2. TypeInv /\ TypeInv' /\ ClaimInv /\ CountersAgree /\ [Next]_vars => CountersAgree'
  <2> SUFFICES ASSUME TypeInv, TypeInv', ClaimInv, CountersAgree, [Next]_vars
               PROVE  CountersAgree'
    OBVIOUS
  <2>1. CASE UNCHANGED vars
    <3>1. UNCHANGED <<worker, faults, metrics, outbox>>
      BY <2>1 DEF vars
    <3>2. RowsKept
      BY <3>1 DEF RowsKept
    <3> QED BY <3>1, <3>2, RowsAddUp, NothingCounted
  <2>2. ASSUME NEW w \in Workers, Subscribe(w) \/ WorkerStep(w) PROVE CountersAgree'
    BY <2>2, CountersWorking, CountersHandled, CountersFailed, CountersCounted DEF WorkerStep
  <2>3. ASSUME NEW p \in Publishers, (\E e \in Events : PublishBegin(p, e)) \/ PublisherStep(p)
        PROVE  CountersAgree'
    BY <2>3, CountersPublished DEF PublisherStep
  <2>4. CASE \/ Tick \/ Crash
             \/ \E w \in Workers : DropSubscription(w) \/ DbError(w)
             \/ \E p \in Publishers : AbandonPublish(p)
             \/ \E e \in Events : Operator(e)
    BY <2>4, CountersEnvironment
  <2> QED BY <2>1, <2>2, <2>3, <2>4 DEF Next
<1>3. ClaimsStay
  BY DEF TableKept, ClaimsStay
<1>4. Spec => [](TypeInv /\ ClaimInv)
  BY <1>3, SafetyInvariant
<1> QED BY <1>1, <1>2, <1>4, PTL DEF Spec
=============================================================================
