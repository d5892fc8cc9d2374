------------------------------ MODULE SqliteBus ------------------------------
(***************************************************************************)
(* The durable bus of src/bus/mod.rs: an outbox table, a handled_events     *)
(* table, publishers that insert rows and subscription workers that claim   *)
(* a row, call the handler and record its verdict.                          *)
(*                                                                          *)
(* One action stands for the code between two await points that reach the   *)
(* database or the handler, so every interleaving of workers, publishers,   *)
(* operators and faults that the async code allows is a behaviour.  SQLite  *)
(* serialises write transactions, so the claim and mark_handled, each one   *)
(* transaction, are one step each; mark_failed is two statements without a  *)
(* transaction and is two steps.  With serialised claims the UPDATE of      *)
(* claim_next always finds its row, and `changed == 0` does not arise.      *)
(*                                                                          *)
(* Time is relative: a row holds the ticks left until next_attempt_at.  An  *)
(* abort, a lost future or a database error between two steps is a fault.   *)
(***************************************************************************)
EXTENDS Integers, FiniteSets, Functions

CONSTANTS
    Events,         \* ids of the envelopes that pass EventEnvelope::validate
    Workers,        \* slots for subscription workers
    Publishers,     \* callers of publish
    None,           \* no event
    MaxRetries,     \* with_max_retries of the bus clone each worker runs on
    Backoff,        \* ticks in the 10 ms that mark_failed adds
    Faults,         \* the kinds of fault that may strike
    MaxFaults,      \* bound: how many faults strike
    Stuck,          \* workers whose handler may never return
    ClockErrors,    \* stamps a wall clock that was set may show besides
    Removable,      \* statuses whose rows an operator may delete
    MaxPublishes,   \* bound: calls of publish that reach the database
    MaxRequeues     \* bound: DLQ requeues by an operator

FaultKinds == {"drop", "crash", "db"}
RowStatus == {"pending", "in_progress", "retrying", "acked", "dlq"}

\* Variants named Without..., Misnamed... and the like are plausible slips in
\* the definition that follows them; nothing here uses them.
WithInProgress == {"pending", "retrying", "in_progress"}
WithoutRetrying == {"pending"}

\* What claim_next selects.
Claimable == {"pending", "retrying"}

ASSUME NoneAssumption == None \notin Events
ASSUME RetriesAssumption == MaxRetries \in [Workers -> Int]
ASSUME BackoffAssumption == Backoff \in Nat \ {0}
ASSUME FaultsAssumption == Faults \subseteq FaultKinds /\ MaxFaults \in Nat
ASSUME StuckAssumption == Stuck \subseteq Workers
ASSUME ClockAssumption == ClockErrors \subseteq Nat \ {0}
ASSUME RemovableAssumption == Removable \subseteq RowStatus
ASSUME BoundsAssumption == MaxPublishes \in Nat /\ MaxRequeues \in Nat

VARIABLES
    \* the database, which survives a crash
    outbox,         \* outbox[e]: the row of e; status "none" when there is none
    handled_at,     \* handled_at[e]: when e entered handled_events; 0 if it has not
    \* the process
    worker,         \* worker[w]: where process_once stands
    publisher,      \* publisher[p]: where publish stands
    metrics,        \* the counters of observability.rs
    \* clocks and bounds
    publishClock,   \* stamps given to publish calls
    handledClock,   \* stamps given to mark_handled calls
    faults,
    requeues,
    \* history
    inserts,        \* inserts[e]: rows ever inserted for e
    calls,          \* calls[e]: handler calls since the attempts of e were last 0
    oks             \* oks[e]: handler calls for e that returned Ok

database == <<outbox, handled_at>>
clocks   == <<publishClock, handledClock>>
history  == <<inserts, calls, oks>>
vars == <<outbox, handled_at, worker, publisher, metrics, publishClock,
          handledClock, faults, requeues, inserts, calls, oks>>

EventOrNone == Events \cup {None}

\* Where a worker stands.  "claimed" to "failing" hold an event.
WorkerPc ==
    {"off", "idle", "asleep", "claimed", "fresh", "calling", "marking",
     "nacked", "failing", "processed", "failed"}

Row(status, attempts, wait, created) ==
    [status |-> status, attempts |-> attempts, wait |-> wait, created |-> created]

NoRow == Row("none", 0, 0, 0)

\* A worker between two events.
Unladen(pc) ==
    [pc |-> pc, event |-> None, last_seen |-> None,
     attempts |-> 0, retry_in |-> 0, stamp |-> 0]

NotPublishing == [pc |-> "idle", event |-> None, stamp |-> 0]

NoMetrics == [published |-> 0, processed |-> 0, failed |-> 0]

RowType ==
    [status : RowStatus \cup {"none"}, attempts : Nat, wait : Nat, created : Nat]

WorkerType ==
    [pc : WorkerPc, event : EventOrNone, last_seen : EventOrNone,
     attempts : Nat, retry_in : Nat, stamp : Nat]

PublisherType ==
    [pc : {"idle", "begun", "inserted"}, event : EventOrNone, stamp : Nat]

\* Every column, field and counter has its type.
TypeOK ==
    /\ outbox \in [Events -> RowType]
    /\ handled_at \in [Events -> Nat]
    /\ worker \in [Workers -> WorkerType]
    /\ publisher \in [Publishers -> PublisherType]
    /\ metrics \in [published : Nat, processed : Nat, failed : Nat]
    /\ publishClock \in Nat /\ handledClock \in Nat
    /\ faults \in Nat /\ requeues \in Nat
    /\ inserts \in [Events -> Nat]
    /\ calls \in [Events -> Nat]
    /\ oks \in [Events -> Nat]

Init ==
    /\ outbox = [e \in Events |-> NoRow]
    /\ handled_at = [e \in Events |-> 0]
    /\ worker = [w \in Workers |-> Unladen("off")]
    /\ publisher = [p \in Publishers |-> NotPublishing]
    /\ metrics = NoMetrics
    /\ publishClock = 0 /\ handledClock = 0
    /\ faults = 0 /\ requeues = 0
    /\ inserts = [e \in Events |-> 0]
    /\ calls = [e \in Events |-> 0]
    /\ oks = [e \in Events |-> 0]
-----------------------------------------------------------------------------
(* publish: the stamp is read before the insert reaches the database, and   *)
(* the counter is incremented after it, duplicate or not.  An envelope that *)
(* validate refuses returns early and changes nothing.                      *)

\* Utc::now: later than before, unless the clock was set or another is ahead.
Stamps(clock) == {clock + 1} \cup ClockErrors

PublishBegin(p, e) ==
    /\ publisher[p].pc = "idle"
    /\ publishClock < MaxPublishes
    /\ publishClock' = publishClock + 1
    /\ \E stamp \in Stamps(publishClock) :
          publisher' = [publisher EXCEPT ![p] =
                           [pc |-> "begun", event |-> e, stamp |-> stamp]]
    /\ UNCHANGED <<database, worker, metrics, handledClock, faults, requeues, history>>

\* INSERT OR IGNORE: a row that exists is left alone.
PublishInsert(p) ==
    LET e == publisher[p].event IN
    /\ publisher[p].pc = "begun"
    /\ publisher' = [publisher EXCEPT ![p].pc = "inserted"]
    /\ IF outbox[e].status = "none"
         THEN /\ outbox' = [outbox EXCEPT ![e] =
                               Row("pending", 0, 0, publisher[p].stamp)]
              /\ inserts' = [inserts EXCEPT ![e] = @ + 1]
         ELSE UNCHANGED <<outbox, inserts>>
    /\ UNCHANGED <<handled_at, worker, metrics, clocks, faults, requeues, calls, oks>>

PublishAck(p) ==
    /\ publisher[p].pc = "inserted"
    /\ publisher' = [publisher EXCEPT ![p] = NotPublishing]
    /\ metrics' = [metrics EXCEPT !.published = @ + 1]
    /\ UNCHANGED <<database, worker, clocks, faults, requeues, history>>
-----------------------------------------------------------------------------
(* The subscription worker: process_once in a loop.                         *)

TakesBackClaims(w) ==
    /\ worker[w].pc = "off"
    /\ worker' = [worker EXCEPT ![w] = Unladen("idle")]
    /\ outbox' = [e \in Events |-> IF outbox[e].status = "in_progress"
                                    THEN [outbox[e] EXCEPT !.status = "pending"]
                                    ELSE outbox[e]]
    /\ UNCHANGED <<handled_at, publisher, metrics, clocks, faults, requeues, history>>

\* subscribe spawns the worker; migrate leaves existing rows as they are.
Subscribe(w) ==
    /\ worker[w].pc = "off"
    /\ worker' = [worker EXCEPT ![w] = Unladen("idle")]
    /\ UNCHANGED <<database, publisher, metrics, clocks, faults, requeues, history>>

Due(e) == outbox[e].status \in Claimable /\ outbox[e].wait = 0

OldestDue(e) ==
    /\ Due(e)
    /\ \A f \in Events : Due(f) => outbox[e].created <= outbox[f].created

ClaimNext(w) ==
    /\ worker[w].pc = "idle"
    /\ \E e \in Events :
          /\ OldestDue(e)
          /\ outbox' = [outbox EXCEPT ![e].status = "in_progress"]
          /\ worker' = [worker EXCEPT ![w].pc = "claimed", ![w].event = e]
    /\ UNCHANGED <<handled_at, publisher, metrics, clocks, faults, requeues, history>>

\* Nothing is due: sleep for the poll interval.
ClaimNone(w) ==
    /\ worker[w].pc = "idle"
    /\ \A e \in Events : ~Due(e)
    /\ worker' = [worker EXCEPT ![w].pc = "asleep"]
    /\ UNCHANGED <<database, publisher, metrics, clocks, faults, requeues, history>>

Wake(w) ==
    /\ worker[w].pc = "asleep"
    /\ worker' = [worker EXCEPT ![w].pc = "idle"]
    /\ UNCHANGED <<database, publisher, metrics, clocks, faults, requeues, history>>

\* mark_handled reads the clock before its transaction opens.
BeginMark(w) ==
    /\ handledClock' = handledClock + 1
    /\ \E stamp \in Stamps(handledClock) :
          worker' = [worker EXCEPT ![w].pc = "marking", ![w].stamp = stamp]

AlreadyHandled(w) ==
    /\ worker[w].pc = "claimed"
    /\ handled_at[worker[w].event] > 0
    /\ BeginMark(w)
    /\ UNCHANGED <<database, publisher, metrics, publishClock, faults, requeues, history>>

WithoutHandledCheck(w) ==
    /\ worker[w].pc = "claimed"
    /\ worker' = [worker EXCEPT ![w].pc = "fresh"]
    /\ UNCHANGED <<database, publisher, metrics, clocks, faults, requeues, history>>

NotYetHandled(w) ==
    /\ worker[w].pc = "claimed"
    /\ handled_at[worker[w].event] = 0
    /\ worker' = [worker EXCEPT ![w].pc = "fresh"]
    /\ UNCHANGED <<database, publisher, metrics, clocks, faults, requeues, history>>

\* e was the last one to enter handled_events.
IsLastSeen(e) ==
    /\ handled_at[e] > 0
    /\ \A f \in Events : handled_at[f] <= handled_at[e]

\* Reads last_seen and calls the handler with it.
LastSeen(w) ==
    LET e == worker[w].event IN
    /\ worker[w].pc = "fresh"
    /\ \E seen \in EventOrNone :
          /\ IF seen = None THEN \A f \in Events : handled_at[f] = 0
                            ELSE IsLastSeen(seen)
          /\ worker' = [worker EXCEPT ![w].pc = "calling", ![w].last_seen = seen]
    /\ calls' = [calls EXCEPT ![e] = @ + 1]
    /\ UNCHANGED <<database, publisher, metrics, clocks, faults, requeues, inserts, oks>>

HandlerOk(w) ==
    LET e == worker[w].event IN
    /\ worker[w].pc = "calling"
    /\ BeginMark(w)
    /\ oks' = [oks EXCEPT ![e] = @ + 1]
    /\ UNCHANGED <<database, publisher, metrics, publishClock, faults, requeues, inserts, calls>>

\* mark_failed reads the clock before its first statement: retry_in is the
\* time left until next_attempt_at, whatever the attempt.
HandlerErr(w) ==
    /\ worker[w].pc = "calling"
    /\ worker' = [worker EXCEPT ![w].pc = "nacked", ![w].retry_in = Backoff]
    /\ UNCHANGED <<database, publisher, metrics, clocks, faults, requeues, history>>

WithoutHandledInsert(w) ==
    /\ worker[w].pc = "marking"
    /\ outbox' = [outbox EXCEPT ![worker[w].event].status = "acked"]
    /\ worker' = [worker EXCEPT ![w] = Unladen("processed")]
    /\ UNCHANGED <<handled_at, publisher, metrics, clocks, faults, requeues, history>>

\* One transaction: INSERT OR IGNORE INTO handled_events, UPDATE the row if
\* there still is one.
MarkHandled(w) ==
    LET e == worker[w].event IN
    /\ worker[w].pc = "marking"
    /\ handled_at' = [handled_at EXCEPT ![e] = IF @ = 0 THEN worker[w].stamp ELSE @]
    /\ outbox' = [outbox EXCEPT ![e].status = IF @ = "none" THEN @ ELSE "acked"]
    /\ worker' = [worker EXCEPT ![w] = Unladen("processed")]
    /\ UNCHANGED <<publisher, metrics, clocks, faults, requeues, history>>

\* First statement of mark_failed.
ReadAttempts(w) ==
    LET e == worker[w].event IN
    /\ worker[w].pc = "nacked"
    /\ worker' = [worker EXCEPT ![w] =
                     IF outbox[e].status = "none"
                       THEN Unladen("failed")
                       ELSE [@ EXCEPT !.pc = "failing", !.attempts = outbox[e].attempts]]
    /\ UNCHANGED <<database, publisher, metrics, clocks, faults, requeues, history>>

MisnamedVerdict(w, next_attempts) ==
    IF next_attempts >= MaxRetries[w] THEN "dead" ELSE "retrying"

LateVerdict(w, next_attempts) ==
    IF next_attempts > MaxRetries[w] THEN "dlq" ELSE "retrying"

EarlyVerdict(w, next_attempts) ==
    IF next_attempts + 1 >= MaxRetries[w] THEN "dlq" ELSE "retrying"

Verdict(w, next_attempts) ==
    IF next_attempts >= MaxRetries[w] THEN "dlq" ELSE "retrying"

WithoutDlqUpdate(w) ==
    LET e == worker[w].event IN
    /\ worker[w].pc = "failing"
    /\ outbox' = [outbox EXCEPT ![e] =
                     IF Verdict(w, @.attempts + 1) = "dlq"
                       THEN @
                       ELSE Row("retrying", @.attempts + 1, worker[w].retry_in, @.created)]
    /\ worker' = [worker EXCEPT ![w] = Unladen("failed")]
    /\ UNCHANGED <<handled_at, publisher, metrics, clocks, faults, requeues, history>>

WithoutIncrement(w) ==
    LET e == worker[w].event IN
    /\ worker[w].pc = "failing"
    /\ outbox' = [outbox EXCEPT ![e] =
                     IF @.status = "none"
                       THEN @
                       ELSE Row(Verdict(w, worker[w].attempts + 1), worker[w].attempts,
                                worker[w].retry_in, @.created)]
    /\ worker' = [worker EXCEPT ![w] = Unladen("failed")]
    /\ UNCHANGED <<handled_at, publisher, metrics, clocks, faults, requeues, history>>

\* Second statement of mark_failed, guarded by the event id alone.
MarkFailed(w) ==
    LET e == worker[w].event
        next_attempts == worker[w].attempts + 1
        status == Verdict(w, next_attempts)
    IN
    /\ worker[w].pc = "failing"
    /\ outbox' = [outbox EXCEPT ![e] =
                     IF @.status = "none"
                       THEN @
                       ELSE Row(status, next_attempts, worker[w].retry_in, @.created)]
    /\ worker' = [worker EXCEPT ![w] = Unladen("failed")]
    /\ UNCHANGED <<handled_at, publisher, metrics, clocks, faults, requeues, history>>

CountProcessed(w) ==
    /\ worker[w].pc = "processed"
    /\ metrics' = [metrics EXCEPT !.processed = @ + 1]
    /\ worker' = [worker EXCEPT ![w].pc = "idle"]
    /\ UNCHANGED <<database, publisher, clocks, faults, requeues, history>>

CountedAsProcessed(w) ==
    /\ worker[w].pc = "failed"
    /\ metrics' = [metrics EXCEPT !.processed = @ + 1]
    /\ worker' = [worker EXCEPT ![w].pc = "idle"]
    /\ UNCHANGED <<database, publisher, clocks, faults, requeues, history>>

CountFailed(w) ==
    /\ worker[w].pc = "failed"
    /\ metrics' = [metrics EXCEPT !.failed = @ + 1]
    /\ worker' = [worker EXCEPT ![w].pc = "idle"]
    /\ UNCHANGED <<database, publisher, clocks, faults, requeues, history>>
-----------------------------------------------------------------------------
(* Time, operators and faults.                                              *)

Pass(ticks) == IF ticks > 0 THEN ticks - 1 ELSE 0

Tick ==
    /\ \/ \E e \in Events : outbox[e].wait > 0
       \/ \E w \in Workers : worker[w].retry_in > 0
    /\ outbox' = [e \in Events |-> [outbox[e] EXCEPT !.wait = Pass(@)]]
    /\ worker' = [w \in Workers |-> [worker[w] EXCEPT !.retry_in = Pass(@)]]
    /\ UNCHANGED <<handled_at, publisher, metrics, clocks, faults, requeues, history>>

\* docs/ops/RUNBOOK.md, "DLQ drain": back to pending with attempts = 0.
RequeueDlq(e) ==
    /\ outbox[e].status = "dlq"
    /\ requeues < MaxRequeues
    /\ requeues' = requeues + 1
    /\ outbox' = [outbox EXCEPT ![e] = Row("pending", 0, 0, @.created)]
    /\ calls' = [calls EXCEPT ![e] = 0]
    /\ UNCHANGED <<handled_at, worker, publisher, metrics, clocks, faults, inserts, oks>>

\* docs/ops/RUNBOOK.md, "To force immediate retry".
ForceRetry(e) ==
    /\ outbox[e].status = "retrying"
    /\ outbox' = [outbox EXCEPT ![e].status = "pending", ![e].wait = 0]
    /\ UNCHANGED <<handled_at, worker, publisher, metrics, clocks, faults, requeues, history>>

\* mark_failed expects rows to be "removed from the outbox" under it.
RemoveRow(e) ==
    /\ outbox[e].status \in Removable
    /\ outbox' = [outbox EXCEPT ![e] = NoRow]
    /\ calls' = [calls EXCEPT ![e] = 0]
    /\ UNCHANGED <<handled_at, worker, publisher, metrics, clocks, faults, requeues, inserts, oks>>

Fault(kinds) ==
    /\ kinds \cap Faults # {}
    /\ faults < MaxFaults
    /\ faults' = faults + 1

\* Drop for Subscription aborts the task at an await point; a panic of the
\* handler ends it the same way.
DropSubscription(w) ==
    /\ worker[w].pc # "off"
    /\ Fault({"drop"})
    /\ worker' = [worker EXCEPT ![w] = Unladen("off")]
    /\ UNCHANGED <<database, publisher, metrics, clocks, requeues, history>>

GivesBackOnError(w) ==
    LET e == worker[w].event IN
    /\ worker[w].pc \in {"claimed", "fresh", "marking", "nacked", "failing"}
    /\ Fault({"db"})
    /\ outbox' = [outbox EXCEPT ![e].status = "pending"]
    /\ worker' = [worker EXCEPT ![w] = Unladen("asleep")]
    /\ UNCHANGED <<handled_at, publisher, metrics, clocks, requeues, history>>

\* A statement fails: process_once returns the error and the loop sleeps.
DbError(w) ==
    /\ worker[w].pc \in {"idle", "claimed", "fresh", "marking", "nacked", "failing"}
    /\ Fault({"db"})
    /\ worker' = [worker EXCEPT ![w] = Unladen("asleep")]
    /\ UNCHANGED <<database, publisher, metrics, clocks, requeues, history>>

\* The insert fails, or the caller drops the future of publish.
AbandonPublish(p) ==
    /\ \/ publisher[p].pc = "begun" /\ Fault({"db", "drop"})
       \/ publisher[p].pc = "inserted" /\ Fault({"drop"})
    /\ publisher' = [publisher EXCEPT ![p] = NotPublishing]
    /\ UNCHANGED <<database, worker, metrics, clocks, requeues, history>>

\* The process dies: the tables stay, everything else is gone.
Crash ==
    /\ Fault({"crash"})
    /\ worker' = [w \in Workers |-> Unladen("off")]
    /\ publisher' = [p \in Publishers |-> NotPublishing]
    /\ metrics' = NoMetrics
    /\ UNCHANGED <<database, clocks, requeues, history>>
-----------------------------------------------------------------------------
PublisherStep(p) ==
    PublishInsert(p) \/ PublishAck(p)

WorkerStep(w) ==
    \/ ClaimNext(w) \/ ClaimNone(w) \/ Wake(w)
    \/ AlreadyHandled(w) \/ NotYetHandled(w) \/ LastSeen(w)
    \/ HandlerOk(w) \/ HandlerErr(w)
    \/ MarkHandled(w) \/ ReadAttempts(w) \/ MarkFailed(w)
    \/ CountProcessed(w) \/ CountFailed(w)

Operator(e) == RequeueDlq(e) \/ ForceRetry(e) \/ RemoveRow(e)

Next ==
    \/ \E p \in Publishers, e \in Events : PublishBegin(p, e)
    \/ \E p \in Publishers : PublisherStep(p) \/ AbandonPublish(p)
    \/ \E w \in Workers : Subscribe(w) \/ WorkerStep(w)
    \/ \E w \in Workers : DropSubscription(w) \/ DbError(w)
    \/ \E e \in Events : Operator(e)
    \/ Tick
    \/ Crash

Spec == Init /\ [][Next]_vars

\* What is sure to come: a stuck worker's handler is not.
SureStep(w) == WorkerStep(w) /\ (w \in Stuck => worker[w].pc # "calling")

\* Tokio polls every ready task, handlers return but for the stuck ones, time
\* passes, and somebody subscribes again after a drop or a crash.
FairSpec ==
    /\ Spec
    /\ \A p \in Publishers : WF_vars(PublisherStep(p))
    /\ \A w \in Workers : WF_vars(Subscribe(w)) /\ WF_vars(SureStep(w))
    /\ WF_vars(Tick)
-----------------------------------------------------------------------------
(* Properties.                                                              *)

\* The points of process_once at which an event is in hand.
LadenPc == {"claimed", "fresh", "calling", "marking", "nacked", "failing"}

Holds(w, e) == worker[w].event = e

\* A claimed row whose worker is gone.
Stranded(e) ==
    /\ outbox[e].status = "in_progress"
    /\ \A w \in Workers : ~Holds(w, e)

\* Competing workers never work on the same event at once, and the row of an
\* event under work stays in_progress (claim_next's transaction).
ExclusiveClaim ==
    /\ \A w \in Workers, e \in Events :
          Holds(w, e) => outbox[e].status = "in_progress"
    /\ \A v, w \in Workers, e \in Events :
          Holds(v, e) /\ Holds(w, e) => v = w

\* Once a handler returned Ok for an event, no handler is called for it again,
\* through any drop, crash, error and republication in between, also of an id
\* whose unclaimed row was deleted (already_handled, and claims that are never
\* taken back).
NeverCalledAgain ==
    \A e \in Events :
        /\ oks[e] <= 1
        /\ oks[e] = 1 =>
              \A w \in Workers : Holds(w, e) => worker[w].pc \notin {"fresh", "calling"}

\* An acked row stands for a successful call that handled_events records, and
\* nothing enters handled_events without one.
AckedWasProcessed ==
    \A e \in Events :
        /\ outbox[e].status = "acked" => handled_at[e] > 0
        /\ handled_at[e] > 0 => oks[e] > 0

\* The attempts column counts the handler calls of a waiting or dead row
\* exactly; a call it does not count is running, stranded or was a success.
CallsAccounted ==
    \A e \in Events :
        /\ outbox[e].status \in Claimable \cup {"dlq"} => calls[e] = outbox[e].attempts
        /\ calls[e] \in {outbox[e].attempts, outbox[e].attempts + 1}

\* However the clones of the bus differ in max_retries, and whichever of them
\* gets an event next, its handlers are called once, or as often as the most
\* generous clone allows, before the row is acked or dead (mark_failed).
RetryBudget ==
    \A e \in Events :
        calls[e] > 1 => \E w \in Workers : calls[e] <= MaxRetries[w]

Becomes(e, status) == outbox[e].status # status /\ outbox'[e].status = status

LetsGo(w, e) == Holds(w, e) /\ worker'[w].event # e

\* A row is buried by a clone whose own budget is spent and put back by one
\* whose budget is not, by the calls that really were made, those of other
\* clones and before a restart included; nothing else makes a row dlq or
\* retrying (mark_failed).
VerdictsFitBudget ==
    [][\A e \in Events :
          /\ Becomes(e, "dlq") =>
                \E w \in Workers : LetsGo(w, e) /\ calls[e] >= MaxRetries[w]
          /\ Becomes(e, "retrying") =>
                \E w \in Workers : LetsGo(w, e) /\ calls[e] < MaxRetries[w]]_vars

\* last_seen is read after already_handled, without a lock: the handler is
\* still never told that the event it is given was the last one handled.
OwnIdNeverLastSeen ==
    \A w \in Workers :
        worker[w].pc = "calling" => worker[w].last_seen # worker[w].event

\* What keeps the above inductive, one event and one worker at a time.
Affordable(attempts) == attempts = 0 \/ \E w \in Workers : attempts < MaxRetries[w]

EventInv(e) ==
    LET row == outbox[e] IN
    /\ oks[e] \in {0, 1}
    /\ handled_at[e] > 0 => oks[e] = 1 /\ row.status \notin {"retrying", "dlq"}
    /\ handled_at[e] = 0 /\ oks[e] = 1 => row.status = "in_progress"
    /\ row.status = "acked" => handled_at[e] > 0
    /\ calls[e] \in {row.attempts, row.attempts + 1}
    /\ row.status \notin {"in_progress", "acked"} => calls[e] = row.attempts
    /\ row.status = "none" => row.attempts = 0
    /\ row.status # "dlq" => Affordable(row.attempts)
    /\ row.attempts > 1 => \E w \in Workers : row.attempts <= MaxRetries[w]

HolderInv(w) ==
    LET pc == worker[w].pc
        e  == worker[w].event
    IN
    pc \in LadenPc =>
        /\ outbox[e].status = "in_progress"
        /\ pc = "marking" => oks[e] = 1 /\ worker[w].stamp > 0
        /\ pc = "claimed" => handled_at[e] > 0 \/ oks[e] = 0
        /\ pc \notin {"claimed", "marking"} => oks[e] = 0
        /\ pc \in {"claimed", "fresh"} => calls[e] = outbox[e].attempts
        /\ pc \in {"calling", "nacked", "failing"} => calls[e] = outbox[e].attempts + 1
        /\ pc = "failing" => worker[w].attempts = outbox[e].attempts
        /\ pc = "calling" => worker[w].last_seen # e

OneHolder ==
    \A v, w \in Workers, e \in Events : Holds(v, e) /\ Holds(w, e) => v = w

\* Every row is at a point of its life that its history explains, every
\* worker's own record agrees with the row it holds, and no two hold the same.
ClaimInv ==
    /\ \A e \in Events : EventInv(e)
    /\ \A w \in Workers : HolderInv(w)
    /\ OneHolder

\* Only a fault strands a claim.
OnlyFaultsStrand == \A e \in Events : Stranded(e) => faults > 0

\* Nothing in the code takes a stranded claim back, a new subscription
\* included: claim_next selects pending and retrying rows only.
StrandedIsForever ==
    [][\A e \in Events : Stranded(e) => outbox'[e] = outbox[e]]_vars

\* A handler succeeds at most once per row ever inserted, whatever is removed
\* under the workers and however the two halves of mark_failed fall.
SuccessPerInsert == \A e \in Events : oks[e] <= inserts[e]

\* While no fault strikes, the counters agree with the table, but for the
\* workers about to count.
CountersAgree ==
    LET At(pc) == Cardinality({w \in Workers : worker[w].pc = pc})
        Failures == SumFunction([e \in Events |-> outbox[e].attempts])
    IN faults = 0 =>
         /\ metrics.processed + At("processed")
              = Cardinality({e \in Events : outbox[e].status = "acked"})
         /\ metrics.failed + At("failed") = Failures

InStuckCall(e) == \E w \in Stuck : Holds(w, e) /\ worker[w].pc = "calling"

\* Every row in the outbox is settled in the end, retries and their waits
\* included, unless a fault stranded it or its own handler does not return:
\* no row waits for the handler of another.
SettlesOrStrands ==
    \A e \in Events :
        outbox[e].status \in Claimable \cup {"in_progress"}
            ~> \/ outbox[e].status \in {"acked", "dlq", "none"}
               \/ Stranded(e) \/ InStuckCall(e)

\* How far e has come, as the abstract lifecycle sees it.
Phase(e) ==
    LET status == outbox[e].status IN
    CASE status = "acked"    -> "done"
      [] status = "dlq"      -> "dead"
      [] status = "retrying" -> "queued"
      [] status = "pending"  -> IF handled_at[e] > 0 THEN "done" ELSE "queued"
      [] status = "none"     -> IF handled_at[e] > 0 THEN "done" ELSE "new"
      [] status = "in_progress" ->
            IF handled_at[e] > 0 THEN "done"
            ELSE IF oks[e] > 0 THEN "effected" ELSE "running"

phase == [e \in Events |-> Phase(e)]

Lifecycle == INSTANCE EventLifecycle WITH phase <- phase

\* The bus implements the abstract lifecycle: one effect per event.
LifecycleSpec == Lifecycle!Spec
=============================================================================
