---------------------------- MODULE InMemoryBus ----------------------------
(***************************************************************************)
(* The in-process bus of src/bus/in_memory.rs: publish fans an event out to *)
(* a bounded queue per subscriber, and each subscriber's worker hands its   *)
(* queue to the handler.  The registry, the seen set and last_seen change   *)
(* together under one mutex; the sends come after the mutex is released, so *)
(* the sends of two publishers interleave.                                  *)
(*                                                                          *)
(* run_subscriber ends, and takes its entry out of the registry, when all   *)
(* senders of its channel are gone.  The registry itself holds one, and the *)
(* worker keeps the registry alive, so that end is never reached: there is  *)
(* no action for it.                                                        *)
(***************************************************************************)
EXTENDS Integers, FiniteSets, Sequences, SequencesExt

CONSTANTS
    Events,         \* ids of the envelopes that pass EventEnvelope::validate
    Publishers,     \* callers of publish
    Subscribers,    \* subscriber ids, fresh for each subscribe
    None,           \* no event
    Capacity,       \* SUBSCRIBER_QUEUE
    Stuck,          \* subscribers whose handler may never return
    MaxPublishes    \* bound: calls of publish

ASSUME NoneAssumption == None \notin Events
ASSUME CapacityAssumption == Capacity \in Nat \ {0}
ASSUME StuckAssumption == Stuck \subseteq Subscribers
ASSUME BoundAssumption == MaxPublishes \in Nat

VARIABLES
    subscribers,    \* Inner.subscribers: ids with a sender in the registry
    seen,           \* Inner.seen
    last_seen,      \* Inner.last_seen
    queue,          \* queue[s]: the channel of s
    worker,         \* worker[s]: where run_subscriber stands
    publisher,      \* publisher[p]: where publish stands
    failed,         \* EVENTS_FAILED
    \* history
    log,            \* every publish, in the order of the critical sections
    joined,         \* joined[s]: length of the log when s subscribed
    received,       \* received[s]: positions in the log, as the handler got them
    refused         \* refused[s]: positions a full queue turned away

inner   == <<subscribers, seen, last_seen>>
history == <<log, joined, received, refused>>
vars == <<subscribers, seen, last_seen, queue, worker, publisher, failed,
          log, joined, received, refused>>

EventOrNone == Events \cup {None}
Positions == 1..MaxPublishes

\* What a queue holds; n is the position of its publish in the log.
Message == [event : Events, last_seen : EventOrNone, n : Positions]

PublisherType ==
    [pc : {"idle", "sending"}, event : EventOrNone, last_seen : EventOrNone,
     targets : SUBSET Subscribers, duplicate : BOOLEAN, n : 0..MaxPublishes]

NotPublishing ==
    [pc |-> "idle", event |-> None, last_seen |-> None,
     targets |-> {}, duplicate |-> FALSE, n |-> 0]

\* Registry, queues, tasks and history have their types; no queue overflows.
TypeOK ==
    /\ subscribers \subseteq Subscribers
    /\ seen \subseteq Events
    /\ last_seen \in EventOrNone
    /\ \A s \in Subscribers : queue[s] \in Seq(Message) /\ Len(queue[s]) <= Capacity
    /\ worker \in [Subscribers -> {"new", "waiting", "calling", "aborted"}]
    /\ publisher \in [Publishers -> PublisherType]
    /\ failed \in Nat
    /\ log \in Seq([event : Events, by : Publishers])
    /\ joined \in [Subscribers -> Nat]
    /\ \A s \in Subscribers : received[s] \in Seq(Positions)
    /\ refused \in [Subscribers -> SUBSET Positions]

Init ==
    /\ subscribers = {} /\ seen = {} /\ last_seen = None
    /\ queue = [s \in Subscribers |-> <<>>]
    /\ worker = [s \in Subscribers |-> "new"]
    /\ publisher = [p \in Publishers |-> NotPublishing]
    /\ failed = 0
    /\ log = <<>>
    /\ joined = [s \in Subscribers |-> 0]
    /\ received = [s \in Subscribers |-> <<>>]
    /\ refused = [s \in Subscribers |-> {}]
-----------------------------------------------------------------------------
\* Slips in PublishLock: seen forgotten, last_seen read after it moved,
\* duplicates not sent.
WithoutSeen(p, e) ==
    /\ publisher[p].pc = "idle"
    /\ Len(log) < MaxPublishes
    /\ log' = Append(log, [event |-> e, by |-> p])
    /\ publisher' = [publisher EXCEPT ![p] =
                        [pc |-> "sending", event |-> e, last_seen |-> last_seen,
                         targets |-> subscribers, duplicate |-> FALSE,
                         n |-> Len(log) + 1]]
    /\ last_seen' = e
    /\ UNCHANGED <<subscribers, seen, queue, worker, failed, joined, received, refused>>

LateLastSeen(p, e) ==
    /\ publisher[p].pc = "idle"
    /\ Len(log) < MaxPublishes
    /\ log' = Append(log, [event |-> e, by |-> p])
    /\ publisher' = [publisher EXCEPT ![p] =
                        [pc |-> "sending", event |-> e, last_seen |-> e,
                         targets |-> subscribers, duplicate |-> e \in seen,
                         n |-> Len(log) + 1]]
    /\ seen' = seen \cup {e}
    /\ last_seen' = e
    /\ UNCHANGED <<subscribers, queue, worker, failed, joined, received, refused>>

SkipsDuplicates(p, e) ==
    /\ publisher[p].pc = "idle"
    /\ Len(log) < MaxPublishes
    /\ log' = Append(log, [event |-> e, by |-> p])
    /\ publisher' = [publisher EXCEPT ![p] =
                        [pc |-> "sending", event |-> e, last_seen |-> last_seen,
                         targets |-> IF e \in seen THEN {} ELSE subscribers,
                         duplicate |-> e \in seen, n |-> Len(log) + 1]]
    /\ seen' = seen \cup {e}
    /\ last_seen' = e
    /\ UNCHANGED <<subscribers, queue, worker, failed, joined, received, refused>>

\* The critical section of publish: senders, duplicate and the previous
\* last_seen are taken, seen and last_seen move on, a duplicate included.
PublishLock(p, e) ==
    /\ publisher[p].pc = "idle"
    /\ Len(log) < MaxPublishes
    /\ log' = Append(log, [event |-> e, by |-> p])
    /\ publisher' = [publisher EXCEPT ![p] =
                        [pc |-> "sending", event |-> e, last_seen |-> last_seen,
                         targets |-> subscribers, duplicate |-> e \in seen,
                         n |-> Len(log) + 1]]
    /\ seen' = seen \cup {e}
    /\ last_seen' = e
    /\ UNCHANGED <<subscribers, queue, worker, failed, joined, received, refused>>

MessageOf(p) ==
    [event |-> publisher[p].event, last_seen |-> publisher[p].last_seen,
     n |-> publisher[p].n]

IsOpen(s) == worker[s] # "aborted"
HasRoom(s) == Len(queue[s]) < Capacity

\* Slips in TrySend: one slot too many, or waiting for a slot.
OneOver(p, s) ==
    /\ s \in publisher[p].targets
    /\ publisher' = [publisher EXCEPT ![p].targets = @ \ {s}]
    /\ IF IsOpen(s) /\ Len(queue[s]) <= Capacity
         THEN queue' = [queue EXCEPT ![s] = Append(@, MessageOf(p))] /\ UNCHANGED refused
         ELSE UNCHANGED <<queue, refused>>
    /\ UNCHANGED <<inner, worker, failed, log, joined, received>>

BlockingSend(p, s) ==
    /\ s \in publisher[p].targets
    /\ publisher' = [publisher EXCEPT ![p].targets = @ \ {s}]
    /\ HasRoom(s) \/ ~IsOpen(s)
    /\ queue' = IF IsOpen(s) THEN [queue EXCEPT ![s] = Append(@, MessageOf(p))] ELSE queue
    /\ UNCHANGED <<inner, worker, failed, log, joined, received, refused>>

\* try_send to one of the senders taken: into the queue, or lost when the
\* queue is full or its receiver is gone.
TrySend(p, s) ==
    /\ s \in publisher[p].targets
    /\ publisher' = [publisher EXCEPT ![p].targets = @ \ {s}]
    /\ \/ /\ IsOpen(s) /\ HasRoom(s)
          /\ queue' = [queue EXCEPT ![s] = Append(@, MessageOf(p))]
          /\ UNCHANGED refused
       \/ /\ IsOpen(s) /\ ~HasRoom(s)
          /\ refused' = [refused EXCEPT ![s] = @ \cup {publisher[p].n}]
          /\ UNCHANGED queue
       \/ /\ ~IsOpen(s)
          /\ UNCHANGED <<queue, refused>>
    /\ UNCHANGED <<inner, worker, failed, log, joined, received>>

PublishAck(p) ==
    /\ publisher[p].pc = "sending"
    /\ publisher[p].targets = {}
    /\ publisher' = [publisher EXCEPT ![p] = NotPublishing]
    /\ UNCHANGED <<inner, queue, worker, failed, history>>
-----------------------------------------------------------------------------
\* The registry entry and the channel, then the worker task; nothing comes
\* between them that the channel would not hold for the worker.
Subscribe(s) ==
    /\ worker[s] = "new"
    /\ worker' = [worker EXCEPT ![s] = "waiting"]
    /\ subscribers' = subscribers \cup {s}
    /\ joined' = [joined EXCEPT ![s] = Len(log)]
    /\ UNCHANGED <<seen, last_seen, queue, publisher, failed, log, received, refused>>

\* A slip in Receive: the newest message first.
NewestFirst(s) ==
    /\ worker[s] = "waiting"
    /\ queue[s] # <<>>
    /\ worker' = [worker EXCEPT ![s] = "calling"]
    /\ queue' = [queue EXCEPT ![s] = Front(@)]
    /\ received' = [received EXCEPT ![s] = Append(@, Last(queue[s]).n)]
    /\ UNCHANGED <<inner, publisher, failed, log, joined, refused>>

\* recv, and the call of the handler with what it returned.
Receive(s) ==
    /\ worker[s] = "waiting"
    /\ queue[s] # <<>>
    /\ worker' = [worker EXCEPT ![s] = "calling"]
    /\ queue' = [queue EXCEPT ![s] = Tail(@)]
    /\ received' = [received EXCEPT ![s] = Append(@, Head(queue[s]).n)]
    /\ UNCHANGED <<inner, publisher, failed, log, joined, refused>>

HandlerOk(s) ==
    /\ worker[s] = "calling"
    /\ worker' = [worker EXCEPT ![s] = "waiting"]
    /\ UNCHANGED <<inner, queue, publisher, failed, history>>

\* A slip in HandlerErr: the first nack ends the worker.
EndsOnNack(s) ==
    /\ worker[s] = "calling"
    /\ worker' = [worker EXCEPT ![s] = "new"]
    /\ failed' = failed + 1
    /\ UNCHANGED <<inner, queue, publisher, history>>

\* A nack is counted and logged; there is no retry.
HandlerErr(s) ==
    /\ worker[s] = "calling"
    /\ worker' = [worker EXCEPT ![s] = "waiting"]
    /\ failed' = failed + 1
    /\ UNCHANGED <<inner, queue, publisher, history>>

\* Drop for Subscription aborts the task, which closes the channel.  The
\* registry keeps the sender.
Unsubscribe(s) ==
    /\ worker[s] \in {"waiting", "calling"}
    /\ worker' = [worker EXCEPT ![s] = "aborted"]
    /\ UNCHANGED <<inner, queue, publisher, failed, history>>
-----------------------------------------------------------------------------
PublisherStep(p) == PublishAck(p) \/ \E s \in Subscribers : TrySend(p, s)

Verdict(s) == HandlerOk(s) \/ HandlerErr(s)

Next ==
    \/ \E p \in Publishers, e \in Events : PublishLock(p, e)
    \/ \E p \in Publishers : PublisherStep(p)
    \/ \E s \in Subscribers : Subscribe(s) \/ Receive(s) \/ Verdict(s) \/ Unsubscribe(s)

Spec == Init /\ [][Next]_vars

\* Tasks that can run are polled; handlers return, but for the stuck ones.
FairSpec ==
    /\ Spec
    /\ \A p \in Publishers : WF_vars(PublisherStep(p))
    /\ \A s \in Subscribers : WF_vars(Receive(s))
    /\ \A s \in Subscribers \ Stuck : WF_vars(Verdict(s))
-----------------------------------------------------------------------------
(* Properties.                                                              *)

InHand(s) == {p \in Publishers : s \in publisher[p].targets}

\* Every message, queued or about to be sent, carries the event published
\* just before it, in the order of the critical sections: the previous
\* last_seen and its successor are taken under one lock.
LastSeenChain ==
    LET Follows(m) ==
            /\ m.event = log[m.n].event
            /\ m.last_seen = IF m.n = 1 THEN None ELSE log[m.n - 1].event
    IN
    /\ \A s \in Subscribers : \A i \in DOMAIN queue[s] : Follows(queue[s][i])
    /\ \A p \in Publishers : publisher[p].pc = "sending" => Follows(MessageOf(p))

\* Of concurrent publishes of one id exactly the first is not a duplicate
\* (Ack::duplicate).
DuplicateMeansEarlier ==
    \A p \in Publishers : publisher[p].pc = "sending" =>
        (publisher[p].duplicate <=>
            \E i \in 1..(publisher[p].n - 1) : log[i].event = publisher[p].event)

\* A subscriber gets the events of one publisher in the order in which they
\* were published, with whatever interleaving the other publishers cause.
PerPublisherFifo ==
    \A s \in Subscribers :
        LET ns == received[s] \o [i \in DOMAIN queue[s] |-> queue[s][i].n] IN
        \A i, j \in DOMAIN ns :
            i < j /\ log[ns[i]].by = log[ns[j]].by => ns[i] < ns[j]

\* For a live subscriber every publish since it joined, a duplicate included,
\* reaches it exactly once: handled, queued, on its way, or refused by a full
\* queue; and nothing published before it joined does.
AccountedFor ==
    \A s \in Subscribers : worker[s] \in {"waiting", "calling"} =>
        LET positions ==
                ToSet(received[s]) \cup {queue[s][i].n : i \in DOMAIN queue[s]}
                    \cup refused[s] \cup {publisher[p].n : p \in InHand(s)}
        IN
        /\ positions = (joined[s] + 1)..Len(log)
        /\ Len(received[s]) + Len(queue[s]) + Cardinality(refused[s])
              + Cardinality(InHand(s)) = Len(log) - joined[s]

\* A stuck subscriber never holds up a publisher (try_send).
PublishReturns ==
    \A p \in Publishers : publisher[p].pc = "sending" ~> publisher[p].pc = "idle"

\* What a queue accepted is handed to the handler, unless the subscription
\* goes away, and whatever the handlers of others do.
AcceptedIsHandled ==
    \A s \in Subscribers \ Stuck, n \in Positions :
        (\E i \in DOMAIN queue[s] : queue[s][i].n = n)
            ~> worker[s] = "aborted" \/ n \in ToSet(received[s])
=============================================================================
