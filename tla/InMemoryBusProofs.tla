-------------------------- MODULE InMemoryBusProofs --------------------------
(***************************************************************************)
(* What the one critical section of publish, and the sends that come after  *)
(* it, guarantee for any number of publishers, subscribers and publishes    *)
(* and any queue size: queues stay within their capacity, every message     *)
(* carries the event published just before it, of the publishes of one id   *)
(* only the first is no duplicate, a subscriber gets the events of one      *)
(* publisher in order, and every publish is somewhere, once.                *)
(***************************************************************************)
EXTENDS InMemoryBus, FiniteSetTheorems, SequenceTheorems, TLAPS

\* What the types alone do not say: functions have their domains, and a
\* publisher that sends has its place in the log.
TypeInv ==
    /\ TypeOK
    /\ queue \in [Subscribers -> Seq(Message)]
    /\ received \in [Subscribers -> Seq(Positions)]
    /\ Len(log) <= MaxPublishes
    /\ \A p \in Publishers :
          IF publisher[p].pc = "sending"
            THEN publisher[p].event \in Events /\ publisher[p].n \in 1..Len(log)
            ELSE publisher[p].targets = {}

\* m is what the publish at m.n sends.
Chained(m) ==
    /\ m.n \in 1..Len(log)
    /\ m.event = log[m.n].event
    /\ m.last_seen = IF m.n = 1 THEN None ELSE log[m.n - 1].event

\* Inner sums up the log, and so does whatever publish took from it.
InnerInv ==
    /\ last_seen = IF Len(log) = 0 THEN None ELSE log[Len(log)].event
    /\ \A e \in Events : e \in seen <=> \E k \in 1..Len(log) : log[k].event = e
    /\ \A s \in Subscribers : \A k \in DOMAIN queue[s] : Chained(queue[s][k])
    /\ \A p \in Publishers : publisher[p].pc = "sending" => Chained(MessageOf(p))
    /\ DuplicateMeansEarlier

BusInv == TypeInv /\ InnerInv

\* The invariant is at least as strong as the properties.
LEMMA BusInvImplies == BusInv => TypeOK /\ LastSeenChain /\ DuplicateMeansEarlier
BY DEF BusInv, TypeInv, InnerInv, Chained, LastSeenChain

\* The empty bus (InMemoryBus::new).
LEMMA InitBusInv == Init => BusInv
<1> SUFFICES ASSUME Init PROVE BusInv
  OBVIOUS
<1>1. NotPublishing \in PublisherType /\ NotPublishing.pc = "idle" /\ NotPublishing.targets = {}
  BY BoundAssumption DEF NotPublishing, PublisherType, EventOrNone
<1>2. TypeInv
  BY <1>1, BoundAssumption, CapacityAssumption DEF Init, TypeInv, TypeOK, EventOrNone
<1>3. InnerInv
  BY <1>1, BoundAssumption DEF Init, InnerInv, DuplicateMeansEarlier
<1> QED BY <1>2, <1>3 DEF BusInv

\* The critical section appends one entry to the log and leaves the others.
LEMMA LogGrows ==
  ASSUME BusInv, NEW p \in Publishers, NEW e \in Events, PublishLock(p, e)
  PROVE  /\ Len(log) \in Nat /\ Len(log') = Len(log) + 1 /\ Len(log') <= MaxPublishes
         /\ log' \in Seq([event : Events, by : Publishers])
         /\ \A k \in 1..Len(log) : log'[k] = log[k]
         /\ log'[Len(log')].event = e
BY BoundAssumption DEF BusInv, TypeInv, TypeOK, PublishLock

\* publish takes what it sends in one critical section: the previous last_seen,
\* and whether the id was seen.
LEMMA LockKeeps ==
  ASSUME BusInv, NEW p \in Publishers, NEW e \in Events, PublishLock(p, e)
  PROVE  BusInv'
<1> DEFINE n == Len(log) + 1
           q == [pc |-> "sending", event |-> e, last_seen |-> last_seen,
                 targets |-> subscribers, duplicate |-> e \in seen, n |-> n]
<1>1. /\ Len(log) \in Nat /\ Len(log') = n /\ n <= MaxPublishes
      /\ log' \in Seq([event : Events, by : Publishers])
      /\ \A k \in 1..Len(log) : log'[k] = log[k]
      /\ log'[n].event = e
  BY LogGrows
<1>2. /\ publisher' = [publisher EXCEPT ![p] = q]
      /\ seen' = seen \cup {e} /\ last_seen' = e
      /\ UNCHANGED <<subscribers, queue, worker, failed, joined, received, refused>>
  BY DEF PublishLock
<1>3. q \in PublisherType
  <2>1. n \in 0..MaxPublishes
    BY <1>1
  <2>2. last_seen \in EventOrNone /\ subscribers \subseteq Subscribers
    BY DEF BusInv, TypeInv, TypeOK
  <2>3. (e \in seen) \in BOOLEAN
    OBVIOUS
  <2> HIDE DEF n
  <2> QED BY <2>1, <2>2, <2>3, Zenon DEF PublisherType, EventOrNone
<1>4. /\ publisher' \in [Publishers -> PublisherType] /\ publisher'[p] = q
      /\ \A o \in Publishers \ {p} : publisher'[o] = publisher[o]
  BY <1>2, <1>3 DEF BusInv, TypeInv, TypeOK
<1>5. TypeInv'
  <2>1. TypeOK'
    BY <1>1, <1>2, <1>4 DEF BusInv, TypeInv, TypeOK, EventOrNone
  <2>2. \A o \in Publishers :
           IF publisher'[o].pc = "sending"
             THEN publisher'[o].event \in Events /\ publisher'[o].n \in 1..Len(log')
             ELSE publisher'[o].targets = {}
    <3>1. q.pc = "sending" /\ q.event = e /\ q.n = n /\ n \in 1..Len(log')
      BY <1>1
    <3> HIDE DEF q
    <3>2. \A k \in 1..Len(log) : k \in 1..Len(log')
      BY <1>1
    <3>3. ASSUME NEW o \in Publishers \ {p}
          PROVE  IF publisher[o].pc = "sending"
                   THEN publisher[o].event \in Events /\ publisher[o].n \in 1..Len(log')
                   ELSE publisher[o].targets = {}
      BY <3>2 DEF BusInv, TypeInv
    <3> QED BY <1>4, <3>1, <3>3
  <2> QED BY <1>1, <1>2, <2>1, <2>2 DEF BusInv, TypeInv
<1>6. \A m : Chained(m) => Chained(m)'
  BY <1>1 DEF Chained
<1>7. ASSUME NEW m, m = [event |-> e, last_seen |-> last_seen, n |-> n] PROVE Chained(m)'
  <2>1. m.n = n /\ m.event = e /\ m.last_seen = last_seen
    BY <1>7
  <2>2. last_seen = IF n = 1 THEN None ELSE log'[n - 1].event
    BY <1>1 DEF BusInv, InnerInv
  <2> QED BY <1>1, <2>1, <2>2 DEF Chained
<1>8. \A o \in Publishers : publisher'[o].pc = "sending" => Chained(MessageOf(o))'
  <2>1. MessageOf(p)' = [event |-> e, last_seen |-> last_seen, n |-> n]
    BY <1>4 DEF MessageOf
  <2>2. \A o \in Publishers \ {p} : MessageOf(o)' = MessageOf(o)
    BY <1>4 DEF MessageOf
  <2> HIDE DEF q, n
  <2>3. Chained(MessageOf(p))'
    BY <1>7, <2>1
  <2> QED BY <1>4, <1>6, <2>2, <2>3 DEF BusInv, InnerInv
<1>9. \A s \in Subscribers : \A k \in DOMAIN queue'[s] : Chained(queue[s][k])'
  BY <1>2, <1>6 DEF BusInv, InnerInv
<1>10. \A f \in Events : f \in seen' <=> \E k \in 1..Len(log') : log'[k].event = f
  BY <1>1, <1>2 DEF BusInv, InnerInv
<1>11. DuplicateMeansEarlier'
  <2>1. ASSUME NEW o \in Publishers \ {p}, publisher[o].pc = "sending"
        PROVE  publisher[o].duplicate <=>
                 \E k \in 1..(publisher[o].n - 1) : log'[k].event = publisher[o].event
    <3>1. publisher[o].n \in 1..Len(log)
      BY <2>1 DEF BusInv, TypeInv
    <3>2. \A k \in 1..(publisher[o].n - 1) : log'[k] = log[k]
      BY <1>1, <3>1
    <3> QED BY <2>1, <3>2 DEF BusInv, InnerInv, DuplicateMeansEarlier
  <2>2. q.duplicate <=> \E k \in 1..(q.n - 1) : log'[k].event = q.event
    <3>1. (e \in seen) <=> \E k \in 1..(n - 1) : log'[k].event = e
      BY <1>1 DEF BusInv, InnerInv
    <3> HIDE DEF n
    <3> QED BY <3>1, Zenon
  <2> HIDE DEF q
  <2> QED BY <1>4, <2>1, <2>2 DEF DuplicateMeansEarlier
<1>12. InnerInv'
  BY <1>1, <1>2, <1>8, <1>9, <1>10, <1>11 DEF InnerInv
<1> QED BY <1>5, <1>12 DEF BusInv

\* try_send moves what publish took into a queue that has room, or drops it.
LEMMA SendKeeps ==
  ASSUME BusInv, NEW p \in Publishers, NEW s \in Subscribers, TrySend(p, s)
  PROVE  BusInv'
<1>1. /\ publisher' = [publisher EXCEPT ![p].targets = @ \ {s}]
      /\ s \in publisher[p].targets
      /\ UNCHANGED <<subscribers, seen, last_seen, worker, failed, log, joined, received>>
  BY DEF TrySend, inner
<1>2. /\ publisher[p].pc = "sending" /\ publisher[p] \in PublisherType
      /\ publisher[p].event \in Events /\ publisher[p].n \in 1..Len(log)
  BY <1>1 DEF BusInv, TypeInv, TypeOK
<1>3. MessageOf(p) \in Message /\ Chained(MessageOf(p)) /\ publisher[p].n \in Positions
  <2>1. publisher[p].n \in Positions
    BY <1>2, BoundAssumption DEF BusInv, TypeInv, TypeOK, Positions
  <2>2. publisher[p].last_seen \in EventOrNone
    BY <1>2 DEF PublisherType
  <2>3. Chained(MessageOf(p))
    BY <1>2 DEF BusInv, InnerInv
  <2> QED BY <1>2, <2>1, <2>2, <2>3 DEF MessageOf, Message
<1>4. /\ publisher' \in [Publishers -> PublisherType]
      /\ \A o \in Publishers :
            /\ publisher'[o].pc = publisher[o].pc /\ publisher'[o].event = publisher[o].event
            /\ publisher'[o].n = publisher[o].n /\ publisher'[o].duplicate = publisher[o].duplicate
            /\ publisher'[o].last_seen = publisher[o].last_seen
            /\ publisher'[o].targets \subseteq publisher[o].targets
  BY <1>1, <1>2 DEF BusInv, TypeInv, TypeOK, PublisherType
<1>5. /\ queue' \in [Subscribers -> Seq(Message)]
      /\ \A r \in Subscribers : Len(queue'[r]) <= Capacity
      /\ \A r \in Subscribers : \A k \in DOMAIN queue'[r] : Chained(queue'[r][k])
  <2>1. CASE UNCHANGED queue
    BY <2>1 DEF BusInv, TypeInv, TypeOK, InnerInv
  <2>2. CASE HasRoom(s) /\ queue' = [queue EXCEPT ![s] = Append(@, MessageOf(p))]
    <3>1. queue \in [Subscribers -> Seq(Message)] /\ queue[s] \in Seq(Message)
      BY DEF BusInv, TypeInv
    <3>2. /\ queue'[s] = Append(queue[s], MessageOf(p))
          /\ \A r \in Subscribers \ {s} : queue'[r] = queue[r]
          /\ queue' \in [Subscribers -> Seq(Message)]
      BY <1>3, <2>2, <3>1
    <3>3. Len(queue'[s]) <= Capacity
      BY <1>3, <2>2, <3>1, <3>2, CapacityAssumption DEF HasRoom
    <3>4. ASSUME NEW k \in DOMAIN queue'[s] PROVE Chained(queue'[s][k])
      <4>1. k \in 1..(Len(queue[s]) + 1)
        BY <1>3, <3>1, <3>2, <3>4
      <4>2. CASE k = Len(queue[s]) + 1
        BY <1>3, <3>1, <3>2, <4>2
      <4>3. CASE k \in DOMAIN queue[s]
        <5>1. queue'[s][k] = queue[s][k]
          BY <1>3, <3>1, <3>2, <4>3
        <5> QED BY <4>3, <5>1 DEF BusInv, InnerInv
      <4> QED BY <3>1, <4>1, <4>2, <4>3
    <3> QED BY <3>2, <3>3, <3>4 DEF BusInv, TypeInv, TypeOK, InnerInv
  <2> QED BY <2>1, <2>2 DEF TrySend
<1>6. refused' \in [Subscribers -> SUBSET Positions]
  <2>1. refused \in [Subscribers -> SUBSET Positions]
    BY DEF BusInv, TypeInv, TypeOK
  <2>2. CASE UNCHANGED refused
    BY <2>1, <2>2
  <2>3. CASE refused' = [refused EXCEPT ![s] = @ \cup {publisher[p].n}]
    BY <1>3, <2>1, <2>3
  <2> QED BY <2>2, <2>3 DEF TrySend
<1>7. TypeInv'
  BY <1>1, <1>4, <1>5, <1>6 DEF BusInv, TypeInv, TypeOK
<1>8. \A o \in Publishers : MessageOf(o)' = MessageOf(o)
  BY <1>4 DEF MessageOf
<1>9. \A m : Chained(m) => Chained(m)'
  BY <1>1 DEF Chained
<1>10. DuplicateMeansEarlier'
  BY <1>1, <1>4 DEF BusInv, InnerInv, DuplicateMeansEarlier
<1>11. InnerInv'
  BY <1>1, <1>4, <1>5, <1>8, <1>9, <1>10 DEF BusInv, InnerInv
<1> QED BY <1>7, <1>11 DEF BusInv

\* The return of publish, subscriptions and workers: queues only get shorter.
LEMMA RestKeeps ==
  ASSUME BusInv,
         \/ \E p \in Publishers : PublishAck(p)
         \/ \E s \in Subscribers : Subscribe(s) \/ Receive(s) \/ Verdict(s) \/ Unsubscribe(s)
  PROVE  BusInv'
<1>1. UNCHANGED <<log, seen, last_seen, refused>>
  BY DEF PublishAck, Subscribe, Receive, Verdict, HandlerOk, HandlerErr, Unsubscribe, inner, history
<1>2. \A m : Chained(m) => Chained(m)'
  BY <1>1 DEF Chained
<1>3. ASSUME NEW p \in Publishers, PublishAck(p) PROVE BusInv'
  <2>1. NotPublishing \in PublisherType /\ NotPublishing.pc = "idle" /\ NotPublishing.targets = {}
    BY BoundAssumption DEF NotPublishing, PublisherType, EventOrNone
  <2>2. /\ publisher' \in [Publishers -> PublisherType] /\ publisher'[p] = NotPublishing
        /\ \A o \in Publishers \ {p} : publisher'[o] = publisher[o]
        /\ UNCHANGED <<subscribers, queue, worker, failed, joined, received>>
    BY <1>3, <2>1 DEF PublishAck, BusInv, TypeInv, TypeOK, inner, history
  <2>3. TypeInv'
    BY <1>1, <2>1, <2>2 DEF BusInv, TypeInv, TypeOK
  <2>4. InnerInv'
    BY <1>1, <1>2, <2>1, <2>2 DEF BusInv, InnerInv, MessageOf, DuplicateMeansEarlier
  <2> QED BY <2>3, <2>4 DEF BusInv
<1>4. ASSUME NEW s \in Subscribers, UNCHANGED <<queue, received, publisher>>,
             Subscribe(s) \/ Verdict(s) \/ Unsubscribe(s)
      PROVE  BusInv'
  <2>1. TypeInv'
    <3>1. TypeOK /\ Len(log) \in Nat
      BY DEF BusInv, TypeInv, TypeOK
    <3>2. /\ subscribers' \subseteq Subscribers
          /\ worker' \in [Subscribers -> {"new", "waiting", "calling", "aborted"}]
      BY <1>4, <3>1 DEF Subscribe, Verdict, HandlerOk, HandlerErr, Unsubscribe, TypeOK, inner
    <3>3. failed' \in Nat
      BY <1>4, <3>1 DEF Subscribe, Verdict, HandlerOk, HandlerErr, Unsubscribe, TypeOK
    <3>4. joined' \in [Subscribers -> Nat]
      <4>1. joined \in [Subscribers -> Nat]
        BY <3>1 DEF TypeOK
      <4>2. joined' = joined \/ joined' = [joined EXCEPT ![s] = Len(log)]
        BY <1>4 DEF Subscribe, Verdict, HandlerOk, HandlerErr, Unsubscribe, history
      <4> QED BY <3>1, <4>1, <4>2
    <3> QED BY <1>1, <1>4, <3>1, <3>2, <3>3, <3>4 DEF BusInv, TypeInv, TypeOK
  <2>2. InnerInv'
    BY <1>1, <1>2, <1>4 DEF BusInv, InnerInv, MessageOf, DuplicateMeansEarlier
  <2> QED BY <2>1, <2>2 DEF BusInv
<1>5. ASSUME NEW s \in Subscribers, Receive(s) PROVE BusInv'
  <2>1. /\ queue' = [queue EXCEPT ![s] = Tail(@)]
        /\ received' = [received EXCEPT ![s] = Append(@, Head(queue[s]).n)]
        /\ worker' = [worker EXCEPT ![s] = "calling"]
        /\ queue[s] # <<>>
        /\ UNCHANGED <<subscribers, publisher, failed, joined>>
    BY <1>5 DEF Receive, inner
  <2>2. /\ queue \in [Subscribers -> Seq(Message)] /\ queue[s] \in Seq(Message)
        /\ received \in [Subscribers -> Seq(Positions)]
        /\ Len(queue[s]) <= Capacity
    BY DEF BusInv, TypeInv, TypeOK
  <2>3. /\ Tail(queue[s]) \in Seq(Message) /\ Len(Tail(queue[s])) = Len(queue[s]) - 1
        /\ \A k \in DOMAIN Tail(queue[s]) :
              k + 1 \in DOMAIN queue[s] /\ Tail(queue[s])[k] = queue[s][k + 1]
        /\ Head(queue[s]) \in Message
    BY <2>1, <2>2
  <2>4. Head(queue[s]).n \in Positions
    BY <2>3 DEF Message
  <2>5. /\ queue' \in [Subscribers -> Seq(Message)]
        /\ queue'[s] = Tail(queue[s])
        /\ \A r \in Subscribers \ {s} : queue'[r] = queue[r]
        /\ received' \in [Subscribers -> Seq(Positions)]
    <3>1. queue' = [queue EXCEPT ![s] = Tail(queue[s])]
      BY <2>1
    <3>2. Append(received[s], Head(queue[s]).n) \in Seq(Positions)
      BY <2>2, <2>4
    <3>3. received' = [received EXCEPT ![s] = Append(received[s], Head(queue[s]).n)]
      BY <2>1
    <3>4. received' \in [Subscribers -> Seq(Positions)]
      BY <2>2, <3>2, <3>3
    <3> QED BY <2>2, <2>3, <3>1, <3>4
  <2>6. \A r \in Subscribers : Len(queue'[r]) <= Capacity
    <3>1. \A r \in Subscribers : Len(queue[r]) <= Capacity
      BY DEF BusInv, TypeInv, TypeOK
    <3>2. Len(queue'[s]) <= Capacity
      <4>1. Len(queue[s]) \in Nat
        BY <2>2
      <4> QED BY <2>2, <2>3, <2>5, <4>1, CapacityAssumption
    <3> QED BY <2>5, <3>1, <3>2
  <2>7. TypeInv'
    BY <1>1, <2>1, <2>5, <2>6 DEF BusInv, TypeInv, TypeOK
  <2>8. \A r \in Subscribers : \A k \in DOMAIN queue'[r] : Chained(queue'[r][k])
    <3>1. \A r \in Subscribers : \A k \in DOMAIN queue[r] : Chained(queue[r][k])
      BY DEF BusInv, InnerInv
    <3>2. \A k \in DOMAIN queue'[s] : Chained(queue'[s][k])
      BY <2>3, <2>5, <3>1
    <3> QED BY <2>5, <3>1, <3>2
  <2>9. InnerInv'
    BY <1>1, <1>2, <2>1, <2>8 DEF BusInv, InnerInv, MessageOf, DuplicateMeansEarlier
  <2> QED BY <2>7, <2>9 DEF BusInv
<1>6. \A s \in Subscribers : Subscribe(s) \/ Verdict(s) \/ Unsubscribe(s) =>
         UNCHANGED <<queue, received, publisher>>
  BY DEF Subscribe, Verdict, HandlerOk, HandlerErr, Unsubscribe, history
<1> QED BY <1>3, <1>4, <1>5, <1>6

\* Every step keeps the invariant.
LEMMA NextBusInv == BusInv /\ [Next]_vars => BusInv'
<1> SUFFICES ASSUME BusInv, [Next]_vars PROVE BusInv'
  OBVIOUS
<1>1. CASE UNCHANGED vars
  BY <1>1 DEF vars, BusInv, TypeInv, TypeOK, InnerInv, Chained, MessageOf, DuplicateMeansEarlier
<1>2. CASE Next
  BY <1>2, LockKeeps, SendKeeps, RestKeeps DEF Next, PublisherStep
<1> QED BY <1>1, <1>2

\* The invariant holds of every behaviour.
LEMMA BusAlwaysInv == Spec => []BusInv
BY InitBusInv, NextBusInv, PTL DEF Spec

\* No queue ever holds more than SUBSCRIBER_QUEUE messages, and registry,
\* tasks and history keep their types.
THEOREM QueuesBounded == Spec => []TypeOK
BY BusAlwaysInv, BusInvImplies, PTL

\* Every message says which event was published just before it, whatever the
\* interleaving of publishers after their critical sections.
THEOREM LastSeenIsPrevious == Spec => []LastSeenChain
BY BusAlwaysInv, BusInvImplies, PTL

\* Of concurrent publishes of one id exactly the first is not a duplicate.
THEOREM FirstIsNoDuplicate == Spec => []DuplicateMeansEarlier
BY BusAlwaysInv, BusInvImplies, PTL
-----------------------------------------------------------------------------
(* The order in which a subscriber gets things.                            *)

\* Positions that a subscriber has been sent: received, then queued.
Sent(s) == received[s] \o [i \in DOMAIN queue[s] |-> queue[s][i].n]

\* Its elements, one by one.
SentElements(s) ==
    LET a == Len(received[s])
        b == Len(queue[s])
    IN
    /\ received[s] \in Seq(Positions) /\ queue[s] \in Seq(Message)
    /\ a \in Nat /\ b \in Nat
    /\ Sent(s) \in [1..(a + b) -> Positions]
    /\ DOMAIN Sent(s) = 1..(a + b)
    /\ \A i \in 1..(a + b) :
          Sent(s)[i] = IF i <= a THEN received[s][i] ELSE queue[s][i - a].n

\* A bus with types has them.
LEMMA SentHas == TypeInv => \A s \in Subscribers : SentElements(s)
<1> SUFFICES ASSUME TypeInv, NEW s \in Subscribers
             PROVE  SentElements(s)
  OBVIOUS
<1> DEFINE a == Len(received[s])
           b == Len(queue[s])
           ns == [i \in DOMAIN queue[s] |-> queue[s][i].n]
<1>1. received[s] \in Seq(Positions) /\ queue[s] \in Seq(Message) /\ a \in Nat /\ b \in Nat
  BY DEF TypeInv
<1>2. DOMAIN queue[s] = 1..b
  BY <1>1
<1>3. \A i \in 1..b : queue[s][i] \in Message
  BY <1>1
<1>4. \A i \in 1..b : queue[s][i].n \in Positions
  BY <1>3 DEF Message
<1>5. ns = [i \in 1..b |-> queue[s][i].n]
  BY <1>2
<1> HIDE DEF ns, b
<1>6. ns \in Seq(Positions) /\ Len(ns) = b /\ \A i \in 1..b : ns[i] = queue[s][i].n
  BY <1>1, <1>4, <1>5
<1>7. /\ received[s] \o ns \in Seq(Positions)
      /\ Len(received[s] \o ns) = a + b
      /\ \A i \in 1..(a + b) :
            (received[s] \o ns)[i] = IF i <= a THEN received[s][i] ELSE ns[i - a]
  BY <1>1, <1>6, ConcatProperties
<1>8. Sent(s) = received[s] \o ns
  BY DEF Sent, ns
<1> HIDE DEF a
<1>9. Sent(s) \in [1..(a + b) -> Positions] /\ DOMAIN Sent(s) = 1..(a + b)
  <2>1. Sent(s) \in Seq(Positions) /\ Len(Sent(s)) = a + b
    BY <1>7, <1>8
  <2> HIDE DEF Sent
  <2> QED BY <2>1
<1>10. \A i \in 1..(a + b) :
          Sent(s)[i] = IF i <= a THEN received[s][i] ELSE queue[s][i - a].n
  <2> SUFFICES ASSUME NEW i \in 1..(a + b)
               PROVE  Sent(s)[i] = IF i <= a THEN received[s][i] ELSE queue[s][i - a].n
    OBVIOUS
  <2>1. Sent(s)[i] = IF i <= a THEN received[s][i] ELSE ns[i - a]
    BY <1>7, <1>8
  <2>2. ~(i <= a) => i - a \in 1..b
    BY <1>1
  <2> QED BY <1>6, <2>1, <2>2
<1> QED BY <1>1, <1>9, <1>10 DEF a, b, SentElements

\* After a step, too.
LEMMA SentHasNext == TypeInv' => (\A s \in Subscribers : SentElements(s))'
<1>1. TypeInv => \A s \in Subscribers : SentElements(s)
  BY SentHas
<1> QED BY <1>1, PTL

\* The log says who publishes, and no earlier publish of the same publisher is
\* on its way behind a later one.
FifoInv ==
    /\ \A p \in Publishers : publisher[p].pc = "sending" => log[publisher[p].n].by = p
    /\ \A s \in Subscribers :
          LET ns == Sent(s) IN
          /\ \A i \in DOMAIN ns : ns[i] \in 1..Len(log)
          /\ \A i, j \in DOMAIN ns : i < j /\ log[ns[i]].by = log[ns[j]].by => ns[i] < ns[j]
          /\ \A p \in InHand(s) : \A i \in DOMAIN ns :
                log[ns[i]].by = p => ns[i] < publisher[p].n

\* A publisher with something on its way sends.
LEMMA InHandSends ==
  ASSUME TypeInv, NEW s \in Subscribers, NEW p \in InHand(s)
  PROVE  p \in Publishers /\ publisher[p].pc = "sending" /\ publisher[p].n \in 1..Len(log)
BY DEF TypeInv, InHand

\* publish comes behind everything that was sent.
LEMMA LockFifo ==
  ASSUME BusInv, FifoInv, NEW p \in Publishers, NEW e \in Events, PublishLock(p, e)
  PROVE  FifoInv'
<1>1. /\ Len(log) \in Nat /\ Len(log') = Len(log) + 1
      /\ \A k \in 1..Len(log) : log'[k] = log[k]
      /\ TypeInv
  BY LogGrows DEF BusInv
<1>2. log'[Len(log) + 1].by = p
  BY DEF PublishLock, BusInv, TypeInv, TypeOK
<1>3. /\ publisher'[p].pc = "sending" /\ publisher'[p].n = Len(log) + 1
      /\ \A o \in Publishers \ {p} : publisher'[o] = publisher[o]
  BY <1>1 DEF PublishLock, TypeInv, TypeOK
<1>4. \A s \in Subscribers : Sent(s)' = Sent(s)
  BY DEF PublishLock, Sent
<1>5. \A o \in Publishers : publisher'[o].pc = "sending" => log'[publisher'[o].n].by = o
  BY <1>1, <1>2, <1>3 DEF FifoInv, TypeInv
<1>6. ASSUME NEW s \in Subscribers
      PROVE  LET ns == Sent(s) IN
             /\ \A i \in DOMAIN ns : ns[i] \in 1..Len(log')
             /\ \A i, j \in DOMAIN ns : i < j /\ log'[ns[i]].by = log'[ns[j]].by => ns[i] < ns[j]
             /\ \A o \in InHand(s)' : \A i \in DOMAIN ns :
                   log'[ns[i]].by = o => ns[i] < publisher'[o].n
  <2> DEFINE ns == Sent(s)
  <2>1. /\ \A i \in DOMAIN ns : ns[i] \in 1..Len(log)
        /\ \A i, j \in DOMAIN ns : i < j /\ log[ns[i]].by = log[ns[j]].by => ns[i] < ns[j]
        /\ \A o \in InHand(s) : \A i \in DOMAIN ns : log[ns[i]].by = o => ns[i] < publisher[o].n
    BY DEF FifoInv
  <2>2. \A o \in InHand(s)' : o = p \/ (o \in Publishers \ {p} /\ o \in InHand(s))
    BY <1>3 DEF InHand
  <2> HIDE DEF ns
  <2>3. \A o \in InHand(s)' : \A i \in DOMAIN ns : log'[ns[i]].by = o => ns[i] < publisher'[o].n
    BY <1>1, <1>3, <2>1, <2>2
  <2>4. /\ \A i \in DOMAIN ns : ns[i] \in 1..Len(log')
        /\ \A i, j \in DOMAIN ns : i < j /\ log'[ns[i]].by = log'[ns[j]].by => ns[i] < ns[j]
    BY <1>1, <2>1
  <2> QED BY <2>3, <2>4 DEF ns
<1> QED BY <1>4, <1>5, <1>6 DEF FifoInv

\* A step that sends nothing and takes nothing back.
LEMMA SameFifo ==
  ASSUME FifoInv, UNCHANGED log,
         \A p \in Publishers : publisher'[p].pc = "sending" =>
            /\ publisher[p].pc = "sending" /\ publisher'[p].n = publisher[p].n,
         \A s \in Subscribers :
            /\ Sent(s)' = Sent(s)
            /\ \A p \in InHand(s)' : p \in InHand(s) /\ publisher'[p].n = publisher[p].n
  PROVE  FifoInv'
BY DEF FifoInv

\* What publish sends is a message.
LEMMA MessageTyped ==
  ASSUME TypeInv, NEW p \in Publishers, publisher[p].pc = "sending"
  PROVE  MessageOf(p) \in Message
<1>1. publisher[p] \in PublisherType /\ publisher[p].event \in Events
      /\ publisher[p].n \in 1..Len(log) /\ Len(log) <= MaxPublishes
  BY DEF TypeInv, TypeOK
<1>2. publisher[p].n \in Positions /\ publisher[p].last_seen \in EventOrNone
  BY <1>1, BoundAssumption DEF PublisherType, Positions, TypeInv, TypeOK
<1> QED BY <1>1, <1>2 DEF MessageOf, Message

\* try_send puts an event behind those of its publisher.
LEMMA SendFifo ==
  ASSUME BusInv, FifoInv, NEW p \in Publishers, NEW s \in Subscribers, TrySend(p, s)
  PROVE  FifoInv'
<1>1. /\ publisher' = [publisher EXCEPT ![p].targets = @ \ {s}]
      /\ s \in publisher[p].targets /\ UNCHANGED <<log, received>> /\ TypeInv /\ TypeInv'
  BY SendKeeps DEF TrySend, inner, BusInv
<1>2. p \in InHand(s) /\ publisher[p].pc = "sending" /\ publisher[p].n \in 1..Len(log)
  BY <1>1 DEF InHand, TypeInv
<1>3. \A o \in Publishers : publisher'[o].pc = publisher[o].pc /\ publisher'[o].n = publisher[o].n
                            /\ publisher'[o].targets \subseteq publisher[o].targets
  BY <1>1 DEF TypeInv, TypeOK, PublisherType
<1>4. \A r \in Subscribers : \A o \in InHand(r)' : o \in InHand(r)
  BY <1>3 DEF InHand
<1>5. p \notin InHand(s)'
  BY <1>1 DEF InHand, TypeInv, TypeOK, PublisherType
<1>6. CASE UNCHANGED queue
  <2>1. \A r \in Subscribers : Sent(r)' = Sent(r)
    BY <1>1, <1>6 DEF Sent
  <2>2. \A r \in Subscribers : \A o \in InHand(r)' :
           o \in InHand(r) /\ publisher'[o].n = publisher[o].n
    BY <1>3, <1>4 DEF InHand
  <2> QED BY <1>1, <1>3, <2>1, <2>2, SameFifo
<1>7. CASE queue' = [queue EXCEPT ![s] = Append(@, MessageOf(p))]
  <2> DEFINE ns == Sent(s)
             a == Len(received[s])
             b == Len(queue[s])
             N == a + b
             n == publisher[p].n
  <2>1. /\ received[s] \in Seq(Positions) /\ queue[s] \in Seq(Message)
        /\ a \in Nat /\ b \in Nat /\ N \in Nat /\ MessageOf(p) \in Message
        /\ queue'[s] = Append(queue[s], MessageOf(p))
        /\ \A r \in Subscribers \ {s} : queue'[r] = queue[r]
    <3>1. MessageOf(p) \in Message
      BY <1>1, <1>2, MessageTyped
    <3> QED BY <1>1, <1>7, <3>1, SentHas DEF SentElements, TypeInv
  <2>2. /\ Len(queue'[s]) = b + 1
        /\ \A k \in 1..b : queue'[s][k] = queue[s][k]
        /\ queue'[s][b + 1].n = n
    BY <2>1, AppendProperties DEF MessageOf
  <2>3. /\ DOMAIN ns = 1..N
        /\ \A i \in 1..N : ns[i] = IF i <= a THEN received[s][i] ELSE queue[s][i - a].n
    BY <1>1, SentHas DEF SentElements
  <2>4. /\ DOMAIN ns' = 1..(N + 1)
        /\ \A i \in 1..(N + 1) :
              ns'[i] = IF i <= a THEN received[s][i] ELSE queue'[s][i - a].n
    <3> DEFINE c == Len(received'[s])
               d == Len(queue'[s])
    <3>1. /\ DOMAIN Sent(s)' = 1..(c + d)
          /\ \A i \in 1..(c + d) :
                Sent(s)'[i] = IF i <= c THEN received'[s][i] ELSE queue'[s][i - c].n
      BY <1>1, SentHasNext DEF SentElements
    <3>2. c = a /\ d = b + 1
      BY <1>1, <2>2
    <3> HIDE DEF a, b, c, d
    <3>3. c + d = N + 1
      BY <2>1, <3>2
    <3> QED BY <1>1, <3>1, <3>2, <3>3
  <2>5. \A i \in 1..(N + 1) : ns'[i] = IF i = N + 1 THEN n ELSE ns[i]
    <3> SUFFICES ASSUME NEW i \in 1..(N + 1) PROVE ns'[i] = IF i = N + 1 THEN n ELSE ns[i]
      OBVIOUS
    <3> HIDE DEF a, b, ns, n
    <3>1. ns'[i] = IF i <= a THEN received[s][i] ELSE queue'[s][i - a].n
      BY <2>4
    <3>2. CASE i = N + 1
      <4>1. ~(i <= a) /\ i - a = b + 1
        BY <2>1, <3>2
      <4> QED BY <2>2, <3>1, <3>2, <4>1
    <3>3. CASE i # N + 1
      <4>1. i \in 1..N
        BY <2>1, <3>3
      <4>2. ns[i] = IF i <= a THEN received[s][i] ELSE queue[s][i - a].n
        BY <2>3, <4>1
      <4>3. ~(i <= a) => i - a \in 1..b
        BY <2>1, <4>1
      <4> QED BY <2>2, <3>1, <3>3, <4>2, <4>3
    <3> QED BY <3>2, <3>3
  <2>6. /\ \A i \in 1..N : ns[i] \in 1..Len(log)
        /\ \A i, j \in 1..N : i < j /\ log[ns[i]].by = log[ns[j]].by => ns[i] < ns[j]
        /\ \A o \in InHand(s) : \A i \in 1..N : log[ns[i]].by = o => ns[i] < publisher[o].n
    BY <2>3 DEF FifoInv
  <2>7. \A r \in Subscribers \ {s} : Sent(r)' = Sent(r)
    BY <1>1, <2>1 DEF Sent
  <2>8. log[n].by = p
    BY <1>2 DEF FifoInv
  <2>9. \A r \in Subscribers : \A o \in InHand(r)' :
           o \in InHand(r) /\ publisher'[o].n = publisher[o].n
    BY <1>3, <1>4 DEF InHand
  <2>10. \A i \in 1..(N + 1) : i \in 1..N \/ i = N + 1
    <3> HIDE DEF a, b
    <3> QED BY <2>1
  <2> HIDE DEF ns, n, N
  <2>11. \A i \in DOMAIN ns' : ns'[i] \in 1..Len(log)
    BY <1>2, <2>1, <2>4, <2>5, <2>6, <2>10 DEF n
  <2>12. ASSUME NEW i \in DOMAIN ns', NEW j \in DOMAIN ns', i < j, log[ns'[i]].by = log[ns'[j]].by
         PROVE  ns'[i] < ns'[j]
    <3>1. i \in 1..N /\ i # N + 1 /\ i \in 1..(N + 1) /\ j \in 1..(N + 1)
      BY <2>1, <2>4, <2>12
    <3>2. ns'[i] = ns[i]
      BY <2>5, <3>1
    <3>3. CASE j = N + 1
      <4>1. ns'[j] = n
        BY <2>5, <3>1, <3>3
      <4>2. log[ns[i]].by = p
        BY <2>8, <2>12, <3>2, <4>1
      <4> QED BY <1>2, <2>6, <3>1, <3>2, <4>1, <4>2 DEF n
    <3>4. CASE j # N + 1
      <4>1. j \in 1..N /\ ns'[j] = ns[j]
        BY <2>5, <2>10, <3>1, <3>4
      <4> QED BY <2>6, <2>12, <3>1, <3>2, <4>1
    <3> QED BY <3>3, <3>4
  <2>13. ASSUME NEW o \in InHand(s)', NEW i \in DOMAIN ns', log[ns'[i]].by = o
         PROVE  ns'[i] < publisher'[o].n
    <3>1. o # p /\ o \in InHand(s) /\ publisher'[o].n = publisher[o].n
      BY <1>5, <2>9, <2>13
    <3>2. i # N + 1
      BY <2>4, <2>5, <2>8, <2>13, <3>1
    <3> QED BY <2>4, <2>5, <2>6, <2>10, <2>13, <3>1, <3>2
  <2>14. \A o \in Publishers : publisher'[o].pc = "sending" => log[publisher'[o].n].by = o
    BY <1>3 DEF FifoInv
  <2>15. ASSUME NEW r \in Subscribers
         PROVE  LET ms == Sent(r)' IN
                /\ \A i \in DOMAIN ms : ms[i] \in 1..Len(log)
                /\ \A i, j \in DOMAIN ms : i < j /\ log[ms[i]].by = log[ms[j]].by => ms[i] < ms[j]
                /\ \A o \in InHand(r)' : \A i \in DOMAIN ms :
                      log[ms[i]].by = o => ms[i] < publisher'[o].n
    <3>1. CASE r = s
      BY <2>11, <2>12, <2>13, <3>1 DEF ns
    <3>2. CASE r # s
      BY <2>7, <2>9, <3>2 DEF FifoInv
    <3> QED BY <3>1, <3>2
  <2> QED BY <1>1, <2>14, <2>15 DEF FifoInv
<1> QED BY <1>6, <1>7 DEF TrySend

\* recv hands over the oldest message: what was sent stays in its order.
LEMMA ReceiveFifo ==
  ASSUME BusInv, FifoInv, NEW s \in Subscribers, Receive(s)
  PROVE  FifoInv'
<1>1. /\ queue' = [queue EXCEPT ![s] = Tail(@)]
      /\ received' = [received EXCEPT ![s] = Append(@, Head(queue[s]).n)]
      /\ queue[s] # <<>> /\ UNCHANGED <<publisher, log>> /\ TypeInv /\ TypeInv'
  BY RestKeeps DEF Receive, inner, BusInv
<1> DEFINE a == Len(received[s])
           b == Len(queue[s])
<1>2. /\ received[s] \in Seq(Positions) /\ queue[s] \in Seq(Message) /\ a \in Nat /\ b \in Nat
      /\ queue'[s] = Tail(queue[s]) /\ received'[s] = Append(received[s], Head(queue[s]).n)
      /\ \A r \in Subscribers \ {s} : queue'[r] = queue[r] /\ received'[r] = received[r]
  BY <1>1, SentHas DEF SentElements, TypeInv
<1>3. /\ Len(queue'[s]) = b - 1 /\ \A k \in 1..(b - 1) : queue'[s][k] = queue[s][k + 1]
      /\ Head(queue[s]) = queue[s][1] /\ Head(queue[s]) \in Message
  <2>1. /\ Head(queue[s]) \in Message /\ Len(queue'[s]) = b - 1
        /\ \A k \in 1..Len(queue'[s]) : queue'[s][k] = queue[s][k + 1]
    <3>1. PICK q : q = queue[s] /\ q \in Seq(Message) /\ q # <<>>
      BY <1>1, <1>2
    <3>2. /\ Head(q) \in Message /\ Len(Tail(q)) = Len(q) - 1
          /\ \A k \in 1..Len(Tail(q)) : Tail(q)[k] = q[k + 1]
      BY <3>1, HeadTailProperties, Zenon
    <3> QED BY <1>2, <3>1, <3>2
  <2>2. Head(queue[s]) = queue[s][1]
    BY <1>2
  <2> QED BY <2>1, <2>2
<1>4. b >= 1 /\ Head(queue[s]).n \in Positions
  <2>1. Len(queue'[s]) \in Nat
    BY <1>1 DEF TypeInv
  <2>2. b - 1 \in Nat
    BY <1>3, <2>1
  <2> HIDE DEF b
  <2> QED BY <1>2, <1>3, <2>2 DEF Message
<1>5. /\ Len(received'[s]) = a + 1 /\ \A k \in 1..a : received'[s][k] = received[s][k]
      /\ received'[s][a + 1] = queue[s][1].n
  BY <1>2, <1>3, <1>4, AppendProperties
<1>6. Sent(s)' = Sent(s)
  <2>1. /\ \A i \in 1..(a + b) :
              Sent(s)[i] = IF i <= a THEN received[s][i] ELSE queue[s][i - a].n
        /\ Sent(s) \in [1..(a + b) -> Positions]
    BY <1>1, SentHas DEF SentElements
  <2>2. /\ \A i \in 1..(a + b) :
              Sent(s)'[i] = IF i <= a + 1 THEN received'[s][i] ELSE queue'[s][i - (a + 1)].n
        /\ Sent(s)' \in [1..(a + b) -> Positions]
    <3> DEFINE c == Len(received'[s])
               d == Len(queue'[s])
    <3>1. /\ \A i \in 1..(c + d) :
                Sent(s)'[i] = IF i <= c THEN received'[s][i] ELSE queue'[s][i - c].n
          /\ Sent(s)' \in [1..(c + d) -> Positions]
      BY <1>1, SentHasNext DEF SentElements, Positions
    <3>2. c = a + 1 /\ d = b - 1
      BY <1>3, <1>5
    <3> HIDE DEF a, b, c, d
    <3>3. c + d = a + b
      BY <1>2, <3>2
    <3> QED BY <3>1, <3>2, <3>3
  <2> HIDE DEF a, b
  <2>3. ASSUME NEW i \in 1..(a + b) PROVE Sent(s)'[i] = Sent(s)[i]
    <3>1. CASE i <= a
      <4>1. i \in 1..a /\ i <= a + 1
        BY <1>2, <3>1
      <4> QED BY <1>5, <2>1, <2>2, <3>1, <4>1
    <3>2. CASE i = a + 1
      <4>1. i - a = 1 /\ ~(i <= a) /\ i <= a + 1
        BY <1>2, <3>2
      <4> QED BY <1>5, <2>1, <2>2, <3>2, <4>1
    <3>3. CASE i > a + 1
      <4>1. i - (a + 1) \in 1..(b - 1) /\ i - (a + 1) + 1 = i - a /\ ~(i <= a) /\ ~(i <= a + 1)
        BY <1>2, <1>4, <3>3
      <4> QED BY <1>3, <2>1, <2>2, <4>1
    <3> QED BY <1>2, <3>1, <3>2, <3>3
  <2>4. Sent(s)' = [i \in 1..(a + b) |-> Sent(s)'[i]]
    BY <2>2
  <2>5. Sent(s) = [i \in 1..(a + b) |-> Sent(s)[i]]
    BY <2>1
  <2> QED BY <2>3, <2>4, <2>5, Zenon
<1>7. \A r \in Subscribers : Sent(r)' = Sent(r)
  BY <1>2, <1>6 DEF Sent
<1> QED BY <1>1, <1>7, SameFifo DEF InHand

\* The other steps send and receive nothing.
LEMMA RestFifo ==
  ASSUME BusInv, FifoInv,
         \/ \E p \in Publishers : PublishAck(p)
         \/ \E s \in Subscribers : Subscribe(s) \/ Verdict(s) \/ Unsubscribe(s)
         \/ UNCHANGED vars
  PROVE  FifoInv'
<1>1. UNCHANGED <<log, queue, received>>
  BY DEF PublishAck, Subscribe, Verdict, HandlerOk, HandlerErr, Unsubscribe, inner, history, vars
<1>2. \A s \in Subscribers : Sent(s)' = Sent(s)
  BY <1>1 DEF Sent
<1>3. \A p \in Publishers : publisher'[p] = publisher[p] \/ publisher'[p] = NotPublishing
  BY DEF PublishAck, Subscribe, Verdict, HandlerOk, HandlerErr, Unsubscribe, vars,
         BusInv, TypeInv, TypeOK
<1>4. NotPublishing.pc = "idle" /\ NotPublishing.targets = {}
  BY DEF NotPublishing
<1>5. \A s \in Subscribers : \A p \in InHand(s)' : p \in InHand(s) /\ publisher'[p] = publisher[p]
  BY <1>3, <1>4 DEF InHand
<1> QED BY <1>1, <1>2, <1>3, <1>4, <1>5, SameFifo

\* The order holds of every behaviour.
LEMMA FifoAlways == Spec => []FifoInv
<1>1. Init => FifoInv
  <2> SUFFICES ASSUME Init PROVE FifoInv
    OBVIOUS
  <2>1. \A s \in Subscribers : DOMAIN Sent(s) = {} /\ InHand(s) = {}
    <3> SUFFICES ASSUME NEW s \in Subscribers PROVE DOMAIN Sent(s) = {} /\ InHand(s) = {}
      OBVIOUS
    <3>1. TypeInv /\ Len(received[s]) = 0 /\ Len(queue[s]) = 0
      BY InitBusInv DEF Init, BusInv
    <3>2. DOMAIN Sent(s) = 1..(0 + 0)
      BY <3>1, SentHas DEF SentElements
    <3> QED BY <3>2 DEF Init, InHand, NotPublishing
  <2>2. \A p \in Publishers : publisher[p].pc # "sending"
    BY DEF Init, NotPublishing
  <2> QED BY <2>1, <2>2 DEF FifoInv
<1>2. BusInv /\ FifoInv /\ [Next]_vars => FifoInv'
  BY LockFifo, SendFifo, ReceiveFifo, RestFifo DEF Next, PublisherStep
<1> QED BY <1>1, <1>2, BusAlwaysInv, PTL DEF Spec

\* A subscriber gets the events of one publisher in the order in which they
\* were published, for any number of publishers, subscribers and publishes and
\* any queue size, although the sends come after the critical section.
THEOREM PublishersInOrder == Spec => []PerPublisherFifo
<1>1. FifoInv => PerPublisherFifo
  BY DEF FifoInv, PerPublisherFifo, Sent
<1> QED BY <1>1, FifoAlways, PTL
-----------------------------------------------------------------------------
(* Nothing is lost or delivered twice.                                      *)

Live(s) == worker[s] \in {"waiting", "calling"}

\* Where the publishes are that concern a subscriber.
Places(s) ==
    ToSet(received[s]) \cup {queue[s][i].n : i \in DOMAIN queue[s]}
        \cup refused[s] \cup {publisher[p].n : p \in InHand(s)}

Weight(s) ==
    Len(received[s]) + Len(queue[s]) + Cardinality(refused[s]) + Cardinality(InHand(s))

\* A live subscriber has each publish since it joined in one place, one that is
\* to come has none, and no publish on its way has been refused.
Accounts(s) ==
    /\ refused[s] \subseteq 1..Len(log)
    /\ IsFiniteSet(InHand(s))
    /\ \A p \in InHand(s) : publisher[p].n \notin refused[s]
    /\ worker[s] = "new" =>
          /\ s \notin subscribers
          /\ received[s] = <<>> /\ queue[s] = <<>> /\ refused[s] = {} /\ InHand(s) = {}
    /\ Live(s) =>
          /\ s \in subscribers
          /\ Places(s) = (joined[s] + 1)..Len(log)
          /\ Weight(s) = Len(log) - joined[s]

AccountInv == \A s \in Subscribers : Accounts(s)

\* Facts about one subscriber.
LEMMA AccountFacts ==
  ASSUME TypeInv, AccountInv, NEW s \in Subscribers
  PROVE  /\ received[s] \in Seq(Positions) /\ queue[s] \in Seq(Message)
         /\ Len(received[s]) \in Nat /\ Len(queue[s]) \in Nat
         /\ Len(log) \in Nat /\ joined[s] \in Nat
         /\ IsFiniteSet(refused[s]) /\ Cardinality(refused[s]) \in Nat
         /\ IsFiniteSet(InHand(s)) /\ Cardinality(InHand(s)) \in Nat
         /\ InHand(s) \subseteq Publishers
<1>1. /\ received[s] \in Seq(Positions) /\ queue[s] \in Seq(Message)
      /\ Len(received[s]) \in Nat /\ Len(queue[s]) \in Nat
      /\ Len(log) \in Nat /\ joined[s] \in Nat
  BY DEF TypeInv, TypeOK
<1>2. refused[s] \in SUBSET (1..Len(log)) /\ IsFiniteSet(InHand(s))
  BY DEF AccountInv, Accounts
<1>3. IsFiniteSet(1..Len(log))
  BY <1>1, FS_Interval
<1>4. IsFiniteSet(refused[s])
  BY <1>2, <1>3, FS_Subset
<1> QED BY <1>1, <1>2, <1>4, FS_CardinalityType DEF InHand

\* Moving one publish from one place to another does not change their number.
LEMMA Moved ==
  ASSUME NEW a \in Nat, NEW b \in Nat, NEW c \in Nat, NEW d \in Nat
  PROVE  /\ a + (b + 1) + c + (d - 1) = a + b + c + d
         /\ a + b + (c + 1) + (d - 1) = a + b + c + d
         /\ (a + 1) + (b - 1) + c + d = a + b + c + d
OBVIOUS

LEMMA OneMore ==
  ASSUME NEW a \in Nat, NEW b \in Nat, NEW c \in Nat, NEW d \in Nat,
         NEW N \in Nat, NEW j \in Nat, a + b + c + d = N - j
  PROVE  j <= N /\ a + b + c + (d + 1) = N + 1 - j
OBVIOUS

\* Two publishers with something on their way for s are at different places.
LEMMA InHandDiffer ==
  ASSUME TypeInv, FifoInv, NEW s \in Subscribers, NEW p \in InHand(s), NEW o \in InHand(s),
         publisher[p].n = publisher[o].n
  PROVE  p = o
BY InHandSends DEF FifoInv

\* What is not about s leaves its account as it is.
LEMMA SameAccount ==
  ASSUME NEW s \in Subscribers, Accounts(s), UNCHANGED log,
         received'[s] = received[s], queue'[s] = queue[s], refused'[s] = refused[s],
         joined'[s] = joined[s], s \in subscribers' <=> s \in subscribers,
         InHand(s)' = InHand(s), \A p \in InHand(s) : publisher'[p].n = publisher[p].n,
         worker'[s] = "new" => worker[s] = "new", Live(s)' => Live(s)
  PROVE  Accounts(s)'
<1>1. {publisher'[p].n : p \in InHand(s)'} = {publisher[p].n : p \in InHand(s)}
  OBVIOUS
<1>2. Places(s)' = Places(s) /\ Weight(s)' = Weight(s)
  BY <1>1 DEF Places, Weight
<1> QED BY <1>2 DEF Accounts

\* A publish is on its way to every subscriber in the registry.
LEMMA LockAccounts ==
  ASSUME BusInv, AccountInv, NEW p \in Publishers, NEW e \in Events, PublishLock(p, e)
  PROVE  AccountInv'
<1> SUFFICES ASSUME NEW s \in Subscribers PROVE Accounts(s)'
  BY DEF AccountInv
<1> DEFINE N == Len(log)
<1>1. /\ N \in Nat /\ Len(log') = N + 1 /\ TypeInv /\ Accounts(s)
  BY LogGrows DEF BusInv, AccountInv
<1>2. UNCHANGED <<subscribers, queue, worker, joined, received, refused>>
  BY DEF PublishLock
<1>3. /\ publisher'[p].targets = subscribers /\ publisher'[p].n = N + 1
      /\ \A o \in Publishers \ {p} : publisher'[o] = publisher[o]
      /\ publisher[p].targets = {}
  BY <1>1 DEF PublishLock, TypeInv, TypeOK
<1>4. p \notin InHand(s) /\ InHand(s)' = IF s \in subscribers THEN InHand(s) \cup {p} ELSE InHand(s)
  BY <1>3 DEF InHand
<1>5. \A o \in InHand(s) : publisher'[o] = publisher[o]
  BY <1>3, <1>4 DEF InHand
<1>6. /\ N \in Nat /\ joined[s] \in Nat /\ Len(received[s]) \in Nat /\ Len(queue[s]) \in Nat
      /\ Cardinality(refused[s]) \in Nat /\ IsFiniteSet(InHand(s)) /\ Cardinality(InHand(s)) \in Nat
  BY <1>1, AccountFacts
<1>7. IsFiniteSet(InHand(s) \cup {p}) /\ Cardinality(InHand(s) \cup {p}) = Cardinality(InHand(s)) + 1
  BY <1>4, <1>6, FS_AddElement
<1>8. refused[s] \subseteq 1..N /\ refused'[s] \subseteq 1..(N + 1)
  BY <1>1, <1>2 DEF Accounts
<1>9. \A o \in InHand(s)' : publisher'[o].n \notin refused'[s]
  BY <1>1, <1>2, <1>3, <1>4, <1>5, <1>8 DEF Accounts
<1>10. worker[s] = "new" => s \notin subscribers /\ InHand(s)' = {}
  BY <1>1, <1>4 DEF Accounts
<1>11. ASSUME Live(s)
       PROVE  Places(s)' = (joined[s] + 1)..(N + 1) /\ Weight(s)' = N + 1 - joined[s]
  <2>1. /\ s \in subscribers /\ Places(s) = (joined[s] + 1)..N /\ Weight(s) = N - joined[s]
    BY <1>1, <1>11 DEF Accounts
  <2>2. {publisher'[o].n : o \in InHand(s)'} = {publisher[o].n : o \in InHand(s)} \cup {N + 1}
    BY <1>3, <1>4, <1>5, <2>1
  <2>3. Places(s)' = Places(s) \cup {N + 1}
    BY <1>2, <2>2 DEF Places
  <2> DEFINE a == Len(received[s])
             b == Len(queue[s])
             c == Cardinality(refused[s])
             d == Cardinality(InHand(s))
  <2>4. Weight(s) = a + b + c + d /\ Weight(s)' = a + b + c + (d + 1)
    BY <1>2, <1>4, <1>7, <2>1 DEF Weight
  <2>5. a \in Nat /\ b \in Nat /\ c \in Nat /\ d \in Nat
    BY <1>6
  <2>10. joined[s] \in Nat /\ N \in Nat
    BY <1>6
  <2> HIDE DEF a, b, c, d, N
  <2>11. a + b + c + d = N - joined[s]
    BY <2>1, <2>4
  <2>6. Weight(s)' = N + 1 - joined[s]
    <3>1. a + b + c + (d + 1) = N + 1 - joined[s]
      BY <2>5, <2>10, <2>11, OneMore
    <3> QED BY <2>4, <3>1
  <2>7. joined[s] <= N
    BY <2>5, <2>10, <2>11, OneMore
  <2>8. ((joined[s] + 1)..N) \cup {N + 1} = (joined[s] + 1)..(N + 1)
    BY <1>6, <2>7
  <2> QED BY <2>1, <2>3, <2>6, <2>8
<1>12. Live(s)' => Live(s) /\ s \in subscribers
  BY <1>1, <1>2 DEF Live, Accounts
<1>13. refused'[s] \subseteq 1..Len(log') /\ IsFiniteSet(InHand(s)')
  BY <1>1, <1>4, <1>6, <1>7, <1>8
<1>14. worker'[s] = "new" =>
          /\ s \notin subscribers'
          /\ received'[s] = <<>> /\ queue'[s] = <<>> /\ refused'[s] = {} /\ InHand(s)' = {}
  BY <1>1, <1>2, <1>10 DEF Accounts
<1>15. Live(s)' =>
          /\ s \in subscribers'
          /\ Places(s)' = (joined'[s] + 1)..Len(log')
          /\ Weight(s)' = Len(log') - joined'[s]
  <2> SUFFICES ASSUME Live(s)'
               PROVE  /\ s \in subscribers'
                      /\ Places(s)' = (joined'[s] + 1)..Len(log')
                      /\ Weight(s)' = Len(log') - joined'[s]
    OBVIOUS
  <2>1. s \in subscribers' /\ joined'[s] = joined[s]
    BY <1>2, <1>12
  <2>2. Places(s)' = (joined[s] + 1)..(N + 1) /\ Weight(s)' = N + 1 - joined[s]
    BY <1>11, <1>12
  <2>3. Len(log') = N + 1
    BY <1>1
  <2> HIDE DEF N
  <2>4. (joined'[s] + 1)..Len(log') = (joined[s] + 1)..(N + 1)
    BY <2>1, <2>3
  <2>5. Len(log') - joined'[s] = N + 1 - joined[s]
    BY <2>1, <2>3, <1>6
  <2> QED BY <2>1, <2>2, <2>4, <2>5, Zenon
<1> HIDE DEF N
<1> QED BY <1>9, <1>13, <1>14, <1>15 DEF Accounts

\* try_send moves a publish from its publisher into the queue, or into refused.
LEMMA SendAccounts ==
  ASSUME BusInv, FifoInv, AccountInv, NEW p \in Publishers, NEW s \in Subscribers, TrySend(p, s)
  PROVE  AccountInv'
<1> DEFINE n == publisher[p].n
<1>1. /\ publisher' = [publisher EXCEPT ![p].targets = @ \ {s}]
      /\ s \in publisher[p].targets
      /\ UNCHANGED <<subscribers, worker, log, joined, received>> /\ TypeInv /\ TypeInv'
  BY SendKeeps DEF TrySend, inner, BusInv
<1>2. p \in InHand(s) /\ publisher[p].pc = "sending" /\ n \in 1..Len(log)
  BY <1>1 DEF InHand, TypeInv
<1>3. /\ \A o \in Publishers : publisher'[o].n = publisher[o].n
      /\ \A o \in Publishers \ {p} : publisher'[o] = publisher[o]
      /\ publisher'[p].targets = publisher[p].targets \ {s}
  BY <1>1 DEF TypeInv, TypeOK, PublisherType
<1>4. InHand(s)' = InHand(s) \ {p} /\ \A r \in Subscribers \ {s} : InHand(r)' = InHand(r)
  BY <1>3 DEF InHand
<1>5. /\ \A r \in Subscribers \ {s} : queue'[r] = queue[r] /\ refused'[r] = refused[r]
  BY <1>1 DEF TrySend, TypeInv, TypeOK
<1>6. ASSUME NEW r \in Subscribers \ {s} PROVE Accounts(r)'
  <2>1. \A o \in InHand(r) : publisher'[o].n = publisher[o].n
    BY <1>3 DEF InHand
  <2> QED BY <1>1, <1>4, <1>5, <2>1, SameAccount DEF AccountInv, Live
<1>7. /\ Accounts(s) /\ Len(log) \in Nat /\ joined[s] \in Nat
      /\ Len(received[s]) \in Nat /\ Len(queue[s]) \in Nat
      /\ IsFiniteSet(refused[s]) /\ Cardinality(refused[s]) \in Nat
      /\ IsFiniteSet(InHand(s)) /\ Cardinality(InHand(s)) \in Nat
      /\ queue[s] \in Seq(Message)
  BY <1>1, AccountFacts DEF AccountInv
<1>8. IsFiniteSet(InHand(s) \ {p}) /\ Cardinality(InHand(s) \ {p}) = Cardinality(InHand(s)) - 1
  BY <1>2, <1>7, FS_RemoveElement
<1>9. worker[s] # "new" /\ n \notin refused[s]
  BY <1>2, <1>7 DEF Accounts
<1>10. \A o \in InHand(s) \ {p} : publisher[o].n # n
  BY <1>1, <1>2, InHandDiffer
<1>11. {publisher[o].n : o \in InHand(s)} =
          {publisher'[o].n : o \in InHand(s) \ {p}} \cup {n}
  BY <1>2, <1>3 DEF InHand
<1> DEFINE a == Len(received[s])
           b == Len(queue[s])
           c == Cardinality(refused[s])
           d == Cardinality(InHand(s))
<1>12. ASSUME ~IsOpen(s) PROVE Accounts(s)'
  <2>1. UNCHANGED <<queue, refused>> /\ ~Live(s)'
    BY <1>1, <1>12 DEF TrySend, IsOpen, Live
  <2>2. \A o \in InHand(s)' : publisher'[o].n \notin refused[s]
    BY <1>3, <1>4, <1>7 DEF Accounts, InHand
  <2>3. refused'[s] \subseteq 1..Len(log') /\ IsFiniteSet(InHand(s)')
    BY <1>1, <1>4, <1>7, <1>8, <2>1 DEF Accounts
  <2>4. worker'[s] # "new" /\ \A o \in InHand(s)' : publisher'[o].n \notin refused'[s]
    BY <1>1, <1>9, <2>1, <2>2
  <2> QED BY <2>1, <2>3, <2>4 DEF Accounts
<1>13. ASSUME IsOpen(s) PROVE Accounts(s)'
  <2>1. Live(s) /\ Places(s) = (joined[s] + 1)..Len(log) /\ Weight(s) = Len(log) - joined[s]
        /\ s \in subscribers
    <3>1. Live(s)
      BY <1>1, <1>9, <1>13 DEF Live, IsOpen, TypeInv, TypeOK
    <3> QED BY <1>7, <3>1 DEF Accounts
  <2>2. Weight(s) = a + b + c + d
    BY DEF Weight
  <2>3. ASSUME queue' = [queue EXCEPT ![s] = Append(@, MessageOf(p))], UNCHANGED refused
        PROVE  Accounts(s)'
    <3>1. queue'[s] = Append(queue[s], MessageOf(p)) /\ MessageOf(p) \in Message
          /\ MessageOf(p).n = n
      BY <1>1, <1>2, <2>3, MessageTyped DEF TypeInv, MessageOf
    <3>2. /\ Len(queue'[s]) = b + 1 /\ \A k \in 1..b : queue'[s][k] = queue[s][k]
          /\ queue'[s][b + 1] = MessageOf(p)
      BY <1>7, <3>1, AppendProperties
    <3>3. DOMAIN queue[s] = 1..b /\ DOMAIN queue'[s] = 1..(b + 1)
      <4>1. queue'[s] \in Seq(Message)
        BY <1>1 DEF TypeInv
      <4> QED BY <1>7, <3>2, <4>1
    <3> HIDE DEF b
    <3>4. 1..(b + 1) = (1..b) \cup {b + 1}
      BY <1>7 DEF b
    <3>5. {queue'[s][k].n : k \in DOMAIN queue'[s]} = {queue[s][k].n : k \in DOMAIN queue[s]} \cup {n}
      BY <3>1, <3>2, <3>3, <3>4
    <3>6. Places(s)' = Places(s)
      BY <1>1, <1>4, <1>11, <2>3, <3>5 DEF Places
    <3>7. Weight(s)' = a + (b + 1) + c + (d - 1)
      BY <1>1, <1>4, <1>8, <2>3, <3>2 DEF Weight
    <3>10. a \in Nat /\ b \in Nat /\ c \in Nat /\ d \in Nat
      BY <1>7 DEF b
    <3> HIDE DEF a, c, d
    <3>11. a + (b + 1) + c + (d - 1) = a + b + c + d
      BY <3>10, Moved
    <3>8. Weight(s)' = Weight(s)
      BY <2>2, <3>7, <3>11
    <3>9. \A o \in InHand(s)' : publisher'[o].n \notin refused'[s]
      BY <1>3, <1>4, <1>7, <2>3 DEF Accounts, InHand
    <3> QED BY <1>1, <1>4, <1>7, <1>8, <1>9, <2>1, <2>3, <3>6, <3>8, <3>9 DEF Accounts
  <2>4. ASSUME refused' = [refused EXCEPT ![s] = @ \cup {n}], UNCHANGED queue
        PROVE  Accounts(s)'
    <3>1. refused'[s] = refused[s] \cup {n}
      BY <2>4 DEF BusInv, TypeInv, TypeOK
    <3>2. Cardinality(refused[s] \cup {n}) = c + 1
      BY <1>7, <1>9, FS_AddElement
    <3>3. Places(s)' = Places(s)
      BY <1>1, <1>4, <1>11, <2>4, <3>1 DEF Places
    <3>4. Weight(s)' = a + b + (c + 1) + (d - 1)
      BY <1>1, <1>4, <1>8, <2>4, <3>1, <3>2 DEF Weight
    <3>8. a \in Nat /\ b \in Nat /\ c \in Nat /\ d \in Nat
      BY <1>7
    <3> HIDE DEF a, b, c, d
    <3>9. a + b + (c + 1) + (d - 1) = a + b + c + d
      BY <3>8, Moved
    <3>5. Weight(s)' = Weight(s)
      BY <2>2, <3>4, <3>9
    <3>6. \A o \in InHand(s)' : publisher'[o].n \notin refused'[s]
      BY <1>3, <1>4, <1>7, <1>10, <3>1 DEF Accounts, InHand
    <3>7. refused'[s] \subseteq 1..Len(log)
      BY <1>2, <1>7, <3>1 DEF Accounts
    <3> QED BY <1>1, <1>4, <1>7, <1>8, <1>9, <2>1, <3>3, <3>5, <3>6, <3>7 DEF Accounts
  <2>5. \/ queue' = [queue EXCEPT ![s] = Append(@, MessageOf(p))] /\ UNCHANGED refused
        \/ refused' = [refused EXCEPT ![s] = @ \cup {n}] /\ UNCHANGED queue
    BY <1>13 DEF TrySend
  <2> QED BY <2>3, <2>4, <2>5
<1> QED BY <1>6, <1>12, <1>13 DEF AccountInv

\* recv moves a publish from the queue to what was received.
LEMMA ReceiveAccounts ==
  ASSUME BusInv, AccountInv, NEW s \in Subscribers, Receive(s)
  PROVE  AccountInv'
<1>1. /\ queue' = [queue EXCEPT ![s] = Tail(@)]
      /\ received' = [received EXCEPT ![s] = Append(@, Head(queue[s]).n)]
      /\ queue[s] # <<>> /\ UNCHANGED <<subscribers, publisher, log, joined, refused>>
      /\ worker' = [worker EXCEPT ![s] = "calling"] /\ worker[s] = "waiting"
      /\ TypeInv /\ TypeInv'
  BY RestKeeps DEF Receive, inner, BusInv
<1>2. \A r \in Subscribers : InHand(r)' = InHand(r)
  BY <1>1 DEF InHand
<1>3. ASSUME NEW r \in Subscribers \ {s} PROVE Accounts(r)'
  BY <1>1, <1>2, <1>3, SameAccount DEF AccountInv, Live, TypeInv, TypeOK
<1> DEFINE a == Len(received[s])
           b == Len(queue[s])
           c == Cardinality(refused[s])
           d == Cardinality(InHand(s))
<1>4. /\ Accounts(s) /\ a \in Nat /\ b \in Nat /\ c \in Nat /\ d \in Nat
      /\ received[s] \in Seq(Positions) /\ queue[s] \in Seq(Message)
  BY <1>1, AccountFacts DEF AccountInv
<1>5. PICK q \in Seq(Message) : q = queue[s] /\ q # <<>>
  BY <1>1, <1>4
<1>6. /\ Head(q) \in Message /\ Tail(q) \in Seq(Message) /\ Len(Tail(q)) = Len(q) - 1
      /\ \A k \in 1..Len(Tail(q)) : Tail(q)[k] = q[k + 1]
  BY <1>5, HeadTailProperties, Zenon
<1>7. Head(q) = q[1] /\ Head(q).n \in Positions
  BY <1>5, <1>6 DEF Message
<1>8. PICK x \in Seq(Positions) : x = received[s]
  BY <1>4
<1>9. queue'[s] = Tail(q) /\ received'[s] = Append(x, Head(q).n)
  BY <1>1, <1>5, <1>8 DEF TypeInv
<1>10. /\ Append(x, Head(q).n) \in Seq(Positions) /\ Len(Append(x, Head(q).n)) = a + 1
       /\ \A k \in 1..a : Append(x, Head(q).n)[k] = x[k]
       /\ Append(x, Head(q).n)[a + 1] = Head(q).n
  BY <1>7, <1>8, AppendProperties
<1>11. ToSet(Append(x, Head(q).n)) = ToSet(x) \cup {Head(q).n}
  <2>1. DOMAIN x = 1..a /\ DOMAIN Append(x, Head(q).n) = 1..(a + 1)
    BY <1>8, <1>10
  <2>2. 1..(a + 1) = (1..a) \cup {a + 1}
    <3> HIDE DEF a
    <3> QED BY <1>4
  <2> HIDE DEF a
  <2> QED BY <1>10, <2>1, <2>2 DEF ToSet
<1>12. {q[k].n : k \in DOMAIN q} = {Tail(q)[k].n : k \in DOMAIN Tail(q)} \cup {Head(q).n}
  <2>1. DOMAIN q = 1..b /\ DOMAIN Tail(q) = 1..(b - 1) /\ b >= 1
    <3>1. DOMAIN q = 1..b /\ DOMAIN Tail(q) = 1..(b - 1)
      BY <1>5, <1>6
    <3>2. b # 0
      BY <1>5
    <3> HIDE DEF b
    <3> QED BY <1>4, <3>1, <3>2
  <2> HIDE DEF b
  <2>2. \A k \in 1..(b - 1) : Tail(q)[k] = q[k + 1]
    BY <1>5, <1>6 DEF b
  <2>3. \A k \in 1..b : k = 1 \/ (k - 1 \in 1..(b - 1) /\ q[k] = Tail(q)[k - 1])
    <3> SUFFICES ASSUME NEW k \in 1..b, k # 1
                 PROVE  k - 1 \in 1..(b - 1) /\ q[k] = Tail(q)[k - 1]
      OBVIOUS
    <3>1. k - 1 \in 1..(b - 1) /\ (k - 1) + 1 = k
      BY <1>4
    <3> QED BY <2>2, <3>1
  <2>4. \A k \in 1..(b - 1) : k + 1 \in 1..b
    BY <1>4
  <2>5. 1 \in 1..b
    BY <1>4, <2>1
  <2>6. ASSUME NEW k \in 1..b
        PROVE  q[k].n \in {Tail(q)[i].n : i \in 1..(b - 1)} \cup {Head(q).n}
    BY <1>7, <2>3
  <2>7. ASSUME NEW k \in 1..(b - 1)
        PROVE  Tail(q)[k].n \in {q[i].n : i \in 1..b}
    BY <2>2, <2>4
  <2>8. Head(q).n \in {q[i].n : i \in 1..b}
    BY <1>7, <2>5
  <2>9. {q[k].n : k \in 1..b} = {Tail(q)[k].n : k \in 1..(b - 1)} \cup {Head(q).n}
    <3>1. {q[k].n : k \in 1..b} \subseteq {Tail(q)[k].n : k \in 1..(b - 1)} \cup {Head(q).n}
      BY <2>6, Zenon
    <3>2. {Tail(q)[k].n : k \in 1..(b - 1)} \cup {Head(q).n} \subseteq {q[k].n : k \in 1..b}
      BY <2>7, <2>8, Zenon
    <3> QED BY <3>1, <3>2, Zenon
  <2> QED BY <2>1, <2>9, Zenon
<1>13. Places(s)' = Places(s)
  <2>1. {queue[s][k].n : k \in DOMAIN queue[s]} =
           {queue'[s][k].n : k \in DOMAIN queue'[s]} \cup {Head(q).n}
    <3>1. queue[s] = q /\ queue'[s] = Tail(q)
      BY <1>5, <1>9
    <3>2. DOMAIN queue[s] = DOMAIN q /\ DOMAIN queue'[s] = DOMAIN Tail(q)
      BY <3>1
    <3>3. {queue[s][k].n : k \in DOMAIN queue[s]} = {q[k].n : k \in DOMAIN q}
      BY <3>1
    <3>4. {queue'[s][k].n : k \in DOMAIN queue'[s]} = {Tail(q)[k].n : k \in DOMAIN Tail(q)}
      BY <3>1
    <3> QED BY <1>12, <3>3, <3>4
  <2>2. ToSet(received'[s]) = ToSet(received[s]) \cup {Head(q).n}
    BY <1>8, <1>9, <1>11
  <2>3. /\ refused'[s] = refused[s]
        /\ {publisher'[p].n : p \in InHand(s)'} = {publisher[p].n : p \in InHand(s)}
    BY <1>1, <1>2
  <2> DEFINE R == ToSet(received[s])
             Q == {queue'[s][k].n : k \in DOMAIN queue'[s]}
             F == refused[s]
             O == {publisher[p].n : p \in InHand(s)}
             h == Head(q).n
  <2>4. Places(s) = R \cup (Q \cup {h}) \cup F \cup O
    BY <2>1, Zenon DEF Places
  <2>5. Places(s)' = (R \cup {h}) \cup Q \cup F \cup O
    BY <2>2, <2>3, Zenon DEF Places
  <2> HIDE DEF R, Q, F, O, h
  <2> QED BY <2>4, <2>5
<1>14. Weight(s)' = Weight(s)
  <2>1. Weight(s) = a + b + c + d
    BY DEF Weight
  <2>2. Weight(s)' = (a + 1) + (b - 1) + c + d
    BY <1>1, <1>2, <1>5, <1>6, <1>9, <1>10 DEF Weight
  <2> HIDE DEF a, b, c, d
  <2>3. (a + 1) + (b - 1) + c + d = a + b + c + d
    BY <1>4, Moved
  <2> QED BY <2>1, <2>2, <2>3
<1>15. Live(s) /\ worker'[s] = "calling" /\ Live(s)'
  BY <1>1 DEF Live, TypeInv, TypeOK
<1>16. Accounts(s)'
  BY <1>1, <1>2, <1>4, <1>13, <1>14, <1>15 DEF Accounts
<1> QED BY <1>3, <1>16 DEF AccountInv

\* A subscriber that joins has everything before it.
LEMMA SubscribeAccounts ==
  ASSUME BusInv, AccountInv, NEW s \in Subscribers, Subscribe(s)
  PROVE  AccountInv'
<1>1. /\ UNCHANGED <<queue, publisher, log, received, refused>>
      /\ worker[s] = "new" /\ worker' = [worker EXCEPT ![s] = "waiting"]
      /\ subscribers' = subscribers \cup {s} /\ joined' = [joined EXCEPT ![s] = Len(log)]
      /\ TypeInv
  BY DEF Subscribe, BusInv
<1>2. \A r \in Subscribers : InHand(r)' = InHand(r)
  BY <1>1 DEF InHand
<1>3. ASSUME NEW r \in Subscribers \ {s} PROVE Accounts(r)'
  BY <1>1, <1>2, <1>3, SameAccount DEF AccountInv, Live, TypeInv, TypeOK
<1>4. /\ Accounts(s) /\ Len(log) \in Nat
      /\ received[s] = <<>> /\ queue[s] = <<>> /\ refused[s] = {} /\ InHand(s) = {}
      /\ worker'[s] = "waiting" /\ joined'[s] = Len(log)
  BY <1>1 DEF AccountInv, Accounts, TypeInv, TypeOK
<1>5. Places(s)' = {}
  BY <1>1, <1>2, <1>4 DEF Places, ToSet
<1>6. Weight(s)' = 0
  <2>1. Len(received'[s]) = 0 /\ Len(queue'[s]) = 0
    BY <1>1, <1>4
  <2>2. Cardinality({}) = 0
    BY FS_EmptySet
  <2>3. Cardinality(refused'[s]) = 0 /\ Cardinality(InHand(s)') = 0
    BY <1>1, <1>2, <1>4, <2>2
  <2> QED BY <2>1, <2>3 DEF Weight
<1>7. (joined'[s] + 1)..Len(log') = {} /\ Len(log') - joined'[s] = 0
  BY <1>1, <1>4
<1>8. Accounts(s)'
  BY <1>1, <1>2, <1>4, <1>5, <1>6, <1>7 DEF Accounts
<1> QED BY <1>3, <1>8 DEF AccountInv

\* The other steps move no publish.
LEMMA RestAccounts ==
  ASSUME BusInv, AccountInv,
         \/ \E p \in Publishers : PublishAck(p)
         \/ \E s \in Subscribers : Verdict(s) \/ Unsubscribe(s)
         \/ UNCHANGED vars
  PROVE  AccountInv'
<1>1. UNCHANGED <<log, queue, received, refused, joined, subscribers>>
  BY DEF PublishAck, Verdict, HandlerOk, HandlerErr, Unsubscribe, inner, history, vars
<1>2. \A p \in Publishers :
         publisher'[p] = publisher[p] \/ (publisher'[p] = NotPublishing /\ publisher[p].targets = {})
  BY DEF PublishAck, Verdict, HandlerOk, HandlerErr, Unsubscribe, vars, BusInv, TypeInv, TypeOK
<1>3. NotPublishing.targets = {}
  BY DEF NotPublishing
<1>4. \A s \in Subscribers : InHand(s)' = InHand(s) /\ \A p \in InHand(s) : publisher'[p] = publisher[p]
  BY <1>2, <1>3 DEF InHand
<1>5. \A s \in Subscribers : (worker'[s] = "new" => worker[s] = "new") /\ (Live(s)' => Live(s))
  BY DEF PublishAck, Verdict, HandlerOk, HandlerErr, Unsubscribe, vars, Live, BusInv, TypeInv, TypeOK
<1>6. ASSUME NEW s \in Subscribers PROVE Accounts(s)'
  BY <1>1, <1>4, <1>5, SameAccount DEF AccountInv
<1> QED BY <1>6 DEF AccountInv

\* Every publish since a live subscriber joined is at it exactly once: handled,
\* queued, on its way, or refused by a full queue; for any number of
\* publishers, subscribers and publishes and any queue size.
THEOREM NothingUnaccounted == Spec => []AccountedFor
<1>1. Init => AccountInv
  <2> SUFFICES ASSUME Init, NEW s \in Subscribers PROVE Accounts(s)
    BY DEF AccountInv
  <2>1. InHand(s) = {}
    BY DEF Init, InHand, NotPublishing
  <2> QED BY <2>1, FS_EmptySet DEF Init, Accounts, Live
<1>2. BusInv /\ FifoInv /\ AccountInv /\ [Next]_vars => AccountInv'
  BY LockAccounts, SendAccounts, ReceiveAccounts, SubscribeAccounts, RestAccounts
     DEF Next, PublisherStep
<1>3. AccountInv => AccountedFor
  BY DEF AccountInv, Accounts, Live, Places, Weight, AccountedFor
<1> QED BY <1>1, <1>2, <1>3, BusAlwaysInv, FifoAlways, PTL DEF Spec
=============================================================================
