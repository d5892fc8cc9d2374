-------------------------- MODULE OrderTablesProofs --------------------------
(***************************************************************************)
(* What the tables hold: their types, the totals, and the event up to which *)
(* they have come when no projector is in a call.  The tables after n       *)
(* events are a fold over the log, which is turned into a step from n to    *)
(* n + 1 first; the totals are a fold over the items of an order.           *)
(***************************************************************************)
EXTENDS OrderProjectionProofs, FoldProofs

\* Customers and statuses are not None, so an order exists once it has a row.
LEMMA NoOrderIsNone ==
  /\ NoOrder.customer = None
  /\ \A row \in OrderRow : row.customer # None
BY NoneAssumption DEF NoOrder, OrderRow

\* A row has three columns, whether it is there or not.
LEMMA RowColumns ==
  ASSUME NEW t \in TablesType, NEW o \in Orders
  PROVE  LET row == t.orders[o] IN
         /\ row \in OrderRow \cup {NoOrder}
         /\ row = [customer |-> row.customer, status |-> row.status,
                   total_cents |-> row.total_cents]
         /\ row.total_cents \in Int
<1>1. t.orders[o] \in OrderRow \cup {NoOrder}
  BY DEF TablesType
<1>2. CASE t.orders[o] \in OrderRow
  BY <1>1, <1>2 DEF OrderRow
<1>3. CASE t.orders[o] = NoOrder
  BY <1>1, <1>3 DEF NoOrder
<1> QED BY <1>1, <1>2, <1>3

\* No tables have no orders and no items.
LEMMA EmptyTyped ==
  /\ EmptyTables \in TablesType
  /\ \A o \in Orders : EmptyTables.orders[o] = NoOrder /\ ~Exists(EmptyTables, o)
  /\ \A o \in Orders, k \in Skus : EmptyTables.items[o][k] = 0
BY NoOrderIsNone DEF EmptyTables, TablesType, Exists

\* order.created
LEMMA CreatedRow ==
  ASSUME NEW t \in TablesType, NEW e \in Payload, e.type = "order.created"
  PROVE  /\ e.order \in Orders
         /\ ApplyOrderEvent(t, e) \in TablesType
         /\ ApplyOrderEvent(t, e).items = t.items
         /\ \A o \in Orders \ {e.order} : ApplyOrderEvent(t, e).orders[o] = t.orders[o]
         /\ ApplyOrderEvent(t, e).orders[e.order] =
              [customer |-> e.customer, status |-> e.status,
               total_cents |-> t.orders[e.order].total_cents]
         /\ Exists(ApplyOrderEvent(t, e), e.order)
<1>1. e.order \in Orders /\ e.customer \in Customers /\ e.status \in OrderStatus
  BY DEF Payload, Other, Malformed
<1>2. ApplyOrderEvent(t, e) = UpsertOrder(t, e)
  BY DEF ApplyOrderEvent
<1>3. t.orders[e.order] \in OrderRow \cup {NoOrder}
  BY <1>1 DEF TablesType
<1> DEFINE r == [customer |-> e.customer, status |-> e.status,
                 total_cents |-> t.orders[e.order].total_cents]
<1>5. r \in OrderRow
  BY <1>1, RowColumns DEF OrderRow
<1>6. UpsertOrder(t, e) = [orders |-> [t.orders EXCEPT ![e.order] = r], items |-> t.items]
  <2>1. UpsertOrder(t, e) = [t EXCEPT !.orders = [t.orders EXCEPT ![e.order] = r]]
    BY Zenon DEF UpsertOrder
  <2> HIDE DEF r
  <2> QED BY <2>1 DEF TablesType
<1> HIDE DEF r
<1>7. r.customer # None
  BY <1>5, NoOrderIsNone
<1>8. r = [customer |-> e.customer, status |-> e.status,
           total_cents |-> t.orders[e.order].total_cents]
  BY DEF r
<1> QED BY <1>1, <1>2, <1>5, <1>6, <1>7, <1>8 DEF TablesType, Exists

\* order.item_added
LEMMA ItemRow ==
  ASSUME NEW t \in TablesType, NEW e \in Payload, e.type = "order.item_added"
  PROVE  LET u == ApplyOrderEvent(t, e)
             items == [t.items[e.order] EXCEPT ![e.sku] = e.amount]
         IN
         /\ e.order \in Orders /\ e.sku \in Skus /\ e.amount \in Int
         /\ u \in TablesType /\ items \in [Skus -> Int]
         /\ u.items = [t.items EXCEPT ![e.order] = items]
         /\ \A o \in Orders \ {e.order} : u.orders[o] = t.orders[o]
         /\ IF Exists(t, e.order)
              THEN u.orders[e.order] =
                     [customer |-> t.orders[e.order].customer,
                      status |-> t.orders[e.order].status,
                      total_cents |-> SumFunction(items)]
              ELSE u.orders[e.order] = t.orders[e.order]
<1> DEFINE items == [t.items[e.order] EXCEPT ![e.sku] = e.amount]
           total == IF Exists(t, e.order) THEN SumFunction(items)
                    ELSE t.orders[e.order].total_cents
           r == [t.orders[e.order] EXCEPT !.total_cents = total]
<1>1. e.order \in Orders /\ e.sku \in Skus /\ e.amount \in Int
  BY DEF Payload, Other, Malformed
<1>2. ApplyOrderEvent(t, e) = UpsertItem(t, e)
  BY DEF ApplyOrderEvent
<1>3. /\ t.orders[e.order] \in OrderRow \cup {NoOrder}
      /\ t.orders \in [Orders -> OrderRow \cup {NoOrder}]
      /\ t.items[e.order] \in [Skus -> Int] /\ t.items \in [Orders -> [Skus -> Int]]
      /\ t = [orders |-> t.orders, items |-> t.items]
  BY <1>1 DEF TablesType
<1>4. items \in [Skus -> Int]
  BY <1>1, <1>3
<1>5. SumFunction(items) \in Int
  <2> HIDE DEF items
  <2> QED BY <1>4, SumTyped, SkusAssumption
<1>6. UpsertItem(t, e) = [orders |-> [t.orders EXCEPT ![e.order] = r],
                          items |-> [t.items EXCEPT ![e.order] = items]]
  <2>1. UpsertItem(t, e) =
          [t EXCEPT !.items = [t.items EXCEPT ![e.order] = items],
                    !.orders = [t.orders EXCEPT ![e.order] = r]]
    BY <1>1, <1>3, Zenon DEF UpsertItem
  <2> HIDE DEF items, r
  <2> QED BY <1>3, <2>1
<1> HIDE DEF items
<1>7. CASE Exists(t, e.order)
  <2>1. t.orders[e.order] \in OrderRow
    BY <1>3, <1>7 DEF Exists, NoOrder
  <2>2. r = [customer |-> t.orders[e.order].customer, status |-> t.orders[e.order].status,
             total_cents |-> SumFunction(items)]
    BY <1>7, <2>1 DEF OrderRow
  <2>3. r \in OrderRow
    BY <1>5, <2>1, <2>2 DEF OrderRow
  <2> HIDE DEF r
  <2>4. /\ ApplyOrderEvent(t, e).orders = [t.orders EXCEPT ![e.order] = r]
        /\ ApplyOrderEvent(t, e).items = [t.items EXCEPT ![e.order] = items]
        /\ ApplyOrderEvent(t, e) \in TablesType
    BY <1>1, <1>2, <1>3, <1>4, <1>6, <2>3 DEF TablesType
  <2> QED BY <1>1, <1>3, <1>4, <1>7, <2>2, <2>4 DEF items
<1>8. CASE ~Exists(t, e.order)
  <2>1. r = t.orders[e.order]
    BY <1>3, <1>8 DEF OrderRow, NoOrder
  <2> HIDE DEF r
  <2> QED BY <1>1, <1>2, <1>3, <1>4, <1>6, <1>8, <2>1 DEF TablesType, items
<1> QED BY <1>7, <1>8

\* order.cancelled
LEMMA CancelledRow ==
  ASSUME NEW t \in TablesType, NEW e \in Payload, e.type = "order.cancelled"
  PROVE  LET u == ApplyOrderEvent(t, e) IN
         /\ e.order \in Orders
         /\ u \in TablesType
         /\ u.items = t.items
         /\ \A o \in Orders \ {e.order} : u.orders[o] = t.orders[o]
         /\ IF Exists(t, e.order)
              THEN u.orders[e.order] =
                     [customer |-> t.orders[e.order].customer, status |-> "cancelled",
                      total_cents |-> t.orders[e.order].total_cents]
              ELSE u.orders[e.order] = t.orders[e.order]
<1> DEFINE r == [t.orders[e.order] EXCEPT !.status = "cancelled"]
<1>1. e.order \in Orders
  BY DEF Payload, Other, Malformed
<1>2. ApplyOrderEvent(t, e) = SetOrderStatus(t, e.order, "cancelled")
  BY DEF ApplyOrderEvent
<1>3. /\ t.orders[e.order] \in OrderRow \cup {NoOrder}
      /\ t.orders \in [Orders -> OrderRow \cup {NoOrder}]
      /\ t.items \in [Orders -> [Skus -> Int]]
      /\ t = [orders |-> t.orders, items |-> t.items]
  BY <1>1 DEF TablesType
<1>4. CASE Exists(t, e.order)
  <2>1. t.orders[e.order] \in OrderRow
    BY <1>3, <1>4 DEF Exists, NoOrder
  <2>2. r = [customer |-> t.orders[e.order].customer, status |-> "cancelled",
             total_cents |-> t.orders[e.order].total_cents]
    BY <2>1 DEF OrderRow
  <2>3. r \in OrderRow
    BY <2>1, <2>2, StatusAssumption DEF OrderRow
  <2>4. ApplyOrderEvent(t, e) = [orders |-> [t.orders EXCEPT ![e.order] = r], items |-> t.items]
    BY <1>2, <1>3, <1>4 DEF SetOrderStatus
  <2> HIDE DEF r
  <2> QED BY <1>1, <1>3, <1>4, <2>2, <2>3, <2>4 DEF TablesType
<1>5. CASE ~Exists(t, e.order)
  BY <1>1, <1>2, <1>5 DEF SetOrderStatus
<1> QED BY <1>4, <1>5

\* Every other event leaves the tables alone.
LEMMA OtherRow ==
  ASSUME NEW t, NEW e,
         e.type \notin {"order.created", "order.item_added", "order.cancelled"}
  PROVE  ApplyOrderEvent(t, e) = t
BY DEF ApplyOrderEvent

\* Every event leaves tables.
LEMMA ApplyTyped ==
  \A t \in TablesType, e \in Payload : ApplyOrderEvent(t, e) \in TablesType
<1> SUFFICES ASSUME NEW t \in TablesType, NEW e \in Payload
             PROVE  ApplyOrderEvent(t, e) \in TablesType
  OBVIOUS
<1>1. CASE e.type = "order.created"
  BY <1>1, CreatedRow
<1>2. CASE e.type = "order.item_added"
  BY <1>2, ItemRow
<1>3. CASE e.type = "order.cancelled"
  BY <1>3, CancelledRow
<1> QED BY <1>1, <1>2, <1>3, OtherRow

\* Tables are equal when their columns are.
LEMMA SameTables ==
  ASSUME NEW t \in TablesType, NEW u \in TablesType,
         \A o \in Orders :
            /\ t.orders[o].customer = u.orders[o].customer
            /\ t.orders[o].status = u.orders[o].status
            /\ t.orders[o].total_cents = u.orders[o].total_cents
            /\ \A k \in Skus : t.items[o][k] = u.items[o][k]
  PROVE  t = u
<1>1. \A o \in Orders : t.orders[o] = u.orders[o]
  BY RowColumns
<1>2. t.orders = u.orders
  BY <1>1 DEF TablesType
<1>3. \A o \in Orders : t.items[o] = u.items[o]
  BY DEF TablesType
<1>4. t.items = u.items
  BY <1>3 DEF TablesType
<1> QED BY <1>2, <1>4 DEF TablesType

\* An event applied again at once changes nothing.
LEMMA ApplyTwice ==
  ASSUME NEW t \in TablesType, NEW e \in Payload
  PROVE  ApplyOrderEvent(ApplyOrderEvent(t, e), e) = ApplyOrderEvent(t, e)
<1> DEFINE u == ApplyOrderEvent(t, e)
           v == ApplyOrderEvent(u, e)
<1>1. u \in TablesType
  BY ApplyTyped
<1> HIDE DEF u
<1>2. v \in TablesType
  BY <1>1, ApplyTyped
<1> HIDE DEF v
<1>3. CASE e.type = "order.created"
  <2>1. e.order \in Orders /\ u.orders[e.order] =
          [customer |-> e.customer, status |-> e.status,
           total_cents |-> t.orders[e.order].total_cents]
    BY <1>3, CreatedRow DEF u
  <2>2. /\ v.items = u.items
        /\ \A o \in Orders \ {e.order} : v.orders[o] = u.orders[o]
        /\ v.orders[e.order] =
             [customer |-> e.customer, status |-> e.status,
              total_cents |-> u.orders[e.order].total_cents]
    BY <1>1, <1>3, CreatedRow DEF v
  <2>3. \A o \in Orders : v.orders[o] = u.orders[o]
    BY <2>1, <2>2
  <2>4. v = u
    BY <1>1, <1>2, <2>2, <2>3, SameTables
  <2> QED BY <2>4 DEF u, v
<1>4. CASE e.type = "order.item_added"
  <2> DEFINE items == [t.items[e.order] EXCEPT ![e.sku] = e.amount]
             again == [u.items[e.order] EXCEPT ![e.sku] = e.amount]
  <2>1. e.order \in Orders /\ items \in [Skus -> Int] /\ t.items \in [Orders -> [Skus -> Int]]
    BY <1>4, ItemRow DEF TablesType
  <2>2. u.items = [t.items EXCEPT ![e.order] = items]
    BY <1>4, ItemRow DEF u
  <2>3. u.items[e.order] = items
    BY <2>1, <2>2
  <2>4. again = items
    BY <2>1, <2>3
  <2>5. v.items = [u.items EXCEPT ![e.order] = again]
    BY <1>1, <1>4, ItemRow DEF v
  <2> HIDE DEF items, again
  <2>6. v.items = u.items
    BY <1>1, <2>1, <2>3, <2>4, <2>5 DEF TablesType
  <2>7. /\ \A o \in Orders \ {e.order} : v.orders[o] = u.orders[o]
        /\ IF Exists(t, e.order)
             THEN u.orders[e.order] =
                    [customer |-> t.orders[e.order].customer,
                     status |-> t.orders[e.order].status, total_cents |-> SumFunction(items)]
             ELSE u.orders[e.order] = t.orders[e.order]
        /\ IF Exists(u, e.order)
             THEN v.orders[e.order] =
                    [customer |-> u.orders[e.order].customer,
                     status |-> u.orders[e.order].status, total_cents |-> SumFunction(again)]
             ELSE v.orders[e.order] = u.orders[e.order]
    BY <1>1, <1>4, ItemRow DEF u, v, items, again
  <2>8. Exists(u, e.order) => Exists(t, e.order)
    BY <2>7 DEF Exists
  <2>9. \A o \in Orders :
          /\ v.orders[o].customer = u.orders[o].customer
          /\ v.orders[o].status = u.orders[o].status
          /\ v.orders[o].total_cents = u.orders[o].total_cents
    BY <2>4, <2>7, <2>8
  <2>10. v = u
    BY <1>1, <1>2, <2>6, <2>9, SameTables
  <2> QED BY <2>10 DEF u, v
<1>5. CASE e.type = "order.cancelled"
  <2>1. /\ e.order \in Orders /\ v.items = u.items
        /\ \A o \in Orders \ {e.order} : v.orders[o] = u.orders[o]
    BY <1>1, <1>5, CancelledRow DEF v
  <2>2. IF Exists(t, e.order)
             THEN u.orders[e.order] =
                    [customer |-> t.orders[e.order].customer, status |-> "cancelled",
                     total_cents |-> t.orders[e.order].total_cents]
             ELSE u.orders[e.order] = t.orders[e.order]
    BY <1>5, CancelledRow DEF u
  <2>3. IF Exists(u, e.order)
             THEN v.orders[e.order] =
                    [customer |-> u.orders[e.order].customer, status |-> "cancelled",
                     total_cents |-> u.orders[e.order].total_cents]
             ELSE v.orders[e.order] = u.orders[e.order]
    BY <1>1, <1>5, CancelledRow DEF v
  <2>4. Exists(u, e.order) => Exists(t, e.order)
    BY <2>2 DEF Exists
  <2>5. \A o \in Orders :
          /\ v.orders[o].customer = u.orders[o].customer
          /\ v.orders[o].status = u.orders[o].status
          /\ v.orders[o].total_cents = u.orders[o].total_cents
    BY <2>1, <2>2, <2>3, <2>4
  <2>6. v = u
    BY <1>1, <1>2, <2>1, <2>5, SameTables
  <2> QED BY <2>6 DEF u, v
<1>6. CASE e.type \notin {"order.created", "order.item_added", "order.cancelled"}
  BY <1>6, OtherRow
<1> QED BY <1>3, <1>4, <1>5, <1>6
-----------------------------------------------------------------------------
(* The fold of the log.                                                     *)

\* The left fold, without its operators.
LEMMA ReplayUnfold ==
  ASSUME NEW seq
  PROVE  FoldLeft(ApplyOrderEvent, EmptyTables, seq) =
           (CHOOSE it : it = [s \in SUBSET DOMAIN seq |->
              IF s = {} THEN EmptyTables
              ELSE ApplyOrderEvent(it[s \ {Max(s)}], seq[Max(s)])])[DOMAIN seq]
BY Zenon DEF FoldLeft, MapThenFoldSet

\* it applies the last event of a set of positions to what the others left.
Replays(it, n) ==
    /\ it[{}] = EmptyTables
    /\ \A s \in SUBSET (1..n) : s # {} =>
          it[s] = ApplyOrderEvent(it[s \ {Max(s)}], log[Max(s)])

\* Two replays of the same events agree.
LEMMA ReplaysAgree ==
  ASSUME NEW n \in Nat, NEW g, NEW h, Replays(g, n), Replays(h, n)
  PROVE  g[1..n] = h[1..n]
<1>1. g[{}] = h[{}]
  BY DEF Replays
<1>2. \A s \in SUBSET (1..n) : Rest(Highest(n), s) = s \ {Max(s)}
  BY DEF Rest, Highest
<1>3. \A s \in SUBSET (1..n) :
        s # {} /\ g[Rest(Highest(n), s)] = h[Rest(Highest(n), s)] => g[s] = h[s]
  BY <1>2 DEF Replays
<1> DEFINE S == 1..n
<1>4. IsFiniteSet(S) /\ Picks(Highest(n), S) /\ S \in SUBSET S
  BY HighestPicks
<1>5. \A s \in SUBSET S :
        s # {} /\ g[Rest(Highest(n), s)] = h[Rest(Highest(n), s)] => g[s] = h[s]
  BY <1>3
<1> HIDE DEF S
<1>6. g[S] = h[S]
  BY <1>1, <1>4, <1>5, SubsetsAgree
<1> QED BY <1>6 DEF S

\* Projected(n) replays the first n events.
LEMMA ProjectedReplays ==
  ASSUME log \in Seq(Payload), NEW n \in 0..Len(log)
  PROVE  \E it \in [SUBSET (1..n) -> TablesType] : Replays(it, n) /\ Projected(n) = it[1..n]
<1> DEFINE seq == SubSeq(log, 1, n)
           op == [z \in (1..n) \X TablesType |-> ApplyOrderEvent(z[2], log[z[1]])]
           Raw(it) == it = [s \in SUBSET (1..n) |->
                              IF s = {} THEN EmptyTables
                              ELSE ApplyOrderEvent(it[s \ {Max(s)}], seq[Max(s)])]
           c == CHOOSE it : Raw(it)
<1>1. n \in Nat /\ DOMAIN seq = 1..n /\ \A i \in 1..n : seq[i] = log[i] /\ log[i] \in Payload
  OBVIOUS
<1>2. \A s \in SUBSET (1..n) : s # {} => Max(s) \in s /\ Max(s) \in 1..n
  BY <1>1, HighestPicks
<1>3. PICK it \in [SUBSET (1..n) -> TablesType] : Folds(it, 1..n, EmptyTables, op, Highest(n))
  <2> DEFINE S == 1..n
  <2>1. op \in [S \X TablesType -> TablesType]
    BY <1>1, ApplyTyped
  <2>2. IsFiniteSet(S) /\ Picks(Highest(n), S) /\ EmptyTables \in TablesType
    BY <1>1, HighestPicks, EmptyTyped
  <2> HIDE DEF S, op
  <2>3. \E it \in [SUBSET S -> TablesType] : Folds(it, S, EmptyTables, op, Highest(n))
    BY <2>1, <2>2, FoldExists
  <2> QED BY <2>3 DEF S
<1>4. Replays(it, n)
  <2>1. ASSUME NEW s \in SUBSET (1..n), s # {}
        PROVE  it[s] = ApplyOrderEvent(it[s \ {Max(s)}], log[Max(s)])
    <3>1. Highest(n)[s] = Max(s) /\ Rest(Highest(n), s) = s \ {Max(s)}
      BY DEF Highest, Rest
    <3>2. it[s] = op[<<Max(s), it[s \ {Max(s)}]>>]
      BY <1>3, <2>1, <3>1 DEF Folds
    <3>3. Max(s) \in 1..n /\ it[s \ {Max(s)}] \in TablesType
      BY <1>2, <2>1
    <3> QED BY <3>2, <3>3
  <2> QED BY <1>3, <2>1 DEF Replays, Folds
<1>5. Raw(it)
  <2>1. it = [s \in SUBSET (1..n) |-> it[s]]
    OBVIOUS
  <2>2. ASSUME NEW s \in SUBSET (1..n)
        PROVE  it[s] = IF s = {} THEN EmptyTables
                       ELSE ApplyOrderEvent(it[s \ {Max(s)}], seq[Max(s)])
    BY <1>1, <1>2, <1>4 DEF Replays
  <2> HIDE DEF seq
  <2> QED BY <2>1, <2>2, Zenon
<1>6. Raw(c)
  <2> HIDE DEF Raw
  <2> QED BY <1>5
<1> HIDE DEF c
<1>7. Replays(c, n)
  BY <1>1, <1>2, <1>6 DEF Replays
<1>8. Projected(n) = c[1..n]
  <2> HIDE DEF seq
  <2>1. Projected(n) = FoldLeft(ApplyOrderEvent, EmptyTables, seq)
    BY Zenon DEF Projected, seq
  <2> QED BY <1>1, <2>1, ReplayUnfold, Zenon DEF c
<1> QED BY <1>1, <1>4, <1>7, <1>8, ReplaysAgree

\* Projected starts empty and takes one event after the other.
LEMMA ProjectedSteps ==
  ASSUME log \in Seq(Payload)
  PROVE  /\ Projected(0) = EmptyTables
         /\ \A n \in 0..Len(log) : Projected(n) \in TablesType
         /\ \A n \in 0..Len(log) : n < Len(log) =>
               Projected(n + 1) = ApplyOrderEvent(Projected(n), log[n + 1])
<1>1. Projected(0) = EmptyTables
  <2>1. 0 \in 0..Len(log) /\ 1..0 = {}
    OBVIOUS
  <2> QED BY <2>1, ProjectedReplays DEF Replays
<1>2. ASSUME NEW n \in 0..Len(log) PROVE Projected(n) \in TablesType
  <2>1. PICK it \in [SUBSET (1..n) -> TablesType] : Projected(n) = it[1..n]
    BY ProjectedReplays
  <2>2. it[1..n] \in TablesType
    BY Zenon
  <2> QED BY <2>1, <2>2
<1>3. ASSUME NEW n \in 0..Len(log), n < Len(log)
      PROVE  Projected(n + 1) = ApplyOrderEvent(Projected(n), log[n + 1])
  <2>1. n + 1 \in 0..Len(log) /\ n + 1 \in Nat /\ n \in Nat
    BY <1>3
  <2>2. PICK it : Replays(it, n) /\ Projected(n) = it[1..n]
    BY ProjectedReplays
  <2>3. PICK iu : Replays(iu, n + 1) /\ Projected(n + 1) = iu[1..(n + 1)]
    BY <2>1, ProjectedReplays
  <2>4. Replays(iu, n)
    BY <2>1, <2>3 DEF Replays
  <2>5. it[1..n] = iu[1..n]
    BY <2>1, <2>2, <2>4, ReplaysAgree
  <2>6. Max(1..(n + 1)) = n + 1
    <3> DEFINE s == 1..(n + 1)
    <3>1. s \in SUBSET (1..(n + 1)) /\ s # {} /\ n + 1 \in s
      BY <2>1
    <3>2. Max(s) \in s /\ \A y \in s : y <= Max(s)
      BY <2>1, <3>1, HighestPicks
    <3> QED BY <2>1, <3>1, <3>2
  <2>7. 1..(n + 1) # {} /\ (1..(n + 1)) \ {n + 1} = 1..n
    <3>1. n + 1 \in 1..(n + 1)
      BY <2>1
    <3>2. (1..(n + 1)) \ {n + 1} = 1..n
      BY <2>1
    <3> QED BY <3>1, <3>2
  <2>8. iu[1..(n + 1)] = ApplyOrderEvent(iu[1..n], log[n + 1])
    BY <2>1, <2>3, <2>6, <2>7 DEF Replays
  <2> QED BY <2>2, <2>3, <2>5, <2>8
<1> QED BY <1>1, <1>2, <1>3
-----------------------------------------------------------------------------
(* Types, for all callers.                                                  *)

\* What was fetched are positions, and a call has a row with an event at hand.
Holds(p, n) ==
    /\ \A r \in Rowids : p.fetched[r] \in 0..n
    /\ p.pc \in {"applying", "applied"} => p.row \in Rowids /\ p.fetched[p.row] # 0

TypeInv ==
    /\ TypeOK
    /\ Len(log) <= MaxRows
    /\ \A i \in Projectors : Holds(projector[i], Len(log))

\* Positions hold events.
LEMMA LogTyped ==
  ASSUME TypeInv
  PROVE  /\ Len(log) \in Nat /\ log \in Seq(Payload)
         /\ \A n \in 1..Len(log) : log[n] \in Payload
BY PayloadsAssumption DEF TypeInv, TypeOK

\* The event at hand is one of the log.
LEMMA AtHand ==
  ASSUME TypeInv, NEW i \in Projectors, projector[i].pc \in {"applying", "applied"}
  PROVE  EventAtHand(i) \in 1..Len(log) /\ projector[i].row \in Rowids
<1>1. projector[i].row \in Rowids /\ EventAtHand(i) \in 0..Len(log) /\ EventAtHand(i) # 0
  BY DEF TypeInv, Holds, EventAtHand
<1> QED BY <1>1, LogTyped

\* Values a projector may get: at rest, down, or about to apply a row.
LEMMA ProjectorValues ==
  ASSUME TypeInv
  PROVE  /\ Down \in ProjectorType /\ Holds(Down, Len(log)) /\ Down.pc = "down"
         /\ \A n \in Nat : /\ Ready(n) \in ProjectorType /\ Holds(Ready(n), Len(log))
                           /\ Ready(n).pc = "ready" /\ Ready(n).offset = n
         /\ \A fetched \in [Rowids -> 0..Len(log)], r \in Rowids, t \in Nat, f \in Nat, o \in Nat :
               fetched[r] # 0 => /\ Taking(fetched, r, t, f, o) \in ProjectorType
                                 /\ Holds(Taking(fetched, r, t, f, o), Len(log))
<1>1. Len(log) \in Nat
  BY LogTyped
<1>2. /\ Down \in ProjectorType /\ Holds(Down, Len(log)) /\ Down.pc = "down"
      /\ \A n \in Nat : /\ Ready(n) \in ProjectorType /\ Holds(Ready(n), Len(log))
                        /\ Ready(n).pc = "ready" /\ Ready(n).offset = n
  BY <1>1 DEF Down, Ready, ProjectorType, NoRows, Holds
<1>3. ASSUME NEW fetched \in [Rowids -> 0..Len(log)], NEW r \in Rowids, NEW t \in Nat,
             NEW f \in Nat, NEW o \in Nat, fetched[r] # 0
      PROVE  /\ Taking(fetched, r, t, f, o) \in ProjectorType
             /\ Holds(Taking(fetched, r, t, f, o), Len(log))
  <2>1. fetched \in [Rowids -> Nat] /\ r \in Nat
    BY <1>1, RowidsAreNat
  <2>2. Taking(fetched, r, t, f, o) \in ProjectorType
    BY <2>1, TakingTyped
  <2> QED BY <1>3, <2>2 DEF Holds, Taking
<1> QED BY <1>2, <1>3

\* Nothing published, nothing applied.
LEMMA InitTypeInv == Init => TypeInv
<1> SUFFICES ASSUME Init PROVE TypeInv
  OBVIOUS
<1>1. Down \in ProjectorType /\ Holds(Down, 0)
  BY DEF Down, Ready, ProjectorType, NoRows, Holds
<1>2. Len(log) = 0 /\ log \in Seq(Payloads)
  BY DEF Init
<1>3. rows \in [Rowids -> 0..Len(log)] /\ applied \subseteq 1..Len(log)
  BY <1>2 DEF Init, NoRows
<1>4. projector \in [Projectors -> ProjectorType]
      /\ \A i \in Projectors : Holds(projector[i], Len(log))
  BY <1>1, <1>2 DEF Init
<1>5. metrics \in [processed : Nat, failed : Nat] /\ tables \in TablesType
  BY EmptyTyped DEF Init
<1>6. /\ checkpoint \in Nat /\ calls \in Nat /\ faults \in Nat /\ removals \in Nat /\ top \in Nat
      /\ reused \subseteq Rowids /\ lost \in BOOLEAN /\ overlapped \in BOOLEAN
      /\ rewound \in BOOLEAN
  BY DEF Init
<1>7. Len(log) <= MaxRows
  BY <1>2, BoundsAssumption
<1> QED BY <1>2, <1>3, <1>4, <1>5, <1>6, <1>7 DEF TypeInv, TypeOK

\* A longer log has at least the positions of a shorter one.
LEMMA PublishTyped ==
  ASSUME TypeInv, NEW e \in Payloads, Publish(e)
  PROVE  /\ TypeInv'
         /\ Len(log') = Len(log) + 1 /\ \A n \in 1..Len(log) : log'[n] = log[n]
         /\ log'[Len(log) + 1] = e
<1>1. PICK r \in Rowids :
        /\ rows' = [rows EXCEPT ![r] = Len(log) + 1]
        /\ IF r > top THEN top' = r /\ UNCHANGED reused
                      ELSE reused' = reused \cup {r} /\ UNCHANGED top
  BY DEF Publish
<1>2. /\ log' = Append(log, e) /\ Len(log) < MaxRows
      /\ UNCHANGED <<tables, checkpoint, projector, metrics, calls, faults, removals, lost,
                     applied, overlapped, rewound>>
  BY DEF Publish
<1>3. /\ Len(log) \in Nat /\ Len(log') = Len(log) + 1 /\ log' \in Seq(Payloads)
      /\ \A n \in 1..Len(log) : log'[n] = log[n]
      /\ log'[Len(log) + 1] = e /\ Len(log') <= MaxRows
  BY <1>2, BoundsAssumption DEF TypeInv, TypeOK
<1>4. rows' \in [Rowids -> 0..Len(log')] /\ top' \in Nat /\ reused' \subseteq Rowids
  BY <1>1, <1>3, RowidsAreNat DEF TypeInv, TypeOK
<1>5. \A i \in Projectors : Holds(projector[i], Len(log'))
  BY <1>3 DEF TypeInv, Holds
<1>6. applied \subseteq 1..Len(log')
  BY <1>3 DEF TypeInv, TypeOK
<1> QED BY <1>2, <1>3, <1>4, <1>5, <1>6 DEF TypeInv, TypeOK, Holds

\* A step of one projector is typed if its new value is.
LEMMA OneProjectorTyped ==
  ASSUME TypeInv, NEW i \in Projectors, NEW q \in ProjectorType, Holds(q, Len(log)),
         projector' = [projector EXCEPT ![i] = q],
         UNCHANGED outbox, tables' \in TablesType, checkpoint' \in Nat,
         metrics' \in [processed : Nat, failed : Nat], calls' \in Nat, faults' \in Nat,
         applied' \subseteq 1..Len(log), overlapped' \in BOOLEAN, rewound' \in BOOLEAN
  PROVE  TypeInv'
<1>1. UNCHANGED <<log, rows, top, reused, removals, lost>>
  BY DEF outbox
<1>2. projector' \in [Projectors -> ProjectorType] /\ projector'[i] = q
      /\ \A j \in Projectors \ {i} : projector'[j] = projector[j]
  BY DEF TypeInv, TypeOK
<1>3. \A j \in Projectors : Holds(projector'[j], Len(log))
  BY <1>2 DEF TypeInv
<1> QED BY <1>1, <1>2, <1>3 DEF TypeInv, TypeOK, Holds

\* Calls begin with rows that the table has.
LEMMA CallTyped ==
  ASSUME TypeInv, NEW i \in Projectors,
         \/ \E r \in Rowids : Apply(i, r)
         \/ \E from \in RebuildFrom \cup {projector[i].offset} : Rebuild(i, from)
  PROVE  TypeInv'
<1> DEFINE p == projector[i]
<1>1. /\ p \in ProjectorType /\ p.offset \in Nat /\ rows \in [Rowids -> 0..Len(log)]
      /\ Len(log) \in Nat /\ Holds(p, Len(log))
  BY DEF TypeInv, TypeOK, ProjectorType
<1>2. /\ UNCHANGED <<outbox, tables, checkpoint, metrics, faults, applied, overlapped>>
      /\ calls' \in Nat /\ rewound' \in BOOLEAN
  <2>1. UNCHANGED <<outbox, tables, checkpoint, metrics, faults, applied, overlapped>>
    BY DEF Apply, Rebuild
  <2>2. calls' \in Nat
    BY DEF Apply, Rebuild, Call, TypeInv, TypeOK
  <2>3. rewound' \in BOOLEAN
    BY DEF Apply, Rebuild, TypeInv, TypeOK
  <2> QED BY <2>1, <2>2, <2>3
<1>3. PICK q \in ProjectorType : Holds(q, Len(log)) /\ projector' = [projector EXCEPT ![i] = q]
  <2>1. CASE \E r \in Rowids : Apply(i, r)
    <3>1. PICK r \in Rowids :
            /\ Present(r)
            /\ projector' = [projector EXCEPT ![i] =
                               Taking(UpTo(r), r, p.offset + 1, p.offset, p.offset)]
      BY <2>1 DEF Apply
    <3>2. UpTo(r) \in [Rowids -> 0..Len(log)] /\ UpTo(r)[r] # 0 /\ p.offset + 1 \in Nat
      BY <1>1, <3>1, RowidsAreNat DEF UpTo, Present
    <3> QED BY <1>1, <3>1, <3>2, ProjectorValues
  <2>2. ASSUME NEW from \in RebuildFrom \cup {p.offset}, Rebuild(i, from),
               NEW r \in Rowids, IsNextRow(rows, from, r),
               projector' = [projector EXCEPT ![i] = Taking(rows, r, r, from, p.offset)]
        PROVE  \E q \in ProjectorType :
                  Holds(q, Len(log)) /\ projector' = [projector EXCEPT ![i] = q]
    <3>1. from \in Nat /\ r \in Nat /\ rows[r] # 0
      BY <1>1, <2>2, RebuildAssumption, RowidsAreNat DEF IsNextRow
    <3> QED BY <1>1, <2>2, <3>1, ProjectorValues
  <2>3. CASE UNCHANGED projector
    BY <1>1, <2>3 DEF TypeInv, TypeOK
  <2> QED BY <2>1, <2>2, <2>3 DEF Rebuild
<1>4. /\ tables' \in TablesType /\ checkpoint' \in Nat
      /\ metrics' \in [processed : Nat, failed : Nat] /\ faults' \in Nat
      /\ applied' \subseteq 1..Len(log) /\ overlapped' \in BOOLEAN
  BY <1>2 DEF TypeInv, TypeOK
<1> QED BY <1>2, <1>3, <1>4, OneProjectorTyped

\* The other steps of a projector.
LEMMA StepTyped ==
  ASSUME TypeInv, NEW i \in Projectors,
         \/ New(i) \/ Reject(i) \/ ApplyEvent(i) \/ Checkpoint(i)
         \/ DbError(i) \/ DropInCheckpoint(i) \/ DropCall(i) \/ Stop(i)
  PROVE  TypeInv'
<1> DEFINE p == projector[i]
<1>1. /\ p \in ProjectorType /\ p.offset \in Nat /\ p.target \in Nat /\ p.from \in Nat
      /\ Len(log) \in Nat /\ Holds(p, Len(log)) /\ checkpoint \in Nat
  BY DEF TypeInv, TypeOK, ProjectorType
<1>2. /\ UNCHANGED <<outbox, calls, rewound>>
      /\ checkpoint' \in {checkpoint, p.target}
      /\ faults' \in Nat /\ metrics' \in [processed : Nat, failed : Nat]
      /\ overlapped' \in BOOLEAN
  <2>1. checkpoint' \in {checkpoint, p.target}
    BY DEF New, Reject, ApplyEvent, Checkpoint, DbError, DropInCheckpoint, DropCall, Stop
  <2>2. faults' \in Nat
    BY DEF TypeInv, TypeOK, New, Reject, ApplyEvent, Checkpoint, DbError, DropInCheckpoint,
           DropCall, Stop, Fault
  <2>3. metrics' \in [processed : Nat, failed : Nat]
    BY DEF TypeInv, TypeOK, New, Reject, ApplyEvent, Checkpoint, DbError, DropInCheckpoint,
           DropCall, Stop, Fault
  <2>4. UNCHANGED <<outbox, calls, rewound>> /\ overlapped' \in BOOLEAN
    BY DEF TypeInv, TypeOK, New, Reject, ApplyEvent, Checkpoint, DbError, DropInCheckpoint,
           DropCall, Stop, Fault
  <2> QED BY <2>1, <2>2, <2>3, <2>4
<1>3. CASE ApplyEvent(i)
  <2> DEFINE n == EventAtHand(i)
  <2>1. p.pc = "applying" /\ n \in 1..Len(log) /\ log[n] \in Payload
    BY <1>3, AtHand, LogTyped DEF ApplyEvent
  <2>2. tables' \in TablesType /\ applied' \subseteq 1..Len(log)
    BY <1>3, <2>1, ApplyTyped DEF ApplyEvent, TypeInv, TypeOK
  <2>3. /\ [p EXCEPT !.pc = "applied"] \in ProjectorType
        /\ Holds([p EXCEPT !.pc = "applied"], Len(log))
        /\ projector' = [projector EXCEPT ![i] = [p EXCEPT !.pc = "applied"]]
    BY <1>1, <1>3, <2>1 DEF ApplyEvent, ProjectorType, Holds
  <2> QED BY <1>1, <1>2, <2>2, <2>3, OneProjectorTyped DEF TypeInv, TypeOK
<1>4. CASE ~ApplyEvent(i)
  <2>1. UNCHANGED <<tables, applied>>
    BY <1>4 DEF New, Reject, Checkpoint, DbError, DropInCheckpoint, DropCall, Stop
  <2>2. PICK q \in ProjectorType : Holds(q, Len(log)) /\ projector' = [projector EXCEPT ![i] = q]
    <3>1. ASSUME NEW r \in Rowids, IsNextRow(p.fetched, p.row, r),
                 projector' = [projector EXCEPT ![i] =
                                 Taking(p.fetched, r, r, p.from, p.target)]
          PROVE  \E q \in ProjectorType :
                    Holds(q, Len(log)) /\ projector' = [projector EXCEPT ![i] = q]
      <4>1. p.fetched \in [Rowids -> 0..Len(log)] /\ r \in Nat /\ p.fetched[r] # 0
        BY <1>1, <3>1, RowidsAreNat DEF ProjectorType, Holds, IsNextRow
      <4> QED BY <1>1, <3>1, <4>1, ProjectorValues
    <3>2. CASE \E v \in {Down, Ready(checkpoint), Ready(p.offset), Ready(p.target)} :
                  projector' = [projector EXCEPT ![i] = v]
      BY <1>1, <3>2, ProjectorValues
    <3>3. CASE Checkpoint(i)
      BY <3>1, <3>2, <3>3 DEF Checkpoint
    <3>4. CASE ~Checkpoint(i)
      BY <1>4, <3>2, <3>4 DEF New, Reject, DbError, DropInCheckpoint, DropCall, Stop
    <3> QED BY <3>3, <3>4
  <2>3. tables' \in TablesType /\ applied' \subseteq 1..Len(log)
    BY <2>1 DEF TypeInv, TypeOK
  <2>4. checkpoint' \in Nat /\ calls' \in Nat /\ rewound' \in BOOLEAN
    BY <1>1, <1>2 DEF TypeInv, TypeOK
  <2> QED BY <1>2, <2>2, <2>3, <2>4, OneProjectorTyped
<1> QED BY <1>3, <1>4

\* Every step keeps the types.
LEMMA NextTypeInv == TypeInv /\ [Next]_vars => TypeInv'
<1> SUFFICES ASSUME TypeInv, [Next]_vars PROVE TypeInv'
  OBVIOUS
<1>1. CASE UNCHANGED vars
  BY <1>1 DEF vars, TypeInv, TypeOK, Holds
<1>2. ASSUME NEW e \in Payloads, Publish(e) PROVE TypeInv'
  BY <1>2, PublishTyped
<1>3. ASSUME NEW r \in Rowids, RemoveRow(r) PROVE TypeInv'
  <2>1. /\ rows' \in [Rowids -> 0..Len(log)] /\ lost' \in BOOLEAN /\ removals' \in Nat
        /\ UNCHANGED <<log, tables, checkpoint, projector, metrics, calls, faults, top, reused,
                       applied, overlapped, rewound>>
    BY <1>3, LogTyped DEF RemoveRow, TypeInv, TypeOK
  <2> QED BY <2>1 DEF TypeInv, TypeOK, Holds
<1>4. ASSUME NEW i \in Projectors,
             \/ New(i)
             \/ \E r \in Rowids : Apply(i, r)
             \/ \E from \in RebuildFrom \cup {projector[i].offset} : Rebuild(i, from)
             \/ Reject(i) \/ ApplyEvent(i) \/ Checkpoint(i)
             \/ DbError(i) \/ DropInCheckpoint(i) \/ DropCall(i) \/ Stop(i)
      PROVE  TypeInv'
  BY <1>4, CallTyped, StepTyped
<1> QED BY <1>1, <1>2, <1>3, <1>4 DEF Next

\* Tables, offsets and the log keep their types whatever callers do: an event
\* of any kind at any time leaves rows with all their columns.
THEOREM TablesTyped == Spec => []TypeOK
<1>1. TypeInv => TypeOK
  BY DEF TypeInv
<1> QED BY <1>1, InitTypeInv, NextTypeInv, PTL DEF Spec
-----------------------------------------------------------------------------
(* Rows whose rowid is their position.                                      *)

\* Without rowids that came again a row has the number of its event, a row
\* that is gone has been applied, and fetches saw nothing else.
Straight ==
    /\ top = Len(log)
    /\ \A r \in Rowids :
          IF r <= Len(log) THEN rows[r] = r \/ (rows[r] = 0 /\ r \in applied)
                           ELSE rows[r] = 0
    /\ \A i \in Projectors : \A r \in Rowids : projector[i].fetched[r] \in {0, r}

StraightInv == Housekept => Straight

\* No row at all.
LEMMA InitStraight == Init => StraightInv
<1> SUFFICES ASSUME Init PROVE Straight
  BY DEF StraightInv
<1>1. Len(log) = 0 /\ top = 0 /\ \A r \in Rowids : rows[r] = 0
  BY DEF Init, NoRows
<1>2. \A i \in Projectors : \A r \in Rowids : projector[i].fetched[r] = 0
  BY DEF Init, Down, Ready, NoRows
<1> QED BY <1>1, <1>2, RowidsAreNat DEF Straight

\* Housekeeping and the order of the log are lost for good.
LEMMA OnceLost ==
  ASSUME TypeInv, [Next]_vars
  PROVE  /\ Housekept' => Housekept
         /\ OrderedLog' => OrderedLog
<1>1. CASE UNCHANGED vars
  BY <1>1 DEF vars, Housekept, OrderedLog, Published
<1>2. ASSUME NEW e \in Payloads, Publish(e)
      PROVE  (Housekept' => Housekept) /\ (OrderedLog' => OrderedLog)
  <2>1. Housekept' => Housekept
    BY <1>2 DEF Publish, Housekept
  <2>2. /\ Len(log) \in Nat /\ Len(log') = Len(log) + 1
        /\ \A n \in 1..Len(log) : log'[n] = log[n]
    BY <1>2, PublishTyped, LogTyped
  <2>3. OrderedLog' => OrderedLog
    <3> SUFFICES ASSUME OrderedLog', NEW n \in 1..Len(log), log[n].type = "order.item_added"
                 PROVE  \E q \in 1..(n - 1) :
                           log[q].type = "order.created" /\ log[q].order = log[n].order
      BY DEF OrderedLog, Published
    <3>1. n \in 1..Len(log') /\ log'[n] = log[n]
      BY <2>2
    <3>2. PICK q \in 1..(n - 1) :
            log'[q].type = "order.created" /\ log'[q].order = log'[n].order
      BY <3>1 DEF OrderedLog, Published
    <3>3. log'[q] = log[q]
      BY <2>2, <3>2
    <3> QED BY <3>1, <3>2, <3>3
  <2> QED BY <2>1, <2>3
<1>3. ASSUME NEW r \in Rowids, RemoveRow(r)
      PROVE  (Housekept' => Housekept) /\ (OrderedLog' => OrderedLog)
  BY <1>3 DEF RemoveRow, Housekept, OrderedLog, Published, TypeInv, TypeOK
<1>4. ASSUME NEW i \in Projectors,
             \/ New(i)
             \/ \E r \in Rowids : Apply(i, r)
             \/ \E from \in RebuildFrom \cup {projector[i].offset} : Rebuild(i, from)
             \/ Reject(i) \/ ApplyEvent(i) \/ Checkpoint(i)
             \/ DbError(i) \/ DropInCheckpoint(i) \/ DropCall(i) \/ Stop(i)
      PROVE  (Housekept' => Housekept) /\ (OrderedLog' => OrderedLog)
  <2>1. UNCHANGED outbox
    BY <1>4 DEF New, Apply, Rebuild, Reject, ApplyEvent, Checkpoint, DbError, DropInCheckpoint,
                DropCall, Stop
  <2> QED BY <2>1 DEF outbox, Housekept, OrderedLog, Published
<1> QED BY <1>1, <1>2, <1>3, <1>4 DEF Next

\* A call fetches rows of the table; every other step keeps what was fetched,
\* or forgets it.
LEMMA FetchedFrom ==
  ASSUME TypeInv, NEW i \in Projectors, NEW j \in Projectors, NEW r \in Rowids,
         \/ New(i)
         \/ \E q \in Rowids : Apply(i, q)
         \/ \E from \in RebuildFrom \cup {projector[i].offset} : Rebuild(i, from)
         \/ Reject(i) \/ ApplyEvent(i) \/ Checkpoint(i)
         \/ DbError(i) \/ DropInCheckpoint(i) \/ DropCall(i) \/ Stop(i)
  PROVE  projector'[j].fetched[r] \in {0, rows[r], projector[j].fetched[r]}
<1>1. projector \in [Projectors -> ProjectorType]
  BY DEF TypeInv, TypeOK
<1>2. CASE j # i
  <2>1. projector'[j] = projector[j]
    BY <1>1, <1>2 DEF New, Apply, Rebuild, Reject, ApplyEvent, Checkpoint, DbError,
                      DropInCheckpoint, DropCall, Stop
  <2> QED BY <2>1
<1>3. CASE j = i
  <2>1. \A n : Ready(n).fetched[r] = 0 /\ Down.fetched[r] = 0
    BY DEF Ready, Down, NoRows
  <2>2. \A f, a, b, c, d : Taking(f, a, b, c, d).fetched = f
    BY DEF Taking
  <2>3. CASE \E q \in Rowids : Apply(i, q)
    <3>1. PICK q \in Rowids : projector'[i].fetched = UpTo(q)
      BY <1>1, <2>2, <2>3 DEF Apply
    <3> QED BY <1>3, <3>1 DEF UpTo
  <2>4. CASE \E from \in RebuildFrom \cup {projector[i].offset} : Rebuild(i, from)
    BY <1>1, <1>3, <2>2, <2>4 DEF Rebuild
  <2>5. CASE ApplyEvent(i)
    BY <1>1, <1>3, <2>5 DEF ApplyEvent, ProjectorType
  <2>6. CASE Checkpoint(i)
    BY <1>1, <1>3, <2>1, <2>2, <2>6 DEF Checkpoint
  <2>7. CASE New(i) \/ Reject(i) \/ DbError(i) \/ DropInCheckpoint(i) \/ DropCall(i) \/ Stop(i)
    BY <1>1, <1>3, <2>1, <2>7 DEF New, Reject, DbError, DropInCheckpoint, DropCall, Stop
  <2> QED BY <2>3, <2>4, <2>5, <2>6, <2>7
<1> QED BY <1>2, <1>3

\* A new row has the next number, or one that came again.
LEMMA NextStraight == TypeInv /\ StraightInv /\ [Next]_vars => StraightInv'
<1> SUFFICES ASSUME TypeInv, Straight, Housekept, Housekept', [Next]_vars PROVE Straight'
  BY OnceLost DEF StraightInv
<1>1. CASE UNCHANGED vars
  BY <1>1 DEF vars, Straight
<1>2. ASSUME NEW e \in Payloads, Publish(e) PROVE Straight'
  <2>1. PICK r \in Rowids :
          /\ IsFreeRowid(r)
          /\ rows' = [rows EXCEPT ![r] = Len(log) + 1]
          /\ IF r > top THEN top' = r /\ UNCHANGED reused
                        ELSE reused' = reused \cup {r} /\ UNCHANGED top
    BY <1>2 DEF Publish
  <2>2. r > top /\ top' = r
    BY <2>1 DEF Housekept
  <2>3. Len(log) \in Nat /\ Len(log') = Len(log) + 1 /\ UNCHANGED <<projector, applied>>
    BY <1>2, LogTyped, PublishTyped DEF Publish
  <2>4. r = Len(log) + 1
    <3>1. r # 1 => r - 1 \in Rowids /\ rows[r - 1] # 0
      BY <2>1, RowidsAreNat DEF IsFreeRowid, Present, Rowids
    <3> QED BY <2>2, <2>3, <3>1, RowidsAreNat DEF Straight
  <2>5. \A q \in Rowids : rows'[q] = IF q = r THEN r ELSE rows[q]
    BY <2>1, <2>4 DEF TypeInv, TypeOK
  <2>6. \A q \in Rowids : IF q <= Len(log') THEN rows'[q] = q \/ (rows'[q] = 0 /\ q \in applied)
                                          ELSE rows'[q] = 0
    <3> SUFFICES ASSUME NEW q \in Rowids
                 PROVE  IF q <= Len(log') THEN rows'[q] = q \/ (rows'[q] = 0 /\ q \in applied)
                                          ELSE rows'[q] = 0
      OBVIOUS
    <3>1. q \in Nat /\ r \in Nat /\ (q <= Len(log') <=> q = r \/ q <= Len(log))
      BY <2>3, <2>4, RowidsAreNat
    <3>2. CASE q = r
      <4>1. rows'[r] = r
        BY <2>5
      <4>2. q <= Len(log')
        BY <3>1, <3>2
      <4> QED BY <3>2, <4>1, <4>2
    <3>3. CASE q # r
      BY <2>5, <3>1, <3>3 DEF Straight
    <3> QED BY <3>2, <3>3
  <2> QED BY <2>2, <2>3, <2>4, <2>6 DEF Straight
<1>3. ASSUME NEW r \in Rowids, RemoveRow(r) PROVE Straight'
  <2>1. /\ UNCHANGED <<log, top, projector, applied>>
        /\ rows[r] # 0 /\ rows[r] \in applied
        /\ \A q \in Rowids : rows'[q] = IF q = r THEN 0 ELSE rows[q]
    BY <1>3 DEF RemoveRow, Housekept, Present, TypeInv, TypeOK
  <2> QED BY <2>1 DEF Straight
<1>4. ASSUME NEW i \in Projectors,
             \/ New(i)
             \/ \E r \in Rowids : Apply(i, r)
             \/ \E from \in RebuildFrom \cup {projector[i].offset} : Rebuild(i, from)
             \/ Reject(i) \/ ApplyEvent(i) \/ Checkpoint(i)
             \/ DbError(i) \/ DropInCheckpoint(i) \/ DropCall(i) \/ Stop(i)
      PROVE  Straight'
  <2>1. UNCHANGED outbox /\ applied \subseteq applied'
    BY <1>4 DEF New, Apply, Rebuild, Reject, ApplyEvent, Checkpoint, DbError, DropInCheckpoint,
                DropCall, Stop
  <2>2. \A j \in Projectors : \A r \in Rowids :
           projector'[j].fetched[r] \in {0, rows[r], projector[j].fetched[r]}
    BY <1>4, FetchedFrom
  <2>3. \A r \in Rowids : rows[r] \in {0, r}
    BY DEF Straight
  <2>4. \A j \in Projectors : \A r \in Rowids : projector'[j].fetched[r] \in {0, r}
    BY <2>2, <2>3 DEF Straight
  <2> QED BY <2>1, <2>4 DEF Straight, outbox
<1> QED BY <1>1, <1>2, <1>3, <1>4 DEF Next

\* Whatever comes before the row at hand has been applied.
LEMMA EarlierApplied ==
  ASSUME TypeInv, CoverInv, Housekept, Straight, NEW i \in Projectors,
         projector[i].pc \in {"applying", "applied"}
  PROVE  /\ EventAtHand(i) = projector[i].row
         /\ projector[i].row \in 1..Len(log)
         /\ \A q \in 1..(projector[i].row - 1) : q \in applied
<1> DEFINE p == projector[i]
<1>1. InCall(p) /\ p.row \in Rowids /\ p.fetched[p.row] # 0
  BY DEF CoverInv, Covers, InCall
<1>2. p.fetched[p.row] = p.row
  BY <1>1 DEF Straight
<1>3. p.row \in 1..Len(log) /\ EventAtHand(i) = p.row
  BY <1>2, AtHand DEF EventAtHand
<1>4. ASSUME NEW q \in 1..(p.row - 1), q \notin applied PROVE FALSE
  <2>1. Len(log) \in Nat /\ p.row \in Nat
    BY <1>3, LogTyped
  <2>2. q \in Rowids /\ q <= p.row /\ q <= Len(log) /\ q \in Nat
    BY <1>1, <1>3, <1>4, <2>1, RowidsAreNat DEF Rowids
  <2>3. rows[q] = q /\ Present(q)
    BY <1>4, <2>2, RowidsAreNat DEF Straight, Present
  <2>4. p.fetched[q] = q
    BY <1>1, <2>2, <2>3 DEF InCall, Agrees, Housekept
  <2>5. p.target \in Nat /\ p.target <= p.row
    BY <1>1, <2>1 DEF InCall
  <2>6. CASE q < p.target
    <3>1. q <= p.target - 1
      BY <2>2, <2>5, <2>6
    <3> QED BY <1>1, <1>4, <2>2, <2>3, <3>1 DEF InCall, Covered, Housekept
  <2>7. CASE q >= p.target
    <3>1. q \in p.target..(p.row - 1)
      BY <1>4, <2>1, <2>5, <2>7
    <3> QED BY <1>1, <2>2, <2>4, <3>1 DEF InCall
  <2> QED BY <2>2, <2>5, <2>6, <2>7
<1> QED BY <1>3, <1>4
-----------------------------------------------------------------------------
(* Totals.                                                                  *)

Creates(n, o) == log[n].type = "order.created" /\ log[n].order = o
AddsItem(n, o) == log[n].type = "order.item_added" /\ log[n].order = o

\* Of order o the tables show the events at A and no others: it has a row if
\* and only if it was created there, and its total is the sum of its items.
Shows(t, A, o) ==
    /\ \A n \in A : Creates(n, o) \/ AddsItem(n, o) => Exists(t, o)
    /\ Exists(t, o) => /\ \E n \in A : Creates(n, o)
                       /\ t.orders[o].total_cents = SumFunction(t.items[o])
    /\ ~Exists(t, o) => t.orders[o] = NoOrder
    /\ \A k \in Skus : t.items[o][k] # 0 =>
          \E n \in A : AddsItem(n, o) /\ log[n].sku = k

Reflects(t, A) == \A o \in Orders : Shows(t, A, o)

\* Nothing applied shows nothing.
LEMMA EmptyReflects == Reflects(EmptyTables, {})
BY EmptyTyped DEF Reflects, Shows

\* An event that finds the order of its item shows in addition.
LEMMA ReflectsNext ==
  ASSUME TypeInv, NEW t \in TablesType, NEW A \in SUBSET (1..Len(log)), Reflects(t, A),
         NEW n \in 1..Len(log),
         \A o \in Orders : AddsItem(n, o) => \E q \in A : Creates(q, o)
  PROVE  Reflects(ApplyOrderEvent(t, log[n]), A \cup {n})
<1> DEFINE e == log[n]
           u == ApplyOrderEvent(t, e)
           B == A \cup {n}
           c == e.order
<1> SUFFICES Reflects(u, B)
  OBVIOUS
<1>1. e \in Payload /\ u \in TablesType
  BY LogTyped, ApplyTyped
<1>2. ASSUME NEW o \in Orders, u.orders[o] = t.orders[o], u.items[o] = t.items[o],
             ~Creates(n, o), ~AddsItem(n, o)
      PROVE  Shows(u, B, o)
  <2>1. Shows(t, A, o) /\ (Exists(u, o) <=> Exists(t, o))
    BY <1>2 DEF Reflects, Exists
  <2> HIDE DEF u, e
  <2> QED BY <1>2, <2>1 DEF Shows
<1>3. CASE e.type = "order.created"
  <2>1. e.order \in Orders
    BY <1>1, <1>3, CreatedRow
  <2>2. u.items = t.items
    BY <1>1, <1>3, CreatedRow
  <2>3. \A o \in Orders \ {e.order} : u.orders[o] = t.orders[o]
    BY <1>1, <1>3, CreatedRow
  <2>4. u.orders[e.order].total_cents = t.orders[e.order].total_cents
    <3>1. u.orders[e.order] =
            [customer |-> e.customer, status |-> e.status,
             total_cents |-> t.orders[e.order].total_cents]
      BY <1>1, <1>3, CreatedRow
    <3> QED BY <3>1
  <2>5. Exists(u, e.order)
    BY <1>1, <1>3, CreatedRow
  <2>6. Creates(n, c) /\ \A o \in Orders : ~AddsItem(n, o) /\ (o # c => ~Creates(n, o))
    BY <1>3 DEF Creates, AddsItem
  <2> HIDE DEF u
  <2>7. Shows(t, A, c)
    BY <2>1 DEF Reflects
  <2>8. u.orders[c].total_cents = SumFunction(u.items[c])
    <3>1. CASE Exists(t, c)
      BY <2>2, <2>4, <2>7, <3>1 DEF Shows
    <3>2. CASE ~Exists(t, c)
      <4>1. t.orders[c].total_cents = 0
        BY <2>7, <3>2 DEF Shows, NoOrder
      <4>2. \A k \in Skus : t.items[c][k] = 0
        BY <2>7, <3>2 DEF Shows
      <4>3. t.items[c] \in [Skus -> Int]
        BY <2>1 DEF TablesType
      <4>4. SumFunction(t.items[c]) = 0
        BY <4>2, <4>3, SumOfZeros, SkusAssumption
      <4> QED BY <2>2, <2>4, <4>1, <4>4
    <3> QED BY <3>1, <3>2
  <2>9. Shows(u, B, c)
    BY <2>2, <2>5, <2>6, <2>7, <2>8 DEF Shows
  <2> HIDE DEF c
  <2> QED BY <1>2, <2>2, <2>3, <2>6, <2>9 DEF Reflects, c
<1>4. CASE e.type = "order.item_added"
  <2> DEFINE items == [t.items[c] EXCEPT ![e.sku] = e.amount]
  <2>1. c \in Orders /\ e.sku \in Skus /\ items \in [Skus -> Int]
    BY <1>1, <1>4, ItemRow
  <2>2. u.items = [t.items EXCEPT ![c] = items]
    BY <1>1, <1>4, ItemRow
  <2>3. \A o \in Orders \ {c} : u.orders[o] = t.orders[o]
    BY <1>1, <1>4, ItemRow
  <2>4. IF Exists(t, c)
          THEN u.orders[c] = [customer |-> t.orders[c].customer, status |-> t.orders[c].status,
                              total_cents |-> SumFunction(items)]
          ELSE u.orders[c] = t.orders[c]
    BY <1>1, <1>4, ItemRow
  <2>5. AddsItem(n, c) /\ \A o \in Orders : ~Creates(n, o) /\ (o # c => ~AddsItem(n, o))
    BY <1>4 DEF Creates, AddsItem
  <2>6. /\ u.items[c] = items /\ \A o \in Orders \ {c} : u.items[o] = t.items[o]
        /\ \A k \in Skus \ {e.sku} : items[k] = t.items[c][k]
    BY <2>1, <2>2 DEF TablesType
  <2>7. log[n].sku = e.sku
    OBVIOUS
  <2> HIDE DEF u, items, e
  <2>8. Shows(t, A, c) /\ Exists(t, c)
    BY <2>1, <2>5 DEF Reflects, Shows
  <2>9. Exists(u, c) /\ u.orders[c].total_cents = SumFunction(u.items[c])
    BY <2>4, <2>6, <2>8 DEF Exists
  <2> HIDE DEF c
  <2>10. ASSUME NEW k \in Skus, u.items[c][k] # 0
         PROVE  \E q \in B : AddsItem(q, c) /\ log[q].sku = k
    <3>1. CASE k = e.sku
      BY <2>5, <2>7, <3>1
    <3>2. CASE k # e.sku
      <4>1. t.items[c][k] # 0
        BY <2>6, <2>10, <3>2
      <4> QED BY <2>8, <4>1 DEF Shows
    <3> QED BY <3>1, <3>2
  <2>11. Shows(u, B, c)
    BY <2>8, <2>9, <2>10 DEF Shows
  <2> QED BY <1>2, <2>3, <2>5, <2>6, <2>11 DEF Reflects
<1>5. CASE e.type = "order.cancelled"
  <2>1. c \in Orders
    BY <1>1, <1>5, CancelledRow
  <2>2. u.items = t.items
    BY <1>1, <1>5, CancelledRow
  <2>3. \A o \in Orders \ {c} : u.orders[o] = t.orders[o]
    BY <1>1, <1>5, CancelledRow
  <2>4. IF Exists(t, c)
          THEN u.orders[c] = [customer |-> t.orders[c].customer, status |-> "cancelled",
                              total_cents |-> t.orders[c].total_cents]
          ELSE u.orders[c] = t.orders[c]
    BY <1>1, <1>5, CancelledRow
  <2>5. \A o \in Orders : ~Creates(n, o) /\ ~AddsItem(n, o)
    BY <1>5 DEF Creates, AddsItem
  <2> HIDE DEF e, u, c
  <2>6. Shows(t, A, c)
    BY <2>1 DEF Reflects
  <2>7. u.orders[c].total_cents = t.orders[c].total_cents
    BY <2>4
  <2>8. (Exists(u, c) <=> Exists(t, c)) /\ (~Exists(u, c) => u.orders[c] = t.orders[c])
    BY <2>4 DEF Exists
  <2>9. Shows(u, B, c)
    BY <2>1, <2>2, <2>5, <2>6, <2>7, <2>8 DEF Shows
  <2> QED BY <1>2, <2>2, <2>3, <2>5, <2>9 DEF Reflects
<1>6. CASE e.type \notin {"order.created", "order.item_added", "order.cancelled"}
  <2>1. u = t /\ \A o \in Orders : ~Creates(n, o) /\ ~AddsItem(n, o)
    BY <1>6, OtherRow DEF Creates, AddsItem
  <2> HIDE DEF u
  <2> QED BY <1>2, <2>1 DEF Reflects
<1> QED BY <1>3, <1>4, <1>5, <1>6

\* The tables show what has been applied, while logs and rows are in order.
TotalInv == OrderedLog /\ Housekept => Reflects(tables, applied)

\* A longer log says the same of the positions it had.
LEMMA LongerReflects ==
  ASSUME NEW t, NEW A, Reflects(t, A), \A n \in A : log'[n] = log[n],
         tables' = t, applied' = A
  PROVE  Reflects(tables, applied)'
<1>1. \A n \in A : \A o : (Creates(n, o)' <=> Creates(n, o)) /\ (AddsItem(n, o)' <=> AddsItem(n, o))
  BY DEF Creates, AddsItem
<1>2. \A o : Exists(tables, o)' <=> Exists(t, o)
  BY DEF Exists
<1> QED BY <1>1, <1>2 DEF Reflects, Shows

\* The order of an item that is applied has been created before.
LEMMA NextTotalInv ==
  TypeInv /\ CoverInv /\ StraightInv /\ TotalInv /\ [Next]_vars => TotalInv'
<1> SUFFICES ASSUME TypeInv, CoverInv, StraightInv, TotalInv, [Next]_vars,
                    OrderedLog', Housekept'
             PROVE  Reflects(tables, applied)'
  BY DEF TotalInv
<1>1. OrderedLog /\ Housekept /\ Straight /\ Reflects(tables, applied)
  BY OnceLost DEF TotalInv, StraightInv
<1>2. applied \subseteq 1..Len(log) /\ tables \in TablesType
  BY DEF TypeInv, TypeOK
<1>3. CASE UNCHANGED <<log, tables, applied>>
  BY <1>1, <1>3, LongerReflects
<1>4. ASSUME NEW e \in Payloads, Publish(e) PROVE Reflects(tables, applied)'
  <2>1. tables' = tables /\ applied' = applied /\ \A n \in applied : log'[n] = log[n]
    BY <1>2, <1>4, PublishTyped DEF Publish
  <2> QED BY <1>1, <2>1, LongerReflects
<1>5. ASSUME NEW i \in Projectors, ApplyEvent(i) PROVE Reflects(tables, applied)'
  <2> DEFINE n == EventAtHand(i)
  <2>1. /\ projector[i].pc = "applying" /\ log' = log
        /\ tables' = ApplyOrderEvent(tables, log[n]) /\ applied' = applied \cup {n}
    BY <1>5 DEF ApplyEvent, outbox
  <2>2. n \in 1..Len(log) /\ \A q \in 1..(n - 1) : q \in applied
    BY <1>1, <2>1, EarlierApplied
  <2> HIDE DEF n
  <2>3. \A o \in Orders : AddsItem(n, o) => \E q \in applied : Creates(q, o)
    BY <1>1, <2>2 DEF AddsItem, Creates, OrderedLog, Published
  <2>4. Reflects(ApplyOrderEvent(tables, log[n]), applied \cup {n})
    BY <1>1, <1>2, <2>2, <2>3, ReflectsNext
  <2> QED BY <2>1, <2>4, LongerReflects
<1>6. CASE UNCHANGED vars
  BY <1>3, <1>6 DEF vars
<1>7. ASSUME NEW r \in Rowids, RemoveRow(r) PROVE UNCHANGED <<log, tables, applied>>
  BY <1>7 DEF RemoveRow
<1>8. ASSUME NEW i \in Projectors,
             \/ New(i)
             \/ \E r \in Rowids : Apply(i, r)
             \/ \E from \in RebuildFrom \cup {projector[i].offset} : Rebuild(i, from)
             \/ Reject(i) \/ Checkpoint(i)
             \/ DbError(i) \/ DropInCheckpoint(i) \/ DropCall(i) \/ Stop(i)
      PROVE  UNCHANGED <<log, tables, applied>>
  BY <1>8 DEF New, Apply, Rebuild, Reject, Checkpoint, DbError, DropInCheckpoint, DropCall,
              Stop, outbox
<1> QED BY <1>3, <1>4, <1>5, <1>6, <1>7, <1>8 DEF Next

\* What the proofs below build on.
SumsInv == TypeInv /\ CoverInv /\ StraightInv /\ TotalInv

\* It holds of every behaviour with careful callers.
LEMMA SumsAlways ==
  ASSUME CarefulCallers
  PROVE  Spec => []SumsInv
<1>1. Init => SumsInv
  <2>1. Init => Reflects(tables, applied)
    BY EmptyReflects DEF Init
  <2> QED BY <2>1, InitTypeInv, InitCoverInv, InitStraight DEF SumsInv, TotalInv
<1>2. SumsInv /\ [Next]_vars => SumsInv'
  BY NextTypeInv, NextCoverInv, NextStraight, NextTotalInv DEF SumsInv
<1> QED BY <1>1, <1>2, PTL DEF Spec

\* With careful callers total_cents is the sum of the items of the order, for
\* any number of projectors, events, replays, deletions and faults, while no
\* item comes before its order and rows are deleted behind the projection.
THEOREM TotalsAddUp ==
  ASSUME CarefulCallers
  PROVE  Spec => []TotalUpToDate
<1>1. SumsInv => TotalUpToDate
  BY DEF SumsInv, TotalInv, Reflects, Shows, TotalUpToDate
<1> QED BY <1>1, SumsAlways, PTL
-----------------------------------------------------------------------------
(* Resuming where the last projector stopped.                               *)

Up(i) == projector[i].pc # "down"

AloneInv == ~overlapped => \A i, j \in Projectors : Up(i) /\ Up(j) => i = j

\* No row is left strictly between two offsets.
Gone(a, b) == \A r \in Rowids : a < r /\ r < b => ~Present(r)

\* With the first m events applied, the row at hand is the last of these, for
\* a second time, or the next one, and none is left before it.  The target is
\* its rowid, or it is all that was fetched.
Resumes(p, m) ==
    /\ p.offset <= m /\ Gone(p.offset, m)
    /\ p.pc \in {"applying", "applied"} =>
          /\ p.offset < p.target
          /\ p.target = p.row \/ \A r \in Rowids : p.row < r => p.fetched[r] = 0
    /\ p.pc = "applying" => (p.row = m \/ p.row = m + 1) /\ Gone(p.offset, p.row)
    /\ p.pc = "applied" => p.row = m

Progress(m) ==
    /\ applied = 1..m /\ tables = Projected(m)
    /\ checkpoint <= m /\ Gone(checkpoint, m)
    /\ \A i \in Projectors :
          Up(i) => Resumes(projector[i], m) /\ projector[i].offset <= checkpoint

ResumeInv == ~overlapped /\ ~rewound /\ Housekept => \E m \in 0..Len(log) : Progress(m)

\* One projector of several cannot come up unnoticed.
LEMMA NextAlone == TypeInv /\ AloneInv /\ [Next]_vars => AloneInv' /\ (~overlapped' => ~overlapped)
<1> SUFFICES ASSUME TypeInv, AloneInv, [Next]_vars
             PROVE  AloneInv' /\ (~overlapped' => ~overlapped)
  OBVIOUS
<1>1. CASE UNCHANGED <<projector, overlapped>>
  BY <1>1 DEF AloneInv, Up
<1>2. projector \in [Projectors -> ProjectorType]
  BY DEF TypeInv, TypeOK
<1>3. ASSUME NEW i \in Projectors, New(i)
      PROVE  AloneInv' /\ (~overlapped' => ~overlapped)
  <2>1. /\ \A j \in Projectors \ {i} : projector'[j] = projector[j]
        /\ overlapped' = (overlapped \/ \E j \in Projectors : projector[j].pc # "down")
    BY <1>2, <1>3 DEF New
  <2> QED BY <2>1 DEF AloneInv, Up
<1>4. ASSUME NEW i \in Projectors,
             \/ \E r \in Rowids : Apply(i, r)
             \/ \E from \in RebuildFrom \cup {projector[i].offset} : Rebuild(i, from)
             \/ Reject(i) \/ ApplyEvent(i) \/ Checkpoint(i)
             \/ DbError(i) \/ DropInCheckpoint(i) \/ DropCall(i) \/ Stop(i)
      PROVE  AloneInv' /\ (~overlapped' => ~overlapped)
  <2>1. UNCHANGED overlapped /\ Up(i)
    <3>1. UNCHANGED overlapped
      BY <1>4 DEF Apply, Rebuild, Reject, ApplyEvent, Checkpoint, DbError, DropInCheckpoint,
                  DropCall, Stop
    <3>2. Up(i)
      BY <1>4 DEF Apply, Rebuild, Call, Reject, ApplyEvent, Checkpoint, DbError,
                  DropInCheckpoint, DropCall, Stop, Up
    <3> QED BY <3>1, <3>2
  <2>2. \A j \in Projectors \ {i} : projector'[j] = projector[j]
    BY <1>2, <1>4 DEF Apply, Rebuild, Reject, ApplyEvent, Checkpoint, DbError,
                      DropInCheckpoint, DropCall, Stop
  <2> QED BY <2>1, <2>2 DEF AloneInv, Up
<1>5. CASE UNCHANGED vars
  BY <1>1, <1>5 DEF vars
<1>6. ASSUME NEW e \in Payloads, Publish(e) PROVE UNCHANGED <<projector, overlapped>>
  BY <1>6 DEF Publish
<1>7. ASSUME NEW r \in Rowids, RemoveRow(r) PROVE UNCHANGED <<projector, overlapped>>
  BY <1>7 DEF RemoveRow
<1> QED BY <1>1, <1>3, <1>4, <1>5, <1>6, <1>7 DEF Next

\* The first n events of a log stay what they are.
LEMMA ProjectedStays ==
  ASSUME TypeInv, NEW e \in Payloads, Publish(e), NEW n \in 0..Len(log)
  PROVE  Projected(n)' = Projected(n)
<1>1. SubSeq(log', 1, n) = SubSeq(log, 1, n)
  <2>1. log' = Append(log, e) /\ log \in Seq(Payloads) /\ Len(log) \in Nat
    BY LogTyped DEF Publish, TypeInv, TypeOK
  <2>2. \A k \in 1..n : log'[k] = log[k]
    BY PublishTyped, LogTyped
  <2> QED BY <2>1, <2>2
<1> QED BY <1>1, Zenon DEF Projected

\* When the first m events are applied, the first row found after an offset up
\* to m is at most m + 1: a row that is missing has been applied.
LEMMA NoGap ==
  ASSUME TypeInv, Straight, Housekept, NEW m \in 0..Len(log), applied = 1..m,
         NEW f \in [Rowids -> Nat], Agrees(f), \A q \in Rowids : f[q] \in {0, q},
         \A q \in Rowids : f[q] <= Len(log),
         NEW n \in Nat, n <= m, NEW r \in Rowids, IsNextRow(f, n, r)
  PROVE  r <= m + 1 /\ n < r
<1>1. r \in Nat /\ r > n /\ f[r] = r /\ r <= Len(log) /\ Len(log) \in Nat /\ m \in Nat
  BY RowidsAreNat, LogTyped DEF IsNextRow
<1>2. CASE r > m + 1
  <2>1. m + 1 \in Rowids /\ m + 1 \in (n + 1)..(r - 1) /\ m + 1 <= Len(log) /\ m + 1 \notin applied
    BY <1>1, <1>2, RowidsAreNat DEF Rowids
  <2>2. f[m + 1] = 0
    BY <2>1 DEF IsNextRow
  <2>3. rows[m + 1] # 0
    BY <1>1, <2>1 DEF Straight
  <2>4. f[m + 1] = rows[m + 1]
    BY <1>1, <1>2, <2>1, <2>3 DEF Agrees, Present, Housekept
  <2> QED BY <2>2, <2>3, <2>4
<1> QED BY <1>1, <1>2

\* Progress stays when the one projector comes to rest, or takes the right row.
LEMMA ProgressFrame ==
  ASSUME SumsInv, NEW m \in 0..Len(log), Progress(m), NEW i \in Projectors, NEW q,
         \A j \in Projectors \ {i} : ~Up(j),
         projector' = [projector EXCEPT ![i] = q],
         UNCHANGED outbox, UNCHANGED <<tables, applied>>,
         checkpoint' <= m, Gone(checkpoint', m),
         q.pc # "down" => Resumes(q, m) /\ q.offset <= checkpoint'
  PROVE  Progress(m)'
<1>1. UNCHANGED <<log, rows>> /\ UNCHANGED <<tables, applied>>
  BY DEF outbox
<1>2. Projected(m)' = Projected(m)
  BY <1>1 DEF Projected
<1>3. /\ projector'[i] = q /\ \A j \in Projectors \ {i} : projector'[j] = projector[j]
  BY DEF SumsInv, TypeInv, TypeOK
<1>4. \A j \in Projectors : Up(j)' => Resumes(projector'[j], m) /\ projector'[j].offset <= checkpoint'
  BY <1>3 DEF Up
<1>5. \A j \in Projectors : Up(j)' => Resumes(projector[j], m)'
  BY <1>1, <1>4 DEF Resumes, Gone, Present
<1>6. Gone(checkpoint, m)'
  BY <1>1 DEF Gone, Present
<1> QED BY <1>1, <1>2, <1>4, <1>5, <1>6 DEF Progress

\* Facts of a projector that is in the middle of a call.
LEMMA CallFacts ==
  ASSUME SumsInv, Housekept, NEW i \in Projectors, projector[i].pc \in {"applying", "applied"}
  PROVE  LET p == projector[i] IN
         /\ InCall(p) /\ EventAtHand(i) = p.row
         /\ p.row \in Rowids /\ p.row \in 1..Len(log) /\ p.target \in 1..p.row
         /\ p.fetched \in [Rowids -> Nat] /\ Agrees(p.fetched)
         /\ \A q \in Rowids : p.fetched[q] \in {0, q} /\ p.fetched[q] <= Len(log)
         /\ Gone(p.target, p.row)
<1> DEFINE p == projector[i]
<1>1. TypeInv /\ CoverInv /\ Straight
  BY DEF SumsInv, StraightInv
<1>2. InCall(p) /\ p \in ProjectorType /\ EventAtHand(i) = p.row /\ p.row \in 1..Len(log)
  BY <1>1, EarlierApplied DEF CoverInv, Covers
<1>3. /\ p.row \in Rowids /\ p.target \in 1..p.row /\ Agrees(p.fetched) /\ p.fetched[p.row] # 0
      /\ p.fetched \in [Rowids -> Nat]
  BY <1>2 DEF InCall, ProjectorType
<1>4. \A q \in Rowids : p.fetched[q] \in {0, q} /\ p.fetched[q] <= Len(log)
  BY <1>1, LogTyped DEF Straight, TypeInv, Holds
<1>5. ASSUME NEW q \in Rowids, p.target < q, q < p.row PROVE ~Present(q)
  <2>1. q \in p.target..(p.row - 1)
    BY <1>3, <1>5, RowidsAreNat
  <2>2. p.fetched[q] = 0
    BY <1>2, <2>1 DEF InCall
  <2>3. Present(q) => p.fetched[q] = rows[q]
    BY <1>3, <1>5, RowidsAreNat DEF Agrees, Housekept
  <2> QED BY <2>2, <2>3 DEF Present
<1> QED BY <1>2, <1>3, <1>4, <1>5 DEF Gone

\* apply and rebuild_from_offset begin with the last event applied or the next.
LEMMA ResumeCall ==
  ASSUME CarefulCallers, SumsInv, Housekept, NEW m \in 0..Len(log), Progress(m),
         AloneInv, ~overlapped, NEW i \in Projectors, ~rewound',
         \/ \E r \in Rowids : Apply(i, r)
         \/ \E from \in RebuildFrom \cup {projector[i].offset} : Rebuild(i, from)
  PROVE  Progress(m)'
<1> DEFINE p == projector[i]
<1>1. /\ TypeInv /\ CoverInv /\ Straight /\ p \in ProjectorType /\ p.offset \in Nat
      /\ p.pc = "ready" /\ Up(i)
  BY DEF SumsInv, StraightInv, TypeInv, TypeOK, ProjectorType, Apply, Rebuild, Call, Up
<1>2. /\ Resumes(p, m) /\ p.offset <= checkpoint
      /\ checkpoint <= m /\ Gone(checkpoint, m) /\ \A j \in Projectors \ {i} : ~Up(j)
  BY <1>1 DEF Progress, AloneInv
<1>3. UNCHANGED outbox /\ UNCHANGED <<tables, applied>> /\ checkpoint' = checkpoint
  BY DEF Apply, Rebuild
<1>4. ASSUME NEW r \in Rowids, IsNextRow(rows, p.offset, r), NEW f, NEW t, p.offset < t,
             t = r \/ \A q \in Rowids : r < q => f[q] = 0,
             projector' = [projector EXCEPT ![i] = Taking(f, r, t, p.offset, p.offset)]
      PROVE  Progress(m)'
  <2>1. rows \in [Rowids -> Nat] /\ Agrees(rows)
    BY <1>1, FetchAgrees
  <2>2. \A q \in Rowids : rows[q] \in {0, q} /\ rows[q] <= Len(log)
    BY <1>1, LogTyped DEF Straight, TypeInv, TypeOK
  <2>3. r <= m + 1 /\ p.offset < r
    BY <1>1, <1>2, <1>4, <2>1, <2>2, NoGap DEF Progress, Resumes
  <2>4. ~(r < m)
    BY <1>1, <1>2, <1>4, <2>3 DEF Resumes, Gone, IsNextRow, Present
  <2>5. r = m \/ r = m + 1
    BY <2>3, <2>4, RowidsAreNat
  <2>6. Gone(p.offset, r)
    BY <1>1, <1>4, RowidsAreNat DEF Gone, IsNextRow, Present
  <2> DEFINE q == Taking(f, r, t, p.offset, p.offset)
  <2>7. q.offset = p.offset /\ q.pc = "applying" /\ q.row = r /\ q.target = t /\ q.fetched = f
    BY DEF Taking
  <2> HIDE DEF q
  <2>8. Resumes(q, m) /\ q.offset <= checkpoint'
    BY <1>2, <1>3, <1>4, <2>5, <2>6, <2>7 DEF Resumes
  <2> QED BY <1>2, <1>3, <1>4, <2>8, ProgressFrame DEF q
<1>5. CASE \E r \in Rowids : Apply(i, r)
  <2>1. PICK r \in Rowids :
          /\ r > p.offset /\ (r <= p.offset \/ IsNextRow(rows, p.offset, r))
          /\ projector' = [projector EXCEPT ![i] =
                             Taking(UpTo(r), r, p.offset + 1, p.offset, p.offset)]
    BY <1>5 DEF Apply, CarefulCallers
  <2>2. IsNextRow(rows, p.offset, r) /\ p.offset < p.offset + 1
    BY <1>1, <2>1, RowidsAreNat
  <2>3. \A q \in Rowids : r < q => UpTo(r)[q] = 0
    BY RowidsAreNat DEF UpTo
  <2> QED BY <1>4, <2>1, <2>2, <2>3
<1>6. ASSUME NEW from \in RebuildFrom \cup {p.offset}, Rebuild(i, from) PROVE Progress(m)'
  <2>1. from = p.offset
    BY <1>6 DEF Rebuild
  <2>2. CASE UNCHANGED projector
    <3>1. projector' = [projector EXCEPT ![i] = p]
      BY <2>2 DEF SumsInv, TypeInv, TypeOK
    <3> QED BY <1>2, <1>3, <3>1, ProgressFrame
  <2>3. CASE \E r \in Rowids :
               /\ IsNextRow(rows, from, r)
               /\ projector' = [projector EXCEPT ![i] = Taking(rows, r, r, from, p.offset)]
    <3>1. PICK r \in Rowids :
            /\ IsNextRow(rows, from, r)
            /\ projector' = [projector EXCEPT ![i] = Taking(rows, r, r, from, p.offset)]
      BY <2>3
    <3>2. p.offset < r
      BY <1>1, <2>1, <3>1, RowidsAreNat DEF IsNextRow
    <3> QED BY <1>4, <2>1, <3>1, <3>2
  <2> QED BY <1>6, <2>2, <2>3 DEF Rebuild
<1> QED BY <1>5, <1>6

\* The event at hand is applied again or next.
LEMMA ResumeApply ==
  ASSUME SumsInv, Housekept, NEW m \in 0..Len(log), Progress(m),
         AloneInv, ~overlapped, NEW i \in Projectors, ApplyEvent(i)
  PROVE  \E n \in 0..Len(log) : Progress(n)'
<1> DEFINE p == projector[i]
           u == [p EXCEPT !.pc = "applied"]
<1>1. /\ p.pc = "applying" /\ p \in ProjectorType /\ Up(i)
      /\ TypeInv /\ projector \in [Projectors -> ProjectorType]
      /\ checkpoint \in Nat /\ p.offset \in Nat
  BY DEF ApplyEvent, Up, SumsInv, TypeInv, TypeOK, ProjectorType
<1>2. /\ Resumes(p, m) /\ p.offset <= checkpoint
      /\ checkpoint <= m /\ \A j \in Projectors \ {i} : ~Up(j)
  BY <1>1 DEF Progress, AloneInv
<1>3. PICK n \in 1..Len(log) :
        /\ p.row = n /\ EventAtHand(i) = n /\ (n = m \/ n = m + 1) /\ m \in Nat /\ n \in Nat
        /\ Gone(p.offset, n) /\ p.offset < p.target /\ p.offset <= n
        /\ p.target = n \/ \A r \in Rowids : n < r => p.fetched[r] = 0
  BY <1>1, <1>2, CallFacts, LogTyped DEF Resumes
<1>4. /\ tables' = ApplyOrderEvent(tables, log[n]) /\ applied' = applied \cup {n}
      /\ projector' = [projector EXCEPT ![i] = u]
      /\ UNCHANGED <<log, rows, checkpoint>>
  BY <1>3 DEF ApplyEvent, outbox
<1>5. log \in Seq(Payload) /\ log[n] \in Payload
  BY <1>1, <1>3, LogTyped
<1>6. applied' = 1..n
  BY <1>3, <1>4 DEF Progress
<1>7. ApplyOrderEvent(Projected(m), log[n]) = Projected(n)
  <2>1. CASE n = m + 1
    BY <1>3, <1>5, <2>1, ProjectedSteps
  <2>2. CASE n = m
    <3>1. n - 1 \in 0..Len(log) /\ n - 1 < Len(log) /\ n - 1 + 1 = n
      BY <1>3
    <3>2. Projected(n) = ApplyOrderEvent(Projected(n - 1), log[n])
      BY <1>5, <3>1, ProjectedSteps
    <3>3. Projected(n - 1) \in TablesType
      BY <1>5, <3>1, ProjectedSteps
    <3> QED BY <1>5, <2>2, <3>2, <3>3, ApplyTwice
  <2> QED BY <1>3, <2>1, <2>2
<1>8. tables' = Projected(n)
  BY <1>4, <1>7 DEF Progress
<1>9. Projected(n)' = Projected(n)
  BY <1>4 DEF Projected
<1>10. /\ u.offset = p.offset /\ u.target = p.target /\ u.row = n /\ u.pc = "applied"
       /\ u.fetched = p.fetched
       /\ projector'[i] = u /\ \A j \in Projectors \ {i} : projector'[j] = projector[j]
  BY <1>1, <1>3, <1>4 DEF ProjectorType
<1> HIDE DEF u
<1>11. \A a, b : Gone(a, b)' <=> Gone(a, b)
  BY <1>4 DEF Gone, Present
<1>12. Resumes(u, n) /\ u.offset <= checkpoint
  BY <1>2, <1>3, <1>10 DEF Resumes
<1>13. Resumes(projector[i], n)'
  BY <1>10, <1>11, <1>12 DEF Resumes, Gone, Present
<1>14. Gone(checkpoint, n) /\ checkpoint <= n
  BY <1>1, <1>2, <1>3, RowidsAreNat DEF Gone
<1>15. Gone(checkpoint, n)'
  BY <1>4, <1>14 DEF Gone, Present
<1>16. Progress(n)'
  BY <1>2, <1>4, <1>6, <1>8, <1>9, <1>10, <1>12, <1>13, <1>14, <1>15 DEF Progress, Up
<1> QED BY <1>3, <1>4, <1>16

\* The checkpoint catches up, and the next row is the next event.
LEMMA ResumeCheckpoint ==
  ASSUME SumsInv, Housekept, NEW m \in 0..Len(log), Progress(m),
         AloneInv, ~overlapped, NEW i \in Projectors, Checkpoint(i) \/ DropInCheckpoint(i)
  PROVE  Progress(m)'
<1> DEFINE p == projector[i]
<1>1. /\ p.pc = "applied" /\ p \in ProjectorType /\ Up(i) /\ TypeInv /\ Straight
      /\ p.offset \in Nat /\ p.target \in Nat /\ m \in Nat
  <2>1. p.pc = "applied" /\ Up(i)
    BY DEF Checkpoint, DropInCheckpoint, Up
  <2>2. TypeInv /\ Straight
    BY DEF SumsInv, StraightInv
  <2>3. p \in ProjectorType
    BY <2>2 DEF TypeInv, TypeOK
  <2>4. p.offset \in Nat /\ p.target \in Nat
    BY <2>3 DEF ProjectorType
  <2>5. m \in Nat
    BY <2>2, LogTyped
  <2> QED BY <2>1, <2>2, <2>3, <2>4, <2>5
<1>2. /\ Resumes(p, m) /\ p.row = m /\ p.offset < p.target
      /\ \A j \in Projectors \ {i} : ~Up(j)
  BY <1>1 DEF Progress, AloneInv, Resumes
<1>3. /\ UNCHANGED outbox /\ UNCHANGED <<tables, applied>> /\ checkpoint' = p.target
  BY DEF Checkpoint, DropInCheckpoint
<1>4. p.target \in Nat /\ p.target <= m /\ Gone(p.target, m)
  BY <1>1, <1>2, CallFacts
<1>5. ASSUME NEW q, projector' = [projector EXCEPT ![i] = q],
             Resumes(q, m), q.offset <= p.target
      PROVE  Progress(m)'
  BY <1>2, <1>3, <1>4, <1>5, ProgressFrame
<1>6. \A n : Ready(n).pc = "ready" /\ Ready(n).offset = n
  BY DEF Ready
<1>7. CASE projector' = [projector EXCEPT ![i] = Ready(p.offset)]
  <2>1. Resumes(Ready(p.offset), m) /\ Ready(p.offset).offset <= p.target
    BY <1>1, <1>2, <1>6 DEF Resumes
  <2> QED BY <1>5, <1>7, <2>1
<1>8. CASE projector' = [projector EXCEPT ![i] = Ready(p.target)]
  <2>1. Resumes(Ready(p.target), m) /\ Ready(p.target).offset <= p.target
    BY <1>1, <1>4, <1>6 DEF Resumes
  <2> QED BY <1>5, <1>8, <2>1
<1>9. ASSUME NEW r \in Rowids, IsNextRow(p.fetched, p.row, r),
             projector' = [projector EXCEPT ![i] = Taking(p.fetched, r, r, p.from, p.target)]
      PROVE  Progress(m)'
  <2>1. r <= m + 1 /\ m < r
    BY <1>1, <1>2, <1>9, CallFacts, NoGap DEF Progress
  <2>2. r = m + 1 /\ r \in Nat
    BY <1>1, <2>1, RowidsAreNat
  <2>3. p.target = m
    <3>1. p.fetched[r] # 0
      BY <1>9 DEF IsNextRow
    <3> QED BY <1>1, <1>2, <1>9, <2>1, <3>1 DEF Resumes
  <2> DEFINE q == Taking(p.fetched, r, r, p.from, p.target)
  <2>4. q.offset = p.target /\ q.pc = "applying" /\ q.row = r /\ q.target = r
    BY DEF Taking
  <2>5. Gone(m, m) /\ Gone(m, m + 1)
    BY <1>1, RowidsAreNat DEF Gone
  <2> HIDE DEF q
  <2>6. Resumes(q, m) /\ q.offset <= p.target
    BY <1>1, <2>2, <2>3, <2>4, <2>5 DEF Resumes
  <2> QED BY <1>5, <1>9, <2>6 DEF q
<1> QED BY <1>7, <1>8, <1>9 DEF Checkpoint, DropInCheckpoint

\* new, and what ends a call, leave the progress as it is.
LEMMA ResumeRest ==
  ASSUME SumsInv, Housekept, NEW m \in 0..Len(log), Progress(m),
         AloneInv, ~overlapped', NEW i \in Projectors,
         New(i) \/ Reject(i) \/ DbError(i) \/ DropCall(i) \/ Stop(i)
  PROVE  Progress(m)'
<1> DEFINE p == projector[i]
<1>1. UNCHANGED outbox /\ UNCHANGED <<tables, applied>> /\ checkpoint' = checkpoint
  BY DEF New, Reject, DbError, DropCall, Stop
<1>2. checkpoint <= m /\ Gone(checkpoint, m) /\ checkpoint \in Nat /\ m \in Nat
  BY LogTyped DEF Progress, SumsInv, TypeInv, TypeOK
<1>3. \A n : Ready(n).pc = "ready" /\ Ready(n).offset = n
  BY DEF Ready
<1>4. Down.pc = "down"
  BY DEF Down, Ready
<1>5. CASE New(i)
  <2>1. \A j \in Projectors : ~Up(j)
    BY <1>5 DEF New, Up
  <2>2. Resumes(Ready(checkpoint), m) /\ Ready(checkpoint).offset <= checkpoint
    BY <1>2, <1>3 DEF Resumes
  <2> QED BY <1>1, <1>2, <1>5, <2>1, <2>2, ProgressFrame DEF New
<1>6. CASE ~New(i)
  <2>1. Up(i) /\ ~overlapped
    BY <1>6 DEF Reject, DbError, DropCall, Stop, Up
  <2>2. /\ \A j \in Projectors \ {i} : ~Up(j)
        /\ Resumes(p, m) /\ p.offset <= checkpoint
    BY <2>1 DEF AloneInv, Progress
  <2>3. Resumes(Ready(p.offset), m) /\ Ready(p.offset).offset <= checkpoint
    BY <1>3, <2>2 DEF Resumes
  <2>4. CASE projector' = [projector EXCEPT ![i] = Ready(p.offset)]
    BY <1>1, <1>2, <2>2, <2>3, <2>4, ProgressFrame
  <2>5. CASE projector' = [projector EXCEPT ![i] = Down]
    BY <1>1, <1>2, <1>4, <2>2, <2>5, ProgressFrame
  <2> QED BY <1>6, <2>4, <2>5 DEF Reject, DbError, DropCall, Stop
<1> QED BY <1>5, <1>6

\* New rows come behind, and rows that go had been applied.
LEMMA ResumeOutbox ==
  ASSUME SumsInv, Housekept, Housekept', NEW m \in 0..Len(log), Progress(m),
         \/ \E e \in Payloads : Publish(e)
         \/ \E r \in Rowids : RemoveRow(r)
  PROVE  Progress(m)'
<1>1. UNCHANGED <<tables, applied, checkpoint, projector>>
  BY DEF Publish, RemoveRow
<1>2. Projected(m)' = Projected(m)
  <2>1. ASSUME NEW e \in Payloads, Publish(e) PROVE Projected(m)' = Projected(m)
    BY <2>1, ProjectedStays DEF SumsInv
  <2>2. ASSUME NEW r \in Rowids, RemoveRow(r) PROVE Projected(m)' = Projected(m)
    BY <2>2 DEF RemoveRow, Projected
  <2> QED BY <2>1, <2>2
<1>3. \A q \in Rowids : q <= m /\ Present(q)' => Present(q)
  <2>1. rows \in [Rowids -> 0..Len(log)] /\ m \in Nat /\ m <= Len(log) /\ Len(log) \in Nat
    BY LogTyped DEF SumsInv, TypeInv, TypeOK
  <2>2. ASSUME NEW e \in Payloads, Publish(e)
        PROVE  \A q \in Rowids : q <= m /\ Present(q)' => Present(q)
    <3>1. PICK r \in Rowids :
            /\ rows' = [rows EXCEPT ![r] = Len(log) + 1]
            /\ IF r > top THEN top' = r /\ UNCHANGED reused
                          ELSE reused' = reused \cup {r} /\ UNCHANGED top
      BY <2>2 DEF Publish
    <3>2. r > top /\ top = Len(log)
      BY <3>1 DEF Housekept, SumsInv, StraightInv, Straight
    <3> QED BY <2>1, <3>1, <3>2, RowidsAreNat DEF Present
  <2>3. ASSUME NEW r \in Rowids, RemoveRow(r)
        PROVE  \A q \in Rowids : q <= m /\ Present(q)' => Present(q)
    BY <2>1, <2>3 DEF RemoveRow, Present
  <2> QED BY <2>2, <2>3
<1>5. checkpoint \in Nat /\ m \in Nat
  BY LogTyped DEF SumsInv, TypeInv, TypeOK
<1>6. Gone(checkpoint, m)'
  BY <1>1, <1>3, <1>5, RowidsAreNat DEF Progress, Gone
<1>7. ASSUME NEW i \in Projectors, Up(i) PROVE Resumes(projector[i], m)'
  <2> DEFINE p == projector[i]
  <2>1. Resumes(p, m) /\ p' = p /\ p.offset \in Nat /\ p.row \in Nat /\ p.target \in Nat
    BY <1>1, <1>7 DEF Progress, SumsInv, TypeInv, TypeOK, ProjectorType
  <2>2. Gone(p.offset, m)'
    BY <1>1, <1>3, <1>5, <2>1, RowidsAreNat DEF Resumes, Gone
  <2>3. p.pc = "applying" => Gone(p.offset, p.row)'
    BY <1>1, <1>3, <1>5, <2>1, RowidsAreNat DEF Resumes, Gone
  <2> QED BY <2>1, <2>2, <2>3 DEF Resumes
<1> QED BY <1>1, <1>2, <1>5, <1>6, <1>7 DEF Progress, Up

\* A step that is not one of a caller elsewhere keeps where the tables are.
LEMMA NextResume ==
  CarefulCallers /\ SumsInv /\ AloneInv /\ ResumeInv /\ [Next]_vars => ResumeInv'
<1> SUFFICES ASSUME CarefulCallers, SumsInv, AloneInv, ResumeInv, [Next]_vars,
                    ~overlapped', ~rewound', Housekept'
             PROVE  \E m \in 0..Len(log') : Progress(m)'
  BY DEF ResumeInv
<1>1. TypeInv /\ Housekept /\ ~overlapped
  BY OnceLost, NextAlone DEF SumsInv
<1>2. ~rewound
  BY DEF Next, vars, outbox, Publish, RemoveRow, New, Apply, Rebuild, Reject, ApplyEvent,
         Checkpoint, DbError, DropInCheckpoint, DropCall, Stop
<1>3. PICK m \in 0..Len(log) : Progress(m)
  BY <1>1, <1>2 DEF ResumeInv
<1>4. Len(log) \in Nat /\ Len(log') \in Nat /\ Len(log) <= Len(log')
  <2>1. ASSUME NEW e \in Payloads, Publish(e) PROVE Len(log') = Len(log) + 1
    BY <1>1, <2>1, PublishTyped
  <2>2. CASE UNCHANGED log
    BY <1>1, <2>2, LogTyped
  <2> QED BY <1>1, <2>1, <2>2, LogTyped
          DEF Next, vars, outbox, RemoveRow, New, Apply, Rebuild, Reject, ApplyEvent,
              Checkpoint, DbError, DropInCheckpoint, DropCall, Stop
<1>5. CASE UNCHANGED vars
  <2>1. Progress(m)'
    BY <1>3, <1>5 DEF vars, Progress, Projected, Resumes, Gone, Present, Up
  <2> QED BY <1>4, <2>1
<1>6. ASSUME \/ \E e \in Payloads : Publish(e)
             \/ \E r \in Rowids : RemoveRow(r)
      PROVE  \E n \in 0..Len(log') : Progress(n)'
  <2>1. Progress(m)'
    BY <1>1, <1>3, <1>6, ResumeOutbox
  <2> QED BY <1>4, <2>1
<1>7. ASSUME NEW i \in Projectors, ApplyEvent(i)
      PROVE  \E n \in 0..Len(log') : Progress(n)'
  <2>1. PICK n \in 0..Len(log) : Progress(n)'
    BY <1>1, <1>3, <1>7, ResumeApply
  <2> QED BY <1>4, <2>1
<1>8. ASSUME NEW i \in Projectors,
             \/ New(i)
             \/ \E r \in Rowids : Apply(i, r)
             \/ \E from \in RebuildFrom \cup {projector[i].offset} : Rebuild(i, from)
             \/ Reject(i) \/ Checkpoint(i)
             \/ DbError(i) \/ DropInCheckpoint(i) \/ DropCall(i) \/ Stop(i)
      PROVE  \E n \in 0..Len(log') : Progress(n)'
  <2> SUFFICES Progress(m)'
    BY <1>4
  <2>1. CASE \/ \E r \in Rowids : Apply(i, r)
             \/ \E from \in RebuildFrom \cup {projector[i].offset} : Rebuild(i, from)
    BY <1>1, <1>3, <2>1, ResumeCall
  <2>2. CASE Checkpoint(i) \/ DropInCheckpoint(i)
    BY <1>1, <1>3, <2>2, ResumeCheckpoint
  <2>3. CASE New(i) \/ Reject(i) \/ DbError(i) \/ DropCall(i) \/ Stop(i)
    BY <1>1, <1>3, <2>3, ResumeRest
  <2> QED BY <1>8, <2>1, <2>2, <2>3
<1> QED BY <1>5, <1>6, <1>7, <1>8 DEF Next

\* Nothing has been projected at first.
LEMMA InitResume == Init => ResumeInv
<1> SUFFICES ASSUME Init PROVE \E m \in 0..Len(log) : Progress(m)
  BY DEF ResumeInv
<1>1. log = <<>> /\ tables = EmptyTables /\ applied = {} /\ checkpoint = 0 /\ rows = NoRows
  BY DEF Init
<1>2. \A i \in Projectors : ~Up(i)
  BY DEF Init, Up, Down, Ready
<1>3. Projected(0) = EmptyTables
  BY <1>1, ProjectedSteps
<1>4. 0 \in 0..Len(log) /\ applied = 1..0
  BY <1>1
<1>5. Gone(0, 0)
  BY <1>1 DEF Gone, Present, NoRows
<1>6. Progress(0)
  BY <1>1, <1>2, <1>3, <1>4, <1>5 DEF Progress
<1> QED BY <1>4, <1>6

\* With careful callers that take turns, the tables are at rest those of a
\* prefix of the log that begins at the checkpoint and goes past it by the
\* events whose rows are gone and one more, for any number of projectors, events,
\* deletions, calls and faults.
THEOREM TablesResume ==
  ASSUME CarefulCallers
  PROVE  Spec => []TablesAtCheckpoint
<1>1. SumsInv /\ ResumeInv => TablesAtCheckpoint
  <2> SUFFICES ASSUME SumsInv, ResumeInv, AtRest, ~overlapped, ~rewound, Housekept
               PROVE  \E m \in checkpoint..Len(log) :
                         /\ tables = Projected(m)
                         /\ \A r \in (checkpoint + 1)..(m - 1) : ~Present(r)
    BY DEF TablesAtCheckpoint
  <2>1. PICK m \in 0..Len(log) : Progress(m)
    BY DEF ResumeInv
  <2>2. checkpoint \in Nat /\ Len(log) \in Nat /\ rows \in [Rowids -> 0..Len(log)]
        /\ Len(log) <= MaxRows
    BY LogTyped DEF SumsInv, TypeInv, TypeOK
  <2>3. ASSUME NEW r \in (checkpoint + 1)..(m - 1) PROVE ~Present(r)
    BY <2>1, <2>2, <2>3, BoundsAssumption DEF Progress, Gone, Rowids
  <2>4. m \in checkpoint..Len(log) /\ tables = Projected(m)
    BY <2>1, <2>2 DEF Progress
  <2> QED BY <2>3, <2>4
<1>2. Init => AloneInv /\ ResumeInv
  <2>1. Init => AloneInv
    BY DEF Init, AloneInv, Up, Down, Ready
  <2> QED BY <2>1, InitResume
<1>3. SumsInv /\ AloneInv /\ ResumeInv /\ [Next]_vars => AloneInv' /\ ResumeInv'
  BY NextAlone, NextResume DEF SumsInv
<1> QED BY <1>1, <1>2, <1>3, SumsAlways, PTL DEF Spec
-----------------------------------------------------------------------------
(* A rebuild from 0.                                                        *)

\* The tables after some events of a log in order show these events.
LEMMA ProjectedReflects ==
  ASSUME TypeInv, OrderedLog, NEW k \in 0..Len(log)
  PROVE  Reflects(Projected(k), 1..k)
<1> DEFINE N == Len(log)
           Good == {n \in 0..N : Reflects(Projected(n), 1..n)}
<1>1. N \in Nat /\ log \in Seq(Payload) /\ Good \in SUBSET (0..N)
  BY LogTyped
<1>2. 0 \in Good
  <2>1. Projected(0) = EmptyTables
    BY <1>1, ProjectedSteps
  <2>2. 1..0 = {} /\ 0 \in 0..N
    BY <1>1
  <2> QED BY <2>1, <2>2, EmptyReflects
<1>3. ASSUME NEW n \in 0..N, n < N /\ n \in Good PROVE n + 1 \in Good
  <2>1. n + 1 \in 1..N /\ n + 1 \in 0..N /\ 1..n \in SUBSET (1..N) /\ n \in Nat
        /\ (1..n) \cup {n + 1} = 1..(n + 1) /\ n + 1 - 1 = n
    BY <1>1, <1>3
  <2>2. /\ Projected(n) \in TablesType
        /\ Projected(n + 1) = ApplyOrderEvent(Projected(n), log[n + 1])
    BY <1>1, <1>3, ProjectedSteps
  <2>3. \A o \in Orders : AddsItem(n + 1, o) => \E q \in 1..n : Creates(q, o)
    BY <2>1 DEF OrderedLog, Published, AddsItem, Creates
  <2>4. Reflects(Projected(n), 1..n)
    BY <1>3
  <2>5. Reflects(Projected(n + 1), (1..n) \cup {n + 1})
    BY <2>1, <2>2, <2>3, <2>4, ReflectsNext
  <2> QED BY <2>1, <2>5
<1> HIDE DEF Good, N
<1>4. Good = 0..N
  BY <1>1, <1>2, <1>3, CountingUp
<1> QED BY <1>4 DEF Good, N

\* Two tables agree on what the first k events say.
Overlays(t, u, k) ==
    \A o \in Orders : \A n \in 1..k :
       /\ AddsItem(n, o) => t.items[o][log[n].sku] = u.items[o][log[n].sku]
       /\ Creates(n, o) => /\ t.orders[o].customer = u.orders[o].customer
                           /\ t.orders[o].status = u.orders[o].status

\* They agree on one event more once both had it.
LEMMA OverlaysNext ==
  ASSUME TypeInv, NEW t \in TablesType, NEW u \in TablesType, NEW k \in Nat,
         k + 1 \in 1..Len(log), Overlays(t, u, k), Reflects(u, 1..k)
  PROVE  Overlays(ApplyOrderEvent(t, log[k + 1]), ApplyOrderEvent(u, log[k + 1]), k + 1)
<1> DEFINE e == log[k + 1]
           v == ApplyOrderEvent(t, e)
           w == ApplyOrderEvent(u, e)
           c == e.order
<1>1. e \in Payload
  BY LogTyped
<1>2. SUFFICES ASSUME NEW o \in Orders, NEW n \in 1..(k + 1)
      PROVE  /\ AddsItem(n, o) => v.items[o][log[n].sku] = w.items[o][log[n].sku]
             /\ Creates(n, o) => /\ v.orders[o].customer = w.orders[o].customer
                                 /\ v.orders[o].status = w.orders[o].status
  BY DEF Overlays
<1>3. n \in 1..k \/ n = k + 1
  OBVIOUS
<1>4. ASSUME n \in 1..k
      PROVE  /\ AddsItem(n, o) => t.items[o][log[n].sku] = u.items[o][log[n].sku]
             /\ Creates(n, o) => /\ t.orders[o].customer = u.orders[o].customer
                                 /\ t.orders[o].status = u.orders[o].status
                                 /\ Exists(u, o) /\ Exists(t, o)
  <2>1. Creates(n, o) => Exists(u, o)
    BY <1>4 DEF Reflects, Shows
  <2> QED BY <1>4, <2>1 DEF Overlays, Exists
<1>6. AddsItem(n, o) => log[n].sku \in Skus
  <2>1. n \in 1..Len(log)
    BY LogTyped
  <2> QED BY <2>1, LogTyped, ItemRow DEF AddsItem
<1>7. CASE e.type = "order.created"
  <2>1. /\ v.items = t.items /\ w.items = u.items
        /\ o # c => v.orders[o] = t.orders[o] /\ w.orders[o] = u.orders[o]
    <3>1. v.items = t.items /\ \A q \in Orders \ {c} : v.orders[q] = t.orders[q]
      BY <1>1, <1>7, CreatedRow
    <3>2. w.items = u.items /\ \A q \in Orders \ {c} : w.orders[q] = u.orders[q]
      BY <1>1, <1>7, CreatedRow
    <3> HIDE DEF v, w, c
    <3> QED BY <3>1, <3>2
  <2>2. /\ v.orders[c] = [customer |-> e.customer, status |-> e.status,
                          total_cents |-> t.orders[c].total_cents]
        /\ w.orders[c] = [customer |-> e.customer, status |-> e.status,
                          total_cents |-> u.orders[c].total_cents]
    BY <1>1, <1>7, CreatedRow
  <2>3. n = k + 1 => ~AddsItem(n, o) /\ (o # c => ~Creates(n, o))
    BY <1>7 DEF AddsItem, Creates
  <2>4. v.orders[c].customer = w.orders[c].customer /\ v.orders[c].status = w.orders[c].status
    BY <2>2
  <2> HIDE DEF v, w, c
  <2> QED BY <1>3, <1>4, <2>1, <2>3, <2>4
<1>8. CASE e.type = "order.item_added"
  <2> DEFINE ti == [t.items[c] EXCEPT ![e.sku] = e.amount]
             ui == [u.items[c] EXCEPT ![e.sku] = e.amount]
  <2>1. /\ c \in Orders /\ e.sku \in Skus /\ ti \in [Skus -> Int] /\ ui \in [Skus -> Int]
        /\ v.items = [t.items EXCEPT ![c] = ti] /\ w.items = [u.items EXCEPT ![c] = ui]
    <3>1. c \in Orders /\ e.sku \in Skus /\ ti \in [Skus -> Int]
          /\ v.items = [t.items EXCEPT ![c] = ti]
      BY <1>1, <1>8, ItemRow
    <3>2. ui \in [Skus -> Int] /\ w.items = [u.items EXCEPT ![c] = ui]
      BY <1>1, <1>8, ItemRow
    <3> QED BY <3>1, <3>2
  <2>2. o # c => v.orders[o] = t.orders[o] /\ w.orders[o] = u.orders[o]
    <3>1. \A q \in Orders \ {c} : v.orders[q] = t.orders[q]
      BY <1>1, <1>8, ItemRow
    <3>2. \A q \in Orders \ {c} : w.orders[q] = u.orders[q]
      BY <1>1, <1>8, ItemRow
    <3> HIDE DEF v, w, c
    <3> QED BY <3>1, <3>2
  <2>3. IF Exists(t, c)
          THEN v.orders[c] = [customer |-> t.orders[c].customer, status |-> t.orders[c].status,
                              total_cents |-> SumFunction(ti)]
          ELSE v.orders[c] = t.orders[c]
    BY <1>1, <1>8, ItemRow
  <2>4. IF Exists(u, c)
          THEN w.orders[c] = [customer |-> u.orders[c].customer, status |-> u.orders[c].status,
                              total_cents |-> SumFunction(ui)]
          ELSE w.orders[c] = u.orders[c]
    BY <1>1, <1>8, ItemRow
  <2>5. /\ v.orders[c].customer = t.orders[c].customer /\ v.orders[c].status = t.orders[c].status
        /\ w.orders[c].customer = u.orders[c].customer /\ w.orders[c].status = u.orders[c].status
    BY <2>3, <2>4
  <2>6. n = k + 1 => ~Creates(n, o) /\ (AddsItem(n, o) => o = c /\ log[n].sku = e.sku)
    BY <1>8 DEF AddsItem, Creates
  <2>7. /\ ti[e.sku] = e.amount /\ ui[e.sku] = e.amount
        /\ \A s \in Skus \ {e.sku} : ti[s] = t.items[c][s] /\ ui[s] = u.items[c][s]
    BY <2>1 DEF TablesType
  <2>8. \A s \in Skus : /\ v.items[o][s] = IF o = c THEN ti[s] ELSE t.items[o][s]
                        /\ w.items[o][s] = IF o = c THEN ui[s] ELSE u.items[o][s]
    <3> HIDE DEF v, w, c, ti, ui
    <3>1. /\ v.items[o] = IF o = c THEN ti ELSE t.items[o]
          /\ w.items[o] = IF o = c THEN ui ELSE u.items[o]
      BY <2>1 DEF TablesType
    <3> QED BY <3>1
  <2> HIDE DEF v, w, c, ti, ui
  <2>9. AddsItem(n, o) => v.items[o][log[n].sku] = w.items[o][log[n].sku]
    <3> SUFFICES ASSUME AddsItem(n, o)
                 PROVE  v.items[o][log[n].sku] = w.items[o][log[n].sku]
      OBVIOUS
    <3> DEFINE s == log[n].sku
    <3>1. s \in Skus
      BY <1>6
    <3>2. n # k + 1 => t.items[o][s] = u.items[o][s]
      BY <1>3, <1>4
    <3>3. n = k + 1 => s = e.sku /\ o = c
      BY <2>6
    <3> HIDE DEF s, e
    <3> QED BY <2>7, <2>8, <3>1, <3>2, <3>3 DEF s
  <2>10. Creates(n, o) => /\ v.orders[o].customer = w.orders[o].customer
                          /\ v.orders[o].status = w.orders[o].status
    BY <1>3, <1>4, <2>2, <2>5, <2>6
  <2> QED BY <2>9, <2>10
<1>9. CASE e.type = "order.cancelled"
  <2>1. /\ v.items = t.items /\ w.items = u.items
        /\ o # c => v.orders[o] = t.orders[o] /\ w.orders[o] = u.orders[o]
    <3>1. v.items = t.items /\ \A q \in Orders \ {c} : v.orders[q] = t.orders[q]
      BY <1>1, <1>9, CancelledRow
    <3>2. w.items = u.items /\ \A q \in Orders \ {c} : w.orders[q] = u.orders[q]
      BY <1>1, <1>9, CancelledRow
    <3> HIDE DEF v, w, c
    <3> QED BY <3>1, <3>2
  <2>2. /\ Exists(t, c) => v.orders[c] =
             [customer |-> t.orders[c].customer, status |-> "cancelled",
              total_cents |-> t.orders[c].total_cents]
        /\ Exists(u, c) => w.orders[c] =
             [customer |-> u.orders[c].customer, status |-> "cancelled",
              total_cents |-> u.orders[c].total_cents]
    BY <1>1, <1>9, CancelledRow
  <2>3. n = k + 1 => ~AddsItem(n, o) /\ ~Creates(n, o)
    BY <1>9 DEF AddsItem, Creates
  <2>4. Exists(t, c) /\ Exists(u, c) =>
          /\ v.orders[c].customer = t.orders[c].customer
          /\ w.orders[c].customer = u.orders[c].customer
          /\ v.orders[c].status = w.orders[c].status
    BY <2>2
  <2> HIDE DEF v, w, c
  <2> QED BY <1>3, <1>4, <2>1, <2>3, <2>4
<1>10. CASE e.type \notin {"order.created", "order.item_added", "order.cancelled"}
  <2>1. v = t /\ w = u
    BY <1>10, OtherRow
  <2>2. n = k + 1 => ~AddsItem(n, o) /\ ~Creates(n, o)
    BY <1>10 DEF AddsItem, Creates
  <2> HIDE DEF v, w
  <2> QED BY <1>3, <1>4, <2>1, <2>2
<1> QED BY <1>7, <1>8, <1>9, <1>10

\* Tables that agree on the first k events, and show no others, are those of
\* these events.
LEMMA OverlaidIsProjected ==
  ASSUME TypeInv, OrderedLog, NEW k \in 0..Len(log), NEW A \in SUBSET (1..k),
         NEW t \in TablesType, Reflects(t, A), Overlays(t, Projected(k), k)
  PROVE  t = Projected(k)
<1> DEFINE u == Projected(k)
<1>1. u \in TablesType /\ Reflects(u, 1..k)
  BY ProjectedReflects, ProjectedSteps, LogTyped
<1> HIDE DEF u
<1>2. Overlays(t, u, k)
  BY DEF u
<1>3. ASSUME NEW o \in Orders PROVE t.items[o] = u.items[o]
  <2>1. ASSUME NEW s \in Skus PROVE t.items[o][s] = u.items[o][s]
    <3>1. CASE \E n \in 1..k : AddsItem(n, o) /\ log[n].sku = s
      BY <1>2, <3>1 DEF Overlays
    <3>2. CASE ~\E n \in 1..k : AddsItem(n, o) /\ log[n].sku = s
      BY <1>1, <3>2 DEF Reflects, Shows
    <3> QED BY <3>1, <3>2
  <2>2. t.items[o] \in [Skus -> Int] /\ u.items[o] \in [Skus -> Int]
    BY <1>1 DEF TablesType
  <2> QED BY <2>1, <2>2
<1>4. ASSUME NEW o \in Orders
      PROVE  /\ t.orders[o].customer = u.orders[o].customer
             /\ t.orders[o].status = u.orders[o].status
             /\ t.orders[o].total_cents = u.orders[o].total_cents
  <2>0. Shows(t, A, o) /\ Shows(u, 1..k, o)
    BY <1>1 DEF Reflects
  <2>1. CASE \E n \in 1..k : Creates(n, o)
    <3>1. PICK n \in 1..k : Creates(n, o)
      BY <2>1
    <3>2. /\ t.orders[o].customer = u.orders[o].customer
          /\ t.orders[o].status = u.orders[o].status
      BY <1>2, <3>1 DEF Overlays
    <3>3. Exists(u, o) /\ Exists(t, o)
      BY <2>0, <3>1, <3>2 DEF Shows, Exists
    <3> QED BY <1>3, <2>0, <3>2, <3>3 DEF Shows
  <2>2. CASE ~\E n \in 1..k : Creates(n, o)
    BY <2>0, <2>2 DEF Shows
  <2> QED BY <2>1, <2>2
<1>5. t = u
  BY <1>1, <1>3, <1>4, SameTables
<1> QED BY <1>5 DEF u
-----------------------------------------------------------------------------
\* While the outbox has every event, no rowid came again and no row went.
KeptInv == Unpurged => Housekept

\* A row that is gone does not come back.
LEMMA NextKept ==
  TypeInv /\ StraightInv /\ KeptInv /\ [Next]_vars => KeptInv' /\ (Unpurged' => Unpurged)
<1> SUFFICES ASSUME TypeInv, StraightInv, KeptInv, [Next]_vars, Unpurged'
             PROVE  Unpurged /\ Housekept'
  BY DEF KeptInv
<1>1. CASE UNCHANGED outbox
  BY <1>1 DEF outbox, Unpurged, Published, KeptInv, Housekept
<1>2. Len(log) \in Nat /\ rows \in [Rowids -> 0..Len(log)] /\ Len(log) <= MaxRows
  BY LogTyped DEF TypeInv, TypeOK
<1>3. ASSUME NEW e \in Payloads, Publish(e) PROVE Unpurged /\ Housekept'
  <2>1. PICK r \in Rowids :
          /\ IsFreeRowid(r)
          /\ rows' = [rows EXCEPT ![r] = Len(log) + 1]
          /\ IF r > top THEN top' = r /\ UNCHANGED reused
                        ELSE reused' = reused \cup {r} /\ UNCHANGED top
    BY <1>3 DEF Publish
  <2>2. Len(log') = Len(log) + 1 /\ lost' = lost
    BY <1>3, PublishTyped DEF Publish
  <2>3. \A n \in 1..Len(log) : n \in Rowids /\ rows'[n] = n
    BY <1>2, <2>2, BoundsAssumption DEF Unpurged, Published, Rowids
  <2>4. \A n \in 1..Len(log) : rows[n] = n
    BY <1>2, <2>1, <2>3
  <2>5. Unpurged /\ Housekept /\ Straight
    BY <2>4 DEF Unpurged, Published, KeptInv, StraightInv
  <2>6. r > top
    <3>1. CASE r \in 1..Len(log)
      BY <1>2, <2>1, <2>3, <3>1
    <3> QED BY <1>2, <2>5, <3>1, RowidsAreNat DEF Straight
  <2> QED BY <2>1, <2>2, <2>5, <2>6 DEF Housekept
<1>4. ASSUME NEW r \in Rowids, RemoveRow(r) PROVE Unpurged /\ Housekept'
  <2>1. rows' = [rows EXCEPT ![r] = 0] /\ rows[r] # 0 /\ log' = log
    BY <1>4 DEF RemoveRow, Present
  <2>2. \A n \in 1..Len(log) : n \in Rowids /\ rows'[n] = n /\ n # 0
    BY <1>2, <2>1, BoundsAssumption DEF Unpurged, Published, Rowids
  <2>3. r \notin 1..Len(log)
    BY <1>2, <2>1, <2>2
  <2>4. \A n \in 1..Len(log) : rows[n] = n
    BY <1>2, <2>1, <2>2
  <2>5. Straight
    BY <2>4 DEF Unpurged, Published, KeptInv, StraightInv
  <2> QED BY <1>2, <2>1, <2>3, <2>5, RowidsAreNat DEF Straight
<1>5. CASE UNCHANGED vars
  BY <1>1, <1>5 DEF vars, outbox
<1>6. ASSUME NEW i \in Projectors,
             \/ New(i)
             \/ \E r \in Rowids : Apply(i, r)
             \/ \E from \in RebuildFrom \cup {projector[i].offset} : Rebuild(i, from)
             \/ Reject(i) \/ ApplyEvent(i) \/ Checkpoint(i)
             \/ DbError(i) \/ DropInCheckpoint(i) \/ DropCall(i) \/ Stop(i)
      PROVE  UNCHANGED outbox
  BY <1>6 DEF New, Apply, Rebuild, Reject, ApplyEvent, Checkpoint, DbError, DropInCheckpoint,
              DropCall, Stop
<1> QED BY <1>1, <1>3, <1>4, <1>5, <1>6 DEF Next

\* How many events the tables agree on with the projection of as many.
Overlaid == {k \in 0..Len(log) : Overlays(tables, Projected(k), k)}

\* With A applied, checkpoint c and S as Overlaid: a call from 0 has brought
\* the tables up to the row at hand, and fetched all that was ever applied.
\* A projector with offset 0 is at the first row, and nothing is behind it.
Rebuilds(p, A, c, S) ==
    /\ p.offset = 0 => A \subseteq {1}
    /\ p.offset # 0 => c # 0
    /\ p.pc \in {"applying", "applied"} =>
          /\ p.offset = 0 => p.row = 1
          /\ \A q, r \in Rowids : q <= r /\ p.fetched[r] # 0 => p.fetched[q] = q
          /\ p.from = 0 => \A n \in A : p.fetched[n] # 0
          /\ p.from = 0 /\ p.pc = "applying" => p.row - 1 \in S
          /\ p.from = 0 /\ p.pc = "applied" => p.row \in S

Heals ==
    /\ checkpoint = 0 => applied \subseteq {1}
    /\ \A i \in Projectors :
          Up(i) => Rebuilds(projector[i], applied, checkpoint, Overlaid)

HealInv == ~overlapped /\ OrderedLog /\ Unpurged => Heals

\* New events change nothing about earlier ones.
LEMMA OverlaidStays ==
  ASSUME TypeInv, UNCHANGED tables, UNCHANGED log \/ \E e \in Payloads : Publish(e)
  PROVE  Overlaid \subseteq Overlaid'
<1> SUFFICES ASSUME NEW k \in Overlaid PROVE k \in Overlaid'
  OBVIOUS
<1>1. k \in 0..Len(log) /\ Overlays(tables, Projected(k), k) /\ Len(log) \in Nat
  BY LogTyped DEF Overlaid
<1>2. CASE UNCHANGED log
  BY <1>2 DEF Overlaid, Overlays, Projected, Creates, AddsItem
<1>3. ASSUME NEW e \in Payloads, Publish(e) PROVE k \in Overlaid'
  <2>1. /\ Len(log') = Len(log) + 1 /\ \A n \in 1..k : log'[n] = log[n]
        /\ Projected(k)' = Projected(k)
    BY <1>1, <1>3, PublishTyped, ProjectedStays
  <2>2. \A n \in 1..k : \A o : (Creates(n, o)' <=> Creates(n, o)) /\ (AddsItem(n, o)' <=> AddsItem(n, o))
    BY <2>1 DEF Creates, AddsItem
  <2>3. Overlays(tables, Projected(k), k)'
    BY <1>1, <2>1, <2>2 DEF Overlays
  <2> QED BY <1>1, <2>1, <2>3 DEF Overlaid
<1> QED BY <1>2, <1>3

\* The next event brings the tables one further.
LEMMA OverlaidNext ==
  ASSUME TypeInv, OrderedLog, NEW k \in Overlaid, k + 1 \in 1..Len(log), UNCHANGED log,
         tables' = ApplyOrderEvent(tables, log[k + 1])
  PROVE  k + 1 \in Overlaid'
<1>1. /\ k \in 0..Len(log) /\ Overlays(tables, Projected(k), k) /\ Len(log) \in Nat
      /\ log \in Seq(Payload) /\ k < Len(log) /\ k \in Nat /\ tables \in TablesType
      /\ k + 1 \in 0..Len(log)
  BY LogTyped DEF Overlaid, TypeInv, TypeOK
<1>2. /\ Projected(k) \in TablesType /\ Reflects(Projected(k), 1..k)
      /\ Projected(k + 1) = ApplyOrderEvent(Projected(k), log[k + 1])
  BY <1>1, ProjectedSteps, ProjectedReflects
<1>3. Overlays(ApplyOrderEvent(tables, log[k + 1]), Projected(k + 1), k + 1)
  BY <1>1, <1>2, OverlaysNext
<1>4. PICK n : n = k + 1
  OBVIOUS
<1>5. Projected(n)' = Projected(n)
  BY DEF Projected
<1>6. Overlays(tables, Projected(n), n)'
  BY <1>3, <1>4, <1>5 DEF Overlays, Creates, AddsItem
<1>7. n \in Overlaid'
  BY <1>1, <1>4, <1>6 DEF Overlaid
<1> QED BY <1>4, <1>7

\* Of no events there is nothing to agree on.
LEMMA NoneOverlaid == TypeInv => 0 \in Overlaid
BY LogTyped DEF Overlaid, Overlays

\* A step of the one projector that is up.
LEMMA OneHeals ==
  ASSUME projector \in [Projectors -> ProjectorType],
         NEW i \in Projectors, NEW q, \A j \in Projectors \ {i} : ~Up(j),
         projector' = [projector EXCEPT ![i] = q],
         checkpoint' = 0 => applied' \subseteq {1},
         q.pc # "down" => Rebuilds(q, applied', checkpoint', Overlaid')
  PROVE  Heals'
<1>1. /\ projector'[i] = q /\ \A j \in Projectors \ {i} : projector'[j] = projector[j]
  OBVIOUS
<1>2. \A j \in Projectors : Up(j)' =>
         Rebuilds(projector'[j], applied', checkpoint', Overlaid')
  BY <1>1 DEF Up
<1> QED BY <1>2 DEF Heals, Rebuilds

\* What the lemmas below share.
HealBase ==
    /\ CarefulCallers /\ SumsInv /\ AloneInv /\ ~overlapped /\ OrderedLog /\ Unpurged
    /\ Housekept /\ Heals

\* Its parts.
LEMMA HealFacts ==
  ASSUME HealBase
  PROVE  /\ TypeInv /\ Straight /\ projector \in [Projectors -> ProjectorType]
         /\ applied \subseteq 1..Len(log) /\ Len(log) \in Nat /\ Len(log) <= MaxRows
         /\ \A r \in Rowids : IF r <= Len(log) THEN rows[r] = r ELSE rows[r] = 0
         /\ \A i \in Projectors : Up(i) =>
               /\ \A j \in Projectors \ {i} : ~Up(j)
               /\ Rebuilds(projector[i], applied, checkpoint, Overlaid)
<1>1. TypeInv /\ Straight
  BY DEF HealBase, SumsInv, StraightInv
<1>2. /\ projector \in [Projectors -> ProjectorType] /\ applied \subseteq 1..Len(log)
      /\ Len(log) \in Nat /\ Len(log) <= MaxRows
  BY <1>1, LogTyped DEF TypeInv, TypeOK
<1>3. \A r \in Rowids : IF r <= Len(log) THEN rows[r] = r ELSE rows[r] = 0
  BY <1>1, <1>2, RowidsAreNat DEF HealBase, Unpurged, Published, Straight
<1> QED BY <1>1, <1>2, <1>3 DEF HealBase, Heals, AloneInv

\* The outbox alone.
LEMMA OutboxHeals ==
  ASSUME HealBase, (\E e \in Payloads : Publish(e)) \/ (\E r \in Rowids : RemoveRow(r))
  PROVE  Heals'
<1>1. UNCHANGED <<tables, applied, checkpoint, projector>>
  BY DEF Publish, RemoveRow
<1>2. UNCHANGED log \/ \E e \in Payloads : Publish(e)
  BY DEF RemoveRow
<1>3. Overlaid \subseteq Overlaid'
  BY <1>1, <1>2, HealFacts, OverlaidStays
<1> QED BY <1>1, <1>3 DEF HealBase, Heals, Rebuilds, Up

\* new, and what ends a call.
LEMMA RestHeals ==
  ASSUME HealBase, ~overlapped', NEW i \in Projectors,
         New(i) \/ Reject(i) \/ DbError(i) \/ DropCall(i) \/ Stop(i)
  PROVE  Heals'
<1> DEFINE p == projector[i]
<1>1. UNCHANGED <<applied, checkpoint>>
  BY DEF New, Reject, DbError, DropCall, Stop
<1>2. projector \in [Projectors -> ProjectorType] /\ (checkpoint = 0 => applied \subseteq {1})
  BY HealFacts DEF HealBase, Heals
<1>3. \A n : Ready(n).pc = "ready" /\ Ready(n).offset = n
  BY DEF Ready
<1>4. Down.pc = "down"
  BY DEF Down, Ready
<1>5. CASE New(i)
  <2>1. \A j \in Projectors : ~Up(j)
    BY <1>5 DEF New, Up
  <2>2. Rebuilds(Ready(checkpoint), applied', checkpoint', Overlaid')
    BY <1>1, <1>2, <1>3 DEF Rebuilds
  <2> QED BY <1>1, <1>2, <1>5, <2>1, <2>2, OneHeals DEF New
<1>6. CASE ~New(i)
  <2>1. Up(i)
    BY <1>6 DEF Reject, DbError, DropCall, Stop, Up
  <2>2. /\ \A j \in Projectors \ {i} : ~Up(j)
        /\ Rebuilds(p, applied, checkpoint, Overlaid)
    BY <2>1, HealFacts
  <2>3. Rebuilds(Ready(p.offset), applied', checkpoint', Overlaid')
    BY <1>1, <1>3, <2>2 DEF Rebuilds
  <2>4. CASE projector' = [projector EXCEPT ![i] = Ready(p.offset)]
    BY <1>1, <1>2, <2>2, <2>3, <2>4, OneHeals
  <2>5. CASE projector' = [projector EXCEPT ![i] = Down]
    BY <1>1, <1>2, <1>4, <2>2, <2>5, OneHeals
  <2> QED BY <1>6, <2>4, <2>5 DEF Reject, DbError, DropCall, Stop
<1> QED BY <1>5, <1>6

\* A call from 0 begins at row 1; a call from another offset claims nothing.
LEMMA CallHeals ==
  ASSUME HealBase, NEW i \in Projectors,
         \/ \E r \in Rowids : Apply(i, r)
         \/ \E from \in RebuildFrom \cup {projector[i].offset} : Rebuild(i, from)
  PROVE  Heals'
<1> DEFINE p == projector[i]
<1>1. /\ UNCHANGED <<tables, applied, checkpoint>> /\ UNCHANGED outbox
      /\ p.pc = "ready" /\ Up(i) /\ CarefulCallers
  BY DEF Apply, Rebuild, Call, Up, HealBase
<1>2. /\ TypeInv /\ projector \in [Projectors -> ProjectorType] /\ p.offset \in Nat
      /\ Len(log) \in Nat /\ Len(log) <= MaxRows /\ applied \subseteq 1..Len(log)
      /\ checkpoint = 0 => applied \subseteq {1}
      /\ \A r \in Rowids : IF r <= Len(log) THEN rows[r] = r ELSE rows[r] = 0
      /\ \A j \in Projectors \ {i} : ~Up(j)
  BY <1>1, HealFacts DEF ProjectorType, HealBase, Heals
<1>3. Rebuilds(p, applied, checkpoint, Overlaid)
  BY <1>1, HealFacts
<1>4. 0 \in Overlaid'
  <2>1. Overlaid \subseteq Overlaid'
    BY <1>1, <1>2, OverlaidStays DEF outbox
  <2> QED BY <1>2, <2>1, NoneOverlaid
<1>5. ASSUME NEW r \in Rowids, IsNextRow(rows, 0, r) PROVE r = 1
  <2>1. r \in Nat /\ 1 <= r /\ r <= Len(log) /\ 1 \in Rowids
    BY <1>2, <1>5, RowidsAreNat DEF IsNextRow, Rowids
  <2>2. rows[1] = 1
    BY <1>2, <2>1
  <2>3. ~(1 < r)
    BY <1>5, <2>1, <2>2 DEF IsNextRow
  <2> QED BY <2>1, <2>3
<1>6. ASSUME NEW from, NEW r \in Rowids, IsNextRow(rows, from, r), from = 0 \/ from = p.offset,
             NEW f, \A q \in Rowids : f[q] # 0 => \A n \in Rowids : n <= q => f[n] = rows[n],
             from = 0 => \A n \in applied : f[n] # 0, NEW t,
             projector' = [projector EXCEPT ![i] = Taking(f, r, t, from, p.offset)]
      PROVE  Heals'
  <2> DEFINE v == Taking(f, r, t, from, p.offset)
  <2>1. /\ v.pc = "applying" /\ v.offset = p.offset /\ v.row = r /\ v.from = from
        /\ v.fetched = f
    BY DEF Taking
  <2> HIDE DEF v
  <2>2. from = 0 => r = 1
    BY <1>5, <1>6
  <2>3. ASSUME NEW q \in Rowids, NEW n \in Rowids, q <= n, f[n] # 0 PROVE f[q] = q
    <3>1. f[n] = rows[n] /\ f[q] = rows[q]
      BY <1>6, <2>3, RowidsAreNat
    <3> QED BY <1>2, <2>3, <3>1, RowidsAreNat
  <2>4. p.offset = 0 => from = 0
    BY <1>6
  <2>5. from = 0 => r - 1 \in Overlaid'
    BY <1>4, <2>2
  <2>6. Rebuilds(v, applied', checkpoint', Overlaid')
    BY <1>1, <1>3, <1>6, <2>1, <2>2, <2>3, <2>4, <2>5 DEF Rebuilds
  <2> QED BY <1>1, <1>2, <1>6, <2>6, OneHeals DEF v
<1>7. ASSUME NEW r \in Rowids, Apply(i, r) PROVE Heals'
  <2>1. /\ IsNextRow(rows, p.offset, r)
        /\ projector' = [projector EXCEPT ![i] =
                           Taking(UpTo(r), r, p.offset + 1, p.offset, p.offset)]
    BY <1>1, <1>2, <1>7, RowidsAreNat DEF Apply, CarefulCallers
  <2>2. \A q \in Rowids : UpTo(r)[q] # 0 => \A n \in Rowids : n <= q => UpTo(r)[n] = rows[n]
    BY RowidsAreNat DEF UpTo
  <2>3. p.offset = 0 => \A n \in applied : UpTo(r)[n] # 0
    <3> SUFFICES ASSUME p.offset = 0, NEW n \in applied PROVE UpTo(r)[n] # 0
      OBVIOUS
    <3>1. n = 1 /\ r = 1
      BY <1>3, <1>5, <2>1 DEF Rebuilds
    <3>2. UpTo(r)[1] = rows[1] /\ rows[1] # 0
      BY <2>1, <3>1 DEF UpTo, IsNextRow
    <3> QED BY <3>1, <3>2
  <2> QED BY <1>6, <2>1, <2>2, <2>3
<1>8. ASSUME NEW from \in RebuildFrom \cup {p.offset}, Rebuild(i, from) PROVE Heals'
  <2>1. from = 0 \/ from = p.offset
    BY <1>1, <1>8 DEF CarefulCallers
  <2>2. CASE UNCHANGED projector
    <3>1. projector' = [projector EXCEPT ![i] = p]
      BY <1>2, <2>2
    <3>2. Rebuilds(p, applied', checkpoint', Overlaid')
      BY <1>1, <1>3 DEF Rebuilds
    <3> QED BY <1>1, <1>2, <3>1, <3>2, OneHeals
  <2>3. CASE \E r \in Rowids :
               /\ IsNextRow(rows, from, r)
               /\ projector' = [projector EXCEPT ![i] = Taking(rows, r, r, from, p.offset)]
    <3>1. PICK r \in Rowids :
            /\ IsNextRow(rows, from, r)
            /\ projector' = [projector EXCEPT ![i] = Taking(rows, r, r, from, p.offset)]
      BY <2>3
    <3>2. \A n \in applied : rows[n] # 0
      BY <1>2, BoundsAssumption DEF Rowids
    <3> QED BY <1>6, <2>1, <3>1, <3>2
  <2> QED BY <1>8, <2>2, <2>3 DEF Rebuild
<1> QED BY <1>7, <1>8

\* The tables come one event further.
LEMMA ApplyHeals ==
  ASSUME HealBase, NEW i \in Projectors, ApplyEvent(i)
  PROVE  Heals'
<1> DEFINE p == projector[i]
           u == [p EXCEPT !.pc = "applied"]
<1>1. p.pc = "applying" /\ Up(i) /\ p \in ProjectorType
      /\ projector \in [Projectors -> ProjectorType]
  BY HealFacts DEF ApplyEvent, Up
<1>2. /\ TypeInv /\ OrderedLog /\ Rebuilds(p, applied, checkpoint, Overlaid)
      /\ (checkpoint = 0 => applied \subseteq {1}) /\ \A j \in Projectors \ {i} : ~Up(j)
  BY <1>1, HealFacts DEF HealBase, Heals
<1>3. EventAtHand(i) = p.row /\ p.row \in 1..Len(log) /\ p.row \in Rowids /\ p.row \in Nat
      /\ p.fetched[p.row] # 0
  <2>1. SumsInv /\ Housekept
    BY DEF HealBase
  <2>2. EventAtHand(i) = p.row /\ p.row \in 1..Len(log) /\ p.row \in Rowids /\ InCall(p)
    BY <1>1, <2>1, CallFacts
  <2> QED BY <2>2, RowidsAreNat DEF InCall
<1>4. /\ tables' = ApplyOrderEvent(tables, log[p.row]) /\ applied' = applied \cup {p.row}
      /\ projector' = [projector EXCEPT ![i] = u] /\ UNCHANGED <<log, checkpoint>>
  BY <1>3 DEF ApplyEvent, outbox
<1>5. /\ u.offset = p.offset /\ u.row = p.row /\ u.pc = "applied"
      /\ u.fetched = p.fetched /\ u.from = p.from
  BY <1>1 DEF ProjectorType
<1> HIDE DEF u
<1>6. p.from = 0 => p.row \in Overlaid'
  <2> SUFFICES ASSUME p.from = 0 PROVE p.row \in Overlaid'
    OBVIOUS
  <2>1. PICK k : k = p.row - 1 /\ k \in Overlaid
    BY <1>1, <1>2 DEF Rebuilds
  <2>2. k + 1 = p.row /\ k + 1 \in 1..Len(log)
    BY <1>3, <2>1
  <2>3. k + 1 \in Overlaid'
    BY <1>2, <1>4, <2>1, <2>2, OverlaidNext
  <2> QED BY <2>2, <2>3
<1>7. p.offset = 0 => applied' \subseteq {1}
  BY <1>1, <1>2, <1>4 DEF Rebuilds
<1>8. Rebuilds(u, applied', checkpoint', Overlaid')
  BY <1>1, <1>2, <1>3, <1>4, <1>5, <1>6, <1>7 DEF Rebuilds
<1>9. checkpoint' = 0 => applied' \subseteq {1}
  BY <1>2, <1>4, <1>7 DEF Rebuilds
<1> QED BY <1>1, <1>2, <1>4, <1>8, <1>9, OneHeals

\* A checkpoint is not 0, and the next row fetched is the next row.
LEMMA CheckpointHeals ==
  ASSUME HealBase, NEW i \in Projectors, Checkpoint(i) \/ DropInCheckpoint(i)
  PROVE  Heals'
<1> DEFINE p == projector[i]
<1>1. p.pc = "applied" /\ Up(i) /\ projector \in [Projectors -> ProjectorType]
  BY HealFacts DEF Checkpoint, DropInCheckpoint, Up
<1>2. /\ TypeInv /\ Rebuilds(p, applied, checkpoint, Overlaid)
      /\ \A j \in Projectors \ {i} : ~Up(j)
  BY <1>1, HealFacts
<1>3. p.row \in Nat /\ p.row \in Rowids /\ p.target \in Nat /\ p.target # 0
  <2>1. SumsInv /\ Housekept
    BY DEF HealBase
  <2>2. p.row \in Rowids /\ p.target \in 1..p.row
    BY <1>1, <2>1, CallFacts
  <2> QED BY <2>2, RowidsAreNat
<1>4. UNCHANGED <<tables, applied, log>> /\ checkpoint' = p.target
  BY DEF Checkpoint, DropInCheckpoint, outbox
<1>5. Overlaid \subseteq Overlaid'
  BY <1>2, <1>4, OverlaidStays
<1>6. ASSUME NEW q, projector' = [projector EXCEPT ![i] = q],
             Rebuilds(q, applied', checkpoint', Overlaid')
      PROVE  Heals'
  BY <1>1, <1>2, <1>3, <1>4, <1>6, OneHeals
<1>7. \A n : Ready(n).pc = "ready" /\ Ready(n).offset = n
  BY DEF Ready
<1>8. CASE projector' = [projector EXCEPT ![i] = Ready(p.offset)]
  <2>1. Rebuilds(Ready(p.offset), applied', checkpoint', Overlaid')
    BY <1>2, <1>3, <1>4, <1>7 DEF Rebuilds
  <2> QED BY <1>6, <1>8, <2>1
<1>9. CASE projector' = [projector EXCEPT ![i] = Ready(p.target)]
  <2>1. Rebuilds(Ready(p.target), applied', checkpoint', Overlaid')
    BY <1>3, <1>4, <1>7 DEF Rebuilds
  <2> QED BY <1>6, <1>9, <2>1
<1>10. ASSUME NEW r \in Rowids, IsNextRow(p.fetched, p.row, r),
              projector' = [projector EXCEPT ![i] = Taking(p.fetched, r, r, p.from, p.target)]
       PROVE  Heals'
  <2> DEFINE q == Taking(p.fetched, r, r, p.from, p.target)
  <2>1. /\ q.pc = "applying" /\ q.offset = p.target /\ q.row = r /\ q.from = p.from
        /\ q.fetched = p.fetched
    BY DEF Taking
  <2> HIDE DEF q
  <2>2. r - 1 = p.row
    <3>1. r \in Nat /\ r > p.row /\ p.fetched[r] # 0 /\ p.row + 1 \in Rowids
      BY <1>3, <1>10, RowidsAreNat DEF IsNextRow, Rowids
    <3>2. p.fetched[p.row + 1] = p.row + 1
      BY <1>1, <1>2, <1>3, <3>1 DEF Rebuilds
    <3>3. ~(p.row + 1 < r)
      BY <1>3, <1>10, <3>1, <3>2 DEF IsNextRow
    <3> QED BY <1>3, <3>1, <3>3
  <2>3. Rebuilds(q, applied', checkpoint', Overlaid')
    BY <1>1, <1>2, <1>3, <1>4, <1>5, <2>1, <2>2 DEF Rebuilds
  <2> QED BY <1>6, <1>10, <2>3 DEF q
<1> QED BY <1>8, <1>9, <1>10 DEF Checkpoint, DropInCheckpoint

\* While the outbox keeps every event and projectors take turns, a call from 0
\* stays on its way.
LEMMA NextHeals ==
  CarefulCallers /\ SumsInv /\ AloneInv /\ KeptInv /\ HealInv /\ [Next]_vars => HealInv'
<1> SUFFICES ASSUME CarefulCallers, SumsInv, AloneInv, KeptInv, HealInv, [Next]_vars,
                    ~overlapped', OrderedLog', Unpurged'
             PROVE  Heals'
  BY DEF HealInv
<1>1. TypeInv /\ StraightInv
  BY DEF SumsInv
<1>2. HealBase
  BY <1>1, OnceLost, NextAlone, NextKept DEF HealBase, HealInv, KeptInv
<1>3. CASE UNCHANGED vars
  <2>1. UNCHANGED <<tables, applied, checkpoint, projector, log>>
    BY <1>3 DEF vars
  <2>2. Overlaid \subseteq Overlaid'
    BY <1>1, <2>1, OverlaidStays
  <2> QED BY <1>2, <2>1, <2>2 DEF HealBase, Heals, Rebuilds, Up
<1>4. ASSUME NEW i \in Projectors,
             \/ New(i)
             \/ \E r \in Rowids : Apply(i, r)
             \/ \E from \in RebuildFrom \cup {projector[i].offset} : Rebuild(i, from)
             \/ Reject(i) \/ ApplyEvent(i) \/ Checkpoint(i)
             \/ DbError(i) \/ DropInCheckpoint(i) \/ DropCall(i) \/ Stop(i)
      PROVE  Heals'
  BY <1>2, <1>4, RestHeals, CallHeals, ApplyHeals, CheckpointHeals
<1>5. CASE (\E e \in Payloads : Publish(e)) \/ (\E r \in Rowids : RemoveRow(r))
  BY <1>2, <1>5, OutboxHeals
<1> QED BY <1>3, <1>4, <1>5 DEF Next

\* With careful callers a rebuild from 0 that completes leaves the tables of
\* all it fetched, whatever faults, repeats and earlier rebuilds had left, for
\* any number of projectors that take turns and any log in order.
THEOREM RebuildHealsTables ==
  ASSUME CarefulCallers
  PROVE  Spec => RebuildHeals
<1> DEFINE Completed(i) ==
              LET p == projector[i] IN
              /\ p.pc = "applied" /\ p.from = 0 /\ projector'[i].pc = "ready"
              /\ projector'[i].offset = p.row /\ \A r \in Rowids : r > p.row => p.fetched[r] = 0
              /\ ~overlapped /\ OrderedLog /\ Unpurged
           Inv == SumsInv /\ AloneInv /\ KeptInv /\ HealInv
<1>1. Init => AloneInv /\ KeptInv /\ HealInv
  <2> SUFFICES ASSUME Init PROVE AloneInv /\ KeptInv /\ HealInv
    OBVIOUS
  <2>1. \A i \in Projectors : ~Up(i)
    BY DEF Init, Up, Down, Ready
  <2>2. lost = FALSE /\ reused = {} /\ applied = {}
    BY DEF Init
  <2> QED BY <2>1, <2>2 DEF AloneInv, KeptInv, Housekept, HealInv, Heals
<1>2. SumsInv /\ AloneInv /\ KeptInv /\ HealInv /\ [Next]_vars => AloneInv' /\ KeptInv' /\ HealInv'
  BY NextAlone, NextKept, NextHeals DEF SumsInv
<1>3. ASSUME Inv, NEW i \in Projectors, Completed(i)
      PROVE  tables = Projected(projector[i].row)
  <2> DEFINE p == projector[i]
  <2>1. HealBase /\ Up(i)
    BY <1>3 DEF HealBase, HealInv, KeptInv, Up
  <2>2. /\ TypeInv /\ Rebuilds(p, applied, checkpoint, Overlaid) /\ OrderedLog
        /\ applied \subseteq 1..Len(log) /\ Len(log) \in Nat /\ Len(log) <= MaxRows
    BY <2>1, HealFacts DEF HealBase
  <2>3. p.row \in 1..Len(log) /\ p.row \in Nat
    <3>1. SumsInv /\ Housekept
      BY <2>1 DEF HealBase
    <3>2. p.row \in 1..Len(log)
      BY <1>3, <3>1, CallFacts
    <3> QED BY <2>2, <3>2
  <2>4. applied \in SUBSET (1..p.row)
    <3> SUFFICES ASSUME NEW n \in applied PROVE n \in 1..p.row
      OBVIOUS
    <3>1. n \in Rowids /\ n \in Nat /\ n >= 1
      BY <2>2, BoundsAssumption DEF Rowids
    <3>2. p.fetched[n] # 0
      BY <1>3, <2>2 DEF Rebuilds
    <3> QED BY <1>3, <2>3, <3>1, <3>2
  <2>5. p.row \in Overlaid
    BY <1>3, <2>2 DEF Rebuilds
  <2>6. p.row \in 0..Len(log) /\ Overlays(tables, Projected(p.row), p.row)
    BY <2>5 DEF Overlaid
  <2>7. tables \in TablesType /\ Reflects(tables, applied)
    BY <2>1, <2>2 DEF TypeInv, TypeOK, HealBase, SumsInv, TotalInv
  <2> QED BY <2>2, <2>4, <2>6, <2>7, OverlaidIsProjected
<1>4. Inv => [\A i \in Projectors : Completed(i) => tables = Projected(projector[i].row)]_vars
  BY <1>3
<1>5. Spec => []Inv
  BY <1>1, <1>2, SumsAlways, PTL DEF Spec
<1>6. [][\A i \in Projectors :
            LET p == projector[i] IN
            /\ p.pc = "applied" /\ p.from = 0 /\ projector'[i].pc = "ready"
            /\ projector'[i].offset = p.row /\ \A r \in Rowids : r > p.row => p.fetched[r] = 0
            /\ ~overlapped /\ OrderedLog /\ Unpurged
            => tables = Projected(p.row)]_vars <=> RebuildHeals
  BY DEF RebuildHeals
<1> QED BY <1>4, <1>5, <1>6, PTL
=============================================================================
