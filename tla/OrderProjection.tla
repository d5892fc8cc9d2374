--------------------------- MODULE OrderProjection ---------------------------
(***************************************************************************)
(* The read model of src/projection/mod.rs: OrderProjection applies order   *)
(* events to two tables and stores how far it has come in a checkpoint,     *)
(* in a second transaction.  It is fed one event at a time (apply) or reads *)
(* the rows of the outbox after an offset (rebuild_from_offset).            *)
(*                                                                          *)
(* log is every event ever inserted, and rows[r] the position in it of the  *)
(* event that the outbox row with rowid r holds.  Rows may be deleted; the  *)
(* primary key of outbox is event_id, so SQLite gives a new row one more    *)
(* than the largest rowid there is, and the rowid of a deleted newest row   *)
(* comes again.  An action is the code between two points where the task    *)
(* can be stopped; several projectors (processes, or clones) may share the  *)
(* database.                                                                *)
(***************************************************************************)
EXTENDS Integers, Sequences, FiniteSets, SequencesExt, Functions

CONSTANTS
    Orders, Skus, Customers, OrderStatus,
    Payloads,       \* the events that are published
    Projectors,     \* instances of OrderProjection on one database
    None,
    RebuildFrom,    \* offsets a caller rebuilds from besides its own
    Redelivers,     \* TRUE: apply may get events that it had before
    MaxRows,        \* bound: events published
    MaxRemovals,    \* bound: rows deleted from the outbox
    MaxCalls,       \* bound: calls of apply and rebuild_from_offset
    MaxFaults       \* bound: crashes, failed statements, dropped futures

Created(o, c, s) == [type |-> "order.created", order |-> o, customer |-> c, status |-> s]
ItemAdded(o, k, a) == [type |-> "order.item_added", order |-> o, sku |-> k, amount |-> a]
Cancelled(o) == [type |-> "order.cancelled", order |-> o]
Other == [type |-> "other"]

\* An order event with a field that is missing or has another type.
Malformed == [type |-> "malformed"]

Payload ==
    [type : {"order.created"}, order : Orders, customer : Customers, status : OrderStatus]
      \cup [type : {"order.item_added"}, order : Orders, sku : Skus, amount : Int]
      \cup [type : {"order.cancelled"}, order : Orders]
      \cup {Other, Malformed}

ASSUME PayloadsAssumption == \A e \in Payloads : e \in Payload
ASSUME SkusAssumption == IsFiniteSet(Skus)
ASSUME StatusAssumption == "cancelled" \in OrderStatus
ASSUME NoneAssumption == None \notin Customers
ASSUME RebuildAssumption == RebuildFrom \subseteq Nat
ASSUME RedeliversAssumption == Redelivers \in BOOLEAN
ASSUME BoundsAssumption ==
    MaxRows \in Nat /\ MaxRemovals \in Nat /\ MaxCalls \in Nat /\ MaxFaults \in Nat

VARIABLES
    log,            \* the events published, in order
    rows,           \* the outbox: rows[r] is a position in log, 0 without a row
    tables,         \* orders and order_items
    checkpoint,     \* the row of projection_checkpoints; 0 if there is none
    projector,      \* projector[i]: a cached offset and where apply_at_offset stands
    metrics,        \* events processed and failed
    calls,
    faults,
    removals,
    \* history
    top,            \* the largest rowid ever given
    reused,         \* rowids given again
    lost,           \* a row was deleted before its event was applied
    applied,        \* positions whose event has been applied at least once
    overlapped,     \* two projectors were up at once
    rewound         \* a caller rebuilt from another offset than its own

outbox == <<log, rows, top, reused, removals, lost>>
vars == <<log, rows, tables, checkpoint, projector, metrics, calls, faults,
          removals, top, reused, lost, applied, overlapped, rewound>>

Rowids == 1..MaxRows

NoOrder == [customer |-> None, status |-> "none", total_cents |-> 0]

\* items[o][k] is quantity * unit_price_cents of a row, 0 without one.
EmptyTables ==
    [orders |-> [o \in Orders |-> NoOrder],
     items  |-> [o \in Orders |-> [k \in Skus |-> 0]]]

Exists(t, o) == t.orders[o].customer # None

OrderRow == [customer : Customers, status : OrderStatus, total_cents : Int]

TablesType ==
    [orders : [Orders -> OrderRow \cup {NoOrder}], items : [Orders -> [Skus -> Int]]]

NoRows == [r \in Rowids |-> 0]

Ready(offset) ==
    [pc |-> "ready", offset |-> offset, fetched |-> NoRows, row |-> 0, target |-> 0,
     from |-> 0]

\* About to apply a row of those fetched, which is to be stored as target.
Taking(fetched, row, target, from, offset) ==
    [pc |-> "applying", offset |-> offset, fetched |-> fetched, row |-> row,
     target |-> target, from |-> from]

Down == [Ready(0) EXCEPT !.pc = "down"]

\* fetched: the rows as the call read them; row: the one whose event is
\* applied; target: the offset it is stored under; from: where the call began.
ProjectorType ==
    [pc : {"down", "ready", "applying", "applied"}, offset : Nat,
     fetched : [Rowids -> Nat], row : Nat, target : Nat, from : Nat]

\* Tables, checkpoint, cached offsets and the log have their types.
TypeOK ==
    /\ log \in Seq(Payloads)
    /\ rows \in [Rowids -> 0..Len(log)]
    /\ tables \in TablesType
    /\ checkpoint \in Nat
    /\ projector \in [Projectors -> ProjectorType]
    /\ metrics \in [processed : Nat, failed : Nat]
    /\ calls \in Nat /\ faults \in Nat /\ removals \in Nat
    /\ top \in Nat /\ reused \subseteq Rowids
    /\ applied \subseteq 1..Len(log)
    /\ lost \in BOOLEAN /\ overlapped \in BOOLEAN /\ rewound \in BOOLEAN

Init ==
    /\ log = <<>> /\ rows = NoRows
    /\ tables = EmptyTables
    /\ checkpoint = 0
    /\ projector = [i \in Projectors |-> Down]
    /\ metrics = [processed |-> 0, failed |-> 0]
    /\ calls = 0 /\ faults = 0 /\ removals = 0
    /\ top = 0 /\ reused = {} /\ lost = FALSE
    /\ applied = {} /\ overlapped = FALSE /\ rewound = FALSE
-----------------------------------------------------------------------------
(* What one event does to the tables.                                       *)

ResetsTotal(t, e) ==
    [t EXCEPT !.orders[e.order] =
        [customer |-> e.customer, status |-> e.status, total_cents |-> 0]]

\* ON CONFLICT leaves total_cents alone.
UpsertOrder(t, e) ==
    [t EXCEPT !.orders[e.order] =
        [customer |-> e.customer, status |-> e.status, total_cents |-> @.total_cents]]

AddsAmount(t, e) ==
    [t EXCEPT !.items[e.order][e.sku] = e.amount,
              !.orders[e.order].total_cents =
                  IF Exists(t, e.order) THEN @ + e.amount ELSE @]

\* One transaction: the item, then the sum of all items if the order exists.
UpsertItem(t, e) ==
    LET items == [t.items[e.order] EXCEPT ![e.sku] = e.amount] IN
    [t EXCEPT !.items[e.order] = items,
              !.orders[e.order].total_cents =
                  IF Exists(t, e.order) THEN SumFunction(items) ELSE @]

CancelsMissing(t, o, status) ==
    [t EXCEPT !.orders[o].status = status]

SetOrderStatus(t, o, status) ==
    IF Exists(t, o) THEN [t EXCEPT !.orders[o].status = status] ELSE t

ApplyOrderEvent(t, e) ==
    CASE e.type = "order.created"    -> UpsertOrder(t, e)
      [] e.type = "order.item_added" -> UpsertItem(t, e)
      [] e.type = "order.cancelled"  -> SetOrderStatus(t, e.order, "cancelled")
      [] OTHER -> t
-----------------------------------------------------------------------------
Present(r) == rows[r] # 0

\* One more than the largest rowid in the table.
IsFreeRowid(r) ==
    /\ r # 1 => Present(r - 1)
    /\ \A q \in r..MaxRows : ~Present(q)

\* The bus inserts a row.
Publish(e) ==
    /\ Len(log) < MaxRows
    /\ log' = Append(log, e)
    /\ \E r \in Rowids :
          /\ IsFreeRowid(r)
          /\ rows' = [rows EXCEPT ![r] = Len(log) + 1]
          /\ IF r > top THEN top' = r /\ UNCHANGED reused
                        ELSE reused' = reused \cup {r} /\ UNCHANGED top
    /\ UNCHANGED <<tables, checkpoint, projector, metrics, calls, faults, removals, lost,
                   applied, overlapped, rewound>>

\* A row is "removed from the outbox" (src/bus/mod.rs:205).
RemoveRow(r) ==
    /\ removals < MaxRemovals
    /\ Present(r)
    /\ removals' = removals + 1
    /\ rows' = [rows EXCEPT ![r] = 0]
    /\ lost' = (lost \/ rows[r] \notin applied)
    /\ UNCHANGED <<log, tables, checkpoint, projector, metrics, calls, faults, top, reused,
                   applied, overlapped, rewound>>

\* OrderProjection::new: the tables stay as they are, the offset is read.
New(i) ==
    /\ projector[i].pc = "down"
    /\ projector' = [projector EXCEPT ![i] = Ready(checkpoint)]
    /\ overlapped' = (overlapped \/ \E j \in Projectors : projector[j].pc # "down")
    /\ UNCHANGED <<outbox, tables, checkpoint, metrics, calls, faults, applied, rewound>>

Call(i) ==
    /\ projector[i].pc = "ready"
    /\ calls < MaxCalls
    /\ calls' = calls + 1

\* r is the first row after an offset in a result of SELECT ... ORDER BY rowid.
IsNextRow(fetched, offset, r) ==
    /\ r > offset /\ fetched[r] # 0
    /\ \A q \in (offset + 1)..(r - 1) : fetched[q] = 0

UpTo(r) == [q \in Rowids |-> IF q <= r THEN rows[q] ELSE 0]

\* apply stores the event under the cached offset plus one, whatever its row.
\* A careful caller hands it the first row after the offset.
Apply(i, r) ==
    /\ Call(i)
    /\ Present(r)
    /\ r <= projector[i].offset \/ IsNextRow(rows, projector[i].offset, r)
    /\ Redelivers \/ r > projector[i].offset
    /\ projector' = [projector EXCEPT ![i] =
                        Taking(UpTo(r), r, @.offset + 1, @.offset, @.offset)]
    /\ UNCHANGED <<outbox, tables, checkpoint, metrics, faults, applied, overlapped, rewound>>

SkipsFirst(i, from) ==
    /\ Call(i)
    /\ \/ \E q, r \in Rowids :
             /\ IsNextRow(rows, from, q) /\ IsNextRow(rows, q, r)
             /\ projector' = [projector EXCEPT ![i] = Taking(rows, r, r, from, @.offset)]
       \/ /\ \A r \in Rowids : r > from + 1 => ~Present(r)
          /\ UNCHANGED projector
    /\ rewound' = (rewound \/ from # projector[i].offset)
    /\ UNCHANGED <<outbox, tables, checkpoint, metrics, faults, applied, overlapped>>

\* rebuild_from_offset fetches all rows after the offset at once.
Rebuild(i, from) ==
    /\ Call(i)
    /\ \/ \E r \in Rowids :
             /\ IsNextRow(rows, from, r)
             /\ projector' = [projector EXCEPT ![i] = Taking(rows, r, r, from, @.offset)]
       \/ /\ \A r \in Rowids : r > from => ~Present(r)
          /\ UNCHANGED projector
    /\ rewound' = (rewound \/ from # projector[i].offset)
    /\ UNCHANGED <<outbox, tables, checkpoint, metrics, faults, applied, overlapped>>

EventAtHand(i) == projector[i].fetched[projector[i].row]

\* A field is missing: the call ends before any statement.
Reject(i) ==
    /\ projector[i].pc = "applying"
    /\ log[EventAtHand(i)] = Malformed
    /\ metrics' = [metrics EXCEPT !.failed = @ + 1]
    /\ projector' = [projector EXCEPT ![i] = Ready(@.offset)]
    /\ UNCHANGED <<outbox, tables, checkpoint, calls, faults, applied, overlapped, rewound>>

ApplyEvent(i) ==
    LET n == EventAtHand(i) IN
    /\ projector[i].pc = "applying"
    /\ log[n] # Malformed
    /\ tables' = ApplyOrderEvent(tables, log[n])
    /\ applied' = applied \cup {n}
    /\ projector' = [projector EXCEPT ![i].pc = "applied"]
    /\ UNCHANGED <<outbox, checkpoint, metrics, calls, faults, overlapped, rewound>>

\* The upsert of the checkpoint, the cached offset, the counter, and the next
\* row of a rebuild if there is one.
Checkpoint(i) ==
    LET p == projector[i] IN
    /\ p.pc = "applied"
    /\ checkpoint' = p.target
    /\ metrics' = [metrics EXCEPT !.processed = @ + 1]
    /\ \/ \E r \in Rowids :
             /\ IsNextRow(p.fetched, p.row, r)
             /\ projector' = [projector EXCEPT ![i] =
                                 Taking(p.fetched, r, r, p.from, p.target)]
       \/ /\ \A r \in Rowids : r > p.row => p.fetched[r] = 0
          /\ projector' = [projector EXCEPT ![i] = Ready(p.target)]
    /\ UNCHANGED <<outbox, tables, calls, faults, applied, overlapped, rewound>>
-----------------------------------------------------------------------------
Fault ==
    /\ faults < MaxFaults
    /\ faults' = faults + 1

\* A statement fails: the error ends the call and the rest of a rebuild.
DbError(i) ==
    /\ Fault
    /\ projector[i].pc \in {"applying", "applied"}
    /\ metrics' = [metrics EXCEPT !.failed = @ + 1]
    /\ projector' = [projector EXCEPT ![i] = Ready(@.offset)]
    /\ UNCHANGED <<outbox, tables, checkpoint, calls, applied, overlapped, rewound>>

\* The caller drops the future while the checkpoint is being written: it is
\* stored, but the cached offset is not moved.
DropInCheckpoint(i) ==
    /\ Fault
    /\ projector[i].pc = "applied"
    /\ checkpoint' = projector[i].target
    /\ projector' = [projector EXCEPT ![i] = Ready(@.offset)]
    /\ UNCHANGED <<outbox, tables, metrics, calls, applied, overlapped, rewound>>

\* The caller drops the future at another await.
DropCall(i) ==
    /\ Fault
    /\ projector[i].pc \in {"applying", "applied"}
    /\ projector' = [projector EXCEPT ![i] = Ready(@.offset)]
    /\ UNCHANGED <<outbox, tables, checkpoint, metrics, calls, applied, overlapped, rewound>>

\* The process of one projector ends, orderly or not.
Stop(i) ==
    /\ Fault
    /\ projector[i].pc # "down"
    /\ projector' = [projector EXCEPT ![i] = Down]
    /\ UNCHANGED <<outbox, tables, checkpoint, metrics, calls, applied, overlapped, rewound>>
-----------------------------------------------------------------------------
Next ==
    \/ \E e \in Payloads : Publish(e)
    \/ \E r \in Rowids : RemoveRow(r)
    \/ \E i \in Projectors :
          \/ New(i)
          \/ \E r \in Rowids : Apply(i, r)
          \/ \E from \in RebuildFrom \cup {projector[i].offset} : Rebuild(i, from)
          \/ Reject(i) \/ ApplyEvent(i) \/ Checkpoint(i)
          \/ DbError(i) \/ DropInCheckpoint(i) \/ DropCall(i) \/ Stop(i)

Spec == Init /\ [][Next]_vars
-----------------------------------------------------------------------------
(* Properties.                                                              *)

\* The tables after each of the first n rows, once and in order.
Projected(n) == FoldLeft(ApplyOrderEvent, EmptyTables, SubSeq(log, 1, n))

AtRest == \A i \in Projectors : projector[i].pc \in {"down", "ready"}

Published == 1..Len(log)

\* No item of an order comes before its creation.
OrderedLog ==
    \A n \in Published : log[n].type = "order.item_added" =>
        \E q \in 1..(n - 1) : log[q].type = "order.created" /\ log[q].order = log[n].order

\* Every row deleted had been applied, and no rowid came again.
Housekept == ~lost /\ reused = {}

Unpurged == \A n \in Published : rows[n] = n

\* Up to offset n nothing is skipped, but for rows with a rowid used before.
Covered(n) ==
    \A r \in Rowids : r <= n /\ Present(r) /\ r \notin reused => rows[r] \in applied

\* Whatever is skipped on restart has been applied: neither the stored
\* checkpoint nor a cached offset passes a row whose event is not in the
\* tables, also with several projectors, gaps between rowids, rows deleted
\* and inserted during a rebuild, and a malformed row in the way.  The one
\* exception is a row that was given the rowid of a deleted one.
CheckpointCovers ==
    /\ Covered(checkpoint)
    /\ \A i \in Projectors : Covered(projector[i].offset)

\* total_cents is the sum of the items, through every replay, fault and
\* interleaving of projectors, unless items came before their order or rows
\* went before they were applied.
TotalUpToDate ==
    OrderedLog /\ Housekept => \A o \in Orders :
        Exists(tables, o) => tables.orders[o].total_cents = SumFunction(tables.items[o])

\* As long as projectors take turns and resume where they stopped, and rows are
\* deleted behind them, the tables at rest are those of the first checkpoint
\* events, or of one more that was applied before its checkpoint was lost; of
\* several more only if all but the last of their rows are deleted by now.
TablesAtCheckpoint ==
    AtRest /\ ~overlapped /\ ~rewound /\ Housekept =>
        \E m \in checkpoint..Len(log) :
            /\ tables = Projected(m)
            /\ \A r \in (checkpoint + 1)..(m - 1) : ~Present(r)

\* A rebuild from 0 that completes heals what faults and earlier rebuilds left,
\* while the outbox still has every event.
RebuildHeals ==
    [][\A i \in Projectors :
          LET p == projector[i] IN
          /\ p.pc = "applied" /\ p.from = 0 /\ projector'[i].pc = "ready"
          /\ projector'[i].offset = p.row /\ \A r \in Rowids : r > p.row => p.fetched[r] = 0
          /\ ~overlapped /\ OrderedLog /\ Unpurged
          => tables = Projected(p.row)]_vars
=============================================================================
