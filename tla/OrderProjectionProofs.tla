------------------------ MODULE OrderProjectionProofs ------------------------
(***************************************************************************)
(* What a restarted projection skips has been applied, or has a rowid that  *)
(* was used before, for any number of projectors, rows, deletions, calls    *)
(* and faults, as long as callers feed apply the rows in order and rebuild  *)
(* from their own offset or from 0.                                         *)
(***************************************************************************)
EXTENDS OrderProjection, TLAPS

CarefulCallers == ~Redelivers /\ RebuildFrom \subseteq {0}

\* What was fetched is still what the table holds, up to the last row that was
\* fetched: a row that is new there has a rowid used before.
Agrees(fetched) ==
    /\ \A r \in Rowids : fetched[r] # 0 => r <= top
    /\ \A q, r \in Rowids :
          q <= r /\ fetched[r] # 0 /\ Present(q) /\ q \notin reused => fetched[q] = rows[q]

\* A projector in a call skips nothing before its target, and fetched nothing
\* between the target and the row at hand.
InCall(p) ==
    /\ p.row \in Rowids /\ p.fetched[p.row] # 0
    /\ p.target \in 1..p.row
    /\ \A q \in p.target..(p.row - 1) : p.fetched[q] = 0
    /\ Covered(p.target - 1)
    /\ Agrees(p.fetched)

\* Offsets are rowids once given; at the checkpoint the row at hand is in.
Covers(p) ==
    /\ p.offset <= top /\ Covered(p.offset)
    /\ p.pc \in {"applying", "applied"} => InCall(p)
    /\ p.pc = "applied" => p.fetched[p.row] \in applied

CoverInv ==
    /\ Len(log) \in Nat /\ rows \in [Rowids -> Nat] /\ top \in Nat
    /\ \A r \in Rowids : Present(r) => r <= top
    /\ checkpoint \in Nat /\ checkpoint <= top /\ Covered(checkpoint)
    /\ projector \in [Projectors -> ProjectorType]
    /\ \A i \in Projectors : Covers(projector[i])

\* Bounds are numbers, and so are rowids.
LEMMA RowidsAreNat == MaxRows \in Nat /\ \A r \in Rowids : r \in Nat /\ r >= 1 /\ r <= MaxRows
BY BoundsAssumption DEF Rowids

\* The invariant is at least as strong as the property.
LEMMA CoverInvImplies == CoverInv => CheckpointCovers
BY DEF CoverInv, Covers, CheckpointCovers

\* Nothing is skipped before anything is stored.
LEMMA InitCoverInv == Init => CoverInv
<1> SUFFICES ASSUME Init PROVE CoverInv
  OBVIOUS
<1>1. NoRows \in [Rowids -> Nat] /\ \A r \in Rowids : NoRows[r] = 0
  BY DEF NoRows
<1>2. Down \in ProjectorType /\ Down.pc = "down" /\ Down.offset = 0
  BY <1>1 DEF Down, Ready, ProjectorType
<1>3. Len(log) = 0 /\ rows = NoRows /\ top = 0 /\ checkpoint = 0
      /\ projector = [i \in Projectors |-> Down]
  BY DEF Init
<1>4. \A r \in Rowids : ~Present(r)
  BY <1>1, <1>3 DEF Present
<1>5. Covered(0)
  BY <1>4 DEF Covered
<1> QED BY <1>1, <1>2, <1>3, <1>4, <1>5 DEF CoverInv, Covers

\* A step of one projector keeps the invariant if it covers its own offset
\* and the stored checkpoint, since no step takes a position out of applied.
LEMMA OneProjector ==
  ASSUME CoverInv, NEW i \in Projectors,
         \A j \in Projectors \ {i} : projector'[j] = projector[j],
         projector' \in [Projectors -> ProjectorType],
         UNCHANGED outbox, applied \subseteq applied',
         checkpoint' \in Nat, checkpoint' <= top, Covered(checkpoint),
         Covered(checkpoint)',
         Covers(projector[i])'
  PROVE  CoverInv'
<1>1. UNCHANGED <<log, rows, top, reused>>
  BY DEF outbox
<1>2. \A n \in Nat : Covered(n) => Covered(n)'
  BY <1>1 DEF Covered, Present
<1>3. ASSUME NEW j \in Projectors \ {i} PROVE Covers(projector[j])'
  <2>1. projector'[j] = projector[j] /\ projector[j] \in ProjectorType /\ Covers(projector[j])
    BY DEF CoverInv
  <2>2. Covered(projector[j].offset)'
    BY <1>1, <2>1 DEF Covers, Covered, Present
  <2>3. InCall(projector[j]) => InCall(projector[j])'
    BY <1>1, <2>1 DEF InCall, Agrees, Covered, Present
  <2> QED BY <1>1, <2>1, <2>2, <2>3 DEF Covers
<1>4. \A r \in Rowids : Present(r)' => r <= top'
  BY <1>1 DEF CoverInv, Present
<1> QED BY <1>1, <1>3, <1>4 DEF CoverInv

\* A new row has a rowid above all that were ever given, or one used before.
LEMMA PublishKeeps ==
  ASSUME CoverInv, NEW e \in Payloads, Publish(e)
  PROVE  CoverInv'
<1>1. PICK r \in Rowids :
        /\ rows' = [rows EXCEPT ![r] = Len(log) + 1]
        /\ IF r > top THEN top' = r /\ UNCHANGED reused
                      ELSE reused' = reused \cup {r} /\ UNCHANGED top
  BY DEF Publish
<1>2. UNCHANGED <<projector, checkpoint, applied>> /\ log' = Append(log, e)
  BY DEF Publish
<1>3. top \in Nat /\ rows \in [Rowids -> Nat] /\ Len(log) \in Nat /\ r \in Nat
  BY RowidsAreNat DEF CoverInv
<1>4. /\ rows' \in [Rowids -> Nat] /\ top' \in Nat /\ top <= top' /\ r <= top'
      /\ reused \subseteq reused'
      /\ \A q \in Rowids \ {r} : rows'[q] = rows[q]
      /\ r <= top => r \in reused'
  BY <1>1, <1>3
<1>5. \A n \in Nat : n <= top /\ Covered(n) => Covered(n)'
  BY <1>2, <1>3, <1>4, RowidsAreNat DEF Covered, Present
<1>6. ASSUME NEW i \in Projectors PROVE Covers(projector[i])'
  <2> DEFINE p == projector[i]
  <2>1. p \in ProjectorType /\ Covers(p) /\ p' = p
    BY <1>2 DEF CoverInv
  <2>2. p.offset <= top' /\ Covered(p.offset)'
    BY <1>3, <1>4, <1>5, <2>1 DEF Covers, ProjectorType
  <2>3. ASSUME InCall(p) PROVE InCall(p)'
    <3>1. p.row \in Nat /\ p.target \in Nat /\ p.row <= top /\ p.target <= p.row /\ p.target >= 1
      BY <2>1, <2>3, RowidsAreNat DEF InCall, Agrees, ProjectorType
    <3>2. Covered(p.target - 1)'
      <4>1. p.target - 1 \in Nat /\ p.target - 1 <= top
        BY <1>3, <3>1
      <4>2. Covered(p.target - 1)
        BY <2>3 DEF InCall
      <4> QED BY <1>5, <2>1, <4>1, <4>2
    <3>3. Agrees(p.fetched)'
      <4>1. Agrees(p.fetched)
        BY <2>3 DEF InCall
      <4> QED BY <1>2, <1>3, <1>4, <4>1, RowidsAreNat DEF Agrees, Present
    <3> QED BY <2>1, <2>3, <3>2, <3>3 DEF InCall
  <2> QED BY <1>2, <2>1, <2>2, <2>3 DEF Covers
<1>7. Len(log') \in Nat
  <2>1. Len(log) + 1 \in Nat
    BY <1>3
  <2> QED BY <1>2 DEF CoverInv
<1>8. \A q \in Rowids : Present(q)' => q <= top'
  BY <1>3, <1>4, RowidsAreNat DEF CoverInv, Present
<1>9. checkpoint \in Nat /\ checkpoint <= top /\ Covered(checkpoint)
  BY DEF CoverInv
<1>10. checkpoint' \in Nat /\ checkpoint' <= top' /\ Covered(checkpoint)'
  <2>1. Covered(checkpoint)'
    BY <1>2, <1>3, <1>4, <1>9, RowidsAreNat DEF Covered, Present
  <2> QED BY <1>2, <1>3, <1>4, <1>9, <2>1
<1> QED BY <1>2, <1>4, <1>6, <1>7, <1>8, <1>10 DEF CoverInv

\* A row less is nothing more to cover.
LEMMA RemoveKeeps ==
  ASSUME CoverInv, NEW r \in Rowids, RemoveRow(r)
  PROVE  CoverInv'
<1>1. /\ rows' = [rows EXCEPT ![r] = 0]
      /\ UNCHANGED <<log, projector, checkpoint, applied, top, reused>>
  BY DEF RemoveRow
<1>2. /\ rows' \in [Rowids -> Nat]
      /\ \A q \in Rowids : Present(q)' => Present(q) /\ rows'[q] = rows[q]
  BY <1>1 DEF CoverInv, Present
<1>3. ASSUME NEW i \in Projectors PROVE Covers(projector[i])'
  <2>1. projector[i] \in ProjectorType /\ Covers(projector[i]) /\ projector'[i] = projector[i]
    BY <1>1 DEF CoverInv
  <2>2. InCall(projector[i]) => InCall(projector[i])'
    BY <1>1, <1>2 DEF InCall, Agrees, Covered
  <2> QED BY <1>1, <1>2, <2>1, <2>2 DEF Covers, Covered
<1> QED BY <1>1, <1>2, <1>3 DEF CoverInv, Covered

\* new, and whatever ends a call without storing anything.
LEMMA RestKeeps ==
  ASSUME CoverInv, NEW i \in Projectors,
         New(i) \/ Reject(i) \/ DbError(i) \/ DropCall(i) \/ Stop(i)
  PROVE  CoverInv'
<1>1. /\ UNCHANGED <<outbox, checkpoint, applied>>
      /\ \A n \in Nat : Ready(n) \in ProjectorType /\ Ready(n).pc = "ready" /\ Ready(n).offset = n
      /\ Down \in ProjectorType /\ Down.pc = "down" /\ Down.offset = 0
  BY DEF New, Reject, DbError, DropCall, Stop, Ready, Down, ProjectorType, NoRows
<1>2. PICK q \in {Ready(checkpoint), Ready(projector[i].offset), Down} :
        projector' = [projector EXCEPT ![i] = q]
  BY DEF New, Reject, DbError, DropCall, Stop
<1>3. projector[i].offset \in Nat /\ checkpoint \in Nat /\ top \in Nat
  BY DEF CoverInv, ProjectorType
<1>4. Covered(0)
  BY RowidsAreNat DEF Covered
<1>5. /\ q \in ProjectorType /\ q.pc \in {"ready", "down"}
      /\ q.offset <= top /\ Covered(q.offset)
  BY <1>1, <1>3, <1>4 DEF CoverInv, Covers
<1>6. projector'[i] = q /\ projector' \in [Projectors -> ProjectorType]
      /\ \A j \in Projectors \ {i} : projector'[j] = projector[j]
  BY <1>2, <1>5 DEF CoverInv
<1>7. Covers(projector[i])'
  BY <1>1, <1>5, <1>6 DEF Covers, Covered, Present, outbox
<1>8. Covered(checkpoint)'
  BY <1>1 DEF CoverInv, Covered, Present, outbox
<1> QED BY <1>1, <1>6, <1>7, <1>8, OneProjector DEF CoverInv

\* The rows of the table are what a call may fetch, all of them or up to one.
LEMMA FetchAgrees ==
  ASSUME CoverInv
  PROVE  /\ rows \in [Rowids -> Nat] /\ Agrees(rows)
         /\ \A r \in Rowids : UpTo(r) \in [Rowids -> Nat] /\ Agrees(UpTo(r))
BY RowidsAreNat DEF CoverInv, Agrees, UpTo, Present

\* A projector that takes a row is typed.
LEMMA TakingTyped ==
  ASSUME NEW fetched \in [Rowids -> Nat], NEW r \in Nat, NEW t \in Nat, NEW f \in Nat,
         NEW o \in Nat
  PROVE  Taking(fetched, r, t, f, o) \in ProjectorType
BY DEF Taking, ProjectorType

\* apply and rebuild_from_offset start at the first row after an offset up to
\* which nothing is skipped: the own offset, or 0.
LEMMA CallKeeps ==
  ASSUME CarefulCallers, CoverInv, NEW i \in Projectors,
         \/ \E r \in Rowids : Apply(i, r)
         \/ \E from \in RebuildFrom \cup {projector[i].offset} : Rebuild(i, from)
  PROVE  CoverInv'
<1> DEFINE p == projector[i]
<1>1. UNCHANGED <<outbox, checkpoint, applied>> /\ UNCHANGED <<log, rows, top, reused>>
  BY DEF Apply, Rebuild, outbox
<1>2. p \in ProjectorType /\ Covers(p) /\ p.offset \in Nat /\ top \in Nat
  BY DEF CoverInv, ProjectorType
<1>3. Covered(checkpoint)' /\ checkpoint' \in Nat /\ checkpoint' <= top /\ Covered(checkpoint)
  BY <1>1 DEF CoverInv, Covered, Present
<1>4. ASSUME NEW fetched \in [Rowids -> Nat], Agrees(fetched),
             NEW from \in Nat, Covered(from), NEW r \in Rowids, IsNextRow(rows, from, r),
             fetched[r] = rows[r], \A q \in (from + 1)..(r - 1) : fetched[q] = 0,
             NEW t \in {from + 1, r},
             projector' = [projector EXCEPT ![i] = Taking(fetched, r, t, from, p.offset)]
      PROVE  CoverInv'
  <2> DEFINE q == Taking(fetched, r, t, from, p.offset)
  <2>1. r \in Nat /\ t \in Nat /\ from < r /\ from < t /\ t <= r /\ rows[r] # 0
    BY <1>4, RowidsAreNat DEF IsNextRow
  <2>2. q \in ProjectorType
    BY <1>2, <2>1, TakingTyped
  <2>3. /\ projector' \in [Projectors -> ProjectorType] /\ projector'[i] = q
        /\ \A j \in Projectors \ {i} : projector'[j] = projector[j]
    BY <1>4, <2>2 DEF CoverInv
  <2>4. /\ q.pc = "applying" /\ q.offset = p.offset /\ q.row = r /\ q.target = t
        /\ q.fetched = fetched
    BY DEF Taking
  <2>5. Covered(t - 1)
    BY <1>4, <2>1, RowidsAreNat DEF Covered, IsNextRow, Present
  <2>6. \A s \in t..(r - 1) : fetched[s] = 0
    BY <1>4, <2>1
  <2>7. InCall(q)
    BY <1>4, <2>1, <2>4, <2>5, <2>6 DEF InCall
  <2>8. Covers(q)
    BY <1>2, <2>4, <2>7 DEF Covers
  <2> HIDE DEF q
  <2>9. Covers(projector[i])'
    BY <1>1, <2>3, <2>8 DEF Covers, InCall, Agrees, Covered, Present
  <2> QED BY <1>1, <1>3, <2>3, <2>9, OneProjector
<1>5. CASE \E r \in Rowids : Apply(i, r)
  <2>1. PICK r \in Rowids :
          /\ Apply(i, r)
          /\ projector' = [projector EXCEPT ![i] =
                             Taking(UpTo(r), r, p.offset + 1, p.offset, p.offset)]
    BY <1>5 DEF Apply
  <2>2. IsNextRow(rows, p.offset, r)
    BY <1>2, <2>1, RowidsAreNat DEF Apply, CarefulCallers
  <2>3. UpTo(r)[r] = rows[r] /\ \A q \in (p.offset + 1)..(r - 1) : UpTo(r)[q] = 0
    BY <1>2, <2>2, RowidsAreNat DEF UpTo, IsNextRow, Rowids
  <2>4. UpTo(r) \in [Rowids -> Nat] /\ Agrees(UpTo(r)) /\ Covered(p.offset)
    BY <1>2, FetchAgrees DEF Covers
  <2> QED BY <1>2, <1>4, <2>1, <2>2, <2>3, <2>4
<1>6. ASSUME NEW from \in RebuildFrom \cup {p.offset}, Rebuild(i, from)
      PROVE  CoverInv'
  <2>1. from \in Nat /\ Covered(from)
    <3>1. from = 0 \/ from = p.offset
      BY <1>6 DEF CarefulCallers
    <3>2. Covered(0)
      BY RowidsAreNat DEF Covered
    <3> QED BY <1>2, <3>1, <3>2 DEF Covers
  <2>2. CASE \E r \in Rowids :
               /\ IsNextRow(rows, from, r)
               /\ projector' = [projector EXCEPT ![i] = Taking(rows, r, r, from, p.offset)]
    <3>1. PICK r \in Rowids :
            /\ IsNextRow(rows, from, r)
            /\ projector' = [projector EXCEPT ![i] = Taking(rows, r, r, from, p.offset)]
      BY <2>2
    <3>2. \A q \in (from + 1)..(r - 1) : rows[q] = 0
      BY <3>1 DEF IsNextRow
    <3> QED BY <1>4, <2>1, <3>1, <3>2, FetchAgrees
  <2>3. CASE UNCHANGED projector
    <3>1. Covers(projector[i])'
      BY <1>1, <1>2, <2>3 DEF Covers, InCall, Agrees, Covered, Present
    <3> QED BY <1>1, <1>3, <2>3, <3>1, OneProjector DEF CoverInv
  <2> QED BY <1>6, <2>2, <2>3 DEF Rebuild
<1> QED BY <1>5, <1>6

\* apply_order_event puts the event at hand into applied.
LEMMA ApplyEventKeeps ==
  ASSUME CoverInv, NEW i \in Projectors, ApplyEvent(i)
  PROVE  CoverInv'
<1>1. projector[i] \in ProjectorType /\ Covers(projector[i])
  BY DEF CoverInv
<1>2. /\ UNCHANGED <<outbox, checkpoint>> /\ UNCHANGED <<log, rows, top, reused>>
      /\ applied' = applied \cup {projector[i].fetched[projector[i].row]}
      /\ projector[i].pc = "applying"
  BY DEF ApplyEvent, EventAtHand, outbox
<1>3. /\ projector' \in [Projectors -> ProjectorType]
      /\ \A j \in Projectors \ {i} : projector'[j] = projector[j]
      /\ projector'[i] = [projector[i] EXCEPT !.pc = "applied"]
  BY <1>1 DEF ApplyEvent, CoverInv, ProjectorType
<1>4. Covers(projector[i])'
  BY <1>1, <1>2, <1>3 DEF Covers, InCall, Agrees, Covered, Present, ProjectorType
<1>5. Covered(checkpoint)'
  BY <1>2 DEF CoverInv, Covered, Present
<1> QED BY <1>2, <1>3, <1>4, <1>5, OneProjector DEF CoverInv

\* Once the row at hand is in, nothing is skipped up to the target, nor up to
\* the row before the next one fetched.
LEMMA AppliedCovers ==
  ASSUME NEW p \in ProjectorType, Covers(p), p.pc = "applied"
  PROVE  /\ Covered(p.target)
         /\ \A r \in Rowids : IsNextRow(p.fetched, p.row, r) => Covered(r - 1)
<1>1. InCall(p) /\ p.fetched[p.row] \in applied
  BY DEF Covers
<1>2. p.row \in Rowids /\ p.row \in Nat /\ p.target \in Nat /\ 1 <= p.target /\ p.target <= p.row
  BY <1>1, RowidsAreNat DEF InCall, ProjectorType
<1>3. ASSUME NEW q \in Rowids, q <= p.row, Present(q), q \notin reused
      PROVE  rows[q] \in applied
  <2>1. p.fetched[q] = rows[q] /\ rows[q] # 0
    BY <1>1, <1>2, <1>3 DEF InCall, Agrees, Present
  <2>2. CASE q < p.target
    BY <1>1, <1>2, <1>3, <2>2, RowidsAreNat DEF InCall, Covered
  <2>3. q < p.target \/ q = p.row
    BY <1>1, <1>2, <1>3, <2>1, RowidsAreNat DEF InCall
  <2> QED BY <1>1, <2>1, <2>2, <2>3
<1>4. Covered(p.target)
  BY <1>2, <1>3, RowidsAreNat DEF Covered
<1>5. ASSUME NEW r \in Rowids, IsNextRow(p.fetched, p.row, r) PROVE Covered(r - 1)
  <2>1. r \in Nat /\ r > p.row /\ p.fetched[r] # 0
    BY <1>5, RowidsAreNat DEF IsNextRow
  <2>2. ASSUME NEW q \in Rowids, q <= r - 1, Present(q), q \notin reused PROVE q <= p.row
    <3>1. q \in Nat /\ q <= r
      BY <2>1, <2>2, RowidsAreNat
    <3>2. p.fetched[q] = rows[q] /\ rows[q] # 0
      BY <1>1, <2>1, <2>2, <3>1 DEF InCall, Agrees, Present
    <3> QED BY <1>2, <1>5, <2>1, <2>2, <3>1, <3>2 DEF IsNextRow
  <2> QED BY <1>3, <2>2 DEF Covered
<1> QED BY <1>4, <1>5

\* The checkpoint is stored behind the row that was applied.
LEMMA CheckpointKeeps ==
  ASSUME CoverInv, NEW i \in Projectors, Checkpoint(i) \/ DropInCheckpoint(i)
  PROVE  CoverInv'
<1> DEFINE p == projector[i]
<1>1. p \in ProjectorType /\ Covers(p) /\ top \in Nat
  BY DEF CoverInv
<1>2. /\ UNCHANGED <<outbox, applied>> /\ UNCHANGED <<log, rows, top, reused>>
      /\ checkpoint' = p.target
      /\ p.pc = "applied"
  BY DEF Checkpoint, DropInCheckpoint, outbox
<1>3. Covered(p.target) /\ \A r \in Rowids : IsNextRow(p.fetched, p.row, r) => Covered(r - 1)
  BY <1>1, <1>2, AppliedCovers
<1>4. p.target \in Nat /\ p.target <= top /\ InCall(p) /\ p.row \in Nat
  <2>1. InCall(p)
    BY <1>1, <1>2 DEF Covers
  <2>2. p.row <= top
    BY <2>1 DEF InCall, Agrees
  <2> QED BY <1>1, <2>1, <2>2, RowidsAreNat DEF InCall, ProjectorType
<1> DEFINE Stands(q) == q \in ProjectorType /\ Covers(q)
<1>5. PICK q : projector' = [projector EXCEPT ![i] = q] /\ Stands(q)
  <2>1. ASSUME NEW n \in Nat, n <= top, Covered(n) PROVE Stands(Ready(n))
    BY <2>1 DEF Ready, ProjectorType, NoRows, Covers
  <2>2. Stands(Ready(p.target)) /\ Stands(Ready(p.offset))
    BY <1>1, <1>3, <1>4, <2>1 DEF Covers, ProjectorType
  <2>3. ASSUME NEW r \in Rowids, IsNextRow(p.fetched, p.row, r)
        PROVE  Stands(Taking(p.fetched, r, r, p.from, p.target))
    <3> DEFINE q == Taking(p.fetched, r, r, p.from, p.target)
    <3>1. r \in Nat /\ p.fetched[r] # 0 /\ r \in 1..r
      BY <2>3, RowidsAreNat DEF IsNextRow
    <3>2. q \in ProjectorType
      <4>1. p.fetched \in [Rowids -> Nat] /\ p.from \in Nat
        BY <1>1 DEF ProjectorType
      <4> QED BY <1>4, <3>1, <4>1, TakingTyped
    <3>3. /\ q.pc = "applying" /\ q.offset = p.target /\ q.row = r /\ q.target = r
          /\ q.fetched = p.fetched
      BY DEF Taking
    <3>4. InCall(q)
      BY <1>3, <1>4, <2>3, <3>1, <3>3 DEF InCall
    <3> QED BY <1>3, <1>4, <3>2, <3>3, <3>4 DEF Covers
  <2>4. CASE DropInCheckpoint(i)
    BY <2>2, <2>4 DEF DropInCheckpoint
  <2>5. CASE Checkpoint(i)
    <3>1. \/ \E r \in Rowids :
               /\ IsNextRow(p.fetched, p.row, r)
               /\ projector' = [projector EXCEPT ![i] =
                                  Taking(p.fetched, r, r, p.from, p.target)]
          \/ projector' = [projector EXCEPT ![i] = Ready(p.target)]
      BY <2>5 DEF Checkpoint
    <3> HIDE DEF Stands
    <3> QED BY <2>2, <2>3, <3>1
  <2> QED BY <2>4, <2>5
<1>6. /\ projector'[i] = q
      /\ projector' \in [Projectors -> ProjectorType]
      /\ \A j \in Projectors \ {i} : projector'[j] = projector[j]
  BY <1>5 DEF CoverInv
<1>7. Covers(projector[i])'
  BY <1>2, <1>5, <1>6 DEF Covers, InCall, Agrees, Covered, Present
<1>8. Covered(checkpoint)' /\ Covered(checkpoint)
  BY <1>2, <1>3 DEF CoverInv, Covered, Present
<1> QED BY <1>2, <1>4, <1>6, <1>7, <1>8, OneProjector

\* Every step keeps the invariant, with careful callers.
LEMMA NextCoverInv == CarefulCallers /\ CoverInv /\ [Next]_vars => CoverInv'
<1> SUFFICES ASSUME CarefulCallers, CoverInv, [Next]_vars PROVE CoverInv'
  OBVIOUS
<1>1. CASE UNCHANGED vars
  BY <1>1 DEF vars, CoverInv, Covers, InCall, Agrees, Covered, Present
<1>2. ASSUME NEW e \in Payloads, Publish(e) PROVE CoverInv'
  BY <1>2, PublishKeeps
<1>3. ASSUME NEW r \in Rowids, RemoveRow(r) PROVE CoverInv'
  BY <1>3, RemoveKeeps
<1>4. ASSUME NEW i \in Projectors,
             \/ New(i)
             \/ \E r \in Rowids : Apply(i, r)
             \/ \E from \in RebuildFrom \cup {projector[i].offset} : Rebuild(i, from)
             \/ Reject(i) \/ ApplyEvent(i) \/ Checkpoint(i)
             \/ DbError(i) \/ DropInCheckpoint(i) \/ DropCall(i) \/ Stop(i)
      PROVE  CoverInv'
  BY <1>4, RestKeeps, CallKeeps, ApplyEventKeeps, CheckpointKeeps
<1> QED BY <1>1, <1>2, <1>3, <1>4 DEF Next

\* With careful callers neither the stored checkpoint nor a cached offset ever
\* passes a row that has not been applied, for any number of projectors, rows,
\* deletions, calls and faults, unless its rowid was used before.
THEOREM CheckpointSafe ==
  ASSUME CarefulCallers
  PROVE  Spec => []CheckpointCovers
<1>1. CoverInv /\ [Next]_vars => CoverInv'
  BY NextCoverInv
<1> QED BY <1>1, InitCoverInv, CoverInvImplies, PTL DEF Spec
=============================================================================
