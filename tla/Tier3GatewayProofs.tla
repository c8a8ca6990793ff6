------------------------- MODULE Tier3GatewayProofs -------------------------
(***************************************************************************)
(* For every set of clients, actions, amounts and limits, every TTL and    *)
(* cap, and with the unlocked rebuilds racing or not: the state is         *)
(* well-typed, an action is handed to the agent at most once, and one that *)
(* was refused is never handed over.                                       *)
(***************************************************************************)
EXTENDS Tier3Gateway, FiniteSetTheorems, TLAPS

(* The writes handed to set_tier3_resolution. *)
Write == [action : Actions, client : Clients, status : Statuses, seq : Nat]

(* An entry of a map after a locked section that wrote `writes': one that  *)
(* was there, one it wrote, or one that prune_tier3_pending expired.       *)
WrittenRow(r, old, writes) ==
    \/ r \in old
    \/ \E w \in writes : w.action = r.action /\ w.status = r.status
    \/ r.status = "expired" /\ \E p \in Overdue : p.action = r.action

-----------------------------------------------------------------------------
(* Lemmas on the store's operators. *)

(* Keeping the newest rows per client only drops rows                      *)
(* (record_tier3_event and set_tier3_resolution, their caps).              *)
LEMMA NewestSubset ==
    ASSUME NEW rows, NEW max
    PROVE  NewestPerClient(rows, max) \subseteq rows
  BY DEF NewestPerClient

(* A settled outcome leaves rows rows (settle_tier3_event).                *)
LEMMA SetOutcomeType ==
    ASSUME NEW rows \in SUBSET Tier3Event, NEW seqs, NEW outcome \in Outcomes
    PROVE  SetOutcome(rows, seqs, outcome) \in SUBSET Tier3Event
  BY DEF SetOutcome, Tier3Event

(* The trail after record_tier3_event holds old and new rows only.         *)
LEMMA RecordType ==
    ASSUME NEW rows \in SUBSET Tier3Event, NEW new \in SUBSET Tier3Event, NEW t
    PROVE  record_tier3_event(rows, new, t) \in SUBSET Tier3Event
  BY NewestSubset DEF record_tier3_event, Recent

(* An entry changed in place gets the status of a write for its action, or *)
(* is left alone (set_tier3_resolution on an existing entry).              *)
LEMMA OverwriteRows ==
    ASSUME NEW rows \in SUBSET Tier3Resolution, NEW writes \in SUBSET Write, NEW t \in Nat,
           NEW r \in Overwrite(rows, writes, t)
    PROVE  /\ r \in Tier3Resolution
           /\ \/ r \in rows /\ \A w \in writes : w.action # r.action
              \/ \E w \in writes : w.action = r.action /\ w.status = r.status
<1>1. PICK s \in rows :
        r = IF \E w \in writes : w.action = s.action
              THEN [s EXCEPT !.status = (CHOOSE w \in writes : w.action = s.action).status,
                             !.updated = t]
              ELSE s
  BY DEF Overwrite
<1>2. s \in Tier3Resolution
  OBVIOUS
<1>3. CASE \E w \in writes : w.action = s.action
  <2> DEFINE v == CHOOSE w \in writes : w.action = s.action
  <2>1. v \in writes /\ v.action = s.action
    BY <1>3
  <2>2. r = [s EXCEPT !.status = v.status, !.updated = t]
    BY <1>1, <1>3
  <2> HIDE DEF v
  <2>3. v.status \in Statuses
    BY <2>1 DEF Write
  <2>4. r \in Tier3Resolution /\ r.action = s.action /\ r.status = v.status
    BY <1>2, <2>2, <2>3 DEF Tier3Resolution
  <2> QED
    BY <2>1, <2>4
<1>4. CASE ~ \E w \in writes : w.action = s.action
  BY <1>1, <1>2, <1>4
<1> QED
  BY <1>3, <1>4

(* Every entry of the map after set_tier3_resolution is an old entry no    *)
(* write names, or carries the status of a write for its action.           *)
LEMMA ResolutionRows ==
    ASSUME NEW rows \in SUBSET Tier3Resolution, NEW writes \in SUBSET Write, NEW t \in Nat,
           NEW r \in set_tier3_resolution(rows, writes, t)
    PROVE  /\ r \in Tier3Resolution
           /\ \/ r \in rows /\ \A w \in writes : w.action # r.action
              \/ \E w \in writes : w.action = r.action /\ w.status = r.status
<1> DEFINE created == Created(rows, writes, t)
           written == Overwrite(rows, writes, t)
<1>1. r \in written \/ r \in created
  BY NewestSubset DEF set_tier3_resolution, Unexpired
<1>2. CASE r \in written
  BY <1>2, OverwriteRows
<1>3. CASE r \in created
  <2>1. PICK w \in writes : r = [action |-> w.action, client |-> w.client, status |-> w.status,
                                 updated |-> t, seq |-> w.seq]
    BY <1>3 DEF Created
  <2> QED
    BY <2>1 DEF Write, Tier3Resolution
<1> QED
  BY <1>1, <1>2, <1>3

(* The entries of a settlement's own insertion (line 404, before the caps) *)
LEMMA InsertedRows ==
    ASSUME NEW rows \in SUBSET Tier3Resolution, NEW writes \in SUBSET Write, NEW t \in Nat,
           NEW r \in Unexpired(rows \cup Created(rows, writes, t), t)
    PROVE  /\ r \in Tier3Resolution
           /\ \/ r \in rows
              \/ \E w \in writes : w.action = r.action /\ w.status = r.status
<1>1. CASE r \in rows
  BY <1>1
<1>2. CASE r \in Created(rows, writes, t)
  <2>1. PICK w \in writes : r = [action |-> w.action, client |-> w.client, status |-> w.status,
                                 updated |-> t, seq |-> w.seq]
    BY <1>2 DEF Created
  <2> QED
    BY <2>1 DEF Write, Tier3Resolution
<1> QED
  BY <1>1, <1>2 DEF Unexpired
-----------------------------------------------------------------------------
(* Lemmas on a locked section. *)

(* The rows and writes that close a set of queue entries are well-typed    *)
(* (the loops of prune_tier3_pending and delete_tier3_grant).              *)
LEMMA ClosingType ==
    ASSUME TypeOK, IsFiniteSet(pending), NEW S \in SUBSET pending, NEW from \in Nat,
           NEW o \in {"rejected", "expired"}
    PROVE  /\ ClosingRows(S, from, o) \in SUBSET Tier3Event
           /\ ClosingWrites(S, from, o) \in SUBSET Write
           /\ \A w \in ClosingWrites(S, from, o) :
                 w.status = o /\ \E p \in S : w.action = p.action
<1>1. IsFiniteSet(S)
  BY FS_Subset
<1>2. \A p \in S : Rank(p, S) \in Nat
  <2> SUFFICES ASSUME NEW p \in S PROVE Rank(p, S) \in Nat
    OBVIOUS
  <2>1. IsFiniteSet({q \in S : q.seq <= p.seq})
    BY <1>1, FS_Subset
  <2> QED
    BY <2>1, FS_CardinalityType DEF Rank
<1>3. \A p \in S : p \in Tier3PendingAction
  BY DEF TypeOK
<1>4. \A p \in S : Event(from + Rank(p, S), p.client, p.amount, o, p.action) \in Tier3Event
  <2> SUFFICES ASSUME NEW p \in S
               PROVE  Event(from + Rank(p, S), p.client, p.amount, o, p.action) \in Tier3Event
    OBVIOUS
  <2>1. p.client \in Clients /\ p.amount \in Nat /\ p.action \in Actions
    BY <1>3, GatewayAssumption DEF Tier3PendingAction
  <2>2. from + Rank(p, S) \in Nat /\ now \in Nat /\ o \in Outcomes
    BY <1>2, GatewayAssumption DEF TypeOK, Outcomes
  <2> QED
    BY <2>1, <2>2 DEF Event, Tier3Event
<1>5. ClosingRows(S, from, o) \in SUBSET Tier3Event
  BY <1>4 DEF ClosingRows
<1>6. \A w \in ClosingWrites(S, from, o) : \E p \in S :
         w = [action |-> p.action, client |-> p.client, status |-> o, seq |-> from + Rank(p, S)]
  BY DEF ClosingWrites
<1>7. ClosingWrites(S, from, o) \in SUBSET Write
  <2> SUFFICES ASSUME NEW w \in ClosingWrites(S, from, o) PROVE w \in Write
    OBVIOUS
  <2>1. PICK p \in S :
          w = [action |-> p.action, client |-> p.client, status |-> o, seq |-> from + Rank(p, S)]
    BY <1>6
  <2>2. p.client \in Clients /\ p.action \in Actions
    BY <1>3 DEF Tier3PendingAction
  <2>3. from + Rank(p, S) \in Nat /\ o \in Statuses
    BY <1>2 DEF Statuses
  <2> QED
    BY <2>1, <2>2, <2>3 DEF Write
<1>9. \A w \in ClosingWrites(S, from, o) :
         w.status = o /\ \E p \in S : w.action = p.action
  BY <1>6
<1> QED
  BY <1>5, <1>7, <1>9

(* The queue stays finite and numbered: what prune_tier3_pending leaves.   *)
LEMMA SweepType ==
    ASSUME TypeOK, IsFiniteSet(pending)
    PROVE  /\ AfterSweep \in Nat
           /\ Live \in SUBSET Tier3PendingAction
           /\ IsFiniteSet(Live)
           /\ \A S \in SUBSET pending : IsFiniteSet(S) /\ Cardinality(S) \in Nat
<1>1. \A S \in SUBSET pending : IsFiniteSet(S) /\ Cardinality(S) \in Nat
  BY FS_Subset, FS_CardinalityType
<1>2. Overdue \in SUBSET pending /\ Live \in SUBSET pending
  BY DEF Overdue, Live
<1>3. serial \in Nat /\ pending \in SUBSET Tier3PendingAction
  BY DEF TypeOK
<1> QED
  BY <1>1, <1>2, <1>3 DEF AfterSweep

(* A locked section keeps the store well-typed, and every entry of the     *)
(* resolution map, or of a map about to replace it, is an old one or one   *)
(* the section wrote.                                                      *)
LEMMA CommitStep ==
    ASSUME TypeOK, IsFiniteSet(pending), NEW rows \in SUBSET Tier3Event,
           NEW writes \in SUBSET Write, NEW last \in Nat,
           NEW polled, Commit(rows, writes, last, polled)
    PROVE  /\ trail' \in SUBSET Tier3Event
           /\ serial' \in Nat
           /\ resolutions' \in SUBSET Tier3Resolution
           /\ keptMap' \in [Actions -> SUBSET Tier3Resolution]
           /\ \A r \in resolutions' : WrittenRow(r, resolutions, writes)
           /\ \A b \in Actions : \A r \in keptMap'[b] : WrittenRow(r, keptMap[b], writes)
<1> DEFINE expired == ClosingWrites(Overdue, serial, "expired")
           all == expired \cup writes
           inPlace == {w \in all : Known(resolutions, w.action)}
<1>1. /\ serial \in Nat /\ Overdue \in SUBSET pending /\ now \in Nat
      /\ resolutions \in SUBSET Tier3Resolution /\ trail \in SUBSET Tier3Event
      /\ keptMap \in [Actions -> SUBSET Tier3Resolution]
  BY GatewayAssumption DEF TypeOK, Overdue
<1>2. /\ ClosingRows(Overdue, serial, "expired") \in SUBSET Tier3Event
      /\ expired \in SUBSET Write
      /\ \A w \in expired : w.status = "expired" /\ \E p \in Overdue : w.action = p.action
  BY <1>1, ClosingType
<1>3. all \in SUBSET Write /\ inPlace \in SUBSET Write
  BY <1>2
<1>4. trail' \in SUBSET Tier3Event
  <2>1. trail' = record_tier3_event(trail, ClosingRows(Overdue, serial, "expired") \cup rows, now)
    BY DEF Commit
  <2>2. ClosingRows(Overdue, serial, "expired") \cup rows \in SUBSET Tier3Event
    BY <1>2
  <2> QED
    BY <1>1, <2>1, <2>2, RecordType
<1>5. resolutions' \subseteq set_tier3_resolution(resolutions, all, now)
  BY DEF Commit
<1>6. keptMap' = [b \in Actions |-> Overwrite(keptMap[b], inPlace, now)]
  BY DEF Commit
<1> HIDE DEF inPlace
<1>7. \A r \in resolutions' : r \in Tier3Resolution /\
         (\/ r \in resolutions
          \/ \E w \in all : w.action = r.action /\ w.status = r.status)
  BY <1>1, <1>3, <1>5, ResolutionRows
<1>8. \A b \in Actions : \A r \in keptMap'[b] : r \in Tier3Resolution /\
         (\/ r \in keptMap[b]
          \/ \E w \in inPlace : w.action = r.action /\ w.status = r.status)
  <2> SUFFICES ASSUME NEW b \in Actions, NEW r \in Overwrite(keptMap[b], inPlace, now)
               PROVE  r \in Tier3Resolution /\
                        (\/ r \in keptMap[b]
                         \/ \E w \in inPlace : w.action = r.action /\ w.status = r.status)
    BY <1>6
  <2>1. keptMap[b] \in SUBSET Tier3Resolution
    BY <1>1
  <2> QED
    BY <1>1, <1>3, <2>1, OverwriteRows
<1>9. \A w \in inPlace : w \in all
  BY DEF inPlace
<1>10. serial' = last
  BY DEF Commit
<1>11. \A w \in all : w \in writes \/ (w.status = "expired" /\ \E p \in Overdue : w.action = p.action)
  BY <1>2
<1> HIDE DEF all, expired
<1>12. resolutions' \in SUBSET Tier3Resolution
  BY <1>7
<1>13. keptMap' \in [Actions -> SUBSET Tier3Resolution]
  BY <1>6, <1>8
<1> QED
  BY <1>4, <1>7, <1>8, <1>9, <1>10, <1>11, <1>12, <1>13 DEF WrittenRow
(* A locked section keeps every resolution true, provided it hands over    *)
(* only what was waiting and what it writes is true itself.                *)
LEMMA RowsStep ==
    ASSUME AuthorityInv, NEW rows \in SUBSET Tier3Event,
           NEW writes \in SUBSET Write, NEW last \in Nat,
           NEW polled, Commit(rows, writes, last, polled),
           \A a \in Actions : req[a] \in Started => req'[a] \in Started,
           \A a \in Actions : hand'[a] = hand[a] \/ \E p \in Live : p.action = a,
           \A p \in pending' : p \in Live \/ req[p.action] \notin Started,
           \A w \in writes :
              /\ req'[w.action] \in Started
              /\ w.status \in {"rejected", "expired"} => hand'[w.action] = "none"
              /\ \A p \in pending' : p.action = w.action => w.status = "queued"
    PROVE  RowsAreTrue'
<1>1. TypeOK /\ IsFiniteSet(pending) /\ PendingIsFree /\ RowsAreTrue
  BY DEF AuthorityInv
<1>2. Live \in SUBSET pending /\ Overdue \in SUBSET pending /\ Live \cap Overdue = {}
  BY DEF Live, Overdue
<1>3. /\ resolutions' \in SUBSET Tier3Resolution
      /\ keptMap' \in [Actions -> SUBSET Tier3Resolution]
      /\ \A r \in resolutions' : WrittenRow(r, resolutions, writes)
      /\ \A b \in Actions : \A r \in keptMap'[b] : WrittenRow(r, keptMap[b], writes)
  BY <1>1, CommitStep
<1>4. \A r \in Tier3Resolution : RowIsTrue(r) => RowIsTrue(r)'
  <2> SUFFICES ASSUME NEW r \in Tier3Resolution, RowIsTrue(r) PROVE RowIsTrue(r)'
    OBVIOUS
  <2>1. r.action \in Actions
    BY DEF Tier3Resolution
  <2>2. req'[r.action] \in Started
    BY <2>1 DEF RowIsTrue
  <2>3. r.status \in {"rejected", "expired"} => hand'[r.action] = "none"
    BY <1>2, <2>1 DEF RowIsTrue
  <2>4. \A p \in pending' : p.action = r.action => r.status = "queued"
    BY <1>2 DEF RowIsTrue
  <2> QED
    BY <2>2, <2>3, <2>4 DEF RowIsTrue, Started
<1>5. ASSUME NEW r \in Tier3Resolution, NEW w \in writes, w.action = r.action, w.status = r.status
      PROVE  RowIsTrue(r)'
  <2>1. /\ req'[r.action] \in Started
        /\ r.status \in {"rejected", "expired"} => hand'[r.action] = "none"
        /\ \A p \in pending' : p.action = r.action => r.status = "queued"
    BY <1>5
  <2> QED
    BY <2>1 DEF RowIsTrue, Started
<1>6. ASSUME NEW r \in Tier3Resolution, r.status = "expired",
             NEW p \in Overdue, p.action = r.action
      PROVE  RowIsTrue(r)'
  <2>1. r.action \in Actions
    BY DEF Tier3Resolution
  <2>2. p \in pending /\ p \notin Live
    BY <1>2
  <2>3. req[r.action] \in Started /\ hand[r.action] = "none"
    BY <1>1, <1>6, <2>2 DEF PendingIsFree
  <2>4. \A q \in Live : q.action # r.action
    BY <1>1, <1>2, <1>6, <2>2 DEF PendingIsFree
  <2>5. req'[r.action] \in Started /\ hand'[r.action] = "none"
    BY <2>1, <2>3, <2>4
  <2>6. \A q \in pending' : q.action # r.action
    BY <2>3, <2>4
  <2> QED
    BY <2>5, <2>6 DEF RowIsTrue, Started
<1>7. \A r \in resolutions' : RowIsTrue(r)'
  <2> SUFFICES ASSUME NEW r \in resolutions' PROVE RowIsTrue(r)'
    OBVIOUS
  <2>1. r \in Tier3Resolution
    BY <1>3
  <2>2. WrittenRow(r, resolutions, writes)
    BY <1>3
  <2>3. r \in resolutions => RowIsTrue(r)
    BY <1>1 DEF RowsAreTrue
  <2> QED
    BY <1>4, <1>5, <1>6, <2>1, <2>2, <2>3 DEF WrittenRow
<1>8. \A b \in Actions : \A r \in keptMap'[b] : RowIsTrue(r)'
  <2> SUFFICES ASSUME NEW b \in Actions, NEW r \in keptMap'[b] PROVE RowIsTrue(r)'
    OBVIOUS
  <2>1. r \in Tier3Resolution
    BY <1>3
  <2>2. WrittenRow(r, keptMap[b], writes)
    BY <1>3
  <2>3. r \in keptMap[b] => RowIsTrue(r)
    BY <1>1 DEF RowsAreTrue
  <2> QED
    BY <1>4, <1>5, <1>6, <2>1, <2>2, <2>3 DEF WrittenRow
<1> QED
  BY <1>7, <1>8 DEF RowsAreTrue
(* A step outside the lock that changes neither the queue nor a map keeps  *)
(* both true, if it hands over nothing that is queued or resolved.         *)
LEMMA FrameStep ==
    ASSUME AuthorityInv, UNCHANGED <<pending, resolutions, keptMap>>,
           \A a \in Actions : req[a] \in Started => req'[a] \in Started,
           \A a \in Actions : req[a] \in Started /\ hand[a] = "none" => hand'[a] = "none"
    PROVE  PendingIsFree' /\ RowsAreTrue' /\ IsFiniteSet(pending')
<1>1. /\ TypeOK /\ IsFiniteSet(pending) /\ PendingIsFree /\ RowsAreTrue
  BY DEF AuthorityInv
<1>2. /\ \A p \in pending : p.action \in Actions
      /\ \A r \in resolutions : r.action \in Actions
      /\ \A b \in Actions : \A r \in keptMap[b] : r.action \in Actions
  BY <1>1 DEF TypeOK, Tier3PendingAction, Tier3Resolution
<1>3. PendingIsFree'
  BY <1>1, <1>2 DEF PendingIsFree, Started
<1>4. \A r : r.action \in Actions /\ RowIsTrue(r) => RowIsTrue(r)'
  BY DEF RowIsTrue, Started
<1>5. RowsAreTrue'
  BY <1>1, <1>2, <1>4 DEF RowsAreTrue
<1> QED
  BY <1>1, <1>3, <1>5

(* A refusal recorded outside the lock keeps the trail, and the list about *)
(* to replace it, well-typed (record_tier3_event).                         *)
LEMMA RecordUnlockedType ==
    ASSUME TypeOK, NEW t \in Threads, NEW row \in Tier3Event, RecordUnlocked(t, row)
    PROVE  /\ trail' \in SUBSET Tier3Event
           /\ serial' \in Nat
           /\ kept' \in [Threads -> SUBSET Tier3Event]
           /\ rebuilding' \in SUBSET Threads
<1> DEFINE appended == Recent(trail \cup {row}, now)
           capped == NewestPerClient(appended, AuditMax)
<1>1. appended \in SUBSET Tier3Event /\ capped \in SUBSET Tier3Event
  BY NewestSubset DEF Recent, TypeOK
<1> HIDE DEF capped
<1>2. serial' = serial + 1 /\ (trail' = appended \/ trail' = capped)
  BY DEF RecordUnlocked, capped
<1>3. \/ kept' = kept /\ rebuilding' = rebuilding
      \/ kept' = [kept EXCEPT ![t] = capped] /\ rebuilding' = rebuilding \cup {t}
  BY DEF RecordUnlocked, capped
<1> QED
  BY <1>1, <1>2, <1>3 DEF TypeOK

(* A refused request leaves every action where it is.                      *)
LEMMA RefusalStep ==
    ASSUME AuthorityInv, NEW t \in Threads, NEW row \in Tier3Event, RecordUnlocked(t, row),
           req[t] \notin Started, req' = [req EXCEPT ![t] = "refused"],
           UNCHANGED <<now, grants, pending, resolutions, order, hand, result, handoffs, keptMap>>
    PROVE  AuthorityInv'
<1>1. TypeOK /\ HandoffCounted /\ UnstartedIsFree /\ OrderIsKnown
  BY DEF AuthorityInv
<1>2. TypeOK'
  BY <1>1, RecordUnlockedType DEF TypeOK, ReqStates
<1>3. \A a \in Actions : req[a] \in Started => req'[a] \in Started
  BY <1>1 DEF TypeOK, Threads
<1>4. PendingIsFree' /\ RowsAreTrue' /\ IsFiniteSet(pending')
  BY <1>3, FrameStep
<1>5. HandoffCounted'
  BY <1>1 DEF HandoffCounted
<1>6. UnstartedIsFree'
  BY <1>1, <1>3 DEF UnstartedIsFree, Started
<1>20. OrderIsKnown'
  BY <1>1 DEF OrderIsKnown, Placed, Started, TypeOK, Threads
<1> QED
  BY <1>2, <1>4, <1>5, <1>6, <1>20 DEF AuthorityInv

(* A request refused before its client id is known keeps the invariant     *)
(* (create_tier3_order, the 401s).                                         *)
LEMMA RefuseStrangerStep ==
    ASSUME AuthorityInv, NEW s \in Strangers, RefuseStranger(s)
    PROVE  AuthorityInv'
<1>1. PICK amount \in Amounts : RecordUnlocked(s, Event(serial + 1, Unknown, amount, "rejected", NoAction))
  BY DEF RefuseStranger
<1>2. Event(serial + 1, Unknown, amount, "rejected", NoAction) \in Tier3Event
  BY GatewayAssumption DEF Event, Tier3Event, Outcomes, AuthorityInv, TypeOK
<1>3. s \in Threads /\ req[s] \notin Started
  BY DEF RefuseStranger, Threads, Started
<1> QED
  BY <1>1, <1>2, <1>3, RefusalStep DEF RefuseStranger

(* A request of a client without a mandate keeps it (the 403).             *)
LEMMA RefuseNoGrantStep ==
    ASSUME AuthorityInv, NEW a \in Actions, NEW c \in Clients, NEW amount \in Amounts,
           RefuseNoGrant(a, c, amount)
    PROVE  AuthorityInv'
<1>1. Event(serial + 1, c, amount, "rejected", NoAction) \in Tier3Event
  BY GatewayAssumption DEF Event, Tier3Event, Outcomes, AuthorityInv, TypeOK
<1>2. a \in Threads /\ req[a] \notin Started
  BY DEF RefuseNoGrant, Threads, Started
<1> QED
  BY <1>1, <1>2, RefusalStep DEF RefuseNoGrant

(* The refusal recorded after the full queue was found keeps it (the 429). *)
LEMMA RefuseQueueFullStep ==
    ASSUME AuthorityInv, NEW a \in Actions, RefuseQueueFull(a)
    PROVE  AuthorityInv'
<1>1. Event(serial + 1, order[a].client, order[a].amount, "rejected", a) \in Tier3Event
  BY GatewayAssumption DEF Event, Tier3Event, Order, Outcomes, AuthorityInv, TypeOK
<1>2. a \in Threads /\ req[a] \notin Started
  BY DEF RefuseQueueFull, Threads, Started
<1> QED
  BY <1>1, <1>2, RefusalStep DEF RefuseQueueFull
-----------------------------------------------------------------------------
(* One lemma per action: it preserves the invariant. *)

(* Time passing keeps it.                                                  *)
LEMMA TickStep ==
    ASSUME AuthorityInv, Tick
    PROVE  AuthorityInv'
<1>1. TypeOK /\ HandoffCounted /\ UnstartedIsFree /\ OrderIsKnown
  BY DEF AuthorityInv
<1>2. /\ UNCHANGED <<serial, grants, trail, pending, resolutions, order, req, hand, result,
                     handoffs, rebuilding, kept, keptMap>>
      /\ now < MaxTime /\ now' = now + 1
  BY DEF Tick, store, threads, locals
<1>3. TypeOK'
  BY <1>1, <1>2, GatewayAssumption DEF TypeOK
<1>4. PendingIsFree' /\ RowsAreTrue' /\ IsFiniteSet(pending')
  BY <1>2, FrameStep
<1>5. HandoffCounted' /\ UnstartedIsFree'
  BY <1>1, <1>2 DEF HandoffCounted, UnstartedIsFree
<1>20. OrderIsKnown'
  BY <1>1, <1>2 DEF OrderIsKnown, Placed, Started
<1> QED
  BY <1>3, <1>4, <1>5, <1>20 DEF AuthorityInv

(* A step that changes nothing keeps it.                                   *)
LEMMA StutterStep ==
    ASSUME AuthorityInv, UNCHANGED vars
    PROVE  AuthorityInv'
<1>1. TypeOK /\ HandoffCounted /\ UnstartedIsFree /\ OrderIsKnown
  BY DEF AuthorityInv
<1>2. UNCHANGED <<now, serial, grants, trail, pending, resolutions, order, req, hand, result,
                  handoffs, rebuilding, kept, keptMap>>
  BY DEF vars, store, threads, locals
<1>3. TypeOK'
  BY <1>1, <1>2 DEF TypeOK
<1>4. PendingIsFree' /\ RowsAreTrue' /\ IsFiniteSet(pending')
  BY <1>2, FrameStep
<1>5. HandoffCounted' /\ UnstartedIsFree'
  BY <1>1, <1>2 DEF HandoffCounted, UnstartedIsFree
<1>20. OrderIsKnown'
  BY <1>1, <1>2 DEF OrderIsKnown, Placed, Started
<1> QED
  BY <1>3, <1>4, <1>5, <1>20 DEF AuthorityInv

(* The last assignment of record_tier3_event keeps it, whatever the trail  *)
(* has become since the list was computed.                                 *)
LEMMA AssignTrailStep ==
    ASSUME AuthorityInv, NEW t \in Threads, AssignTrail(t)
    PROVE  AuthorityInv'
<1>1. TypeOK /\ HandoffCounted /\ UnstartedIsFree /\ OrderIsKnown
  BY DEF AuthorityInv
<1>2. /\ trail' = kept[t] /\ kept' = [kept EXCEPT ![t] = {}] /\ rebuilding' = rebuilding \ {t}
      /\ UNCHANGED <<now, serial, grants, pending, resolutions, order, req, hand, result, handoffs, keptMap>>
  BY DEF AssignTrail
<1>3. TypeOK'
  BY <1>1, <1>2 DEF TypeOK
<1>4. PendingIsFree' /\ RowsAreTrue' /\ IsFiniteSet(pending')
  BY <1>2, FrameStep
<1>5. HandoffCounted' /\ UnstartedIsFree'
  BY <1>1, <1>2 DEF HandoffCounted, UnstartedIsFree
<1>20. OrderIsKnown'
  BY <1>1, <1>2 DEF OrderIsKnown, Placed, Started
<1> QED
  BY <1>3, <1>4, <1>5, <1>20 DEF AuthorityInv

(* Reading the limit keeps it: from here on the order is known.            *)
LEMMA ReadLimitStep ==
    ASSUME AuthorityInv, NEW a \in Actions, NEW c \in Clients, NEW amount \in Amounts,
           ReadLimit(a, c, amount)
    PROVE  AuthorityInv'
<1>1. TypeOK /\ HandoffCounted /\ UnstartedIsFree /\ OrderIsKnown
  BY DEF AuthorityInv
<1>2. /\ req[a] = "idle" /\ req' = [req EXCEPT ![a] = "limitRead"]
      /\ UNCHANGED <<now, serial, grants, trail, pending, resolutions, hand, result, handoffs,
                     rebuilding, kept, keptMap>>
  BY DEF ReadLimit, store
<1>3. order' \in [Actions -> Order]
  BY <1>1, GatewayAssumption DEF ReadLimit, TypeOK, Order, NoOrder
<1>4. TypeOK'
  BY <1>1, <1>2, <1>3 DEF TypeOK, ReqStates
<1>5. \A b \in Actions : req'[b] = req[b] \/ (b = a /\ req'[b] = "limitRead")
  BY <1>1, <1>2 DEF TypeOK, Threads
<1>6. PendingIsFree' /\ RowsAreTrue' /\ IsFiniteSet(pending')
  BY <1>2, <1>5, FrameStep DEF Started
<1>7. HandoffCounted' /\ UnstartedIsFree'
  BY <1>1, <1>2, <1>5 DEF HandoffCounted, UnstartedIsFree, Started
<1>20. OrderIsKnown'
  <2>1. \A b \in Actions : b # a => order'[b] = order[b]
    BY <1>1 DEF ReadLimit, TypeOK
  <2>2. order'[a].client = c /\ order'[a].amount = amount
    BY <1>1 DEF ReadLimit, TypeOK, NoOrder
  <2> QED
    BY <1>1, <1>5, <2>1, <2>2 DEF OrderIsKnown, Placed, Started
<1> QED
  BY <1>4, <1>6, <1>7, <1>20 DEF AuthorityInv

(* Reserve and the answers: an action that was never started, or that is   *)
(* already started, moves on.                                              *)
LEMMA ReserveStep ==
    ASSUME AuthorityInv, NEW a \in Actions, Reserve(a)
    PROVE  AuthorityInv'
<1>1. TypeOK /\ HandoffCounted /\ UnstartedIsFree /\ OrderIsKnown
  BY DEF AuthorityInv
<1>2. /\ req[a] = "limitRead" /\ req' = [req EXCEPT ![a] = "handedOff"]
      /\ hand' = [hand EXCEPT ![a] = "due"]
      /\ serial' = serial + 1
      /\ UNCHANGED <<now, grants, pending, resolutions, result, handoffs, rebuilding, kept, keptMap>>
  BY DEF Reserve, StartHandoff
<1>11. /\ order' = [order EXCEPT ![a].limit = order[a].limit, ![a].at = now]
       /\ trail' = record_tier3_event(trail,
                     {Event(serial + 1, order[a].client, order[a].amount, "accepted", a)}, now)
  BY DEF Reserve, StartHandoff
<1>3. Event(serial + 1, order[a].client, order[a].amount, "accepted", a) \in Tier3Event
  BY <1>1, GatewayAssumption DEF Event, Tier3Event, Order, Outcomes, TypeOK
<1>4. trail' \in SUBSET Tier3Event
  BY <1>1, <1>3, <1>11, RecordType DEF TypeOK
<1>5. order' \in [Actions -> Order]
  <2>1. order[a] \in Order /\ now \in Nat
    BY <1>1, GatewayAssumption DEF TypeOK
  <2>2. [order[a] EXCEPT !.limit = order[a].limit, !.at = now] \in Order
    BY <2>1 DEF Order
  <2>3. order' = [order EXCEPT ![a] = [order[a] EXCEPT !.limit = order[a].limit, !.at = now]]
    BY <1>1, <1>11 DEF TypeOK
  <2> QED
    BY <1>1, <2>2, <2>3 DEF TypeOK
<1>12. req' \in [Threads -> ReqStates] /\ hand' \in [Actions -> HandStates] /\ serial' \in Nat
  <2>1. req \in [Threads -> ReqStates] /\ hand \in [Actions -> HandStates] /\ serial \in Nat
    BY <1>1 DEF TypeOK
  <2>2. "handedOff" \in ReqStates /\ "due" \in HandStates
    BY DEF ReqStates, HandStates
  <2>3. req' \in [Threads -> ReqStates]
    BY <1>2, <2>1, <2>2
  <2>4. hand' \in [Actions -> HandStates]
    BY <1>2, <2>1, <2>2
  <2>5. serial' \in Nat
    BY <1>2, <2>1
  <2> QED
    BY <2>3, <2>4, <2>5
<1>6. TypeOK'
  BY <1>1, <1>2, <1>4, <1>5, <1>12 DEF TypeOK
<1>7. /\ hand[a] = "none" /\ hand'[a] = "due" /\ req'[a] = "handedOff"
      /\ \A b \in Actions \ {a} : hand'[b] = hand[b] /\ req'[b] = req[b]
  BY <1>1, <1>2 DEF TypeOK, Threads, UnstartedIsFree, Started
<1>8. PendingIsFree' /\ RowsAreTrue' /\ IsFiniteSet(pending')
  BY <1>2, <1>7, FrameStep DEF Started
<1>9. HandoffCounted'
  BY <1>1, <1>2, <1>7 DEF HandoffCounted
<1>10. UnstartedIsFree'
  BY <1>1, <1>2, <1>7 DEF UnstartedIsFree, Started
<1>20. OrderIsKnown'
  <2>1. \A b \in Actions : order'[b].client = order[b].client /\ order'[b].amount = order[b].amount
    BY <1>1, <1>11 DEF TypeOK, Order
  <2> QED
    BY <1>1, <1>2, <1>7, <2>1 DEF OrderIsKnown, Placed, Started
<1> QED
  BY <1>6, <1>8, <1>9, <1>10, <1>20 DEF AuthorityInv

(* The 202, or the KeyError in its place, keeps it.                        *)
LEMMA AnswerQueuedStep ==
    ASSUME AuthorityInv, NEW a \in Actions, AnswerQueued(a) \/ AnswerHandedOff(a)
    PROVE  AuthorityInv'
<1>1. TypeOK /\ HandoffCounted /\ UnstartedIsFree /\ OrderIsKnown
  BY DEF AuthorityInv
<1>2. /\ req[a] \in Started
      /\ UNCHANGED <<now, serial, grants, trail, pending, resolutions, order, hand, result,
                     handoffs, rebuilding, kept, keptMap>>
  BY DEF AnswerQueued, AnswerHandedOff, store, Started
<1>3. PICK answer \in {"answered", "error"} : req' = [req EXCEPT ![a] = answer]
  BY DEF AnswerQueued, AnswerHandedOff
<1>4. \A b \in Actions : req'[b] = req[b] \/ (b = a /\ req'[b] \in {"answered", "error"})
  BY <1>1, <1>3 DEF TypeOK, Threads
<1>7. TypeOK'
  BY <1>1, <1>2, <1>3 DEF TypeOK, ReqStates
<1>5. PendingIsFree' /\ RowsAreTrue' /\ IsFiniteSet(pending')
  BY <1>2, <1>4, FrameStep DEF Started
<1>6. HandoffCounted' /\ UnstartedIsFree'
  BY <1>1, <1>2, <1>4 DEF HandoffCounted, UnstartedIsFree, Started
<1>20. OrderIsKnown'
  BY <1>1, <1>2, <1>4 DEF OrderIsKnown, Placed, Started
<1> QED
  BY <1>5, <1>6, <1>7, <1>20 DEF AuthorityInv
-----------------------------------------------------------------------------
(* The locked sections. *)

(* Type correctness after a locked section, from the parts it touches.     *)
LEMMA LockedType ==
    ASSUME TypeOK, IsFiniteSet(pending), NEW rows \in SUBSET Tier3Event,
           NEW writes \in SUBSET Write, NEW last \in Nat,
           NEW polled, Commit(rows, writes, last, polled),
           UNCHANGED <<now, result, handoffs, rebuilding, kept>>,
           grants' \in [Clients -> Limits \cup {NoGrant}],
           order' \in [Actions -> Order],
           req' \in [Threads -> ReqStates],
           hand' \in [Actions -> HandStates],
           pending' \in SUBSET Tier3PendingAction
    PROVE  TypeOK'
<1>1. /\ trail' \in SUBSET Tier3Event
      /\ serial' \in Nat
      /\ resolutions' \in SUBSET Tier3Resolution
      /\ keptMap' \in [Actions -> SUBSET Tier3Resolution]
  BY CommitStep
<1> QED
  BY <1>1 DEF TypeOK

(* A locked section that only takes entries off the queue, and refuses     *)
(* those it takes off: prune, delete_grant, reject, a refused approval.    *)
LEMMA RefusingStep ==
    ASSUME AuthorityInv, NEW rows \in SUBSET Tier3Event,
           NEW writes \in SUBSET Write, NEW last \in Nat,
           NEW polled, Commit(rows, writes, last, polled),
           UNCHANGED <<now, order, hand, result, handoffs, rebuilding, kept>>,
           grants' \in [Clients -> Limits \cup {NoGrant}],
           req' \in [Threads -> ReqStates],
           \A a \in Actions : req[a] \in Started <=> req'[a] \in Started,
           \A a \in Actions : req[a] \in Placed <=> req'[a] \in Placed,
           pending' \subseteq Live,
           \A w \in writes : \E p \in Live : p.action = w.action /\ p \notin pending'
    PROVE  AuthorityInv'
<1>1. TypeOK /\ IsFiniteSet(pending) /\ HandoffCounted /\ UnstartedIsFree /\ OrderIsKnown /\ PendingIsFree
  BY DEF AuthorityInv
<1>2. Live \subseteq pending /\ IsFiniteSet(pending')
  BY <1>1, FS_Subset DEF Live
<1>3. \A p \in pending : p.action \in Actions
  BY <1>1 DEF TypeOK, Tier3PendingAction
<1>4. TypeOK'
  <2>1. order' \in [Actions -> Order] /\ hand' \in [Actions -> HandStates]
        /\ pending' \in SUBSET Tier3PendingAction
    BY <1>1, <1>2 DEF TypeOK
  <2> QED
    BY <1>1, <2>1, LockedType
<1>5. \A w \in writes :
         /\ req'[w.action] \in Started
         /\ w.status \in {"rejected", "expired"} => hand'[w.action] = "none"
         /\ \A p \in pending' : p.action = w.action => w.status = "queued"
  <2> SUFFICES ASSUME NEW w \in writes
               PROVE  /\ req'[w.action] \in Started
                      /\ hand'[w.action] = "none"
                      /\ \A p \in pending' : p.action # w.action
    OBVIOUS
  <2>1. PICK p \in Live : p.action = w.action /\ p \notin pending'
    OBVIOUS
  <2>2. req[p.action] \in Started /\ hand[p.action] = "none"
    BY <1>1, <1>2 DEF PendingIsFree
  <2>3. \A q \in pending' : q.action # p.action
    BY <1>1, <1>2, <2>1 DEF PendingIsFree
  <2> QED
    BY <1>2, <1>3, <2>1, <2>2, <2>3
<1>6. \A a \in Actions : req[a] \in Started => req'[a] \in Started
  OBVIOUS
<1>7. \A a \in Actions : hand'[a] = hand[a] \/ \E p \in Live : p.action = a
  OBVIOUS
<1>8. \A p \in pending' : p \in Live \/ req[p.action] \notin Started
  OBVIOUS
<1>9. RowsAreTrue'
  BY <1>5, <1>6, <1>7, <1>8, RowsStep
<1>10. PendingIsFree'
  BY <1>1, <1>2, <1>3 DEF PendingIsFree, Started
<1>11. HandoffCounted' /\ UnstartedIsFree'
  BY <1>1 DEF HandoffCounted, UnstartedIsFree, Started
<1>20. OrderIsKnown'
  BY <1>1 DEF OrderIsKnown, Placed, Started
<1> QED
  BY <1>2, <1>4, <1>9, <1>10, <1>11, <1>20 DEF AuthorityInv

(* list_tier3_approvals keeps it: it only expires entries.                 *)
LEMMA SweepStep ==
    ASSUME AuthorityInv, Sweep \/ \E a \in Actions : Poll(a)
    PROVE  AuthorityInv'
<1>1. TypeOK /\ IsFiniteSet(pending)
  BY DEF AuthorityInv
<1>2. PICK polled \in SUBSET Actions :
        /\ Commit({}, {}, AfterSweep, polled) /\ pending' = Live
        /\ UNCHANGED <<now, grants, order, req, hand, result, handoffs, rebuilding, kept>>
  <2>1. CASE Sweep
    <3>1. {} \in SUBSET Actions
      OBVIOUS
    <3> QED
      BY <2>1, <3>1 DEF Sweep, locals
  <2>2. CASE \E a \in Actions : Poll(a)
    <3>1. PICK a \in Actions : Poll(a)
      BY <2>2
    <3>2. {a} \in SUBSET Actions
      OBVIOUS
    <3> QED
      BY <3>1, <3>2 DEF Poll, locals
  <2> QED
    BY <2>1, <2>2
<1>3. AfterSweep \in Nat
  BY <1>1, SweepType
<1>4. grants' \in [Clients -> Limits \cup {NoGrant}] /\ req' \in [Threads -> ReqStates]
  BY <1>1, <1>2 DEF TypeOK
<1> QED
  BY <1>2, <1>3, <1>4, RefusingStep

(* The locked section that finds no free slot keeps it.                    *)
LEMMA FindQueueFullStep ==
    ASSUME AuthorityInv, NEW a \in Actions, FindQueueFull(a)
    PROVE  AuthorityInv'
<1>1. TypeOK /\ IsFiniteSet(pending)
  BY DEF AuthorityInv
<1>2. /\ Commit({}, {}, AfterSweep, {}) /\ pending' = Live
      /\ req[a] = "limitRead" /\ req' = [req EXCEPT ![a] = "full"]
      /\ UNCHANGED <<now, grants, order, hand, result, handoffs, rebuilding, kept>>
  BY DEF FindQueueFull
<1>3. AfterSweep \in Nat
  BY <1>1, SweepType
<1>4. grants' \in [Clients -> Limits \cup {NoGrant}]
  BY <1>1, <1>2 DEF TypeOK
<1>5. req' \in [Threads -> ReqStates]
  BY <1>1, <1>2 DEF TypeOK, ReqStates
<1>6. \A b \in Actions : req[b] \in Started <=> req'[b] \in Started
  BY <1>1, <1>2 DEF TypeOK, Threads, Started
<1>7. \A b \in Actions : req[b] \in Placed <=> req'[b] \in Placed
  BY <1>1, <1>2 DEF TypeOK, Threads, Started, Placed
<1> QED
  BY <1>2, <1>3, <1>4, <1>5, <1>6, <1>7, RefusingStep

(* delete_tier3_grant keeps it: it refuses the client's whole queue.       *)
LEMMA DeleteGrantStep ==
    ASSUME AuthorityInv, NEW c \in Clients, DeleteGrant(c)
    PROVE  AuthorityInv'
<1> DEFINE purged == {p \in Live : p.client = c}
           rows == ClosingRows(purged, AfterSweep, "rejected")
           writes == ClosingWrites(purged, AfterSweep, "rejected")
           last == AfterSweep + Cardinality(purged)
<1>1. TypeOK /\ IsFiniteSet(pending)
  BY DEF AuthorityInv
<1>2. /\ Commit(rows, writes, last, {}) /\ pending' = Live \ purged
      /\ grants' = [grants EXCEPT ![c] = NoGrant]
      /\ UNCHANGED <<now, order, req, hand, result, handoffs, rebuilding, kept>>
  BY DEF DeleteGrant, locals
<1>3. purged \in SUBSET pending
  BY DEF Live
<1>4. last \in Nat /\ AfterSweep \in Nat
  BY <1>1, <1>3, SweepType
<1>5. /\ rows \in SUBSET Tier3Event /\ writes \in SUBSET Write
      /\ \A w \in writes : \E p \in purged : w.action = p.action
  BY <1>1, <1>3, <1>4, ClosingType
<1>6. grants' \in [Clients -> Limits \cup {NoGrant}] /\ req' \in [Threads -> ReqStates]
  BY <1>1, <1>2 DEF TypeOK
<1>7. \A w \in writes : \E p \in Live : p.action = w.action /\ p \notin pending'
  BY <1>2, <1>5
<1> HIDE DEF purged, rows, writes, last
<1> QED
  BY <1>2, <1>4, <1>5, <1>6, <1>7, RefusingStep

(* A rejection by a human, or by an approval that finds no mandate.        *)
LEMMA RejectStep ==
    ASSUME AuthorityInv, NEW p \in Live, Reject(p) \/ ApproveRevoked(p)
    PROVE  AuthorityInv'
<1> DEFINE n == AfterSweep + 1
           rows == {Event(n, p.client, p.amount, "rejected", p.action)}
           writes == {[action |-> p.action, client |-> p.client, status |-> "rejected", seq |-> n]}
<1>1. TypeOK /\ IsFiniteSet(pending)
  BY DEF AuthorityInv
<1>2. /\ Commit(rows, writes, n, {}) /\ pending' = Live \ {p}
      /\ UNCHANGED <<now, grants, order, req, hand, result, handoffs, rebuilding, kept>>
  BY DEF Reject, ApproveRevoked, locals
<1>3. n \in Nat /\ p \in Tier3PendingAction
  BY <1>1, SweepType
<1>4. p.client \in Clients /\ p.amount \in Nat /\ p.action \in Actions /\ now \in Nat
  BY <1>1, <1>3, GatewayAssumption DEF Tier3PendingAction, TypeOK
<1> HIDE DEF n
<1>5. rows \in SUBSET Tier3Event
  BY <1>3, <1>4 DEF Event, Tier3Event, Outcomes
<1>6. writes \in SUBSET Write
  BY <1>3, <1>4 DEF Write, Statuses
<1>7. grants' \in [Clients -> Limits \cup {NoGrant}] /\ req' \in [Threads -> ReqStates]
  BY <1>1, <1>2 DEF TypeOK
<1>8. \A w \in writes : \E q \in Live : q.action = w.action /\ q \notin pending'
  BY <1>2
<1> HIDE DEF rows, writes
<1> QED
  BY <1>2, <1>3, <1>5, <1>6, <1>7, <1>8, RefusingStep

(* approve_tier3_action keeps it: the entry it pops was handed over to     *)
(* nobody, and is the only one of its action.                              *)
LEMMA ApproveStep ==
    ASSUME AuthorityInv, NEW p \in Live, Approve(p)
    PROVE  AuthorityInv'
<1> DEFINE n == AfterSweep + 1
           rows == {Event(n, p.client, p.amount, "accepted", p.action)}
<1>1. TypeOK /\ IsFiniteSet(pending) /\ HandoffCounted /\ UnstartedIsFree /\ OrderIsKnown /\ PendingIsFree
  BY DEF AuthorityInv
<1>2. /\ Commit(rows, {}, n, {}) /\ pending' = Live \ {p}
      /\ grants[p.client] # NoGrant
      /\ UNCHANGED <<now, grants, req, result, handoffs, rebuilding, kept>>
  BY DEF Approve
<1>3. /\ order' = [order EXCEPT ![p.action].limit = grants[p.client], ![p.action].at = now]
      /\ hand' = [hand EXCEPT ![p.action] = "due"]
  BY DEF Approve, StartHandoff
<1>4. n \in Nat /\ p \in Tier3PendingAction /\ p \in pending
  BY <1>1, SweepType DEF Live
<1>5. p.client \in Clients /\ p.amount \in Nat /\ p.action \in Actions /\ now \in Nat
  BY <1>1, <1>4, GatewayAssumption DEF Tier3PendingAction, TypeOK
<1> HIDE DEF n
<1>6. rows \in SUBSET Tier3Event
  BY <1>4, <1>5 DEF Event, Tier3Event, Outcomes
<1>7. hand' \in [Actions -> HandStates]
  BY <1>1, <1>3 DEF TypeOK, HandStates
<1>8. order' \in [Actions -> Order]
  <2>1. order[p.action] \in Order /\ grants[p.client] \in Limits
    BY <1>1, <1>2, <1>5 DEF TypeOK
  <2>2. [order[p.action] EXCEPT !.limit = grants[p.client], !.at = now] \in Order
    BY <1>5, <2>1 DEF Order
  <2>3. order' = [order EXCEPT ![p.action] =
                    [order[p.action] EXCEPT !.limit = grants[p.client], !.at = now]]
    BY <1>1, <1>3, <1>5 DEF TypeOK
  <2> QED
    BY <1>1, <2>2, <2>3 DEF TypeOK
<1> HIDE DEF rows
<1>9. TypeOK'
  <2>1. /\ grants' \in [Clients -> Limits \cup {NoGrant}] /\ req' \in [Threads -> ReqStates]
        /\ pending' \in SUBSET Tier3PendingAction
    BY <1>1, <1>2 DEF TypeOK, Live
  <2>2. {} \in SUBSET Write
    OBVIOUS
  <2> QED
    BY <1>1, <1>2, <1>4, <1>6, <1>7, <1>8, <2>1, <2>2, LockedType
<1>10. /\ hand[p.action] = "none" /\ hand'[p.action] = "due" /\ req[p.action] \in Started
       /\ \A b \in Actions \ {p.action} : hand'[b] = hand[b]
  BY <1>1, <1>3, <1>4, <1>5 DEF TypeOK, PendingIsFree
<1>11. RowsAreTrue'
  <2>1. \A a \in Actions : hand'[a] = hand[a] \/ \E q \in Live : q.action = a
    BY <1>10
  <2>2. \A q \in pending' : q \in Live \/ req[q.action] \notin Started
    BY <1>2
  <2>3. \A a \in Actions : req[a] \in Started => req'[a] \in Started
    BY <1>2
  <2>4. {} \in SUBSET Write
    OBVIOUS
  <2> QED
    BY <1>2, <1>4, <1>6, <2>1, <2>2, <2>3, <2>4, RowsStep
<1>12. PendingIsFree'
  <2>1. \A q \in pending' : q \in pending /\ q.action # p.action /\ q.action \in Actions
    BY <1>1, <1>2, <1>4 DEF PendingIsFree, Live, TypeOK, Tier3PendingAction
  <2> QED
    BY <1>1, <1>2, <1>10, <2>1 DEF PendingIsFree, Started
<1>13. HandoffCounted'
  BY <1>1, <1>2, <1>10 DEF HandoffCounted
<1>14. UnstartedIsFree'
  BY <1>1, <1>2, <1>10 DEF UnstartedIsFree, Started
<1>15. IsFiniteSet(pending')
  BY <1>1, <1>2, FS_Subset DEF Live
<1>20. OrderIsKnown'
  <2>1. \A b \in Actions : order'[b].client = order[b].client /\ order'[b].amount = order[b].amount
    BY <1>1, <1>3 DEF TypeOK, Order
  <2> QED
    BY <1>1, <1>2, <2>1 DEF OrderIsKnown, Placed, Started
<1> QED
  BY <1>9, <1>11, <1>12, <1>13, <1>14, <1>15, <1>20 DEF AuthorityInv

(* Queuing an order keeps it: its action is new to the queue, to the map   *)
(* and to every map about to be assigned.                                  *)
LEMMA QueueStep ==
    ASSUME AuthorityInv, NEW a \in Actions, Queue(a)
    PROVE  AuthorityInv'
<1> DEFINE n == AfterSweep + 1
           rows == {Event(n, order[a].client, order[a].amount, "queued", a)}
           writes == {[action |-> a, client |-> order[a].client, status |-> "queued", seq |-> n]}
           entry == [seq |-> n, action |-> a, client |-> order[a].client,
                     amount |-> order[a].amount, expires |-> now + PendingTTL,
                     crossed |-> MapIsBeingRebuilt]
<1>1. TypeOK /\ IsFiniteSet(pending) /\ HandoffCounted /\ UnstartedIsFree /\ OrderIsKnown /\ PendingIsFree
  BY DEF AuthorityInv
<1>2. /\ Commit(rows, writes, n, {}) /\ pending' = Live \cup {entry}
      /\ req[a] = "limitRead" /\ req' = [req EXCEPT ![a] = "queued"]
      /\ UNCHANGED <<now, grants, order, hand, result, handoffs, rebuilding, kept>>
  BY DEF Queue
<1>3. n \in Nat /\ now \in Nat
  BY <1>1, SweepType, GatewayAssumption DEF TypeOK
<1>4. order[a].client \in Clients /\ order[a].amount \in Amounts /\ order[a].amount \in Nat
  BY <1>1, <1>2, GatewayAssumption DEF OrderIsKnown, Placed
<1> HIDE DEF n
<1>5. rows \in SUBSET Tier3Event
  BY <1>3, <1>4 DEF Event, Tier3Event, Outcomes
<1>6. writes \in SUBSET Write
  BY <1>3, <1>4 DEF Write, Statuses
<1>7. entry \in Tier3PendingAction
  BY <1>3, <1>4, GatewayAssumption DEF Tier3PendingAction, MapIsBeingRebuilt
<1>8. entry.action = a /\ (\A w \in writes : w.action = a /\ w.status = "queued")
  OBVIOUS
<1> HIDE DEF rows, writes, entry
<1>9. req' \in [Threads -> ReqStates]
  BY <1>1, <1>2 DEF TypeOK, ReqStates
<1>10. TypeOK'
  <2>1. /\ grants' \in [Clients -> Limits \cup {NoGrant}] /\ hand' \in [Actions -> HandStates]
        /\ order' \in [Actions -> Order] /\ pending' \in SUBSET Tier3PendingAction
    BY <1>1, <1>2, <1>7 DEF TypeOK, Live
  <2> QED
    BY <1>1, <1>2, <1>3, <1>5, <1>6, <1>9, <2>1, LockedType
<1>11. /\ req'[a] = "queued" /\ hand[a] = "none"
       /\ \A b \in Actions \ {a} : req'[b] = req[b]
  BY <1>1, <1>2 DEF TypeOK, Threads, UnstartedIsFree, Started
<1>12. \A p \in pending : p.action \in Actions /\ p.action # a
  BY <1>1, <1>2 DEF PendingIsFree, TypeOK, Tier3PendingAction, Started
<1>13. RowsAreTrue'
  <2>1. \A b \in Actions : req[b] \in Started => req'[b] \in Started
    BY <1>2, <1>11 DEF Started
  <2>2. \A b \in Actions : hand'[b] = hand[b] \/ \E q \in Live : q.action = b
    BY <1>2
  <2>3. \A q \in pending' : q \in Live \/ req[q.action] \notin Started
    BY <1>2, <1>8 DEF Started
  <2>4. \A w \in writes :
           /\ req'[w.action] \in Started
           /\ w.status \in {"rejected", "expired"} => hand'[w.action] = "none"
           /\ \A p \in pending' : p.action = w.action => w.status = "queued"
    BY <1>8, <1>11 DEF Started
  <2> QED
    BY <1>2, <1>3, <1>5, <1>6, <2>1, <2>2, <2>3, <2>4, RowsStep
<1>14. PendingIsFree'
  BY <1>1, <1>2, <1>8, <1>11, <1>12 DEF PendingIsFree, Live, Started
<1>15. IsFiniteSet(pending')
  <2>1. IsFiniteSet(Live)
    BY <1>1, SweepType
  <2> QED
    BY <1>2, <2>1, FS_AddElement
<1>16. HandoffCounted' /\ UnstartedIsFree'
  BY <1>1, <1>2, <1>11 DEF HandoffCounted, UnstartedIsFree, Started
<1>17. OrderIsKnown'
  BY <1>1, <1>2, <1>11 DEF OrderIsKnown, Placed, Started
<1> QED
  BY <1>10, <1>13, <1>14, <1>15, <1>16, <1>17 DEF AuthorityInv
-----------------------------------------------------------------------------
(* What remains: the grant, the poll, and the handoff's own steps. *)

(* put_tier3_grant keeps it.                                               *)
LEMMA PutGrantStep ==
    ASSUME AuthorityInv, NEW c \in Clients, NEW limit \in Limits, PutGrant(c, limit)
    PROVE  AuthorityInv'
<1>1. TypeOK /\ HandoffCounted /\ UnstartedIsFree /\ OrderIsKnown
  BY DEF AuthorityInv
<1>2. /\ grants' = [grants EXCEPT ![c] = limit]
      /\ UNCHANGED <<now, serial, trail, pending, resolutions, order, req, hand, result,
                     handoffs, rebuilding, kept, keptMap>>
  BY DEF PutGrant, threads, locals
<1>3. TypeOK'
  BY <1>1, <1>2 DEF TypeOK
<1>4. PendingIsFree' /\ RowsAreTrue' /\ IsFiniteSet(pending')
  BY <1>2, FrameStep
<1>5. HandoffCounted' /\ UnstartedIsFree' /\ OrderIsKnown'
  BY <1>1, <1>2 DEF HandoffCounted, UnstartedIsFree, OrderIsKnown, Placed, Started
<1> QED
  BY <1>3, <1>4, <1>5 DEF AuthorityInv

(* The call of execute_handoff, and the settlement of the audit row.       *)
LEMMA HandOffStep ==
    ASSUME AuthorityInv, NEW a \in Actions, NEW kind \in Results, HandOff(a, kind)
    PROVE  AuthorityInv'
<1>1. TypeOK /\ HandoffCounted /\ UnstartedIsFree /\ OrderIsKnown
  BY DEF AuthorityInv
<1>2. /\ hand[a] = "due" /\ hand' = [hand EXCEPT ![a] = "returned"]
      /\ result' = [result EXCEPT ![a] = kind]
      /\ handoffs' = [handoffs EXCEPT ![a] = handoffs[a] + 1]
      /\ UNCHANGED <<now, serial, grants, trail, pending, resolutions, order, req,
                     rebuilding, kept, keptMap>>
  BY DEF HandOff, store
<1>3. /\ hand'[a] = "returned" /\ \A b \in Actions \ {a} : hand'[b] = hand[b]
      /\ handoffs'[a] = 1 /\ \A b \in Actions \ {a} : handoffs'[b] = handoffs[b]
  BY <1>1, <1>2 DEF TypeOK, HandoffCounted
<1>4. hand' \in [Actions -> HandStates]
  BY <1>1, <1>2 DEF TypeOK, HandStates
<1>5. handoffs' \in [Actions -> Nat]
  BY <1>1, <1>2 DEF TypeOK
<1>6. result' \in [Actions -> Results \cup {"none"}]
  BY <1>1, <1>2 DEF TypeOK
<1>7. TypeOK'
  BY <1>1, <1>2, <1>4, <1>5, <1>6 DEF TypeOK
<1>8. PendingIsFree' /\ RowsAreTrue' /\ IsFiniteSet(pending')
  BY <1>2, <1>3, FrameStep
<1>9. HandoffCounted' /\ UnstartedIsFree' /\ OrderIsKnown'
  BY <1>1, <1>2, <1>3 DEF HandoffCounted, UnstartedIsFree, OrderIsKnown, Placed, Started
<1> QED
  BY <1>7, <1>8, <1>9 DEF AuthorityInv

(* settle_tier3_event keeps it.                                            *)
LEMMA SettleEventStep ==
    ASSUME AuthorityInv, NEW a \in Actions, SettleEvent(a)
    PROVE  AuthorityInv'
<1> DEFINE seqs == {r.seq : r \in SettleTarget(trail, a)}
           outcome == SettledOutcome(result[a])
<1>1. TypeOK /\ HandoffCounted /\ UnstartedIsFree /\ OrderIsKnown
  BY DEF AuthorityInv
<1>2. /\ hand[a] = "returned" /\ hand' = [hand EXCEPT ![a] = "audited"]
      /\ UNCHANGED <<now, serial, grants, pending, resolutions, order, req, result,
                     handoffs, rebuilding, keptMap>>
  BY DEF SettleEvent
<1>3. /\ trail' = SetOutcome(trail, seqs, outcome)
      /\ kept' = [t \in Threads |-> SetOutcome(kept[t], seqs, outcome)]
  BY DEF SettleEvent
<1>4. outcome \in Outcomes
  BY DEF SettledOutcome, Outcomes
<1> HIDE DEF seqs, outcome
<1>5. trail' \in SUBSET Tier3Event
  BY <1>1, <1>3, <1>4, SetOutcomeType DEF TypeOK
<1>6. kept' \in [Threads -> SUBSET Tier3Event]
  <2>1. \A t \in Threads : SetOutcome(kept[t], seqs, outcome) \in SUBSET Tier3Event
    BY <1>1, <1>4, SetOutcomeType DEF TypeOK
  <2> QED
    BY <1>3, <2>1
<1>7. hand' \in [Actions -> HandStates]
  BY <1>1, <1>2 DEF TypeOK, HandStates
<1>8. TypeOK'
  BY <1>1, <1>2, <1>5, <1>6, <1>7 DEF TypeOK
<1>9. /\ hand'[a] = "audited" /\ \A b \in Actions \ {a} : hand'[b] = hand[b]
  BY <1>1, <1>2 DEF TypeOK
<1>10. PendingIsFree' /\ RowsAreTrue' /\ IsFiniteSet(pending')
  BY <1>2, <1>9, FrameStep
<1>11. HandoffCounted' /\ UnstartedIsFree' /\ OrderIsKnown'
  BY <1>1, <1>2, <1>9 DEF HandoffCounted, UnstartedIsFree, OrderIsKnown, Placed, Started
<1> QED
  BY <1>8, <1>10, <1>11 DEF AuthorityInv

(* set_tier3_resolution at the end of a handoff.                           *)
LEMMA SettleResolutionStep ==
    ASSUME AuthorityInv, NEW a \in Actions, SettleResolution(a)
    PROVE  AuthorityInv'
<1> DEFINE write == [action |-> a, client |-> order[a].client,
                     status |-> SettledStatus(result[a]), seq |-> serial + 1]
           written == set_tier3_resolution(resolutions, {write}, now)
           inserted == Unexpired(resolutions \cup Created(resolutions, {write}, now), now)
<1>1. /\ TypeOK /\ HandoffCounted /\ UnstartedIsFree /\ OrderIsKnown
      /\ PendingIsFree /\ RowsAreTrue /\ IsFiniteSet(pending)
  BY DEF AuthorityInv
<1>2. /\ hand[a] = "audited"
      /\ UNCHANGED <<now, grants, trail, pending, order, req, result, handoffs, rebuilding, kept>>
  BY DEF SettleResolution
<1>3. /\ \E next \in {"settled", "rebuilding"} : hand' = [hand EXCEPT ![a] = next]
      /\ serial' = serial + 1 \/ serial' = serial
  BY DEF SettleResolution
<1>4. /\ resolutions' = inserted \/ resolutions' = written
      /\ \/ keptMap' = [keptMap EXCEPT ![a] = written]
         \/ \E shared \in {{}, {write}} :
               keptMap' = [b \in Actions |-> Overwrite(keptMap[b], shared, now)]
  BY DEF SettleResolution
<1>5. req[a] \in Started /\ order[a].client \in Clients
  BY <1>1, <1>2 DEF UnstartedIsFree, OrderIsKnown, Placed
<1>6. {write} \in SUBSET Write /\ {} \in SUBSET Write
  <2>1. SettledStatus(result[a]) \in Statuses
    BY DEF SettledStatus, Statuses
  <2>2. serial + 1 \in Nat
    BY <1>1 DEF TypeOK
  <2> QED
    BY <1>5, <2>1, <2>2 DEF Write
<1>7. write.action = a /\ write.status \notin {"rejected", "expired"}
  BY DEF SettledStatus
<1> HIDE DEF write
<1>8. now \in Nat /\ resolutions \in SUBSET Tier3Resolution /\ keptMap \in [Actions -> SUBSET Tier3Resolution]
  BY <1>1, GatewayAssumption DEF TypeOK
<1>9. \A r \in written : r \in Tier3Resolution /\
         (r \in resolutions \/ (r.action = a /\ r.status \notin {"rejected", "expired"}))
  BY <1>6, <1>7, <1>8, ResolutionRows
<1>10. \A r \in inserted : r \in Tier3Resolution /\
         (r \in resolutions \/ (r.action = a /\ r.status \notin {"rejected", "expired"}))
  BY <1>6, <1>7, <1>8, InsertedRows
<1>11. \A shared \in {{}, {write}} : \A b \in Actions : \A r \in Overwrite(keptMap[b], shared, now) :
         r \in Tier3Resolution /\
         (r \in keptMap[b] \/ (r.action = a /\ r.status \notin {"rejected", "expired"}))
  <2> SUFFICES ASSUME NEW shared \in {{}, {write}}, NEW b \in Actions,
                      NEW r \in Overwrite(keptMap[b], shared, now)
               PROVE  r \in Tier3Resolution /\
                        (r \in keptMap[b] \/ (r.action = a /\ r.status \notin {"rejected", "expired"}))
    OBVIOUS
  <2>1. shared \in SUBSET Write /\ keptMap[b] \in SUBSET Tier3Resolution
    BY <1>6, <1>8
  <2>2. r \in Tier3Resolution /\
          (r \in keptMap[b] \/ \E w \in shared : w.action = r.action /\ w.status = r.status)
    BY <1>8, <2>1, OverwriteRows
  <2> QED
    BY <1>7, <2>2
<1> HIDE DEF written, inserted
<1>12. resolutions' \in SUBSET Tier3Resolution
  BY <1>4, <1>9, <1>10
<1>13. keptMap' \in [Actions -> SUBSET Tier3Resolution]
  <2>1. CASE keptMap' = [keptMap EXCEPT ![a] = written]
    BY <1>8, <1>9, <2>1
  <2>2. CASE \E shared \in {{}, {write}} :
               keptMap' = [b \in Actions |-> Overwrite(keptMap[b], shared, now)]
    BY <1>11, <2>2
  <2> QED
    BY <1>4, <2>1, <2>2
<1>14. hand' \in [Actions -> HandStates]
  BY <1>1, <1>3 DEF TypeOK, HandStates
<1>15. serial' \in Nat
  BY <1>1, <1>3 DEF TypeOK
<1>16. TypeOK'
  BY <1>1, <1>2, <1>12, <1>13, <1>14, <1>15 DEF TypeOK
<1>17. /\ hand'[a] \in {"settled", "rebuilding"}
       /\ \A b \in Actions \ {a} : hand'[b] = hand[b]
  BY <1>1, <1>3 DEF TypeOK
<1>18. PendingIsFree' /\ \A p \in pending' : p.action # a
  BY <1>1, <1>2, <1>17 DEF PendingIsFree, TypeOK, Tier3PendingAction, Started
<1>19. \A r \in Tier3Resolution :
          (RowIsTrue(r) \/ (r.action = a /\ r.status \notin {"rejected", "expired"})) => RowIsTrue(r)'
  <2> SUFFICES ASSUME NEW r \in Tier3Resolution,
                      RowIsTrue(r) \/ (r.action = a /\ r.status \notin {"rejected", "expired"})
               PROVE  RowIsTrue(r)'
    OBVIOUS
  <2>1. r.action \in Actions
    BY DEF Tier3Resolution
  <2>2. req'[r.action] \in Started
    BY <1>2, <1>5 DEF RowIsTrue
  <2>3. r.status \in {"rejected", "expired"} => hand'[r.action] = "none"
    BY <1>2, <1>17, <2>1 DEF RowIsTrue
  <2>4. \A p \in pending' : p.action = r.action => r.status = "queued"
    BY <1>2, <1>18 DEF RowIsTrue
  <2> QED
    BY <2>2, <2>3, <2>4 DEF RowIsTrue, Started
<1>20. \A r \in resolutions' : RowIsTrue(r)'
  BY <1>1, <1>4, <1>9, <1>10, <1>19 DEF RowsAreTrue
<1>21. \A b \in Actions : \A r \in keptMap'[b] : RowIsTrue(r)'
  <2> SUFFICES ASSUME NEW b \in Actions, NEW r \in keptMap'[b] PROVE RowIsTrue(r)'
    OBVIOUS
  <2>1. r \in Tier3Resolution
    BY <1>13
  <2>2. r \in keptMap[b] \/ r \in resolutions \/ (r.action = a /\ r.status \notin {"rejected", "expired"})
    <3>1. CASE keptMap' = [keptMap EXCEPT ![a] = written]
      BY <1>8, <1>9, <3>1
    <3>2. CASE \E shared \in {{}, {write}} :
                 keptMap' = [c \in Actions |-> Overwrite(keptMap[c], shared, now)]
      BY <1>11, <3>2
    <3> QED
      BY <1>4, <3>1, <3>2
  <2> QED
    BY <1>1, <1>19, <2>1, <2>2 DEF RowsAreTrue
<1>22. HandoffCounted' /\ UnstartedIsFree'
  BY <1>1, <1>2, <1>5, <1>17 DEF HandoffCounted, UnstartedIsFree, Started
<1>23. OrderIsKnown' /\ IsFiniteSet(pending')
  BY <1>1, <1>2 DEF OrderIsKnown, Placed, Started
<1> QED
  BY <1>16, <1>18, <1>20, <1>21, <1>22, <1>23 DEF AuthorityInv, RowsAreTrue

(* The assignment at the end of an unlocked rebuild keeps it: every entry  *)
(* of the map it brings back is still true.                                *)
LEMMA AssignMapStep ==
    ASSUME AuthorityInv, NEW a \in Actions, AssignMap(a)
    PROVE  AuthorityInv'
<1>1. /\ TypeOK /\ HandoffCounted /\ UnstartedIsFree /\ OrderIsKnown
      /\ PendingIsFree /\ RowsAreTrue /\ IsFiniteSet(pending)
  BY DEF AuthorityInv
<1>2. /\ hand[a] = "rebuilding" /\ hand' = [hand EXCEPT ![a] = "settled"]
      /\ resolutions' = keptMap[a] /\ keptMap' = [keptMap EXCEPT ![a] = {}]
      /\ UNCHANGED <<now, serial, grants, trail, pending, order, req, result, handoffs, rebuilding, kept>>
  BY DEF AssignMap
<1>3. /\ hand'[a] = "settled" /\ \A b \in Actions \ {a} : hand'[b] = hand[b]
      /\ \A b \in Actions : keptMap'[b] \subseteq keptMap[b]
  BY <1>1, <1>2 DEF TypeOK
<1>4. hand' \in [Actions -> HandStates]
  BY <1>1, <1>2 DEF TypeOK, HandStates
<1>5. resolutions' \in SUBSET Tier3Resolution /\ keptMap' \in [Actions -> SUBSET Tier3Resolution]
  BY <1>1, <1>2 DEF TypeOK
<1>6. TypeOK'
  BY <1>1, <1>2, <1>4, <1>5 DEF TypeOK
<1>7. PendingIsFree'
  BY <1>1, <1>2, <1>3 DEF PendingIsFree, TypeOK, Tier3PendingAction, Started
<1>8. \A r \in Tier3Resolution : RowIsTrue(r) => RowIsTrue(r)'
  BY <1>2, <1>3 DEF RowIsTrue, Tier3Resolution, Started
<1>9. RowsAreTrue'
  <2>1. \A r \in resolutions' : RowIsTrue(r)'
    BY <1>1, <1>2, <1>5, <1>8 DEF RowsAreTrue
  <2>2. \A b \in Actions : \A r \in keptMap'[b] : RowIsTrue(r)'
    BY <1>1, <1>3, <1>5, <1>8 DEF RowsAreTrue
  <2> QED
    BY <2>1, <2>2 DEF RowsAreTrue
<1>10. HandoffCounted' /\ UnstartedIsFree' /\ OrderIsKnown' /\ IsFiniteSet(pending')
  BY <1>1, <1>2, <1>3 DEF HandoffCounted, UnstartedIsFree, OrderIsKnown, Placed, Started
<1> QED
  BY <1>6, <1>7, <1>9, <1>10 DEF AuthorityInv
-----------------------------------------------------------------------------
(* A fresh Store() and no threads: nothing is queued, nothing is known to  *)
(* the poll, and what ran in the old process never starts again.           *)
LEMMA RestartStep ==
    ASSUME AuthorityInv, Restart
    PROVE  AuthorityInv'
<1>1. TypeOK /\ HandoffCounted /\ UnstartedIsFree /\ OrderIsKnown
  BY DEF AuthorityInv
<1>2. /\ trail' = {} /\ pending' = {} /\ resolutions' = {} /\ rebuilding' = {}
      /\ grants' = [c \in Clients |-> NoGrant]
      /\ kept' = [t \in Threads |-> {}] /\ keptMap' = [b \in Actions |-> {}]
      /\ UNCHANGED <<now, serial, order, result, handoffs>>
  BY DEF Restart
<1>3. /\ req' \in [Threads -> ReqStates]
      /\ \A t \in Threads : \/ req'[t] = req[t]
                            \/ /\ req'[t] = "lost"
                               /\ req[t] \in {"limitRead", "full", "queued", "handedOff"}
  BY <1>1 DEF Restart, TypeOK, ReqStates
<1>4. /\ hand' \in [Actions -> HandStates]
      /\ \A b \in Actions : \/ hand'[b] = hand[b]
                            \/ hand'[b] = "lost" /\ hand[b] # "none"
  BY <1>1 DEF Restart, TypeOK, HandStates
<1>5. TypeOK'
  <2>1. now' \in 0..MaxTime /\ serial' \in Nat /\ order' \in [Actions -> Order]
    BY <1>1, <1>2 DEF TypeOK
  <2>2. result' \in [Actions -> Results \cup {"none"}] /\ handoffs' \in [Actions -> Nat]
    BY <1>1, <1>2 DEF TypeOK
  <2>3. /\ grants' \in [Clients -> Limits \cup {NoGrant}]
        /\ kept' \in [Threads -> SUBSET Tier3Event]
        /\ keptMap' \in [Actions -> SUBSET Tier3Resolution]
    BY <1>2
  <2> QED
    BY <1>2, <1>3, <1>4, <2>1, <2>2, <2>3 DEF TypeOK
<1>6. IsFiniteSet(pending')
  BY <1>2, FS_EmptySet
<1>7. HandoffCounted'
  BY <1>1, <1>2, <1>4 DEF HandoffCounted
<1>8. UnstartedIsFree' /\ OrderIsKnown'
  BY <1>1, <1>2, <1>3, <1>4 DEF UnstartedIsFree, OrderIsKnown, Placed, Started, Threads
<1>9. PendingIsFree' /\ RowsAreTrue'
  BY <1>2 DEF PendingIsFree, RowsAreTrue
<1> QED
  BY <1>5, <1>6, <1>7, <1>8, <1>9 DEF AuthorityInv
-----------------------------------------------------------------------------
(* The theorems. *)

(* The invariant holds initially.                                          *)
LEMMA InitInv == Init => AuthorityInv
<1> SUFFICES ASSUME Init PROVE AuthorityInv
  OBVIOUS
<1>1. NoOrder \in Order
  BY DEF NoOrder, Order
<1>2. TypeOK
  BY <1>1, GatewayAssumption DEF Init, TypeOK, ReqStates, HandStates
<1>3. IsFiniteSet(pending)
  BY FS_EmptySet DEF Init
<1>4. HandoffCounted /\ UnstartedIsFree /\ PendingIsFree /\ RowsAreTrue
  BY DEF Init, HandoffCounted, UnstartedIsFree, PendingIsFree, RowsAreTrue
<1>5. OrderIsKnown
  BY DEF Init, OrderIsKnown, Placed, Started, Threads
<1> QED
  BY <1>2, <1>3, <1>4, <1>5 DEF AuthorityInv

(* Every step of the specification keeps the invariant.                    *)
LEMMA NextInv == AuthorityInv /\ [Next]_vars => AuthorityInv'
<1> SUFFICES ASSUME AuthorityInv, [Next]_vars PROVE AuthorityInv'
  OBVIOUS
<1>1. CASE Tick
  BY <1>1, TickStep
<1>2. CASE \E s \in Strangers : RefuseStranger(s)
  BY <1>2, RefuseStrangerStep
<1>3. CASE \E t \in Threads : AssignTrail(t)
  BY <1>3, AssignTrailStep
<1>4. ASSUME NEW a \in Actions, Arrive(a) PROVE AuthorityInv'
  BY <1>4, ReadLimitStep, RefuseNoGrantStep DEF Arrive
<1>5. ASSUME NEW a \in Actions, OrderThread(a) PROVE AuthorityInv'
  BY <1>5, ReserveStep, QueueStep, FindQueueFullStep, RefuseQueueFullStep, AnswerQueuedStep
     DEF OrderThread
<1>6. ASSUME NEW a \in Actions, HandoffThread(a) PROVE AuthorityInv'
  BY <1>6, HandOffStep, SettleEventStep, SettleResolutionStep, AssignMapStep DEF HandoffThread
<1>7. ASSUME NEW a \in Actions, Poll(a) PROVE AuthorityInv'
  BY <1>7, SweepStep
<1>8. CASE Administer
  BY <1>8, PutGrantStep, DeleteGrantStep, ApproveStep, RejectStep, SweepStep DEF Administer
<1>9. CASE Restart
  BY <1>9, RestartStep
<1>10. CASE UNCHANGED vars
  BY <1>10, StutterStep
<1> QED
  BY <1>1, <1>2, <1>3, <1>4, <1>5, <1>6, <1>7, <1>8, <1>9, <1>10 DEF Next

(* The inductive invariant: the threads, the queue and the resolution map  *)
(* agree on which actions may still be decided (handlers of                *)
(* verify/main.py, Tier 3).                                                *)
THEOREM AuthorityInvariant == Spec => []AuthorityInv
  BY InitInv, NextInv, PTL DEF Spec

(* Every variable keeps its type, for every number of clients, actions and *)
(* interleavings of their threads.                                         *)
THEOREM TypeCorrect == Spec => []TypeOK
<1>1. AuthorityInv => TypeOK
  BY DEF AuthorityInv
<1> QED
  BY <1>1, AuthorityInvariant, PTL

(* No action is handed to the internal agent twice by the gateway: the pop *)
(* under the lock makes a double approval impossible, and no approval, no  *)
(* rejection and no expiry can meet a reservation already made.            *)
THEOREM HandedOffOnce == Spec => []AtMostOneHandoff
<1>1. AuthorityInv => AtMostOneHandoff
  BY DEF AuthorityInv, HandoffCounted, AtMostOneHandoff
<1> QED
  BY <1>1, AuthorityInvariant, PTL

(* What was refused -- by a human, by a revocation, by its TTL, for want   *)
(* of a grant or of a slot -- is never handed to the agent, and what was   *)
(* handed over is never reported as rejected or expired.                   *)
THEOREM RefusalIsFinal == Spec => []RefusedNeverExecuted
<1>1. AuthorityInv => RefusedNeverExecuted
  BY DEF AuthorityInv, RowsAreTrue, RowIsTrue, UnstartedIsFree, Started, RefusedNeverExecuted
<1> QED
  BY <1>1, AuthorityInvariant, PTL

(* A step leaves the queue's cap alone when it adds no entry (every        *)
(* handler but create_tier3_order's locked section).                       *)
LEMMA ShrinkingKeepsCap ==
    ASSUME IsFiniteSet(pending), PendingWithinCap, pending' \subseteq pending
    PROVE  PendingWithinCap'
<1> SUFFICES ASSUME NEW c \in Clients
             PROVE  Cardinality({p \in pending' : p.client = c}) <= PendingMax
  BY DEF PendingWithinCap
<1> DEFINE old == {p \in pending : p.client = c}
           new == {p \in pending' : p.client = c}
<1>1. IsFiniteSet(old)
  BY FS_Subset
<1>2. IsFiniteSet(new) /\ Cardinality(new) <= Cardinality(old)
  BY <1>1, FS_Subset
<1>3. Cardinality(old) \in Nat /\ Cardinality(new) \in Nat
  BY <1>1, <1>2, FS_CardinalityType
<1>4. Cardinality(old) <= PendingMax /\ PendingMax \in Nat
  BY GatewayAssumption DEF PendingWithinCap
<1> QED
  BY <1>2, <1>3, <1>4

(* create_tier3_order queues below the cap: the slots it counts under the  *)
(* lock are the slots there are when it inserts.                           *)
LEMMA QueueKeepsCap ==
    ASSUME IsFiniteSet(pending), PendingWithinCap, NEW a \in Actions, Queue(a)
    PROVE  PendingWithinCap'
<1> SUFFICES ASSUME NEW c \in Clients
             PROVE  Cardinality({p \in pending' : p.client = c}) <= PendingMax
  BY DEF PendingWithinCap
<1> DEFINE entry == [seq |-> AfterSweep + 1, action |-> a, client |-> order[a].client,
                     amount |-> order[a].amount, expires |-> now + PendingTTL,
                     crossed |-> MapIsBeingRebuilt]
           live == {p \in Live : p.client = c}
           old == {p \in pending : p.client = c}
<1>1. pending' = Live \cup {entry} /\ ~ QueueIsFull(order[a].client)
  BY DEF Queue
<1>2. IsFiniteSet(old) /\ IsFiniteSet(live) /\ Cardinality(live) <= Cardinality(old)
  <2>1. IsFiniteSet(old)
    BY FS_Subset
  <2>2. live \subseteq old
    BY DEF Live
  <2> QED
    BY <2>1, <2>2, FS_Subset
<1>3. Cardinality(live) \in Nat /\ Cardinality(old) \in Nat
  BY <1>2, FS_CardinalityType
<1>4. Cardinality(old) <= PendingMax /\ PendingMax \in Nat
  BY GatewayAssumption DEF PendingWithinCap
<1>5. CASE c = order[a].client
  <2> DEFINE new == {p \in pending' : p.client = c}
  <2>1. ~ (Cardinality(live) >= PendingMax)
    BY <1>1, <1>5 DEF QueueIsFull
  <2>2. new = live \cup {entry}
    <3>1. entry.client = c
      BY <1>5
    <3> HIDE DEF entry
    <3>2. pending' = Live \cup {entry}
      BY <1>1
    <3>3. \A p : (p \in pending' /\ p.client = c) <=> p \in live \cup {entry}
      BY <3>1, <3>2
    <3> HIDE DEF live
    <3> QED
      BY <3>3, Zenon
  <2>3. Cardinality(live \cup {entry}) \in {Cardinality(live), Cardinality(live) + 1}
    BY <1>2, FS_AddElement
  <2> HIDE DEF new, live, entry
  <2>4. Cardinality(new) <= PendingMax
    BY <1>3, <1>4, <2>1, <2>2, <2>3
  <2> QED
    BY <2>4 DEF new
<1>6. CASE c # order[a].client
  <2> DEFINE new == {p \in pending' : p.client = c}
  <2>1. new = live
    BY <1>1, <1>6
  <2> HIDE DEF new, live, old
  <2>2. Cardinality(new) <= PendingMax
    BY <1>2, <1>3, <1>4, <2>1
  <2> QED
    BY <2>2 DEF new
<1> QED
  BY <1>5, <1>6

(* However its requests interleave with each other and with the            *)
(* administrators, a client never has more than                            *)
(* tier3_pending_max_per_client orders awaiting a human.                   *)
THEOREM QueueIsCapped == Spec => []PendingWithinCap
<1>1. Init => PendingWithinCap
  <2> SUFFICES ASSUME Init, NEW c \in Clients
               PROVE  Cardinality({p \in pending : p.client = c}) <= PendingMax
    BY DEF PendingWithinCap
  <2>1. {p \in pending : p.client = c} = {}
    BY DEF Init
  <2> QED
    BY <2>1, FS_EmptySet, GatewayAssumption
<1>2. AuthorityInv /\ PendingWithinCap /\ [Next]_vars => PendingWithinCap'
  <2> SUFFICES ASSUME AuthorityInv, PendingWithinCap, [Next]_vars PROVE PendingWithinCap'
    OBVIOUS
  <2>1. IsFiniteSet(pending)
    BY DEF AuthorityInv
  <2>2. CASE \E a \in Actions : Queue(a)
    BY <2>1, <2>2, QueueKeepsCap
  <2>3. CASE ~ \E a \in Actions : Queue(a)
    <3>1. ASSUME NEW a \in Actions, Arrive(a) PROVE pending' \subseteq pending
      BY <3>1 DEF Arrive, ReadLimit, RefuseNoGrant, store
    <3>2. ASSUME NEW a \in Actions, OrderThread(a) PROVE pending' \subseteq pending
      BY <2>3, <3>2 DEF OrderThread, Reserve, FindQueueFull, RefuseQueueFull, AnswerQueued,
                        AnswerHandedOff, Live, store
    <3>3. ASSUME NEW a \in Actions, HandoffThread(a) PROVE pending' \subseteq pending
      BY <3>3 DEF HandoffThread, HandOff, SettleEvent, SettleResolution, AssignMap, store
    <3>4. ASSUME Administer PROVE pending' \subseteq pending
      BY <3>4 DEF Administer, PutGrant, DeleteGrant, Approve, ApproveRevoked, Reject, Sweep, Live
    <3>5. ASSUME NEW a \in Actions, Poll(a) PROVE pending' \subseteq pending
      BY <3>5 DEF Poll, Live
    <3>6. ASSUME Restart \/ Tick \/ UNCHANGED vars PROVE pending' \subseteq pending
      BY <3>6 DEF Restart, Tick, vars, store
    <3>7. ASSUME NEW s \in Strangers, RefuseStranger(s) PROVE pending' \subseteq pending
      BY <3>7 DEF RefuseStranger
    <3>8. ASSUME NEW t \in Threads, AssignTrail(t) PROVE pending' \subseteq pending
      BY <3>8 DEF AssignTrail
    <3>9. pending' \subseteq pending
      BY <3>1, <3>2, <3>3, <3>4, <3>5, <3>6, <3>7, <3>8 DEF Next
    <3> QED
      BY <2>1, <3>9, ShrinkingKeepsCap
  <2> QED
    BY <2>2, <2>3
<1> QED
  BY <1>1, <1>2, AuthorityInvariant, PTL DEF Spec
=============================================================================
