-------------------------- MODULE Tier3LedgerProofs --------------------------
(***************************************************************************)
(* The audit trail as the usage ledger.  When no thread runs inside the    *)
(* unlocked rebuild of another one (Racing* = {}), the settlement of a     *)
(* handoff finds the row of its own reservation, the accepted rows add up  *)
(* to what the clients have spent, orders within the mandate cannot        *)
(* jointly exceed it, the trail and the poll tell the same story, and what *)
(* the poll says is final.  The last section, on what the cap drops, needs *)
(* no such assumption.                                                     *)
(***************************************************************************)
EXTENDS Tier3GatewayProofs, WellFoundedInduction

(* Rows are appended in order and never from the future; their number is   *)
(* their identity.                                                         *)
LedgerRows ==
    /\ IsFiniteSet(trail)
    /\ \A r \in trail : r.seq <= serial /\ r.at <= now
    /\ \A r, s \in trail : r.seq = s.seq => r = s

(* A row names an order that was placed, and carries its client.           *)
RowIsOwned(r) ==
    r.action \in Actions => req[r.action] # "idle" /\ r.client = order[r.action].client

RowsAreOwned == \A r \in trail : RowIsOwned(r)

QueueIsOwned ==
    /\ \A p \in pending : p.seq <= serial /\ p.client = order[p.action].client
    /\ \A p, q \in pending : p.seq = q.seq => p = q

(* A reservation was made in the life of this process.                     *)
UnderWay(a) == hand[a] \notin {"none", "lost"}

HeldOutcome(a) ==
    IF hand[a] \in {"due", "returned"} THEN "accepted" ELSE SettledOutcome(result[a])

(* `s' is the reservation of `a', and no row of `a' is newer.              *)
IsReservation(s, a) ==
    /\ s.action = a /\ s.at = order[a].at /\ s.outcome = HeldOutcome(a)
    /\ \A q \in trail : q.action = a => q.seq <= s.seq /\ q.at <= s.at

(* As long as the trail holds any row of an action under way it holds its  *)
(* reservation, which neither the age prune nor the cap drops first.       *)
ReservationsLast ==
    \A a \in Actions : UnderWay(a) =>
       \A r \in trail : r.action = a => \E s \in trail : IsReservation(s, a)

TrailInv == LedgerRows /\ RowsAreOwned /\ ReservationsLast

LedgerInv ==
    /\ AuthorityInv
    /\ rebuilding = {}
    /\ TrailInv
    /\ QueueIsOwned

(* Rows that a handler is about to append, numbered up to `last'.          *)
NewRows(new, last) ==
    /\ new \in SUBSET Tier3Event
    /\ IsFiniteSet(new)
    /\ \A r \in new : serial < r.seq /\ r.seq <= last /\ r.at = now /\ RowIsOwned(r)
    /\ \A r, s \in new : r.seq = s.seq => r = s

(* An action whose reservation a step leaves alone, or makes.              *)
StaysReserved(a, new) ==
    /\ UnderWay(a)
    /\ HeldOutcome(a)' = HeldOutcome(a)
    /\ order'[a].at = order[a].at
    /\ \A r \in new : r.action # a

Reserves(a, new) ==
    /\ HeldOutcome(a)' = "accepted"
    /\ order'[a].at = now
    /\ \E s \in new : /\ s.action = a /\ s.outcome = "accepted"
                      /\ \A r \in new : r.action = a => r = s

(* A step forgets no order and changes the client of none.                 *)
OrdersKeepClients ==
    \A a \in Actions : req[a] # "idle" =>
        req'[a] # "idle" /\ order'[a].client = order[a].client

(* A step that forgets no order, and no reservation.                       *)
OrdersAdvance ==
    \A a \in Actions :
        /\ req[a] \in Started => req'[a] \in Started
        /\ req[a] = "refused" => req'[a] = "refused"
        /\ req[a] # "idle" => order'[a].amount = order[a].amount
        /\ UnderWay(a) => UnderWay(a)'
-----------------------------------------------------------------------------
(* Lemmas on the trail's operators. *)

(* The cap keeps a newest suffix of a client's rows (the loop over         *)
(* reversed events in record_tier3_event).                                 *)
LEMMA CapKeepsNewer ==
    ASSUME NEW rows \in SUBSET Tier3Event, IsFiniteSet(rows), NEW max \in Nat,
           NEW r \in NewestPerClient(rows, max), NEW s \in rows,
           s.client = r.client, r.seq <= s.seq
    PROVE  s \in NewestPerClient(rows, max)
<1>1. r \in rows /\ Cardinality(NoOlderOfClient(rows, r)) <= max
  BY DEF NewestPerClient
<1>2. r.seq \in Nat /\ s.seq \in Nat /\ \A q \in rows : q.seq \in Nat
  BY <1>1 DEF Tier3Event
<1>3. NoOlderOfClient(rows, s) \subseteq NoOlderOfClient(rows, r)
  BY <1>2 DEF NoOlderOfClient
<1>4. IsFiniteSet(NoOlderOfClient(rows, r))
  BY FS_Subset DEF NoOlderOfClient
<1>5. /\ Cardinality(NoOlderOfClient(rows, s)) \in Nat
      /\ Cardinality(NoOlderOfClient(rows, r)) \in Nat
      /\ Cardinality(NoOlderOfClient(rows, s)) <= Cardinality(NoOlderOfClient(rows, r))
  BY <1>3, <1>4, FS_Subset, FS_CardinalityType
<1>6. Cardinality(NoOlderOfClient(rows, s)) <= max
  BY <1>1, <1>5
<1> QED
  BY <1>6 DEF NewestPerClient

(* record_tier3_event drops a row of a client only before its newer ones.  *)
LEMMA RecordKeepsNewer ==
    ASSUME NEW rows \in SUBSET Tier3Event, IsFiniteSet(rows),
           NEW new \in SUBSET Tier3Event, IsFiniteSet(new), NEW t \in Nat
    PROVE  /\ record_tier3_event(rows, new, t) \subseteq rows \cup new
           /\ IsFiniteSet(record_tier3_event(rows, new, t))
           /\ \A r \in record_tier3_event(rows, new, t), s \in rows \cup new :
                 s.client = r.client /\ r.seq <= s.seq /\ r.at <= s.at
                    => s \in record_tier3_event(rows, new, t)
<1> DEFINE recent == Recent(rows \cup new, t)
<1>1. IsFiniteSet(rows \cup new)
  BY FS_Union
<1>2. recent \subseteq rows \cup new /\ IsFiniteSet(recent)
  BY <1>1, FS_Subset DEF Recent
<1>3. NewestPerClient(recent, AuditMax) \subseteq recent
  BY NewestSubset
<1>4. record_tier3_event(rows, new, t) =
        IF new = {} THEN rows ELSE NewestPerClient(recent, AuditMax)
  BY DEF record_tier3_event
<1>5. record_tier3_event(rows, new, t) \subseteq rows \cup new
  BY <1>2, <1>3, <1>4
<1>6. ASSUME NEW r \in record_tier3_event(rows, new, t), NEW s \in rows \cup new,
             s.client = r.client, r.seq <= s.seq, r.at <= s.at
      PROVE  s \in record_tier3_event(rows, new, t)
  <2>1. CASE new = {}
    BY <1>4, <2>1
  <2>2. CASE new # {}
    <3>1. r \in NewestPerClient(recent, AuditMax) /\ r \in recent
      BY <1>3, <1>4, <1>6, <2>2
    <3>2. r.at \in Nat /\ s.at \in Nat /\ r.at >= t - Window
      BY <1>5, <3>1 DEF Tier3Event, Recent, InWindow
    <3>3. s.at >= t - Window
      BY <1>6, <3>2, StoreAssumption
    <3>4. s \in recent
      BY <3>3 DEF Recent, InWindow
    <3>5. recent \in SUBSET Tier3Event /\ AuditMax \in Nat
      BY <1>2, StoreAssumption
    <3>6. s \in NewestPerClient(recent, AuditMax)
      BY <1>2, <1>6, <3>1, <3>4, <3>5, CapKeepsNewer
    <3> QED
      BY <1>4, <2>2, <3>6
  <2> QED
    BY <2>1, <2>2
<1>7. IsFiniteSet(record_tier3_event(rows, new, t))
  BY <1>1, <1>5, FS_Subset
<1> QED
  BY <1>5, <1>6, <1>7
-----------------------------------------------------------------------------
(* Lemmas on the rows of a locked section. *)

(* Queue entries have different ranks, from 1 to their number.             *)
LEMMA RankIsPosition ==
    ASSUME NEW S \in SUBSET Tier3PendingAction, IsFiniteSet(S),
           \A p, q \in S : p.seq = q.seq => p = q
    PROVE  /\ \A p \in S : Rank(p, S) \in 1..Cardinality(S)
           /\ \A p, q \in S : Rank(p, S) = Rank(q, S) => p = q
<1>1. IsFiniteSet(S) /\ Cardinality(S) \in Nat
  BY FS_CardinalityType
<1>2. \A p \in S : p.seq \in Nat
  BY DEF Tier3PendingAction
<1> DEFINE upTo(p) == {q \in S : q.seq <= p.seq}
<1>3. \A p \in S : /\ IsFiniteSet(upTo(p)) /\ p \in upTo(p) /\ Rank(p, S) = Cardinality(upTo(p))
                   /\ Cardinality(upTo(p)) \in Nat /\ Cardinality(upTo(p)) <= Cardinality(S)
  BY <1>1, <1>2, FS_Subset, FS_CardinalityType DEF Rank
<1>4. \A p \in S : Cardinality(upTo(p)) # 0
  BY <1>3, FS_EmptySet
<1>5. ASSUME NEW p \in S, NEW q \in S, p.seq < q.seq
      PROVE  Rank(p, S) # Rank(q, S)
  <2>1. upTo(p) \subseteq upTo(q) /\ q \in upTo(q) /\ q \notin upTo(p)
    BY <1>2, <1>5
  <2>2. Cardinality(upTo(q)) # Cardinality(upTo(p))
    BY <1>3, <2>1, FS_Subset
  <2> QED
    BY <1>3, <2>2
<1>6. \A p, q \in S : Rank(p, S) = Rank(q, S) => p = q
  BY <1>2, <1>5
<1> HIDE DEF upTo
<1>7. \A p \in S : Rank(p, S) \in 1..Cardinality(S)
  BY <1>1, <1>3, <1>4
<1> QED
  BY <1>6, <1>7

(* The rows that close a set of queue entries follow `from', one for each  *)
(* entry (the loops of prune_tier3_pending and delete_tier3_grant).        *)
LEMMA ClosingRowsAreNew ==
    ASSUME LedgerInv, NEW S \in SUBSET pending, NEW from \in Nat, serial <= from,
           NEW o \in {"rejected", "expired"}
    PROVE  /\ NewRows(ClosingRows(S, from, o), from + Cardinality(S))
           /\ \A r \in ClosingRows(S, from, o) :
                 from < r.seq /\ \E p \in S : r.action = p.action
<1> DEFINE rows == ClosingRows(S, from, o)
           row(p) == Event(from + Rank(p, S), p.client, p.amount, o, p.action)
<1>1. AuthorityInv /\ TypeOK /\ IsFiniteSet(pending) /\ PendingIsFree /\ serial \in Nat
  BY DEF LedgerInv, AuthorityInv, TypeOK
<1>2. /\ IsFiniteSet(S) /\ Cardinality(S) \in Nat /\ S \in SUBSET Tier3PendingAction
      /\ \A p, q \in S : p.seq = q.seq => p = q
  BY <1>1, FS_Subset, FS_CardinalityType DEF TypeOK, LedgerInv, QueueIsOwned
<1>3. rows \in SUBSET Tier3Event
  BY <1>1, ClosingType
<1>4. \A r \in rows : \E p \in S : r = row(p)
  BY DEF ClosingRows
<1>5. IsFiniteSet(rows)
  <2> DEFINE f == [p \in S |-> row(p)]
  <2>1. f \in Surjection(S, rows)
    BY DEF ClosingRows, Surjection
  <2> QED
    BY <1>2, <2>1, FS_Surjection
<1>6. ASSUME NEW r \in rows
      PROVE  /\ from < r.seq /\ r.seq <= from + Cardinality(S) /\ serial < r.seq
             /\ r.at = now /\ RowIsOwned(r) /\ \E p \in S : r.action = p.action
  <2>1. PICK p \in S : r = row(p)
    BY <1>4
  <2>2. /\ r.seq = from + Rank(p, S) /\ r.at = now /\ r.client = p.client
        /\ r.action = p.action
    BY <2>1 DEF Event
  <2>3. Rank(p, S) \in 1..Cardinality(S)
    BY <1>2, RankIsPosition
  <2>4. req[p.action] # "idle"
    BY <1>1 DEF PendingIsFree, Started
  <2>5. RowIsOwned(r)
    BY <2>2, <2>4 DEF RowIsOwned, LedgerInv, QueueIsOwned
  <2> QED
    BY <1>1, <1>2, <2>2, <2>3, <2>5
<1>7. ASSUME NEW r \in rows, NEW s \in rows, r.seq = s.seq
      PROVE  r = s
  <2>1. PICK p \in S : r = row(p)
    BY <1>4
  <2>2. PICK q \in S : s = row(q)
    BY <1>4
  <2>3. from + Rank(p, S) = from + Rank(q, S)
    BY <1>7, <2>1, <2>2 DEF Event
  <2>4. Rank(p, S) \in Nat /\ Rank(q, S) \in Nat
    BY <1>2, RankIsPosition
  <2>5. Rank(p, S) = Rank(q, S)
    BY <2>3, <2>4
  <2> QED
    BY <1>2, <2>1, <2>2, <2>5, RankIsPosition
<1> QED
  BY <1>3, <1>5, <1>6, <1>7 DEF NewRows

(* Two groups of rows, the second numbered after the first.                *)
LEMMA NewRowsUnion ==
    ASSUME NEW A, NEW m \in Nat, NewRows(A, m),
           NEW B, NEW last \in Nat, NewRows(B, last), m <= last,
           \A r \in B : m < r.seq
    PROVE  NewRows(A \cup B, last)
<1>1. IsFiniteSet(A \cup B) /\ A \cup B \in SUBSET Tier3Event
  BY FS_Union DEF NewRows
<1>2. \A r \in A \cup B : r.seq \in Nat
  BY <1>1 DEF Tier3Event
<1>3. \A r \in A \cup B : serial < r.seq /\ r.seq <= last /\ r.at = now /\ RowIsOwned(r)
  BY <1>2 DEF NewRows
<1>4. \A r, s \in A \cup B : r.seq = s.seq => r = s
  <2> SUFFICES ASSUME NEW r \in A, NEW s \in B PROVE r.seq < s.seq
    BY <1>2 DEF NewRows
  <2> QED
    BY <1>2 DEF NewRows
<1> QED
  BY <1>1, <1>3, <1>4 DEF NewRows

(* Appending rows keeps the ledger (every call of record_tier3_event that  *)
(* nothing interrupts).                                                    *)
LEMMA RecordKeepsLedger ==
    ASSUME LedgerInv, NEW new, NEW last \in Nat, NewRows(new, last),
           trail' = record_tier3_event(trail, new, now),
           serial <= last, serial' = last, now' = now,
           OrdersKeepClients,
           \A a \in Actions : UnderWay(a)' => StaysReserved(a, new) \/ Reserves(a, new)
    PROVE  TrailInv'
<1>1. /\ TypeOK /\ serial \in Nat /\ now \in Nat /\ trail \in SUBSET Tier3Event
      /\ LedgerRows /\ RowsAreOwned /\ ReservationsLast
  BY GatewayAssumption DEF LedgerInv, TrailInv, AuthorityInv, TypeOK
<1>2. new \in SUBSET Tier3Event /\ IsFiniteSet(new) /\ IsFiniteSet(trail)
  BY <1>1 DEF NewRows, LedgerRows
<1>3. /\ trail' \subseteq trail \cup new /\ IsFiniteSet(trail')
      /\ \A r \in trail', s \in trail \cup new :
            s.client = r.client /\ r.seq <= s.seq /\ r.at <= s.at => s \in trail'
  BY <1>1, <1>2, RecordKeepsNewer
<1>4. \A r \in trail \cup new : r.seq \in Nat /\ r.at \in Nat
  BY <1>1, <1>2 DEF Tier3Event
<1>5. \A r \in trail : r.seq <= serial /\ r.at <= now /\ RowIsOwned(r)
  BY <1>1 DEF LedgerRows, RowsAreOwned
<1>6. \A r \in new : serial < r.seq /\ r.seq <= last /\ r.at = now /\ RowIsOwned(r)
  BY DEF NewRows
<1>7. LedgerRows'
  <2>1. \A r \in trail' : r.seq <= serial' /\ r.at <= now'
    BY <1>1, <1>3, <1>4, <1>5, <1>6
  <2>2. \A r, s \in trail' : r.seq = s.seq => r = s
    <3> SUFFICES ASSUME NEW r \in trail \cup new, NEW s \in trail \cup new, r.seq = s.seq
                 PROVE  r = s
      BY <1>3
    <3>1. CASE r \in trail /\ s \in trail
      BY <1>1, <3>1 DEF LedgerRows
    <3>2. CASE r \in new /\ s \in new
      BY <3>2 DEF NewRows
    <3> QED
      BY <1>1, <1>4, <1>5, <1>6, <3>1, <3>2
  <2> QED
    BY <1>3, <2>1, <2>2 DEF LedgerRows
<1>8. RowsAreOwned'
  BY <1>3, <1>5, <1>6 DEF RowsAreOwned, RowIsOwned, OrdersKeepClients
<1>9. ASSUME NEW a \in Actions, UnderWay(a)', NEW r \in trail', r.action = a
      PROVE  \E s \in trail' : IsReservation(s, a)'
  <2>1. r.client = order[a].client
    BY <1>3, <1>5, <1>6, <1>9 DEF RowIsOwned
  <2>2. CASE StaysReserved(a, new)
    <3>1. \A q \in trail' : q.action = a => q \in trail
      BY <1>3, <2>2 DEF StaysReserved
    <3>2. PICK s \in trail : IsReservation(s, a)
      BY <1>1, <1>9, <2>2, <3>1 DEF ReservationsLast, StaysReserved
    <3>3. s.client = r.client /\ r.seq <= s.seq /\ r.at <= s.at
      BY <1>5, <1>9, <2>1, <3>1, <3>2 DEF IsReservation, RowIsOwned
    <3>4. s \in trail'
      BY <1>3, <3>3
    <3>5. IsReservation(s, a)'
      BY <2>2, <3>1, <3>2 DEF IsReservation, StaysReserved
    <3> QED
      BY <3>4, <3>5
  <2>3. CASE Reserves(a, new)
    <3>1. PICK s \in new : /\ s.action = a /\ s.outcome = "accepted"
                           /\ \A q \in new : q.action = a => q = s
      BY <2>3 DEF Reserves
    <3>2. s.client = order[a].client /\ s.at = now /\ serial < s.seq
      BY <1>6, <3>1 DEF RowIsOwned
    <3>3. \A q \in trail' : q.action = a => q.seq <= s.seq /\ q.at <= s.at
      BY <1>1, <1>3, <1>4, <1>5, <3>1, <3>2
    <3>4. s \in trail'
      BY <1>3, <1>9, <2>1, <3>2, <3>3
    <3>5. IsReservation(s, a)'
      BY <2>3, <3>1, <3>2, <3>3 DEF IsReservation, Reserves
    <3> QED
      BY <3>4, <3>5
  <2> QED
    BY <1>9, <2>2, <2>3
<1>10. ReservationsLast'
  BY <1>9 DEF ReservationsLast
<1> QED
  BY <1>7, <1>8, <1>10 DEF TrailInv

(* So does a step that leaves the trail alone.                             *)
LEMMA FrameKeepsLedger ==
    ASSUME LedgerInv, UNCHANGED <<trail, pending>>,
           serial' \in Nat, serial <= serial', now' \in Nat, now <= now',
           OrdersKeepClients,
           \A a \in Actions : UnderWay(a)' => StaysReserved(a, {})
    PROVE  TrailInv' /\ QueueIsOwned'
<1>1. /\ serial \in Nat /\ now \in Nat /\ trail \in SUBSET Tier3Event
      /\ pending \in SUBSET Tier3PendingAction
      /\ LedgerRows /\ RowsAreOwned /\ ReservationsLast /\ QueueIsOwned /\ PendingIsFree
  BY GatewayAssumption DEF LedgerInv, TrailInv, AuthorityInv, TypeOK
<1>2. \A r \in trail : r.seq \in Nat /\ r.at \in Nat
  BY <1>1 DEF Tier3Event
<1>3. LedgerRows'
  BY <1>1, <1>2 DEF LedgerRows
<1>4. RowsAreOwned'
  BY <1>1 DEF RowsAreOwned, RowIsOwned, OrdersKeepClients
<1>5. ReservationsLast'
  <2> SUFFICES ASSUME NEW a \in Actions, UnderWay(a)', NEW r \in trail, r.action = a
               PROVE  \E s \in trail : IsReservation(s, a)'
    BY DEF ReservationsLast
  <2>1. StaysReserved(a, {})
    OBVIOUS
  <2>2. PICK s \in trail : IsReservation(s, a)
    BY <1>1, <2>1 DEF ReservationsLast, StaysReserved
  <2> QED
    BY <2>1, <2>2 DEF IsReservation, StaysReserved
<1>6. \A p \in pending : /\ p.seq \in Nat /\ p.action \in Actions /\ req[p.action] # "idle"
  BY <1>1 DEF Tier3PendingAction, PendingIsFree, Started
<1>7. QueueIsOwned'
  BY <1>1, <1>6 DEF QueueIsOwned, OrdersKeepClients
<1> QED
  BY <1>3, <1>4, <1>5, <1>7 DEF TrailInv
-----------------------------------------------------------------------------
(* A locked section keeps the ledger: prune_tier3_pending's rows, then the *)
(* handler's own.                                                          *)
LEMMA CommitKeepsLedger ==
    ASSUME LedgerInv, NEW rows, NEW writes, NEW last \in Nat, NEW polled,
           Commit(rows, writes, last, polled), NewRows(rows, last), AfterSweep <= last,
           \A r \in rows : AfterSweep < r.seq,
           now' = now, OrdersKeepClients,
           \A a \in Actions : UnderWay(a)' =>
              \/ StaysReserved(a, rows)
              \/ Reserves(a, rows) /\ \A p \in Overdue : p.action # a
    PROVE  TrailInv'
<1> DEFINE closing == ClosingRows(Overdue, serial, "expired")
<1>1. AuthorityInv /\ TypeOK /\ IsFiniteSet(pending) /\ PendingIsFree /\ serial \in Nat
  BY DEF LedgerInv, AuthorityInv, TypeOK
<1>2. AfterSweep \in Nat /\ Overdue \in SUBSET pending /\ serial <= AfterSweep
  <2>1. Overdue \in SUBSET pending
    BY DEF Overdue
  <2>2. Cardinality(Overdue) \in Nat
    BY <1>1, <2>1, SweepType
  <2> QED
    BY <1>1, <2>1, <2>2 DEF AfterSweep
<1>3. /\ NewRows(closing, AfterSweep)
      /\ \A r \in closing : \E p \in Overdue : r.action = p.action
  BY <1>1, <1>2, ClosingRowsAreNew DEF AfterSweep
<1> HIDE DEF closing
<1>4. NewRows(closing \cup rows, last)
  BY <1>2, <1>3, NewRowsUnion
<1>5. trail' = record_tier3_event(trail, closing \cup rows, now) /\ serial' = last
  BY DEF Commit, closing
<1>6. \A a \in Actions : UnderWay(a)' =>
         StaysReserved(a, closing \cup rows) \/ Reserves(a, closing \cup rows)
  <2> SUFFICES ASSUME NEW a \in Actions, UnderWay(a)'
               PROVE  StaysReserved(a, closing \cup rows) \/ Reserves(a, closing \cup rows)
    OBVIOUS
  <2>1. CASE StaysReserved(a, rows)
    <3>1. \A p \in Overdue : p.action # a
      BY <1>1, <1>2, <2>1 DEF PendingIsFree, StaysReserved, UnderWay
    <3>2. \A r \in closing : r.action # a
      BY <1>3, <3>1
    <3> QED
      BY <2>1, <3>2 DEF StaysReserved
  <2>2. CASE Reserves(a, rows) /\ \A p \in Overdue : p.action # a
    <3>1. \A r \in closing : r.action # a
      BY <1>3, <2>2
    <3> QED
      BY <2>2, <3>1 DEF Reserves
  <2> QED
    BY <2>1, <2>2
<1>7. serial <= last
  BY <1>1, <1>2
<1> QED
  BY <1>4, <1>5, <1>6, <1>7, RecordKeepsLedger

(* The queue after a step that adds nothing to it.                         *)
LEMMA ShrinkingKeepsQueue ==
    ASSUME LedgerInv, pending' \subseteq pending, serial' \in Nat, serial <= serial',
           OrdersKeepClients
    PROVE  QueueIsOwned'
<1>1. \A p \in pending : /\ p.seq \in Nat /\ p.action \in Actions /\ req[p.action] # "idle"
  BY DEF LedgerInv, AuthorityInv, TypeOK, Tier3PendingAction, PendingIsFree, Started
<1>2. serial \in Nat
  BY DEF LedgerInv, AuthorityInv, TypeOK
<1> QED
  BY <1>1, <1>2 DEF LedgerInv, QueueIsOwned, OrdersKeepClients

(* No row at all, and one row: the two cases the handlers meet.            *)
LEMMA FewNewRows ==
    ASSUME LedgerInv, NEW last \in Nat
    PROVE  /\ NewRows({}, last)
           /\ \A r \in Tier3Event : (/\ serial < r.seq /\ r.seq <= last
                                     /\ r.at = now /\ RowIsOwned(r)) => NewRows({r}, last)
<1>1. IsFiniteSet({}) /\ \A r : IsFiniteSet({r})
  BY FS_EmptySet, FS_Singleton
<1> QED
  BY <1>1 DEF NewRows

(* A locked section that hands nothing over keeps reservations in place.   *)
LEMMA NothingMoves ==
    ASSUME UNCHANGED <<order, hand, result>>, NEW rows,
           \A r \in rows : r.action \in Actions => hand[r.action] = "none"
    PROVE  \A a \in Actions : UnderWay(a)' => StaysReserved(a, rows)
  BY DEF UnderWay, StaysReserved, HeldOutcome
-----------------------------------------------------------------------------
(* One lemma per action: it keeps the ledger. *)

(* prune_tier3_pending alone: list_tier3_approvals, the poll, and the      *)
(* locked section that finds no free slot.                                 *)
LEMMA SweepKeepsLedger ==
    ASSUME LedgerInv, \/ Sweep
                      \/ \E a \in Actions : Poll(a)
                      \/ \E a \in Actions : FindQueueFull(a)
    PROVE  TrailInv' /\ QueueIsOwned' /\ rebuilding' = {}
<1>1. AuthorityInv /\ TypeOK /\ IsFiniteSet(pending) /\ rebuilding = {}
  BY DEF LedgerInv, AuthorityInv
<1>2. PICK polled : Commit({}, {}, AfterSweep, polled)
  BY DEF Sweep, Poll, FindQueueFull
<1>3. pending' = Live /\ UNCHANGED <<now, order, hand, result, rebuilding>>
  BY DEF Sweep, Poll, FindQueueFull, locals
<1>4. AfterSweep \in Nat /\ serial' = AfterSweep /\ serial <= AfterSweep
  <2>1. Overdue \in SUBSET pending
    BY DEF Overdue
  <2> QED
    BY <1>1, <1>2, <2>1, SweepType DEF AfterSweep, Commit, TypeOK
<1>5. OrdersKeepClients
  <2>1. ASSUME NEW a \in Actions, req[a] # "idle" PROVE req'[a] # "idle"
    BY <1>1, <2>1 DEF Sweep, Poll, FindQueueFull, locals, TypeOK, Threads
  <2> QED
    BY <1>3, <2>1 DEF OrdersKeepClients
<1>6. TrailInv'
  <2>1. \A a \in Actions : UnderWay(a)' => StaysReserved(a, {})
    BY <1>3, NothingMoves
  <2>2. NewRows({}, AfterSweep)
    BY <1>4, FewNewRows
  <2> QED
    BY <1>2, <1>3, <1>4, <1>5, <2>1, <2>2, CommitKeepsLedger
<1>7. QueueIsOwned'
  BY <1>3, <1>4, <1>5, ShrinkingKeepsQueue DEF Live
<1> QED
  BY <1>1, <1>3, <1>6, <1>7

(* delete_tier3_grant: one row for each entry it cancels.                  *)
LEMMA DeleteGrantKeepsLedger ==
    ASSUME LedgerInv, NEW c \in Clients, DeleteGrant(c)
    PROVE  TrailInv' /\ QueueIsOwned' /\ rebuilding' = {}
<1> DEFINE purged == {p \in Live : p.client = c}
           rows == ClosingRows(purged, AfterSweep, "rejected")
           last == AfterSweep + Cardinality(purged)
<1>1. /\ AuthorityInv /\ TypeOK /\ IsFiniteSet(pending) /\ PendingIsFree
      /\ rebuilding = {} /\ serial \in Nat
  BY DEF LedgerInv, AuthorityInv, TypeOK
<1>2. /\ Commit(rows, ClosingWrites(purged, AfterSweep, "rejected"), last, {})
      /\ pending' = Live \ purged
      /\ UNCHANGED <<now, order, req, hand, result, rebuilding>>
  BY DEF DeleteGrant, locals
<1>3. purged \in SUBSET pending /\ Overdue \in SUBSET pending
  BY DEF Live, Overdue
<1>4. /\ AfterSweep \in Nat /\ last \in Nat /\ serial <= AfterSweep /\ AfterSweep <= last
      /\ serial' = last
  BY <1>1, <1>2, <1>3, SweepType DEF AfterSweep, Commit
<1>5. /\ NewRows(rows, last)
      /\ \A r \in rows : AfterSweep < r.seq /\ \E p \in purged : r.action = p.action
  BY <1>3, <1>4, ClosingRowsAreNew
<1> HIDE DEF purged, rows, last
<1>6. \A a \in Actions : UnderWay(a)' => StaysReserved(a, rows)
  <2>1. \A r \in rows : hand[r.action] = "none"
    BY <1>1, <1>3, <1>5 DEF PendingIsFree
  <2> QED
    BY <1>2, <2>1, NothingMoves
<1>7. OrdersKeepClients
  BY <1>2 DEF OrdersKeepClients
<1>8. TrailInv'
  BY <1>2, <1>4, <1>5, <1>6, <1>7, CommitKeepsLedger
<1>9. QueueIsOwned'
  BY <1>1, <1>2, <1>4, <1>7, ShrinkingKeepsQueue DEF Live
<1> QED
  BY <1>1, <1>2, <1>8, <1>9

(* A rejection, or an approval that finds no mandate: one row.             *)
LEMMA RejectKeepsLedger ==
    ASSUME LedgerInv, NEW p \in Live, Reject(p) \/ ApproveRevoked(p)
    PROVE  TrailInv' /\ QueueIsOwned' /\ rebuilding' = {}
<1> DEFINE n == AfterSweep + 1
           row == Event(n, p.client, p.amount, "rejected", p.action)
<1>1. /\ AuthorityInv /\ TypeOK /\ IsFiniteSet(pending) /\ PendingIsFree
      /\ rebuilding = {} /\ serial \in Nat /\ now \in Nat /\ QueueIsOwned
  BY GatewayAssumption DEF LedgerInv, AuthorityInv, TypeOK
<1>2. PICK writes : Commit({row}, writes, n, {})
  BY DEF Reject, ApproveRevoked
<1>3. pending' = Live \ {p} /\ UNCHANGED <<now, order, req, hand, result, rebuilding>>
  BY DEF Reject, ApproveRevoked, locals
<1>4. p \in pending /\ p \in Tier3PendingAction /\ Overdue \in SUBSET pending
  BY <1>1 DEF Live, Overdue, TypeOK
<1>5. AfterSweep \in Nat /\ n \in Nat /\ serial <= AfterSweep /\ serial' = n
  BY <1>1, <1>2, <1>4, SweepType DEF AfterSweep, Commit
<1> HIDE DEF n
<1>6. n = AfterSweep + 1
  BY DEF n
<1>7. row \in Tier3Event /\ row.seq = n /\ row.at = now /\ row.action = p.action /\ RowIsOwned(row)
  <2>1. req[p.action] # "idle" /\ p.client = order[p.action].client
    BY <1>1, <1>4 DEF PendingIsFree, Started, QueueIsOwned
  <2>2. p.client \in Clients /\ p.amount \in Nat /\ p.action \in Actions
    BY <1>4, GatewayAssumption DEF Tier3PendingAction
  <2> QED
    BY <1>1, <1>5, <2>1, <2>2 DEF Event, Tier3Event, Outcomes, RowIsOwned
<1> HIDE DEF row
<1>8. NewRows({row}, n)
  BY <1>1, <1>5, <1>6, <1>7, FewNewRows
<1>9. \A a \in Actions : UnderWay(a)' => StaysReserved(a, {row})
  BY <1>1, <1>3, <1>4, <1>7, NothingMoves DEF PendingIsFree
<1>10. OrdersKeepClients
  BY <1>3 DEF OrdersKeepClients
<1>11. TrailInv'
  BY <1>2, <1>3, <1>5, <1>6, <1>7, <1>8, <1>9, <1>10, CommitKeepsLedger
<1>12. QueueIsOwned'
  BY <1>1, <1>3, <1>5, <1>6, <1>10, ShrinkingKeepsQueue DEF Live
<1> QED
  BY <1>1, <1>3, <1>11, <1>12

(* An approval: the accepted row is the newest of its action.              *)
LEMMA ApproveKeepsLedger ==
    ASSUME LedgerInv, NEW p \in Live, Approve(p)
    PROVE  TrailInv' /\ QueueIsOwned' /\ rebuilding' = {}
<1> DEFINE n == AfterSweep + 1
           row == Event(n, p.client, p.amount, "accepted", p.action)
<1>1. /\ AuthorityInv /\ TypeOK /\ IsFiniteSet(pending) /\ PendingIsFree
      /\ rebuilding = {} /\ serial \in Nat /\ now \in Nat /\ QueueIsOwned
  BY GatewayAssumption DEF LedgerInv, AuthorityInv, TypeOK
<1>2. /\ Commit({row}, {}, n, {}) /\ pending' = Live \ {p}
      /\ UNCHANGED <<now, req, result, rebuilding>>
  BY DEF Approve
<1>3. /\ order' = [order EXCEPT ![p.action].limit = grants[p.client], ![p.action].at = now]
      /\ hand' = [hand EXCEPT ![p.action] = "due"]
  BY DEF Approve, StartHandoff
<1>4. p \in pending /\ p \in Tier3PendingAction /\ Overdue \in SUBSET pending /\ p \notin Overdue
  BY <1>1 DEF Live, Overdue, TypeOK
<1>5. AfterSweep \in Nat /\ n \in Nat /\ serial <= AfterSweep /\ serial' = n
  BY <1>1, <1>2, <1>4, SweepType DEF AfterSweep, Commit
<1> HIDE DEF n
<1>6. n = AfterSweep + 1
  BY DEF n
<1>7. p.client \in Clients /\ p.amount \in Nat /\ p.action \in Actions
  BY <1>4, GatewayAssumption DEF Tier3PendingAction
<1>8. /\ row \in Tier3Event /\ row.seq = n /\ row.at = now /\ row.action = p.action
      /\ row.outcome = "accepted" /\ RowIsOwned(row)
  <2>1. req[p.action] # "idle" /\ p.client = order[p.action].client
    BY <1>1, <1>4 DEF PendingIsFree, Started, QueueIsOwned
  <2> QED
    BY <1>1, <1>5, <1>7, <2>1 DEF Event, Tier3Event, Outcomes, RowIsOwned
<1> HIDE DEF row
<1>9. NewRows({row}, n)
  BY <1>1, <1>5, <1>6, <1>8, FewNewRows
<1>10. /\ \A a \in Actions : order'[a].client = order[a].client
       /\ order'[p.action].at = now /\ hand'[p.action] = "due"
       /\ \A a \in Actions \ {p.action} : order'[a].at = order[a].at /\ hand'[a] = hand[a]
  BY <1>1, <1>3, <1>7 DEF TypeOK, Order
<1>11. \A a \in Actions : UnderWay(a)' =>
          \/ StaysReserved(a, {row})
          \/ Reserves(a, {row}) /\ \A q \in Overdue : q.action # a
  <2>1. ASSUME NEW a \in Actions \ {p.action}, UnderWay(a)'
        PROVE  StaysReserved(a, {row})
    BY <1>2, <1>8, <1>10, <2>1 DEF UnderWay, StaysReserved, HeldOutcome
  <2>2. Reserves(p.action, {row})
    BY <1>8, <1>10 DEF Reserves, HeldOutcome
  <2>3. \A q \in Overdue : q.action # p.action
    BY <1>1, <1>4 DEF PendingIsFree
  <2> QED
    BY <2>1, <2>2, <2>3
<1>12. OrdersKeepClients
  BY <1>2, <1>10 DEF OrdersKeepClients
<1>13. TrailInv'
  <2>1. AfterSweep <= n /\ \A r \in {row} : AfterSweep < r.seq
    BY <1>5, <1>6, <1>8
  <2>2. Commit({row}, {}, n, {}) /\ now' = now
    BY <1>2
  <2> QED
    BY <1>5, <1>9, <1>11, <1>12, <2>1, <2>2, CommitKeepsLedger
<1>14. QueueIsOwned'
  BY <1>1, <1>2, <1>5, <1>6, <1>12, ShrinkingKeepsQueue DEF Live
<1> QED
  BY <1>1, <1>2, <1>13, <1>14

(* An order over the mandate: a "queued" row, and the queue's newest entry.*)
LEMMA QueueKeepsLedger ==
    ASSUME LedgerInv, NEW a \in Actions, Queue(a)
    PROVE  TrailInv' /\ QueueIsOwned' /\ rebuilding' = {}
<1> DEFINE n == AfterSweep + 1
           row == Event(n, order[a].client, order[a].amount, "queued", a)
           entry == [seq |-> n, action |-> a, client |-> order[a].client,
                     amount |-> order[a].amount, expires |-> now + PendingTTL,
                     crossed |-> MapIsBeingRebuilt]
<1>1. /\ AuthorityInv /\ TypeOK /\ IsFiniteSet(pending) /\ PendingIsFree /\ UnstartedIsFree
      /\ rebuilding = {} /\ serial \in Nat /\ now \in Nat /\ QueueIsOwned /\ OrderIsKnown
  BY GatewayAssumption DEF LedgerInv, AuthorityInv, TypeOK
<1>2. /\ req[a] = "limitRead" /\ req' = [req EXCEPT ![a] = "queued"]
      /\ pending' = Live \cup {entry}
      /\ UNCHANGED <<now, order, hand, result, rebuilding>>
  BY DEF Queue
<1>3. PICK writes : Commit({row}, writes, n, {})
  BY DEF Queue
<1>4. Overdue \in SUBSET pending /\ Live \in SUBSET pending
  BY DEF Live, Overdue
<1>5. AfterSweep \in Nat /\ n \in Nat /\ serial <= AfterSweep /\ serial' = n
  BY <1>1, <1>3, <1>4, SweepType DEF AfterSweep, Commit
<1> HIDE DEF n
<1>6. n = AfterSweep + 1
  BY DEF n
<1>7. row \in Tier3Event /\ row.seq = n /\ row.at = now /\ row.action = a /\ RowIsOwned(row)
  <2>1. order[a].client \in Clients /\ order[a].amount \in Nat
    BY <1>1, <1>2, GatewayAssumption DEF OrderIsKnown, Placed
  <2> QED
    BY <1>1, <1>2, <1>5, <2>1 DEF Event, Tier3Event, Outcomes, RowIsOwned
<1>8. entry.seq = n /\ entry.action = a /\ entry.client = order[a].client
  OBVIOUS
<1> HIDE DEF row, entry
<1>9. NewRows({row}, n)
  BY <1>1, <1>5, <1>6, <1>7, FewNewRows
<1>10. \A b \in Actions : UnderWay(b)' => StaysReserved(b, {row})
  BY <1>1, <1>2, <1>7, NothingMoves DEF UnstartedIsFree, Started
<1>11. OrdersKeepClients
  BY <1>1, <1>2 DEF OrdersKeepClients, TypeOK, Threads
<1>12. TrailInv'
  <2>1. AfterSweep <= n /\ \A r \in {row} : AfterSweep < r.seq
    BY <1>5, <1>6, <1>7
  <2>2. n \in Nat /\ now' = now
    BY <1>2, <1>5
  <2> QED
    BY <1>3, <1>9, <1>10, <1>11, <2>1, <2>2, CommitKeepsLedger
<1>13. QueueIsOwned'
  <2>1. \A p \in pending : p.seq \in Nat /\ p.seq <= serial
    BY <1>1 DEF QueueIsOwned, TypeOK, Tier3PendingAction
  <2>2. \A p \in pending' : p \in pending \/ p = entry
    BY <1>2, <1>4
  <2>3. \A p \in pending' : p.seq <= serial' /\ p.client = order'[p.action].client
    BY <1>1, <1>2, <1>5, <1>6, <1>8, <2>1, <2>2 DEF QueueIsOwned
  <2>4. \A p, q \in pending' : p.seq = q.seq => p = q
    BY <1>1, <1>5, <1>6, <1>8, <2>1, <2>2 DEF QueueIsOwned
  <2> QED
    BY <2>3, <2>4 DEF QueueIsOwned
<1> QED
  BY <1>1, <1>2, <1>12, <1>13

(* An order within the mandate: its reservation.                           *)
LEMMA ReserveKeepsLedger ==
    ASSUME LedgerInv, NEW a \in Actions, Reserve(a)
    PROVE  TrailInv' /\ QueueIsOwned' /\ rebuilding' = {}
<1> DEFINE n == serial + 1
           row == Event(n, order[a].client, order[a].amount, "accepted", a)
<1>1. /\ AuthorityInv /\ TypeOK /\ OrderIsKnown
      /\ rebuilding = {} /\ serial \in Nat /\ now \in Nat
  BY GatewayAssumption DEF LedgerInv, AuthorityInv, TypeOK
<1>2. /\ req[a] = "limitRead" /\ req' = [req EXCEPT ![a] = "handedOff"]
      /\ trail' = record_tier3_event(trail, {row}, now) /\ serial' = n
      /\ UNCHANGED <<now, pending, result, rebuilding>>
  BY DEF Reserve
<1>3. /\ order' = [order EXCEPT ![a].limit = order[a].limit, ![a].at = now]
      /\ hand' = [hand EXCEPT ![a] = "due"]
  BY DEF Reserve, StartHandoff
<1>4. n \in Nat /\ serial < n
  BY <1>1
<1>5. order[a].client \in Clients /\ order[a].amount \in Nat
  BY <1>1, <1>2, GatewayAssumption DEF OrderIsKnown, Placed
<1> HIDE DEF n
<1>6. /\ row \in Tier3Event /\ row.seq = n /\ row.at = now /\ row.action = a
      /\ row.outcome = "accepted" /\ RowIsOwned(row)
  BY <1>1, <1>2, <1>4, <1>5 DEF Event, Tier3Event, Outcomes, RowIsOwned
<1> HIDE DEF row
<1>7. NewRows({row}, n)
  BY <1>4, <1>6, FewNewRows
<1>8. /\ \A b \in Actions : order'[b].client = order[b].client
      /\ order'[a].at = now /\ hand'[a] = "due"
      /\ \A b \in Actions \ {a} : order'[b].at = order[b].at /\ hand'[b] = hand[b]
  BY <1>1, <1>3 DEF TypeOK, Order
<1>9. \A b \in Actions : UnderWay(b)' => StaysReserved(b, {row}) \/ Reserves(b, {row})
  <2>1. ASSUME NEW b \in Actions \ {a}, UnderWay(b)'
        PROVE  StaysReserved(b, {row})
    BY <1>2, <1>6, <1>8, <2>1 DEF UnderWay, StaysReserved, HeldOutcome
  <2>2. Reserves(a, {row})
    BY <1>6, <1>8 DEF Reserves, HeldOutcome
  <2> QED
    BY <2>1, <2>2
<1>10. OrdersKeepClients
  BY <1>1, <1>2, <1>8 DEF OrdersKeepClients, TypeOK, Threads
<1>11. TrailInv'
  BY <1>1, <1>2, <1>4, <1>7, <1>9, <1>10, RecordKeepsLedger
<1>12. QueueIsOwned'
  BY <1>1, <1>2, <1>4, <1>10, ShrinkingKeepsQueue
<1> QED
  BY <1>1, <1>2, <1>11, <1>12

(* A refusal that nothing interrupts: its row, of no order under way.      *)
LEMMA RefusalKeepsLedger ==
    ASSUME LedgerInv, RacingRefusals = {}, NEW t \in Threads, NEW row \in Tier3Event,
           row.seq = serial + 1, row.at = now, RowIsOwned(row),
           row.action \in Actions => hand[row.action] = "none",
           RecordUnlocked(t, row), req' = [req EXCEPT ![t] = "refused"],
           UNCHANGED <<now, pending, order, hand, result>>
    PROVE  TrailInv' /\ QueueIsOwned' /\ rebuilding' = {}
<1>1. TypeOK /\ rebuilding = {} /\ serial \in Nat
  BY DEF LedgerInv, AuthorityInv, TypeOK
<1>2. /\ trail' = record_tier3_event(trail, {row}, now) /\ serial' = serial + 1
      /\ rebuilding' = rebuilding
  BY DEF RecordUnlocked, record_tier3_event
<1>3. serial + 1 \in Nat /\ serial < serial + 1 /\ serial <= serial + 1
  BY <1>1
<1>4. NewRows({row}, serial + 1)
  BY <1>3, FewNewRows
<1>5. \A a \in Actions : UnderWay(a)' => StaysReserved(a, {row})
  BY NothingMoves
<1>6. OrdersKeepClients
  BY <1>1 DEF OrdersKeepClients, TypeOK, Threads
<1>7. TrailInv'
  BY <1>2, <1>3, <1>4, <1>5, <1>6, RecordKeepsLedger
<1>8. QueueIsOwned'
  BY <1>2, <1>3, <1>6, ShrinkingKeepsQueue
<1> QED
  BY <1>1, <1>2, <1>7, <1>8

(* The 401s, the 403 for want of a mandate, and the 429 of a full queue.   *)
LEMMA RefusalsKeepLedger ==
    ASSUME LedgerInv, RacingRefusals = {},
           \/ \E s \in Strangers : RefuseStranger(s)
           \/ \E a \in Actions, c \in Clients, amount \in Amounts : RefuseNoGrant(a, c, amount)
           \/ \E a \in Actions : RefuseQueueFull(a)
    PROVE  TrailInv' /\ QueueIsOwned' /\ rebuilding' = {}
<1>1. /\ TypeOK /\ UnstartedIsFree /\ OrderIsKnown
      /\ serial + 1 \in Nat /\ now \in Nat
  BY GatewayAssumption DEF LedgerInv, AuthorityInv, TypeOK
<1>2. ASSUME NEW s \in Strangers, RefuseStranger(s)
      PROVE  TrailInv' /\ QueueIsOwned' /\ rebuilding' = {}
  <2>1. PICK amount \in Amounts :
          RecordUnlocked(s, Event(serial + 1, Unknown, amount, "rejected", NoAction))
    BY <1>2 DEF RefuseStranger
  <2> DEFINE row == Event(serial + 1, Unknown, amount, "rejected", NoAction)
  <2>2. row \in Tier3Event /\ row.seq = serial + 1 /\ row.at = now /\ row.action \notin Actions
    BY <1>1, GatewayAssumption DEF Event, Tier3Event, Outcomes
  <2> HIDE DEF row
  <2>3. RecordUnlocked(s, row)
    BY <2>1 DEF row
  <2> QED
    BY <1>2, <2>2, <2>3, RefusalKeepsLedger DEF RefuseStranger, Threads, RowIsOwned
<1>3. ASSUME NEW a \in Actions, NEW c \in Clients, NEW amount \in Amounts,
             RefuseNoGrant(a, c, amount)
      PROVE  TrailInv' /\ QueueIsOwned' /\ rebuilding' = {}
  <2> DEFINE row == Event(serial + 1, c, amount, "rejected", NoAction)
  <2>1. row \in Tier3Event /\ row.seq = serial + 1 /\ row.at = now /\ row.action \notin Actions
    BY <1>1, GatewayAssumption DEF Event, Tier3Event, Outcomes
  <2> HIDE DEF row
  <2>2. RecordUnlocked(a, row)
    BY <1>3 DEF RefuseNoGrant, row
  <2> QED
    BY <1>3, <2>1, <2>2, RefusalKeepsLedger DEF RefuseNoGrant, Threads, RowIsOwned
<1>4. ASSUME NEW a \in Actions, RefuseQueueFull(a)
      PROVE  TrailInv' /\ QueueIsOwned' /\ rebuilding' = {}
  <2> DEFINE row == Event(serial + 1, order[a].client, order[a].amount, "rejected", a)
  <2>1. req[a] = "full" /\ hand[a] = "none"
    BY <1>1, <1>4 DEF RefuseQueueFull, UnstartedIsFree, Started
  <2>2. order[a].client \in Clients /\ order[a].amount \in Nat
    BY <1>1, <2>1, GatewayAssumption DEF OrderIsKnown, Placed
  <2>3. /\ row \in Tier3Event /\ row.seq = serial + 1 /\ row.at = now
        /\ row.action = a /\ RowIsOwned(row)
    BY <1>1, <2>1, <2>2 DEF Event, Tier3Event, Outcomes, RowIsOwned
  <2> HIDE DEF row
  <2>4. RecordUnlocked(a, row)
    BY <1>4 DEF RefuseQueueFull, row
  <2> QED
    BY <1>4, <2>1, <2>3, <2>4, RefusalKeepsLedger DEF RefuseQueueFull, Threads
<1> QED
  BY <1>2, <1>3, <1>4

(* Steps outside the trail and the queue: reading the limit, the answers,  *)
(* the call of the agent, the settlement of the poll's entry, a new grant. *)
LEMMA OutsideFrame ==
    ASSUME LedgerInv,
           \/ Tick
           \/ UNCHANGED vars
           \/ \E a \in Actions, c \in Clients, amount \in Amounts : ReadLimit(a, c, amount)
           \/ \E a \in Actions : AnswerQueued(a) \/ AnswerHandedOff(a)
           \/ \E a \in Actions, kind \in Results : HandOff(a, kind)
           \/ \E a \in Actions : SettleResolution(a) \/ AssignMap(a)
           \/ \E c \in Clients, limit \in Limits : PutGrant(c, limit)
    PROVE  /\ UNCHANGED <<trail, pending, rebuilding>>
           /\ serial' \in Nat /\ serial <= serial' /\ now' \in Nat /\ now <= now'
           /\ OrdersKeepClients /\ OrdersAdvance
           /\ \A b \in Actions : UnderWay(b)' => StaysReserved(b, {})
<1>1. /\ TypeOK /\ UnstartedIsFree /\ rebuilding = {}
      /\ serial \in Nat /\ now \in Nat
  BY GatewayAssumption DEF LedgerInv, AuthorityInv, TypeOK
<1> DEFINE Frame == OrdersKeepClients /\ OrdersAdvance /\ \A b \in Actions : UnderWay(b)' => StaysReserved(b, {})
<1>2. UNCHANGED <<trail, pending, rebuilding>>
  BY DEF Tick, vars, ReadLimit, AnswerQueued, AnswerHandedOff, HandOff, SettleResolution,
         AssignMap, PutGrant, store, threads, locals
<1>3. serial' \in Nat /\ serial <= serial' /\ now' \in Nat /\ now <= now'
  <2>1. serial' = serial \/ serial' = serial + 1
    BY DEF Tick, vars, ReadLimit, AnswerQueued, AnswerHandedOff, HandOff, SettleResolution,
           AssignMap, PutGrant, store, threads, locals
  <2>2. now' = now \/ now' = now + 1
    BY DEF Tick, vars, ReadLimit, AnswerQueued, AnswerHandedOff, HandOff, SettleResolution,
           AssignMap, PutGrant, store, threads, locals
  <2> QED
    BY <1>1, <2>1, <2>2
<1>4. ASSUME NEW a \in Actions, NEW c \in Clients, NEW amount \in Amounts, ReadLimit(a, c, amount)
      PROVE  Frame
  <2>1. /\ req[a] = "idle" /\ hand[a] = "none" /\ UNCHANGED <<hand, result>>
        /\ \A b \in Actions \ {a} : req'[b] = req[b] /\ order'[b] = order[b]
    BY <1>1, <1>4 DEF ReadLimit, TypeOK, Threads, UnstartedIsFree, Started
  <2> QED
    BY <2>1 DEF OrdersKeepClients, OrdersAdvance, Started, UnderWay, StaysReserved, HeldOutcome
<1>5. ASSUME NEW a \in Actions, AnswerQueued(a) \/ AnswerHandedOff(a)
      PROVE  Frame
  <2>1. UNCHANGED <<order, hand, result>>
    BY <1>5 DEF AnswerQueued, AnswerHandedOff
  <2>2. /\ req[a] \in {"queued", "handedOff"} /\ req'[a] \in {"answered", "error"}
        /\ \A b \in Actions \ {a} : req'[b] = req[b]
    BY <1>1, <1>5 DEF AnswerQueued, AnswerHandedOff, TypeOK, Threads
  <2> QED
    BY <2>1, <2>2 DEF OrdersKeepClients, OrdersAdvance, Started, UnderWay, StaysReserved, HeldOutcome
<1>6. ASSUME NEW a \in Actions, NEW kind \in Results, HandOff(a, kind)
      PROVE  Frame
  <2>1. /\ hand[a] = "due" /\ hand'[a] = "returned" /\ UNCHANGED <<order, req>>
        /\ \A b \in Actions \ {a} : hand'[b] = hand[b] /\ result'[b] = result[b]
    BY <1>1, <1>6 DEF HandOff, TypeOK
  <2>2. ASSUME NEW b \in Actions, UnderWay(b)' PROVE StaysReserved(b, {})
    BY <2>1, <2>2 DEF UnderWay, StaysReserved, HeldOutcome
  <2>3. \A b \in Actions : UnderWay(b) => UnderWay(b)'
    BY <2>1 DEF UnderWay
  <2> QED
    BY <2>1, <2>2, <2>3 DEF OrdersKeepClients, OrdersAdvance
<1>7. ASSUME NEW a \in Actions, SettleResolution(a) \/ AssignMap(a)
      PROVE  Frame
  <2>1. /\ hand[a] \in {"audited", "rebuilding"} /\ hand'[a] \in {"rebuilding", "settled"}
        /\ \A b \in Actions \ {a} : hand'[b] = hand[b]
        /\ UNCHANGED <<order, req, result>>
    BY <1>1, <1>7 DEF SettleResolution, AssignMap, TypeOK
  <2> QED
    BY <2>1 DEF OrdersKeepClients, OrdersAdvance, UnderWay, StaysReserved, HeldOutcome
<1>8. ASSUME Tick \/ UNCHANGED vars \/ \E c \in Clients, limit \in Limits : PutGrant(c, limit)
      PROVE  Frame
  <2>1. UNCHANGED <<order, req, hand, result>>
    BY <1>8 DEF Tick, vars, PutGrant, threads, locals
  <2> QED
    BY <2>1 DEF OrdersKeepClients, OrdersAdvance, UnderWay, StaysReserved, HeldOutcome
<1>9. Frame
  BY <1>4, <1>5, <1>6, <1>7, <1>8
<1> QED
  BY <1>2, <1>3, <1>9

(* They leave the ledger as it is.                                         *)
LEMMA OutsideKeepsLedger ==
    ASSUME LedgerInv,
           \/ Tick
           \/ UNCHANGED vars
           \/ \E a \in Actions, c \in Clients, amount \in Amounts : ReadLimit(a, c, amount)
           \/ \E a \in Actions : AnswerQueued(a) \/ AnswerHandedOff(a)
           \/ \E a \in Actions, kind \in Results : HandOff(a, kind)
           \/ \E a \in Actions : SettleResolution(a) \/ AssignMap(a)
           \/ \E c \in Clients, limit \in Limits : PutGrant(c, limit)
    PROVE  TrailInv' /\ QueueIsOwned' /\ rebuilding' = {}
<1>1. /\ UNCHANGED <<trail, pending>> /\ rebuilding' = {}
      /\ serial' \in Nat /\ serial <= serial' /\ now' \in Nat /\ now <= now'
      /\ OrdersKeepClients /\ \A b \in Actions : UnderWay(b)' => StaysReserved(b, {})
  BY OutsideFrame DEF LedgerInv
<1> QED
  BY <1>1, FrameKeepsLedger

(* settle_tier3_event changes the reservation's row and no other.          *)
LEMMA SettleEventKeepsLedger ==
    ASSUME LedgerInv, NEW a \in Actions, SettleEvent(a)
    PROVE  TrailInv' /\ QueueIsOwned' /\ rebuilding' = {}
<1> DEFINE seqs == {r.seq : r \in SettleTarget(trail, a)}
           outcome == SettledOutcome(result[a])
           settled(r) == IF r.seq \in seqs THEN [r EXCEPT !.outcome = outcome] ELSE r
<1>1. /\ TypeOK /\ rebuilding = {} /\ trail \in SUBSET Tier3Event
      /\ LedgerRows /\ RowsAreOwned /\ ReservationsLast /\ QueueIsOwned
  BY DEF LedgerInv, TrailInv, AuthorityInv, TypeOK
<1>2. /\ hand[a] = "returned" /\ hand' = [hand EXCEPT ![a] = "audited"]
      /\ UNCHANGED <<now, serial, pending, order, req, result, rebuilding>>
      /\ trail' = {settled(r) : r \in trail}
  BY DEF SettleEvent, SetOutcome
<1>3. hand'[a] = "audited" /\ \A b \in Actions \ {a} : hand'[b] = hand[b]
  BY <1>1, <1>2 DEF TypeOK
<1>4. \A r \in trail : /\ settled(r) \in trail'
                       /\ settled(r).seq = r.seq /\ settled(r).at = r.at
                       /\ settled(r).client = r.client /\ settled(r).action = r.action
                       /\ r.seq \in seqs => settled(r).outcome = outcome
                       /\ r.seq \notin seqs => settled(r) = r
  BY <1>1, <1>2 DEF Tier3Event
<1>5. \A s \in trail' : \E r \in trail : s = settled(r)
  BY <1>2
<1>6. \A r \in trail : r.seq \in seqs => r.action = a
  BY <1>1 DEF SettleTarget, LedgerRows
<1>7. IsFiniteSet(trail')
  <2> DEFINE f == [r \in trail |-> settled(r)]
  <2>1. f \in Surjection(trail, trail')
    BY <1>4, <1>5 DEF Surjection
  <2> QED
    BY <1>1, <2>1, FS_Surjection DEF LedgerRows
<1>8. \A s \in trail : s.seq \in seqs <=> s \in SettleTarget(trail, a)
  BY <1>1 DEF SettleTarget, LedgerRows
<1> HIDE DEF settled, seqs, outcome
<1>9. LedgerRows'
  BY <1>1, <1>2, <1>4, <1>5, <1>7 DEF LedgerRows
<1>10. RowsAreOwned'
  BY <1>1, <1>2, <1>4, <1>5 DEF RowsAreOwned, RowIsOwned
<1>11. ASSUME NEW b \in Actions, UnderWay(b)', NEW r \in trail', r.action = b
       PROVE  \E s \in trail' : IsReservation(s, b)'
  <2>1. UnderWay(b)
    BY <1>2, <1>3, <1>11 DEF UnderWay
  <2>2. PICK q \in trail : r = settled(q)
    BY <1>5
  <2>3. q.action = b
    BY <1>4, <1>11, <2>2
  <2>4. PICK s \in trail : IsReservation(s, b)
    BY <1>1, <2>1, <2>3 DEF ReservationsLast
  <2>5. /\ settled(s) \in trail' /\ settled(s).action = b /\ settled(s).at = order'[b].at
        /\ \A x \in trail' : x.action = b => x.seq <= settled(s).seq /\ x.at <= settled(s).at
    BY <1>2, <1>4, <1>5, <2>4 DEF IsReservation
  <2>6. settled(s).outcome = HeldOutcome(b)'
    <3>1. CASE b = a
      <4>1. s \in SettleTarget(trail, a)
        BY <2>4, <3>1 DEF SettleTarget, IsReservation
      <4> QED
        BY <1>2, <1>3, <1>4, <1>8, <3>1, <4>1 DEF HeldOutcome, outcome
    <3>2. CASE b # a
      <4>1. s.seq \notin seqs
        BY <1>6, <2>4, <3>2 DEF IsReservation
      <4> QED
        BY <1>2, <1>3, <1>4, <2>4, <3>2, <4>1 DEF HeldOutcome, IsReservation
    <3> QED
      BY <3>1, <3>2
  <2> QED
    BY <2>5, <2>6 DEF IsReservation
<1>12. ReservationsLast'
  BY <1>11 DEF ReservationsLast
<1>13. QueueIsOwned'
  BY <1>1, <1>2 DEF QueueIsOwned
<1> QED
  BY <1>1, <1>2, <1>9, <1>10, <1>12, <1>13 DEF TrailInv

(* A restart starts an empty ledger.                                       *)
LEMMA RestartKeepsLedger ==
    ASSUME LedgerInv, Restart
    PROVE  TrailInv' /\ QueueIsOwned' /\ rebuilding' = {}
  BY FS_EmptySet
     DEF Restart, TrailInv, LedgerRows, RowsAreOwned, ReservationsLast, QueueIsOwned
-----------------------------------------------------------------------------
(* The theorems. *)

(* The ledger is empty initially.                                          *)
LEMMA InitLedger == Init => LedgerInv
<1> SUFFICES ASSUME Init PROVE LedgerInv
  OBVIOUS
<1>1. AuthorityInv
  BY InitInv
<1>2. TrailInv /\ QueueIsOwned
  BY FS_EmptySet
     DEF Init, TrailInv, LedgerRows, RowsAreOwned, ReservationsLast, QueueIsOwned
<1> QED
  BY <1>1, <1>2 DEF LedgerInv, Init

(* Every step keeps it, when no refusal is interrupted.                    *)
LEMMA NextLedger ==
    ASSUME RacingRefusals = {}
    PROVE  LedgerInv /\ [Next]_vars => LedgerInv'
<1> SUFFICES ASSUME LedgerInv, [Next]_vars PROVE LedgerInv'
  OBVIOUS
<1>1. AuthorityInv'
  BY NextInv DEF LedgerInv
<1> DEFINE Kept == TrailInv' /\ QueueIsOwned' /\ rebuilding' = {}
<1> SUFFICES Kept
  BY <1>1 DEF LedgerInv
<1>2. CASE Tick \/ UNCHANGED vars
  BY <1>2, OutsideKeepsLedger
<1>3. CASE \E s \in Strangers : RefuseStranger(s)
  BY <1>3, RefusalsKeepLedger
<1>4. CASE \E t \in Threads : AssignTrail(t)
  BY <1>4 DEF AssignTrail, LedgerInv
<1>5. ASSUME NEW a \in Actions, Arrive(a) PROVE Kept
  BY <1>5, OutsideKeepsLedger, RefusalsKeepLedger DEF Arrive
<1>6. ASSUME NEW a \in Actions, OrderThread(a) PROVE Kept
  BY <1>6, ReserveKeepsLedger, QueueKeepsLedger, SweepKeepsLedger, RefusalsKeepLedger,
     OutsideKeepsLedger DEF OrderThread
<1>7. ASSUME NEW a \in Actions, HandoffThread(a) PROVE Kept
  BY <1>7, OutsideKeepsLedger, SettleEventKeepsLedger DEF HandoffThread
<1>8. ASSUME NEW a \in Actions, Poll(a) PROVE Kept
  BY <1>8, SweepKeepsLedger
<1>9. CASE Administer
  BY <1>9, OutsideKeepsLedger, DeleteGrantKeepsLedger, ApproveKeepsLedger, RejectKeepsLedger,
     SweepKeepsLedger DEF Administer
<1>10. CASE Restart
  BY <1>10, RestartKeepsLedger
<1> QED
  BY <1>2, <1>3, <1>4, <1>5, <1>6, <1>7, <1>8, <1>9, <1>10 DEF Next

(* The inductive invariant: for every cap and window, whatever the         *)
(* interleaving, the trail drops a reservation only after every other row  *)
(* of its action (record_tier3_event, settle_tier3_event).                 *)
THEOREM LedgerInvariant ==
    ASSUME RacingRefusals = {}
    PROVE  Spec => []LedgerInv
  BY InitLedger, NextLedger, PTL DEF Spec

(* The row settle_tier3_event finds is the reservation.                    *)
LEMMA TargetIsReservation ==
    ASSUME LedgerInv, NEW a \in Actions, UnderWay(a), NEW e \in SettleTarget(trail, a)
    PROVE  IsReservation(e, a)
<1>1. e \in trail /\ e.action = a /\ \A q \in trail : q.action = a => q.seq <= e.seq
  BY DEF SettleTarget
<1>2. PICK s \in trail : IsReservation(s, a)
  BY <1>1 DEF LedgerInv, TrailInv, ReservationsLast
<1>3. s.seq \in Nat /\ e.seq \in Nat /\ e.seq <= s.seq /\ s.seq <= e.seq
  BY <1>1, <1>2 DEF IsReservation, LedgerInv, AuthorityInv, TypeOK, Tier3Event
<1>4. s = e
  BY <1>1, <1>3 DEF LedgerInv, TrailInv, LedgerRows
<1> QED
  BY <1>2, <1>4

(* The settlement of a handoff changes the row of its own reservation, or  *)
(* none: never the older "queued" row with the same action id.             *)
THEOREM SettlementFindsReservation ==
    ASSUME RacingRefusals = {}
    PROVE  Spec => []SettleHitsReservation
<1>1. LedgerInv => SettleHitsReservation
  BY TargetIsReservation DEF SettleHitsReservation, UnderWay, IsReservation, HeldOutcome
<1> QED
  BY <1>1, LedgerInvariant, PTL
-----------------------------------------------------------------------------
(* Sums over finite sets.  A fold has no induction theorem to cite that    *)
(* the provers can use, but a least counterexample does as well.           *)

(* A nonempty set of naturals has a least element.                         *)
LEMMA LeastOfNaturals ==
    ASSUME NEW S \in SUBSET Nat, S # {}
    PROVE  \E i \in S : \A j \in S : i <= j
<1> DEFINE R == OpToRel(<, Nat)
<1>1. \E i \in S : \A j \in S : ~ (<<j, i>> \in R)
  <2>1. IsWellFoundedOn(R, Nat)
    BY NatLessThanWellFounded
  <2> HIDE DEF R
  <2> QED
    BY <2>1, WFMin
<1>2. \A i, j \in S : <<j, i>> \notin R => i <= j
  BY DEF OpToRel
<1> QED
  BY <1>1, <1>2

(* A set without one of its elements has one element less.                 *)
LEMMA OneLess ==
    ASSUME NEW S, IsFiniteSet(S), NEW s \in SUBSET S, NEW x \in s
    PROVE  /\ IsFiniteSet(s) /\ Cardinality(s) \in Nat
           /\ IsFiniteSet(s \ {x}) /\ Cardinality(s \ {x}) \in Nat
           /\ Cardinality(s \ {x}) = Cardinality(s) - 1
           /\ s \ {x} \in SUBSET S
  BY FS_Subset, FS_CardinalityType, FS_RemoveElement

(* Among the subsets of a finite set that fail something one is smallest: *)
(* without any of its elements it does not fail.                           *)
LEMMA SmallestFailure ==
    ASSUME NEW S, IsFiniteSet(S), NEW bad \in SUBSET (SUBSET S), bad # {}
    PROVE  \E s \in bad : \A x \in s : s \ {x} \notin bad
<1> DEFINE sizes == {Cardinality(s) : s \in bad}
<1>1. sizes \in SUBSET Nat /\ sizes # {}
  BY FS_Subset, FS_CardinalityType
<1>2. PICK n \in sizes : \A m \in sizes : n <= m
  BY <1>1, LeastOfNaturals
<1>3. PICK s \in bad : n = Cardinality(s)
  BY <1>2
<1>4. ASSUME NEW x \in s, s \ {x} \in bad
      PROVE  FALSE
  <2>1. s \in SUBSET S /\ Cardinality(s \ {x}) \in sizes
    BY <1>4
  <2>2. Cardinality(s) \in Nat /\ Cardinality(s \ {x}) = Cardinality(s) - 1
    BY <2>1, OneLess
  <2> QED
    BY <1>2, <1>3, <2>1, <2>2
<1> QED
  BY <1>3, <1>4

(* `f' sums up the values `g' of the elements of each subset of S.         *)
IsSum(f, g, S) ==
    /\ f \in [SUBSET S -> Nat]
    /\ f[{}] = 0
    /\ \A s \in SUBSET S : \A x \in s : f[s] = g[x] + f[s \ {x}]

(* The equation of the recursive function inside a fold that sums up.      *)
FoldEquation(f, g, S) ==
    f = [s \in SUBSET S |->
           IF s = {} THEN 0 ELSE g[CHOOSE x \in s : TRUE] + f[s \ {CHOOSE x \in s : TRUE}]]

(* A function that satisfies it on the subsets of at most n elements.      *)
SolvesUpTo(f, g, S, n) ==
    \A s \in SUBSET S : Cardinality(s) <= n =>
       f[s] = IF s = {} THEN 0 ELSE g[CHOOSE x \in s : TRUE] + f[s \ {CHOOSE x \in s : TRUE}]

(* The recursion ends: some function satisfies the equation.               *)
LEMMA FoldExists ==
    ASSUME NEW S, IsFiniteSet(S), NEW g
    PROVE  \E f : FoldEquation(f, g, S)
<1> DEFINE Pick(s) == CHOOSE x \in s : TRUE
           Rhs(f, s) == IF s = {} THEN 0 ELSE g[Pick(s)] + f[s \ {Pick(s)}]
           Bad == {n \in Nat : ~ \E f : SolvesUpTo(f, g, S, n)}
<1>1. \A s \in SUBSET S : s # {} => Pick(s) \in s
  OBVIOUS
<1>2. \A s \in SUBSET S : /\ Cardinality(s) \in Nat /\ Cardinality(s) <= Cardinality(S)
                          /\ (Cardinality(s) = 0 <=> s = {})
                          /\ \A x \in s : /\ s \ {x} \in SUBSET S
                                          /\ Cardinality(s \ {x}) = Cardinality(s) - 1
  BY OneLess, FS_Subset, FS_CardinalityType, FS_EmptySet
<1>3. Cardinality(S) \in Nat
  BY FS_CardinalityType
<1>4. ASSUME Bad # {} PROVE FALSE
  <2>1. PICK n \in Bad : \A m \in Bad : n <= m
    BY <1>4, LeastOfNaturals
  <2>2. CASE n = 0
    <3> DEFINE f == [s \in SUBSET S |-> 0]
    <3>1. SolvesUpTo(f, g, S, 0)
      BY <1>2 DEF SolvesUpTo
    <3> QED
      BY <2>1, <2>2, <3>1
  <2>3. CASE n # 0
    <3>1. n - 1 \in Nat /\ n - 1 \notin Bad
      BY <2>1, <2>3
    <3>2. PICK f : SolvesUpTo(f, g, S, n - 1)
      BY <3>1
    <3> HIDE DEF Pick
    <3> DEFINE h == [s \in SUBSET S |-> IF Cardinality(s) <= n - 1 THEN f[s] ELSE Rhs(f, s)]
    <3>3. ASSUME NEW s \in SUBSET S, Cardinality(s) <= n
          PROVE  h[s] = Rhs(h, s)
      <4>1. h[s] = Rhs(f, s)
        BY <3>2 DEF SolvesUpTo, Pick
      <4>2. CASE s = {}
        BY <4>1, <4>2
      <4>3. CASE s # {}
        <5> DEFINE r == s \ {Pick(s)}
        <5>1. r \in SUBSET S /\ Cardinality(r) <= n - 1
          BY <1>1, <1>2, <2>1, <3>3, <4>3
        <5>2. h[r] = f[r]
          BY <5>1
        <5>3. Rhs(f, s) = g[Pick(s)] + f[r] /\ Rhs(h, s) = g[Pick(s)] + h[r]
          BY <4>3
        <5> QED
          BY <4>1, <5>2, <5>3
      <4> QED
        BY <4>2, <4>3
    <3> HIDE DEF h
    <3>4. SolvesUpTo(h, g, S, n)
      BY <3>3 DEF h, Rhs, Pick, SolvesUpTo
    <3> QED
      BY <2>1, <3>4
  <2> QED
    BY <2>2, <2>3
<1>5. PICK f : SolvesUpTo(f, g, S, Cardinality(S))
  BY <1>3, <1>4
<1> DEFINE h == [s \in SUBSET S |-> f[s]]
<1>6. \A s \in SUBSET S : h[s] = Rhs(h, s)
  <2> SUFFICES ASSUME NEW s \in SUBSET S PROVE f[s] = Rhs(h, s)
    OBVIOUS
  <2>1. f[s] = Rhs(f, s)
    BY <1>2, <1>5 DEF SolvesUpTo
  <2>2. s # {} => s \ {Pick(s)} \in SUBSET S
    OBVIOUS
  <2> QED
    BY <2>1, <2>2
<1>7. h = [s \in SUBSET S |-> Rhs(h, s)]
  <2>1. h = [s \in SUBSET S |-> h[s]]
    OBVIOUS
  <2> HIDE DEF h, Rhs
  <2> QED
    BY <1>6, <2>1
<1> HIDE DEF h
<1>8. FoldEquation(h, g, S)
  BY <1>7 DEF FoldEquation
<1> QED
  BY <1>8

(* What it computes does not depend on the order the elements are taken in.*)
LEMMA FoldIsSum ==
    ASSUME NEW S, IsFiniteSet(S), NEW g, \A x \in S : g[x] \in Nat,
           NEW f, FoldEquation(f, g, S)
    PROVE  IsSum(f, g, S)
<1> DEFINE Pick(s) == CHOOSE x \in s : TRUE
           Wild == {s \in SUBSET S : f[s] \notin Nat}
           Odd == {s \in SUBSET S : \E x \in s : f[s] # g[x] + f[s \ {x}]}
<1>1. /\ DOMAIN f = SUBSET S /\ f[{}] = 0 /\ f = [s \in SUBSET S |-> f[s]]
      /\ \A s \in SUBSET S : s # {} => f[s] = g[Pick(s)] + f[s \ {Pick(s)}]
  BY DEF FoldEquation
<1>2. \A s \in SUBSET S : s # {} => Pick(s) \in s
  OBVIOUS
<1> HIDE DEF Pick
<1>3. ASSUME Wild # {}
      PROVE  FALSE
  <2>1. Wild \in SUBSET (SUBSET S)
    OBVIOUS
  <2> HIDE DEF Wild
  <2>2. PICK s \in Wild : \A x \in s : s \ {x} \notin Wild
    BY <1>3, <2>1, SmallestFailure
  <2> USE DEF Wild
  <2>3. s \in SUBSET S /\ f[s] \notin Nat
    BY <2>2
  <2>4. Pick(s) \in s /\ f[s] = g[Pick(s)] + f[s \ {Pick(s)}]
    <3>1. s # {}
      <4>1. f[{}] \in Nat
        BY <1>1
      <4> QED
        BY <2>3, <4>1
    <3> QED
      BY <1>1, <1>2, <2>3, <3>1
  <2>5. f[s \ {Pick(s)}] \in Nat /\ g[Pick(s)] \in Nat
    BY <2>2, <2>3, <2>4
  <2> QED
    BY <2>3, <2>4, <2>5
<1>4. f \in [SUBSET S -> Nat]
  BY <1>1, <1>3
<1>5. ASSUME Odd # {}
      PROVE  FALSE
  <2>1. Odd \in SUBSET (SUBSET S)
    OBVIOUS
  <2> HIDE DEF Odd
  <2>2. PICK s \in Odd : \A z \in s : s \ {z} \notin Odd
    BY <1>5, <2>1, SmallestFailure
  <2> USE DEF Odd
  <2>3. s \in SUBSET S
    BY <2>2
  <2>4. PICK x \in s : f[s] # g[x] + f[s \ {x}]
    BY <2>2
  <2> DEFINE y == Pick(s)
  <2>5. y \in s /\ f[s] = g[y] + f[s \ {y}] /\ x # y
    BY <1>1, <1>2, <2>3, <2>4
  <2> HIDE DEF y
  <2>6. \A z \in s : \A w \in s \ {z} : f[s \ {z}] = g[w] + f[(s \ {z}) \ {w}]
    BY <2>2, <2>3
  <2> DEFINE r == (s \ {x}) \ {y}
  <2>7. r = (s \ {y}) \ {x} /\ r \in SUBSET S
    BY <2>3
  <2> HIDE DEF r
  <2>8. f[s \ {x}] = g[y] + f[r] /\ f[s \ {y}] = g[x] + f[r]
    <3>1. x \in s /\ y \in s \ {x} /\ x \in s \ {y}
      BY <2>4, <2>5
    <3>2. f[s \ {x}] = g[y] + f[(s \ {x}) \ {y}]
      BY <2>6, <3>1
    <3>3. f[s \ {y}] = g[x] + f[(s \ {y}) \ {x}]
      BY <2>6, <3>1
    <3> QED
      BY <2>7, <3>2, <3>3 DEF r
  <2>9. g[x] \in Nat /\ g[y] \in Nat /\ f[r] \in Nat
    BY <1>4, <2>3, <2>4, <2>5, <2>7
  <2>10. f[s] = g[y] + (g[x] + f[r]) /\ g[x] + f[s \ {x}] = g[x] + (g[y] + f[r])
    BY <2>5, <2>8
  <2>11. g[y] + (g[x] + f[r]) = g[x] + (g[y] + f[r])
    BY <2>9
  <2> QED
    BY <2>4, <2>10, <2>11
<1>6. \A s \in SUBSET S : \A x \in s : f[s] = g[x] + f[s \ {x}]
  BY <1>5
<1> QED
  BY <1>1, <1>4, <1>6 DEF IsSum

(* Values that correspond one to one have the same sum.                    *)
LEMMA SumOfImage ==
    ASSUME NEW S, IsFiniteSet(S), NEW f, NEW g, IsSum(f, g, S),
           NEW T, NEW h, NEW k, IsSum(h, k, T), NEW b \in [S -> T],
           \A x, y \in S : b[x] = b[y] => x = y,
           \A x \in S : g[x] = k[b[x]]
    PROVE  f[S] = h[{b[x] : x \in S}]
<1> DEFINE image(s) == {b[x] : x \in s}
           Bad == {s \in SUBSET S : f[s] # h[image(s)]}
<1>1. Bad \in SUBSET (SUBSET S)
  OBVIOUS
<1>2. ASSUME Bad # {}
      PROVE  FALSE
  <2> HIDE DEF Bad
  <2>1. PICK s \in Bad : \A x \in s : s \ {x} \notin Bad
    BY <1>1, <1>2, SmallestFailure
  <2> USE DEF Bad
  <2> HIDE DEF image
  <2>2. s \in SUBSET S /\ f[s] # h[image(s)]
    BY <2>1
  <2>3. CASE s = {}
    <3>1. image({}) = {}
      BY DEF image
    <3>2. f[{}] = 0 /\ h[{}] = 0
      BY DEF IsSum
    <3> QED
      BY <2>2, <2>3, <3>1, <3>2
  <2>4. ASSUME NEW x \in s
        PROVE  FALSE
    <3>1. image(s) \in SUBSET T /\ b[x] \in image(s)
      BY <2>2 DEF image
    <3>2. image(s \ {x}) = image(s) \ {b[x]}
      BY <2>2, <2>4 DEF image
    <3>3. f[s] = g[x] + f[s \ {x}]
      BY <2>2, <2>4 DEF IsSum
    <3>4. h[image(s)] = k[b[x]] + h[image(s) \ {b[x]}]
      BY <3>1 DEF IsSum
    <3>5. f[s \ {x}] = h[image(s \ {x})]
      <4>1. s \ {x} \in SUBSET S
        BY <2>2
      <4> QED
        BY <2>1, <4>1
    <3>6. g[x] = k[b[x]]
      BY <2>2, <2>4
    <3> QED
      BY <2>2, <3>2, <3>3, <3>4, <3>5, <3>6
  <2> QED
    BY <2>3, <2>4
<1>3. f[S] = h[image(S)]
  BY <1>2
<1> QED
  BY <1>3

(* The fold inside tier3_used_cents adds up the amounts of the rows.       *)
TrailSum(rows) == MapThenSumSet(LAMBDA r : r.amount, rows)

(* It is a sum in the sense of IsSum.                                      *)
LEMMA TrailSumIsSum ==
    ASSUME NEW rows \in SUBSET Tier3Event, IsFiniteSet(rows)
    PROVE  \E f : IsSum(f, [r \in rows |-> r.amount], rows) /\ TrailSum(rows) = f[rows]
<1> DEFINE g == [r \in rows |-> r.amount]
           Eq(f) == f = [s \in SUBSET rows |->
                           IF s = {} THEN 0
                           ELSE (CHOOSE x \in s : TRUE).amount + f[s \ {CHOOSE x \in s : TRUE}]]
<1>1. \A s \in SUBSET rows : s # {} => g[CHOOSE x \in s : TRUE] = (CHOOSE x \in s : TRUE).amount
  OBVIOUS
<1>2. \A f : Eq(f) <=> FoldEquation(f, g, rows)
  BY <1>1 DEF FoldEquation
<1>3. Eq(CHOOSE f : Eq(f))
  <2>1. \E f : FoldEquation(f, g, rows)
    BY FoldExists
  <2> HIDE DEF Eq
  <2>2. \E f : Eq(f)
    BY <1>2, <2>1
  <2> QED
    BY <2>2
<1>4. TrailSum(rows) = (CHOOSE f : Eq(f))[rows]
  BY DEF TrailSum, MapThenSumSet, MapThenFoldSet
<1>5. \A r \in rows : g[r] \in Nat
  BY DEF Tier3Event
<1> HIDE DEF g, Eq
<1>6. IsSum(CHOOSE f : Eq(f), g, rows)
  BY <1>2, <1>3, <1>5, FoldIsSum
<1> QED
  BY <1>4, <1>6 DEF g

(* And the fold inside Spent those of the orders.                          *)
OrderSum(o, S) == MapThenSumSet(LAMBDA a : o[a].amount, S)

(* It is a sum as well.                                                    *)
LEMMA OrderSumIsSum ==
    ASSUME NEW o, NEW S, IsFiniteSet(S), \A a \in S : o[a].amount \in Nat
    PROVE  \E f : IsSum(f, [a \in S |-> o[a].amount], S) /\ OrderSum(o, S) = f[S]
<1> DEFINE g == [a \in S |-> o[a].amount]
           Eq(f) == f = [s \in SUBSET S |->
                           IF s = {} THEN 0
                           ELSE o[CHOOSE a \in s : TRUE].amount + f[s \ {CHOOSE a \in s : TRUE}]]
<1>1. \A s \in SUBSET S : s # {} => g[CHOOSE a \in s : TRUE] = o[CHOOSE a \in s : TRUE].amount
  OBVIOUS
<1>2. \A f : Eq(f) <=> FoldEquation(f, g, S)
  BY <1>1 DEF FoldEquation
<1>3. Eq(CHOOSE f : Eq(f))
  <2>1. \E f : FoldEquation(f, g, S)
    BY FoldExists
  <2> HIDE DEF Eq
  <2>2. \E f : Eq(f)
    BY <1>2, <2>1
  <2> QED
    BY <2>2
<1>4. OrderSum(o, S) = (CHOOSE f : Eq(f))[S]
  BY DEF OrderSum, MapThenSumSet, MapThenFoldSet
<1>5. \A a \in S : g[a] \in Nat
  OBVIOUS
<1> HIDE DEF g, Eq
<1>6. IsSum(CHOOSE f : Eq(f), g, S)
  BY <1>2, <1>3, <1>5, FoldIsSum
<1> QED
  BY <1>4, <1>6 DEF g

-----------------------------------------------------------------------------
(* The usage ledger.  Each order appends at most two rows, a "queued" one  *)
(* and one that reserves, refuses or closes it.                            *)

(* Rows of a client that name no action: its 403s for want of a mandate.   *)
Anonymous(rows) == {r \in rows : r.client \in Clients /\ r.action = NoAction}

RefusedOf(rq) == {a \in Actions : rq[a] = "refused"}

(* `rq' is where the request threads are.                                  *)
TwoRowsEach(rows, rq) ==
    /\ \A r \in rows : r.outcome = "queued" => r.action \in Actions /\ rq[r.action] \in Started
    /\ \A r, s \in rows : (/\ r.action = s.action /\ r.action \in Actions
                           /\ r.outcome = "queued" <=> s.outcome = "queued") => r = s
    /\ Cardinality(Anonymous(rows)) <= Cardinality(RefusedOf(rq))

(* So a reservation is among the newest 2|Actions| - 1 rows of its client. *)
LEMMA ReservationIsRecent ==
    ASSUME NEW rows \in SUBSET Tier3Event, IsFiniteSet(rows), NEW rq, TwoRowsEach(rows, rq),
           NEW s \in rows, s.action \in Actions, s.client \in Clients, s.outcome # "queued",
           rq[s.action] # "refused",
           \A q \in rows : q.action = s.action => q = s \/ q.seq < s.seq
    PROVE  /\ Cardinality(NoOlderOfClient(rows, s)) \in Nat
           /\ Cardinality(NoOlderOfClient(rows, s)) <= 2 * Cardinality(Actions) - 1
<1> DEFINE newer == NoOlderOfClient(rows, s)
           anonymous == Anonymous(rows)
           refused == RefusedOf(rq)
           waiting == {r \in newer : r.action \in Actions /\ r.outcome = "queued"}
           decided == {r \in newer : r.action \in Actions /\ r.outcome # "queued"}
           others == Actions \ (refused \cup {s.action})
<1>1. newer \subseteq (anonymous \cup waiting) \cup decided
  BY DEF NoOlderOfClient, Anonymous, Tier3Event
<1>2. /\ IsFiniteSet(newer) /\ IsFiniteSet(anonymous) /\ IsFiniteSet(Actions)
      /\ IsFiniteSet(refused) /\ IsFiniteSet(others)
  BY GatewayAssumption, FS_Subset DEF NoOlderOfClient, Anonymous, RefusedOf
<1>3. IsFiniteSet(waiting) /\ Cardinality(waiting) <= Cardinality(others)
  <2> DEFINE f == [r \in waiting |-> r.action]
  <2>1. \A r \in waiting : r \in rows /\ r.action \in Actions /\ r.outcome = "queued" /\ r.seq >= s.seq
    BY DEF NoOlderOfClient
  <2>2. \A r \in waiting : r.action \in others
    <3> SUFFICES ASSUME NEW r \in waiting PROVE r.action \notin refused /\ r.action # s.action
      BY <2>1
    <3>1. r.action \notin refused
      BY <2>1 DEF TwoRowsEach, RefusedOf, Started
    <3>2. r.seq \in Nat /\ s.seq \in Nat
      BY <2>1 DEF Tier3Event
    <3>3. r.action # s.action
      BY <2>1, <3>2
    <3> QED
      BY <3>1, <3>3
  <2>3. \A r, q \in waiting : r.action = q.action => r = q
    BY <2>1 DEF TwoRowsEach
  <2> HIDE DEF waiting, others
  <2>4. f \in Injection(waiting, others)
    BY <2>2, <2>3 DEF Injection, IsInjective
  <2> QED
    BY <1>2, <2>4, FS_Injection
<1>4. IsFiniteSet(decided) /\ Cardinality(decided) <= Cardinality(Actions)
  <2> DEFINE f == [r \in decided |-> r.action]
  <2>1. \A r \in decided : r \in rows /\ r.action \in Actions /\ r.outcome # "queued"
    BY DEF NoOlderOfClient
  <2>2. \A r, q \in decided : r.action = q.action => r = q
    BY <2>1 DEF TwoRowsEach
  <2> HIDE DEF decided
  <2>3. f \in Injection(decided, Actions)
    BY <2>1, <2>2 DEF Injection, IsInjective
  <2> QED
    BY <1>2, <2>3, FS_Injection
<1>5. Cardinality(anonymous) <= Cardinality(refused)
  BY DEF TwoRowsEach
<1>6. Cardinality(refused) + Cardinality(others) = Cardinality(Actions) - 1
  <2>1. s.action \in Actions /\ s.action \notin refused
    BY DEF RefusedOf
  <2>2. refused \cup others = Actions \ {s.action} /\ refused \cap others = {}
    BY <2>1 DEF RefusedOf
  <2>3. Cardinality(Actions \ {s.action}) = Cardinality(Actions) - 1
    BY <1>2, FS_RemoveElement
  <2> HIDE DEF refused, others
  <2>4. Cardinality(refused \cup others)
          = Cardinality(refused) + Cardinality(others) - Cardinality(refused \cap others)
    BY <1>2, FS_Union
  <2>5. Cardinality(refused \cap others) = 0
    BY <2>2, FS_EmptySet
  <2>6. /\ Cardinality(refused) \in Nat /\ Cardinality(others) \in Nat
        /\ Cardinality(Actions) \in Nat
    BY <1>2, FS_CardinalityType
  <2>7. Cardinality(refused \cup others) = Cardinality(Actions) - 1
    BY <2>2, <2>3
  <2> QED
    BY <2>4, <2>5, <2>6, <2>7
<1> HIDE DEF newer, anonymous, refused, waiting, decided, others
<1>7. /\ Cardinality(newer) \in Nat /\ Cardinality(anonymous) \in Nat
      /\ Cardinality(waiting) \in Nat /\ Cardinality(decided) \in Nat
      /\ Cardinality(refused) \in Nat /\ Cardinality(others) \in Nat
      /\ Cardinality(Actions) \in Nat
  BY <1>2, <1>3, <1>4, FS_CardinalityType
<1>8. /\ IsFiniteSet(anonymous \cup waiting)
      /\ Cardinality(anonymous \cup waiting) \in Nat
      /\ Cardinality(anonymous \cup waiting) <= Cardinality(anonymous) + Cardinality(waiting)
  <2>1. /\ IsFiniteSet(anonymous \cup waiting) /\ IsFiniteSet(anonymous \cap waiting)
        /\ Cardinality(anonymous \cup waiting)
             = Cardinality(anonymous) + Cardinality(waiting) - Cardinality(anonymous \cap waiting)
    BY <1>2, <1>3, FS_Union, FS_Subset
  <2>2. Cardinality(anonymous \cup waiting) \in Nat /\ Cardinality(anonymous \cap waiting) \in Nat
    BY <2>1, FS_CardinalityType
  <2> QED
    BY <1>7, <2>1, <2>2
<1>9. Cardinality(newer) <= Cardinality(anonymous \cup waiting) + Cardinality(decided)
  <2> DEFINE left == anonymous \cup waiting
  <2>1. IsFiniteSet(left) /\ newer \subseteq left \cup decided
    BY <1>1, <1>8
  <2> HIDE DEF left
  <2>2. /\ IsFiniteSet(left \cup decided) /\ IsFiniteSet(left \cap decided)
        /\ Cardinality(left \cup decided)
             = Cardinality(left) + Cardinality(decided) - Cardinality(left \cap decided)
    BY <1>4, <2>1, FS_Union, FS_Subset
  <2>3. Cardinality(newer) <= Cardinality(left \cup decided)
    BY <2>1, <2>2, FS_Subset
  <2>4. /\ Cardinality(left \cup decided) \in Nat /\ Cardinality(left \cap decided) \in Nat
        /\ Cardinality(left) \in Nat
    BY <2>1, <2>2, FS_CardinalityType
  <2>5. Cardinality(newer) <= Cardinality(left) + Cardinality(decided)
    BY <1>7, <2>2, <2>3, <2>4
  <2> QED
    BY <2>5 DEF left
<1>10. Cardinality(newer) <= 2 * Cardinality(Actions) - 1
  BY <1>3, <1>4, <1>5, <1>6, <1>7, <1>8, <1>9
<1> QED
  BY <1>7, <1>10 DEF newer

(* A row that names an action is of an order past its mandate check, and   *)
(* has its amount; so has a queue entry.                                   *)
AmountsAreOrdered ==
    /\ \A r \in trail : r.action \in Actions =>
          req[r.action] \in Started \cup {"refused"} /\ r.amount = order[r.action].amount
    /\ \A p \in pending : p.amount = order[p.action].amount

(* What waits for a human has not been decided in the trail either.        *)
PendingOnlyQueued == \A p \in pending, r \in trail : r.action = p.action => r.outcome = "queued"

AcceptedIsUnderWay ==
    \A r \in trail : r.outcome = "accepted" => r.action \in Actions /\ UnderWay(r.action)

(* Until it leaves the window the trail does hold a row of an action under *)
(* way, hence (ReservationsLast) its reservation.                          *)
ReservationsKept ==
    \A a \in Actions : UnderWay(a) /\ InWindow(order[a].at, now) =>
       \E r \in trail : r.action = a

SpendInv ==
    /\ TwoRowsEach(trail, req)
    /\ AmountsAreOrdered
    /\ PendingOnlyQueued
    /\ AcceptedIsUnderWay
    /\ ReservationsKept

(* A row the trail may be given: of an action it has no row of, or only    *)
(* the "queued" one.                                                       *)
RowFits(r) ==
    /\ r.outcome \in {"queued", "accepted"} => r.action \in Actions
    /\ r.outcome = "queued" => req'[r.action] \in Started
    /\ r.action \in Actions =>
          /\ req'[r.action] \in Started \cup {"refused"}
          /\ r.amount = order[r.action].amount
          /\ r.outcome = "accepted" => hand'[r.action] \notin {"none", "lost"}
          /\ \A s \in trail : s.action = r.action => s.outcome = "queued" /\ r.outcome # "queued"

RowsFit(new) ==
    /\ \A r \in new : RowFits(r)
    /\ \A r, s \in new : r.action = s.action /\ r.action \in Actions => r = s
    /\ \A p \in pending', r \in new : r.action = p.action => r.outcome = "queued"

(* At most the one row of a request that is being refused.                 *)
AnonymousFit(new) ==
    \/ Anonymous(new) = {}
    \/ \E r : new = {r} /\ \E a \in Actions : req[a] # "refused" /\ req'[a] = "refused"

(* A queue entry that is new is of an action without a row.                *)
QueueFits ==
    \A p \in pending' :
        \/ p \in pending
        \/ /\ req[p.action] # "idle" /\ p.amount = order[p.action].amount
           /\ \A r \in trail : r.action # p.action

(* The refused requests and their rows are counted alike.                  *)
LEMMA AnonymousCount ==
    ASSUME LedgerInv, SpendInv, OrdersAdvance, NEW new \in SUBSET Tier3Event, IsFiniteSet(new),
           AnonymousFit(new)
    PROVE  Cardinality(Anonymous(trail \cup new)) <= Cardinality(RefusedOf(req'))
<1>1. /\ IsFiniteSet(RefusedOf(req)) /\ IsFiniteSet(RefusedOf(req'))
      /\ IsFiniteSet(Anonymous(trail)) /\ IsFiniteSet(Actions)
  BY GatewayAssumption, FS_Subset DEF RefusedOf, Anonymous, LedgerInv, TrailInv, LedgerRows
<1>2. Cardinality(Anonymous(trail)) <= Cardinality(RefusedOf(req))
  BY DEF SpendInv, TwoRowsEach
<1>3. RefusedOf(req) \subseteq RefusedOf(req')
  BY DEF RefusedOf, OrdersAdvance
<1>4. /\ Cardinality(RefusedOf(req)) \in Nat /\ Cardinality(RefusedOf(req')) \in Nat
      /\ Cardinality(Anonymous(trail)) \in Nat
      /\ Cardinality(RefusedOf(req)) <= Cardinality(RefusedOf(req'))
  BY <1>1, <1>3, FS_CardinalityType, FS_Subset
<1>5. CASE Anonymous(new) = {}
  <2>1. Anonymous(trail \cup new) = Anonymous(trail)
    BY <1>5 DEF Anonymous
  <2> QED
    BY <1>2, <1>4, <2>1
<1>6. ASSUME NEW r, new = {r}, NEW a \in Actions, req[a] # "refused", req'[a] = "refused"
      PROVE  Cardinality(Anonymous(trail \cup new)) <= Cardinality(RefusedOf(req'))
  <2>1. Anonymous(trail \cup new) \subseteq Anonymous(trail) \cup {r}
    BY <1>6 DEF Anonymous
  <2>2. /\ IsFiniteSet(Anonymous(trail) \cup {r})
        /\ Cardinality(Anonymous(trail) \cup {r}) <= Cardinality(Anonymous(trail)) + 1
    <3> DEFINE S == Anonymous(trail)
    <3>1. IsFiniteSet(S) /\ Cardinality(S) \in Nat
      BY <1>1, <1>4
    <3> HIDE DEF S
    <3>2. /\ IsFiniteSet(S \cup {r})
          /\ Cardinality(S \cup {r}) = Cardinality(S) \/ Cardinality(S \cup {r}) = Cardinality(S) + 1
      BY <3>1, FS_AddElement
    <3>3. Cardinality(S \cup {r}) <= Cardinality(S) + 1
      BY <3>1, <3>2
    <3> QED
      BY <3>2, <3>3 DEF S
  <2>3. Cardinality(Anonymous(trail \cup new)) <= Cardinality(Anonymous(trail) \cup {r})
    BY <2>1, <2>2, FS_Subset
  <2>4. a \in RefusedOf(req') /\ a \notin RefusedOf(req)
    BY <1>6 DEF RefusedOf
  <2>5. Cardinality(RefusedOf(req) \cup {a}) = Cardinality(RefusedOf(req)) + 1
    BY <1>1, <2>4, FS_AddElement
  <2>6. Cardinality(RefusedOf(req) \cup {a}) <= Cardinality(RefusedOf(req'))
    BY <1>1, <1>3, <2>4, FS_Subset
  <2>7. Cardinality(Anonymous(trail \cup new)) \in Nat /\ Cardinality(Anonymous(trail) \cup {r}) \in Nat
    BY <2>1, <2>2, FS_Subset, FS_CardinalityType
  <2> QED
    BY <1>2, <1>4, <2>2, <2>3, <2>5, <2>6, <2>7
<1> QED
  BY <1>5, <1>6 DEF AnonymousFit

(* Appending rows that fit keeps every reservation in the window, for a    *)
(* cap no client can fill (record_tier3_event).                            *)
LEMMA RecordKeepsSpend ==
    ASSUME 2 * Cardinality(Actions) - 1 <= AuditMax,
           LedgerInv, LedgerInv', SpendInv, NEW new, NEW last \in Nat, NewRows(new, last),
           trail' = record_tier3_event(trail, new, now), now' = now,
           OrdersKeepClients, OrdersAdvance, RowsFit(new), AnonymousFit(new), QueueFits,
           \A a \in Actions : UnderWay(a)' => StaysReserved(a, new) \/ Reserves(a, new)
    PROVE  SpendInv'
<1> DEFINE all == trail \cup new
<1>1. /\ TypeOK /\ serial \in Nat /\ now \in Nat /\ trail \in SUBSET Tier3Event
      /\ IsFiniteSet(trail) /\ LedgerRows /\ RowsAreOwned /\ ReservationsLast
      /\ PendingIsFree /\ pending \in SUBSET Tier3PendingAction
  BY GatewayAssumption DEF LedgerInv, TrailInv, AuthorityInv, TypeOK, LedgerRows
<1>2. /\ new \in SUBSET Tier3Event /\ IsFiniteSet(new) /\ all \in SUBSET Tier3Event
      /\ IsFiniteSet(all)
  BY <1>1, FS_Union DEF NewRows
<1>3. trail' \subseteq all
  BY <1>1, <1>2, RecordKeepsNewer
<1>4. \A r \in new : RowFits(r) /\ RowIsOwned(r)
  BY DEF RowsFit, NewRows
<1>5. TwoRowsEach(all, req')
  <2>1. \A r \in all : r.outcome = "queued" => r.action \in Actions /\ req'[r.action] \in Started
    BY <1>4 DEF SpendInv, TwoRowsEach, RowFits, OrdersAdvance
  <2>2. ASSUME NEW r \in all, NEW s \in all, r.action = s.action, r.action \in Actions,
               r.outcome = "queued" <=> s.outcome = "queued"
        PROVE  r = s
    <3>1. CASE r \in trail /\ s \in trail
      BY <2>2, <3>1 DEF SpendInv, TwoRowsEach
    <3>2. CASE r \in new /\ s \in new
      BY <2>2, <3>2 DEF RowsFit
    <3>3. CASE r \in trail /\ s \in new
      BY <1>4, <2>2, <3>3 DEF RowFits
    <3>4. CASE r \in new /\ s \in trail
      BY <1>4, <2>2, <3>4 DEF RowFits
    <3> QED
      BY <3>1, <3>2, <3>3, <3>4
  <2>3. Cardinality(Anonymous(all)) <= Cardinality(RefusedOf(req'))
    BY <1>2, AnonymousCount
  <2> HIDE DEF all
  <2> QED
    BY <2>1, <2>2, <2>3 DEF TwoRowsEach
<1>6. TwoRowsEach(trail, req)'
  <2>1. Cardinality(Anonymous(trail')) <= Cardinality(RefusedOf(req'))
    <3>1. Anonymous(trail') \subseteq Anonymous(all) /\ IsFiniteSet(Anonymous(all))
          /\ IsFiniteSet(RefusedOf(req'))
      BY <1>2, <1>3, GatewayAssumption, FS_Subset DEF Anonymous, RefusedOf
    <3> HIDE DEF all
    <3>2. /\ Cardinality(Anonymous(trail')) <= Cardinality(Anonymous(all))
          /\ Cardinality(Anonymous(trail')) \in Nat /\ Cardinality(Anonymous(all)) \in Nat
          /\ Cardinality(RefusedOf(req')) \in Nat
      BY <3>1, FS_Subset, FS_CardinalityType
    <3> QED
      BY <1>5, <3>2 DEF TwoRowsEach
  <2> HIDE DEF all
  <2> QED
    BY <1>3, <1>5, <2>1 DEF TwoRowsEach
<1>7. AmountsAreOrdered'
  <2>1. ASSUME NEW r \in trail', r.action \in Actions
        PROVE  req'[r.action] \in Started \cup {"refused"} /\ r.amount = order'[r.action].amount
    <3>1. CASE r \in trail
      <4>1. req[r.action] \in Started \cup {"refused"} /\ r.amount = order[r.action].amount
        BY <2>1, <3>1 DEF SpendInv, AmountsAreOrdered
      <4> QED
        BY <2>1, <4>1 DEF OrdersAdvance, Started
    <3>2. CASE r \in new
      <4>1. req[r.action] # "idle"
        BY <1>4, <2>1, <3>2 DEF RowIsOwned
      <4> QED
        BY <1>4, <2>1, <3>2, <4>1 DEF RowFits, OrdersAdvance
    <3> QED
      BY <1>3, <2>1, <3>1, <3>2
  <2>2. ASSUME NEW p \in pending'
        PROVE  p.amount = order'[p.action].amount
    <3>1. p.action \in Actions
      BY DEF LedgerInv, AuthorityInv, TypeOK, Tier3PendingAction
    <3>2. p.amount = order[p.action].amount /\ req[p.action] # "idle"
      BY <1>1 DEF QueueFits, SpendInv, AmountsAreOrdered, PendingIsFree, Started
    <3> QED
      BY <3>1, <3>2 DEF OrdersAdvance
  <2> QED
    BY <2>1, <2>2 DEF AmountsAreOrdered
<1>8. PendingOnlyQueued'
  <2> SUFFICES ASSUME NEW p \in pending', NEW r \in trail', r.action = p.action
               PROVE  r.outcome = "queued"
    BY DEF PendingOnlyQueued
  <2>1. CASE r \in new
    BY <2>1 DEF RowsFit
  <2>2. CASE r \in trail
    BY <2>2 DEF QueueFits, SpendInv, PendingOnlyQueued
  <2> QED
    BY <1>3, <2>1, <2>2
<1>9. AcceptedIsUnderWay'
  <2> SUFFICES ASSUME NEW r \in trail', r.outcome = "accepted"
               PROVE  r.action \in Actions /\ UnderWay(r.action)'
    BY DEF AcceptedIsUnderWay
  <2>1. CASE r \in new
    BY <1>4, <2>1 DEF RowFits, UnderWay
  <2>2. CASE r \in trail
    BY <2>2 DEF SpendInv, AcceptedIsUnderWay, OrdersAdvance
  <2> QED
    BY <1>3, <2>1, <2>2
<1>10. ASSUME NEW a \in Actions, UnderWay(a)', InWindow(order'[a].at, now')
       PROVE  \E r \in trail' : r.action = a
  <2>1. PICK s \in all : /\ s.action = a /\ s.at = order'[a].at /\ s.outcome # "queued"
                         /\ \A q \in all : q.action = a => q = s \/ q.seq < s.seq
    <3>1. CASE StaysReserved(a, new)
      <4>1. InWindow(order[a].at, now) /\ UnderWay(a)
        BY <1>10, <3>1 DEF StaysReserved
      <4>2. PICK s \in trail : IsReservation(s, a)
        BY <1>1, <4>1 DEF SpendInv, ReservationsKept, ReservationsLast
      <4>3. HeldOutcome(a) # "queued"
        BY DEF HeldOutcome, SettledOutcome
      <4>4. \A q \in all : q.action = a => q \in trail
        BY <3>1 DEF StaysReserved
      <4>5. \A q \in trail : q.action = a => q = s \/ q.seq < s.seq
        BY <1>1, <4>2 DEF IsReservation, LedgerRows, Tier3Event
      <4>6. s.action = a /\ s.at = order'[a].at /\ s.outcome # "queued"
        BY <3>1, <4>2, <4>3 DEF IsReservation, StaysReserved
      <4> QED
        BY <4>4, <4>5, <4>6
    <3>2. CASE Reserves(a, new)
      <4>1. PICK s \in new : /\ s.action = a /\ s.outcome = "accepted"
                             /\ \A q \in new : q.action = a => q = s
        BY <3>2 DEF Reserves
      <4>2. s.at = order'[a].at /\ serial < s.seq
        BY <3>2, <4>1 DEF Reserves, NewRows
      <4>3. \A q \in trail : q.seq \in Nat /\ q.seq <= serial
        BY <1>1 DEF LedgerRows, Tier3Event
      <4>4. s.seq \in Nat
        BY <1>2 DEF Tier3Event
      <4>5. \A q \in trail : q.seq < s.seq
        BY <1>1, <4>2, <4>3, <4>4
      <4> QED
        BY <4>1, <4>2, <4>5
    <3> QED
      BY <1>10, <3>1, <3>2
  <2>2. CASE new = {}
    BY <2>1, <2>2 DEF record_tier3_event
  <2>3. CASE new # {}
    <3> DEFINE recent == Recent(all, now)
    <3>1. trail' = NewestPerClient(recent, AuditMax)
      BY <2>3 DEF record_tier3_event
    <3>2. s \in recent /\ recent \subseteq all
      BY <1>10, <2>1 DEF Recent
    <3>3. s.client \in Clients /\ req'[a] # "refused"
      <4>1. req'[a] \in Started
        BY <1>10 DEF LedgerInv, AuthorityInv, UnstartedIsFree, UnderWay
      <4>2. order'[a].client \in Clients
        BY <4>1 DEF LedgerInv, AuthorityInv, OrderIsKnown, Placed
      <4>3. RowIsOwned(s)
        BY <1>1, <1>4 DEF RowsAreOwned
      <4>4. s.client = order'[a].client
        BY <2>1, <4>3 DEF RowIsOwned, OrdersKeepClients
      <4> QED
        BY <4>1, <4>2, <4>4 DEF Started
    <3> HIDE DEF all, recent
    <3>4. /\ Cardinality(NoOlderOfClient(all, s)) \in Nat
          /\ Cardinality(NoOlderOfClient(all, s)) <= 2 * Cardinality(Actions) - 1
      BY <1>2, <1>5, <2>1, <3>3, ReservationIsRecent
    <3>5. /\ NoOlderOfClient(recent, s) \subseteq NoOlderOfClient(all, s)
          /\ IsFiniteSet(NoOlderOfClient(all, s))
      BY <1>2, <3>2, FS_Subset DEF NoOlderOfClient
    <3>6. /\ Cardinality(NoOlderOfClient(recent, s)) \in Nat
          /\ Cardinality(NoOlderOfClient(recent, s)) <= Cardinality(NoOlderOfClient(all, s))
      BY <3>5, FS_Subset, FS_CardinalityType
    <3>7. Cardinality(Actions) \in Nat /\ AuditMax \in Nat
      BY GatewayAssumption, StoreAssumption, FS_CardinalityType
    <3>8. Cardinality(NoOlderOfClient(recent, s)) <= AuditMax
      BY <3>4, <3>6, <3>7
    <3> QED
      BY <2>1, <3>1, <3>2, <3>8 DEF NewestPerClient
  <2> QED
    BY <2>2, <2>3
<1>11. ReservationsKept'
  BY <1>10 DEF ReservationsKept
<1> QED
  BY <1>6, <1>7, <1>8, <1>9, <1>11 DEF SpendInv

(* A step that leaves the trail and the queue alone.                       *)
LEMMA FrameKeepsSpend ==
    ASSUME LedgerInv, SpendInv, UNCHANGED <<trail, pending>>, now' \in Nat, now <= now',
           OrdersAdvance, \A a \in Actions : UnderWay(a)' => StaysReserved(a, {})
    PROVE  SpendInv'
<1>1. /\ now \in Nat /\ pending \in SUBSET Tier3PendingAction /\ PendingIsFree /\ TypeOK
  BY GatewayAssumption DEF LedgerInv, AuthorityInv, TypeOK
<1>2. TwoRowsEach(trail, req)'
  <2>1. Cardinality(Anonymous(trail)) <= Cardinality(RefusedOf(req'))
    <3>1. IsFiniteSet({}) /\ Anonymous({}) = {} /\ trail \cup {} = trail
      BY FS_EmptySet DEF Anonymous
    <3> QED
      BY <3>1, AnonymousCount DEF AnonymousFit
  <2>2. /\ \A r \in trail : r.outcome = "queued" => r.action \in Actions /\ req'[r.action] \in Started
        /\ \A r, s \in trail : (/\ r.action = s.action /\ r.action \in Actions
                                /\ r.outcome = "queued" <=> s.outcome = "queued") => r = s
    BY DEF SpendInv, TwoRowsEach, OrdersAdvance
  <2> QED
    BY <2>1, <2>2 DEF TwoRowsEach
<1>3. AmountsAreOrdered'
  <2>1. ASSUME NEW r \in trail, r.action \in Actions
        PROVE  req'[r.action] \in Started \cup {"refused"} /\ r.amount = order'[r.action].amount
    <3>1. req[r.action] \in Started \cup {"refused"} /\ r.amount = order[r.action].amount
      BY <2>1 DEF SpendInv, AmountsAreOrdered
    <3> QED
      BY <2>1, <3>1 DEF OrdersAdvance, Started
  <2>2. ASSUME NEW p \in pending
        PROVE  p.amount = order'[p.action].amount
    <3>1. p.action \in Actions /\ p.amount = order[p.action].amount /\ req[p.action] # "idle"
      BY <1>1 DEF SpendInv, AmountsAreOrdered, Tier3PendingAction, PendingIsFree, Started
    <3> QED
      BY <3>1 DEF OrdersAdvance
  <2> QED
    BY <2>1, <2>2 DEF AmountsAreOrdered
<1>4. PendingOnlyQueued'
  BY DEF SpendInv, PendingOnlyQueued
<1>5. AcceptedIsUnderWay'
  BY DEF SpendInv, AcceptedIsUnderWay, OrdersAdvance
<1>6. ReservationsKept'
  <2> SUFFICES ASSUME NEW a \in Actions, UnderWay(a)', InWindow(order'[a].at, now')
               PROVE  \E r \in trail : r.action = a
    BY DEF ReservationsKept
  <2>1. UnderWay(a) /\ InWindow(order[a].at, now')
    BY DEF StaysReserved
  <2>2. order[a].at \in Nat
    BY <1>1 DEF TypeOK, Order
  <2>3. InWindow(order[a].at, now)
    BY <1>1, <2>1, <2>2, StoreAssumption DEF InWindow
  <2> QED
    BY <2>1, <2>3 DEF SpendInv, ReservationsKept
<1> QED
  BY <1>2, <1>3, <1>4, <1>5, <1>6 DEF SpendInv

(* The rows that close queue entries fit the trail, which has only the     *)
(* "queued" row of each (prune_tier3_pending, delete_tier3_grant).         *)
LEMMA ClosingRowsFit ==
    ASSUME LedgerInv, SpendInv, OrdersAdvance, NEW S \in SUBSET pending, NEW from,
           NEW o \in {"rejected", "expired"}, S \cap pending' = {},
           \A p \in pending' : p \in pending \/ req[p.action] \notin Started
    PROVE  RowsFit(ClosingRows(S, from, o)) /\ Anonymous(ClosingRows(S, from, o)) = {}
<1> DEFINE rows == ClosingRows(S, from, o)
           row(p) == Event(from + Rank(p, S), p.client, p.amount, o, p.action)
<1>1. PendingIsFree /\ pending \in SUBSET Tier3PendingAction
  BY DEF LedgerInv, AuthorityInv, TypeOK
<1>2. \A r \in rows : \E p \in S : r = row(p)
  BY DEF ClosingRows
<1>3. ASSUME NEW r \in rows
      PROVE  RowFits(r) /\ r.action \in Actions
  <2>1. PICK p \in S : r = row(p)
    BY <1>2
  <2>2. r.action = p.action /\ r.amount = p.amount /\ r.outcome = o
    BY <2>1 DEF Event
  <2>3. p.action \in Actions /\ req[p.action] \in Started
    BY <1>1 DEF PendingIsFree, Tier3PendingAction
  <2>4. p.amount = order[p.action].amount /\ \A s \in trail : s.action = p.action => s.outcome = "queued"
    BY DEF SpendInv, AmountsAreOrdered, PendingOnlyQueued
  <2>5. req'[p.action] \in Started
    BY <2>3 DEF OrdersAdvance
  <2> QED
    BY <2>2, <2>3, <2>4, <2>5 DEF RowFits
<1>4. \A r \in rows : \E p \in S : r = row(p) /\ r.action = p.action
  BY <1>2 DEF Event
<1> HIDE DEF rows
<1>5. ASSUME NEW r \in rows, NEW s \in rows, r.action = s.action
      PROVE  r = s
  <2>1. PICK p \in S : r = row(p) /\ r.action = p.action
    BY <1>4
  <2>2. PICK q \in S : s = row(q) /\ s.action = q.action
    BY <1>4
  <2>3. p = q
    BY <1>1, <1>5, <2>1, <2>2 DEF PendingIsFree
  <2> QED
    BY <2>1, <2>2, <2>3
<1>6. ASSUME NEW p \in pending', NEW r \in rows, r.action = p.action
      PROVE  FALSE
  <2>1. PICK q \in S : r = row(q) /\ r.action = q.action
    BY <1>4
  <2>2. req[q.action] \in Started
    BY <1>1 DEF PendingIsFree
  <2>3. p \in pending
    BY <1>6, <2>1, <2>2
  <2>4. p = q
    BY <1>1, <1>6, <2>1, <2>3 DEF PendingIsFree
  <2> QED
    BY <1>6, <2>1, <2>4
<1>7. Anonymous(rows) = {}
  BY <1>3, GatewayAssumption DEF Anonymous
<1> QED
  BY <1>3, <1>5, <1>6, <1>7 DEF RowsFit, rows

(* Two groups of rows that concern different actions.                      *)
LEMMA RowsFitUnion ==
    ASSUME NEW A, RowsFit(A), NEW B, RowsFit(B),
           \A r \in A, s \in B : r.action \in Actions => r.action # s.action
    PROVE  RowsFit(A \cup B)
  BY DEF RowsFit

(* A locked section keeps it: prune_tier3_pending's rows, then the         *)
(* handler's own, of no overdue action.                                    *)
LEMMA CommitKeepsSpend ==
    ASSUME 2 * Cardinality(Actions) - 1 <= AuditMax,
           LedgerInv, LedgerInv', SpendInv, NEW rows, NEW writes, NEW last \in Nat, NEW polled,
           Commit(rows, writes, last, polled), NewRows(rows, last), AfterSweep <= last,
           \A r \in rows : AfterSweep < r.seq,
           now' = now, OrdersKeepClients, OrdersAdvance,
           RowsFit(rows), Anonymous(rows) = {}, QueueFits,
           \A p \in pending' : p \in Live \/ req[p.action] \notin Started,
           \A r \in rows, p \in Overdue : r.action # p.action,
           \A a \in Actions : UnderWay(a)' => StaysReserved(a, rows) \/ Reserves(a, rows)
    PROVE  SpendInv'
<1> DEFINE closing == ClosingRows(Overdue, serial, "expired")
           new == closing \cup rows
<1>1. AuthorityInv /\ TypeOK /\ IsFiniteSet(pending) /\ PendingIsFree /\ serial \in Nat
  BY DEF LedgerInv, AuthorityInv, TypeOK
<1>2. AfterSweep \in Nat /\ Overdue \in SUBSET pending /\ serial <= AfterSweep
  <2>1. Overdue \in SUBSET pending
    BY DEF Overdue
  <2>2. Cardinality(Overdue) \in Nat
    BY <1>1, <2>1, SweepType
  <2> QED
    BY <1>1, <2>1, <2>2 DEF AfterSweep
<1>3. /\ NewRows(closing, AfterSweep)
      /\ \A r \in closing : \E p \in Overdue : r.action = p.action
  BY <1>1, <1>2, ClosingRowsAreNew DEF AfterSweep
<1>4. RowsFit(closing) /\ Anonymous(closing) = {}
  <2>1. Overdue \cap pending' = {}
    BY <1>1, <1>2 DEF Live, PendingIsFree
  <2>2. \A p \in pending' : p \in pending \/ req[p.action] \notin Started
    BY DEF Live
  <2> QED
    BY <1>2, <2>1, <2>2, ClosingRowsFit
<1> HIDE DEF closing
<1>5. NewRows(new, last)
  BY <1>2, <1>3, NewRowsUnion
<1>6. RowsFit(new)
  <2>1. \A r \in closing, s \in rows : r.action \in Actions => r.action # s.action
    BY <1>3
  <2> QED
    BY <1>4, <2>1, RowsFitUnion
<1>7. AnonymousFit(new)
  BY <1>4 DEF AnonymousFit, Anonymous
<1>8. trail' = record_tier3_event(trail, new, now)
  BY DEF Commit, closing
<1>9. ASSUME NEW a \in Actions, UnderWay(a)'
      PROVE  StaysReserved(a, new) \/ Reserves(a, new)
  <2>1. CASE StaysReserved(a, rows)
    <3>1. \A p \in Overdue : p.action # a
      BY <1>1, <1>2, <2>1 DEF PendingIsFree, StaysReserved, UnderWay
    <3>2. \A r \in closing : r.action # a
      BY <1>3, <3>1
    <3> QED
      BY <2>1, <3>2 DEF StaysReserved
  <2>2. CASE Reserves(a, rows)
    <3>1. \A r \in closing : r.action # a
      <4>1. PICK s \in rows : s.action = a
        BY <2>2 DEF Reserves
      <4> QED
        BY <1>3, <4>1
    <3> QED
      BY <2>2, <3>1 DEF Reserves
  <2> QED
    BY <1>9, <2>1, <2>2
<1> HIDE DEF new
<1> QED
  BY <1>5, <1>6, <1>7, <1>8, <1>9, RecordKeepsSpend

-----------------------------------------------------------------------------
(* One lemma per action: it keeps the usage ledger. *)

(* What every locked section starts from.                                  *)
LEMMA LockedStart ==
    ASSUME LedgerInv
    PROVE  /\ TypeOK /\ PendingIsFree /\ OrderIsKnown /\ UnstartedIsFree /\ QueueIsOwned
           /\ IsFiniteSet(pending) /\ pending \in SUBSET Tier3PendingAction
           /\ serial \in Nat /\ now \in Nat /\ AfterSweep \in Nat /\ serial <= AfterSweep
           /\ Overdue \in SUBSET pending /\ Live \in SUBSET pending
           /\ \A p \in Live, q \in Overdue : p.action # q.action
<1>1. /\ AuthorityInv /\ TypeOK /\ IsFiniteSet(pending) /\ PendingIsFree /\ serial \in Nat
      /\ now \in Nat
  BY GatewayAssumption DEF LedgerInv, AuthorityInv, TypeOK
<1>2. Overdue \in SUBSET pending /\ Live \in SUBSET pending
  BY DEF Overdue, Live
<1>3. Cardinality(Overdue) \in Nat
  BY <1>1, <1>2, SweepType
<1>4. \A p \in Live, q \in Overdue : p.action # q.action
  BY <1>1, <1>2 DEF PendingIsFree, Live
<1> QED
  BY <1>1, <1>2, <1>3, <1>4 DEF AuthorityInv, LedgerInv, AfterSweep, TypeOK

(* prune_tier3_pending alone.                                              *)
LEMMA SweepKeepsSpend ==
    ASSUME 2 * Cardinality(Actions) - 1 <= AuditMax, LedgerInv, LedgerInv', SpendInv,
           \/ Sweep
           \/ \E a \in Actions : Poll(a)
           \/ \E a \in Actions : FindQueueFull(a)
    PROVE  SpendInv'
<1>1. /\ TypeOK /\ AfterSweep \in Nat /\ Live \in SUBSET pending
  BY LockedStart
<1>2. PICK polled : Commit({}, {}, AfterSweep, polled)
  BY DEF Sweep, Poll, FindQueueFull
<1>3. pending' = Live /\ UNCHANGED <<now, order, hand, result>>
  BY DEF Sweep, Poll, FindQueueFull, locals
<1>4. OrdersKeepClients /\ OrdersAdvance
  <2>1. CASE UNCHANGED req
    BY <1>3, <2>1 DEF OrdersKeepClients, OrdersAdvance, UnderWay
  <2>2. ASSUME NEW a \in Actions, FindQueueFull(a)
        PROVE  OrdersKeepClients /\ OrdersAdvance
    <3>1. /\ req[a] = "limitRead" /\ req'[a] = "full"
          /\ \A b \in Actions \ {a} : req'[b] = req[b]
      BY <1>1, <2>2 DEF FindQueueFull, TypeOK, Threads
    <3> QED
      BY <1>3, <3>1 DEF OrdersKeepClients, OrdersAdvance, UnderWay, Started
  <2> QED
    BY <2>1, <2>2 DEF Sweep, Poll, locals
<1>5. \A a \in Actions : UnderWay(a)' => StaysReserved(a, {})
  BY <1>3, NothingMoves
<1>6. NewRows({}, AfterSweep) /\ RowsFit({}) /\ Anonymous({}) = {} /\ QueueFits
  BY <1>1, <1>3, FewNewRows DEF RowsFit, Anonymous, QueueFits
<1>7. AfterSweep <= AfterSweep /\ \A p \in pending' : p \in Live
  BY <1>1, <1>3
<1> QED
  BY <1>1, <1>2, <1>3, <1>4, <1>5, <1>6, <1>7, CommitKeepsSpend

(* delete_tier3_grant.                                                     *)
LEMMA DeleteGrantKeepsSpend ==
    ASSUME 2 * Cardinality(Actions) - 1 <= AuditMax, LedgerInv, LedgerInv', SpendInv,
           NEW c \in Clients, DeleteGrant(c)
    PROVE  SpendInv'
<1> DEFINE purged == {p \in Live : p.client = c}
           rows == ClosingRows(purged, AfterSweep, "rejected")
           last == AfterSweep + Cardinality(purged)
<1>1. /\ TypeOK /\ IsFiniteSet(pending) /\ PendingIsFree /\ serial \in Nat
      /\ AfterSweep \in Nat /\ serial <= AfterSweep /\ Live \in SUBSET pending
      /\ \A p \in Live, q \in Overdue : p.action # q.action
  BY LockedStart
<1>2. /\ Commit(rows, ClosingWrites(purged, AfterSweep, "rejected"), last, {})
      /\ pending' = Live \ purged
      /\ UNCHANGED <<now, order, req, hand, result>>
  BY DEF DeleteGrant, locals
<1>3. purged \in SUBSET pending /\ purged \subseteq Live
  BY <1>1
<1>4. last \in Nat /\ AfterSweep <= last
  BY <1>1, <1>3, SweepType
<1>5. /\ NewRows(rows, last)
      /\ \A r \in rows : AfterSweep < r.seq /\ \E p \in purged : r.action = p.action
  BY <1>1, <1>3, ClosingRowsAreNew
<1>6. OrdersKeepClients /\ OrdersAdvance
  BY <1>2 DEF OrdersKeepClients, OrdersAdvance, UnderWay
<1>7. RowsFit(rows) /\ Anonymous(rows) = {}
  <2>1. purged \cap pending' = {} /\ \A p \in pending' : p \in pending
    BY <1>1, <1>2
  <2> HIDE DEF purged
  <2> QED
    BY <1>3, <1>6, <2>1, ClosingRowsFit
<1> HIDE DEF purged, rows, last
<1>8. \A a \in Actions : UnderWay(a)' => StaysReserved(a, rows)
  <2>1. \A r \in rows : hand[r.action] = "none"
    BY <1>1, <1>3, <1>5 DEF PendingIsFree
  <2> QED
    BY <1>2, <2>1, NothingMoves
<1>9. \A r \in rows, p \in Overdue : r.action # p.action
  BY <1>1, <1>3, <1>5
<1>10. QueueFits /\ \A p \in pending' : p \in Live
  BY <1>1, <1>2 DEF QueueFits
<1> QED
  BY <1>2, <1>4, <1>5, <1>6, <1>7, <1>8, <1>9, <1>10, CommitKeepsSpend

(* A human's decision on an entry: the one row of its action that is not   *)
(* "queued".                                                               *)
LEMMA DecisionKeepsSpend ==
    ASSUME 2 * Cardinality(Actions) - 1 <= AuditMax, LedgerInv, LedgerInv', SpendInv,
           NEW p \in Live, Reject(p) \/ ApproveRevoked(p) \/ Approve(p)
    PROVE  SpendInv'
<1> DEFINE n == AfterSweep + 1
<1>1. /\ TypeOK /\ IsFiniteSet(pending) /\ PendingIsFree /\ serial \in Nat /\ now \in Nat
      /\ AfterSweep \in Nat /\ serial <= AfterSweep /\ Live \in SUBSET pending
      /\ QueueIsOwned /\ \A q \in Live, s \in Overdue : q.action # s.action
  BY LockedStart
<1>2. PICK o, writes :
        /\ o \in {"accepted", "rejected"}
        /\ Commit({Event(n, p.client, p.amount, o, p.action)}, writes, n, {})
        /\ o = "accepted" => Approve(p)
        /\ o = "rejected" => UNCHANGED locals
  BY DEF Reject, ApproveRevoked, Approve
<1> DEFINE r == Event(n, p.client, p.amount, o, p.action)
<1>3. pending' = Live \ {p} /\ UNCHANGED <<now, req, result>>
  BY DEF Reject, ApproveRevoked, Approve, locals
<1>4. /\ p \in pending /\ p.client \in Clients /\ p.amount \in Nat /\ p.action \in Actions
      /\ req[p.action] \in Started /\ hand[p.action] = "none"
      /\ p.client = order[p.action].client /\ p.amount = order[p.action].amount
      /\ \A s \in trail : s.action = p.action => s.outcome = "queued"
  <2>1. p \in pending /\ p \in Tier3PendingAction
    BY <1>1 DEF TypeOK
  <2> QED
    BY <1>1, <2>1, GatewayAssumption
       DEF Tier3PendingAction, PendingIsFree, QueueIsOwned, SpendInv, AmountsAreOrdered,
           PendingOnlyQueued
<1>5. n \in Nat /\ AfterSweep < n /\ AfterSweep <= n /\ serial < n
  BY <1>1
<1> HIDE DEF n
<1>6. /\ r \in Tier3Event /\ r.seq = n /\ r.at = now /\ r.action = p.action /\ r.outcome = o
      /\ r.client = p.client /\ r.amount = p.amount
  BY <1>1, <1>2, <1>4, <1>5 DEF Event, Tier3Event, Outcomes
<1> HIDE DEF r
<1>7. o = "accepted" => /\ order' = [order EXCEPT ![p.action].limit = grants[p.client], ![p.action].at = now]
                        /\ hand' = [hand EXCEPT ![p.action] = "due"]
  BY <1>2 DEF Approve, StartHandoff
<1>8. o = "rejected" => UNCHANGED <<order, hand>>
  BY <1>2 DEF locals
<1>9. /\ \A a \in Actions : order'[a].client = order[a].client /\ order'[a].amount = order[a].amount
      /\ \A a \in Actions \ {p.action} : order'[a].at = order[a].at /\ hand'[a] = hand[a]
      /\ o = "accepted" => order'[p.action].at = now /\ hand'[p.action] = "due"
  BY <1>1, <1>2, <1>4, <1>7, <1>8 DEF TypeOK, Order
<1>10. OrdersKeepClients /\ OrdersAdvance
  BY <1>3, <1>4, <1>9 DEF OrdersKeepClients, OrdersAdvance, UnderWay
<1>11. NewRows({r}, n)
  <2>1. RowIsOwned(r)
    BY <1>4, <1>6 DEF RowIsOwned, Started
  <2> QED
    BY <1>5, <1>6, <2>1, FewNewRows
<1>12. \A a \in Actions : UnderWay(a)' => StaysReserved(a, {r}) \/ Reserves(a, {r})
  <2>1. ASSUME NEW a \in Actions \ {p.action}, UnderWay(a)'
        PROVE  StaysReserved(a, {r})
    BY <1>3, <1>6, <1>9, <2>1 DEF UnderWay, StaysReserved, HeldOutcome
  <2>2. CASE o = "accepted"
    <3>1. Reserves(p.action, {r})
      BY <1>6, <1>9, <2>2 DEF Reserves, HeldOutcome
    <3> QED
      BY <2>1, <3>1
  <2>3. CASE o = "rejected"
    <3>1. ~ UnderWay(p.action)'
      BY <1>4, <1>8, <2>3 DEF UnderWay
    <3> QED
      BY <2>1, <3>1
  <2> QED
    BY <1>2, <2>2, <2>3
<1>13. RowsFit({r}) /\ Anonymous({r}) = {}
  <2>1. RowFits(r)
    <3>1. r.outcome # "queued" /\ (r.outcome = "accepted" => hand'[r.action] = "due")
      BY <1>2, <1>6, <1>9
    <3>2. req'[p.action] \in Started
      BY <1>3, <1>4
    <3> QED
      BY <1>4, <1>6, <3>1, <3>2 DEF RowFits
  <2>2. \A q \in pending' : q.action # r.action
    BY <1>1, <1>3, <1>4, <1>6 DEF PendingIsFree
  <2>3. Anonymous({r}) = {}
    BY <1>4, <1>6, GatewayAssumption DEF Anonymous
  <2> QED
    BY <2>1, <2>2, <2>3 DEF RowsFit
<1>14. QueueFits /\ \A q \in pending' : q \in Live
  BY <1>1, <1>3 DEF QueueFits
<1>15. Commit({r}, writes, n, {})
  BY <1>2 DEF r
<1>16. /\ \A s \in {r} : AfterSweep < s.seq
       /\ \A s \in {r}, q \in Overdue : s.action # q.action
  BY <1>1, <1>5, <1>6
<1> QED
  BY <1>3, <1>5, <1>10, <1>11, <1>12, <1>13, <1>14, <1>15, <1>16, CommitKeepsSpend

(* An order that is being placed has no row yet.                           *)
LEMMA UnplacedHasNoRow ==
    ASSUME LedgerInv, SpendInv, NEW a \in Actions, req[a] \in {"idle", "limitRead", "full"}
    PROVE  /\ \A r \in trail : r.action # a
           /\ \A p \in pending : p.action # a
  BY DEF SpendInv, AmountsAreOrdered, LedgerInv, AuthorityInv, PendingIsFree, Started

(* An order over the mandate: its "queued" row and its entry.              *)
LEMMA QueueKeepsSpend ==
    ASSUME 2 * Cardinality(Actions) - 1 <= AuditMax, LedgerInv, LedgerInv', SpendInv,
           NEW a \in Actions, Queue(a)
    PROVE  SpendInv'
<1> DEFINE n == AfterSweep + 1
           row == Event(n, order[a].client, order[a].amount, "queued", a)
           entry == [seq |-> n, action |-> a, client |-> order[a].client,
                     amount |-> order[a].amount, expires |-> now + PendingTTL,
                     crossed |-> MapIsBeingRebuilt]
<1>1. /\ TypeOK /\ IsFiniteSet(pending) /\ PendingIsFree /\ serial \in Nat /\ now \in Nat
      /\ AfterSweep \in Nat /\ serial <= AfterSweep /\ Live \in SUBSET pending
      /\ Overdue \in SUBSET pending /\ OrderIsKnown /\ UnstartedIsFree
  BY LockedStart
<1>2. /\ req[a] = "limitRead" /\ req' = [req EXCEPT ![a] = "queued"]
      /\ pending' = Live \cup {entry}
      /\ UNCHANGED <<now, order, hand, result>>
  BY DEF Queue
<1>3. PICK writes : Commit({row}, writes, n, {})
  BY DEF Queue
<1>4. n \in Nat /\ AfterSweep < n /\ AfterSweep <= n /\ serial < n
  BY <1>1
<1> HIDE DEF n
<1>5. order[a].client \in Clients /\ order[a].amount \in Nat /\ hand[a] = "none"
  BY <1>1, <1>2, GatewayAssumption DEF OrderIsKnown, Placed, UnstartedIsFree, Started
<1>6. /\ row \in Tier3Event /\ row.seq = n /\ row.at = now /\ row.action = a
      /\ row.outcome = "queued" /\ row.client = order[a].client /\ row.amount = order[a].amount
  BY <1>1, <1>4, <1>5 DEF Event, Tier3Event, Outcomes
<1>7. entry.action = a /\ entry.amount = order[a].amount
  OBVIOUS
<1> HIDE DEF row, entry
<1>8. req'[a] = "queued" /\ \A b \in Actions \ {a} : req'[b] = req[b]
  BY <1>1, <1>2 DEF TypeOK, Threads
<1>9. OrdersKeepClients /\ OrdersAdvance
  BY <1>2, <1>8 DEF OrdersKeepClients, OrdersAdvance, UnderWay, Started
<1>10. (\A r \in trail : r.action # a) /\ (\A p \in pending : p.action # a)
  BY <1>2, UnplacedHasNoRow
<1>11. NewRows({row}, n)
  <2>1. RowIsOwned(row)
    BY <1>2, <1>6 DEF RowIsOwned
  <2> QED
    BY <1>4, <1>6, <2>1, FewNewRows
<1>12. \A b \in Actions : UnderWay(b)' => StaysReserved(b, {row})
  BY <1>2, <1>5, <1>6, NothingMoves
<1>13. RowsFit({row}) /\ Anonymous({row}) = {}
  <2>1. RowFits(row)
    BY <1>6, <1>8, <1>10 DEF RowFits, Started
  <2>2. Anonymous({row}) = {}
    BY <1>6, GatewayAssumption DEF Anonymous
  <2> QED
    BY <1>6, <2>1, <2>2 DEF RowsFit
<1>14. QueueFits /\ \A p \in pending' : p \in Live \/ req[p.action] \notin Started
  BY <1>1, <1>2, <1>7, <1>10 DEF QueueFits, Started
<1>15. /\ \A s \in {row} : AfterSweep < s.seq
       /\ \A s \in {row}, q \in Overdue : s.action # q.action
  BY <1>1, <1>4, <1>6, <1>10
<1> QED
  BY <1>2, <1>3, <1>4, <1>9, <1>11, <1>12, <1>13, <1>14, <1>15, CommitKeepsSpend

(* An order within the mandate: its reservation.                           *)
LEMMA ReserveKeepsSpend ==
    ASSUME 2 * Cardinality(Actions) - 1 <= AuditMax, LedgerInv, LedgerInv', SpendInv,
           NEW a \in Actions, Reserve(a)
    PROVE  SpendInv'
<1> DEFINE n == serial + 1
           row == Event(n, order[a].client, order[a].amount, "accepted", a)
<1>1. TypeOK /\ OrderIsKnown /\ UnstartedIsFree /\ serial \in Nat /\ now \in Nat
  BY LockedStart
<1>2. /\ req[a] = "limitRead" /\ req' = [req EXCEPT ![a] = "handedOff"]
      /\ trail' = record_tier3_event(trail, {row}, now)
      /\ UNCHANGED <<now, pending, result>>
      /\ order' = [order EXCEPT ![a].limit = order[a].limit, ![a].at = now]
      /\ hand' = [hand EXCEPT ![a] = "due"]
  BY DEF Reserve, StartHandoff
<1>3. n \in Nat /\ serial < n
  BY <1>1
<1> HIDE DEF n
<1>4. order[a].client \in Clients /\ order[a].amount \in Nat /\ hand[a] = "none"
  BY <1>1, <1>2, GatewayAssumption DEF OrderIsKnown, Placed, UnstartedIsFree, Started
<1>5. /\ row \in Tier3Event /\ row.seq = n /\ row.at = now /\ row.action = a
      /\ row.outcome = "accepted" /\ row.client = order[a].client /\ row.amount = order[a].amount
  BY <1>1, <1>3, <1>4 DEF Event, Tier3Event, Outcomes
<1> HIDE DEF row
<1>6. /\ \A b \in Actions : order'[b].client = order[b].client /\ order'[b].amount = order[b].amount
      /\ \A b \in Actions \ {a} : order'[b].at = order[b].at /\ hand'[b] = hand[b] /\ req'[b] = req[b]
      /\ order'[a].at = now /\ hand'[a] = "due" /\ req'[a] = "handedOff"
  BY <1>1, <1>2 DEF TypeOK, Order, Threads
<1>7. OrdersKeepClients /\ OrdersAdvance
  BY <1>2, <1>4, <1>6 DEF OrdersKeepClients, OrdersAdvance, UnderWay, Started
<1>8. (\A r \in trail : r.action # a) /\ (\A p \in pending : p.action # a)
  BY <1>2, UnplacedHasNoRow
<1>9. NewRows({row}, n)
  <2>1. RowIsOwned(row)
    BY <1>2, <1>5 DEF RowIsOwned
  <2> QED
    BY <1>3, <1>5, <2>1, FewNewRows
<1>10. \A b \in Actions : UnderWay(b)' => StaysReserved(b, {row}) \/ Reserves(b, {row})
  <2>1. ASSUME NEW b \in Actions \ {a}, UnderWay(b)'
        PROVE  StaysReserved(b, {row})
    BY <1>2, <1>5, <1>6, <2>1 DEF UnderWay, StaysReserved, HeldOutcome
  <2>2. Reserves(a, {row})
    BY <1>5, <1>6 DEF Reserves, HeldOutcome
  <2> QED
    BY <2>1, <2>2
<1>11. RowsFit({row}) /\ AnonymousFit({row})
  <2>1. RowFits(row)
    BY <1>5, <1>6, <1>8 DEF RowFits, Started
  <2>2. Anonymous({row}) = {}
    BY <1>5, GatewayAssumption DEF Anonymous
  <2>3. \A p \in pending' : p.action # row.action
    BY <1>2, <1>5, <1>8
  <2> QED
    BY <2>1, <2>2, <2>3 DEF RowsFit, AnonymousFit
<1>12. QueueFits
  BY <1>2 DEF QueueFits
<1> QED
  BY <1>2, <1>3, <1>7, <1>9, <1>10, <1>11, <1>12, RecordKeepsSpend

(* A refusal that nothing interrupts.                                      *)
LEMMA RefusalKeepsSpend ==
    ASSUME 2 * Cardinality(Actions) - 1 <= AuditMax, RacingRefusals = {},
           LedgerInv, LedgerInv', SpendInv, NEW t \in Threads, NEW row \in Tier3Event,
           row.seq = serial + 1, row.at = now, row.outcome = "rejected", RowIsOwned(row),
           req[t] \in {"idle", "full"},
           \/ row.action \notin Actions
           \/ row.action = t /\ row.amount = order[t].amount /\ hand[t] = "none",
           row.client \in Clients => t \in Actions,
           RecordUnlocked(t, row), req' = [req EXCEPT ![t] = "refused"],
           UNCHANGED <<now, pending, order, hand, result>>
    PROVE  SpendInv'
<1>1. TypeOK /\ serial \in Nat /\ serial + 1 \in Nat /\ serial < serial + 1
  BY LockedStart
<1>2. trail' = record_tier3_event(trail, {row}, now)
  BY DEF RecordUnlocked, record_tier3_event
<1>3. req'[t] = "refused" /\ \A b \in Actions \ {t} : req'[b] = req[b]
  BY <1>1 DEF TypeOK, Threads
<1>4. OrdersKeepClients /\ OrdersAdvance
  BY <1>3 DEF OrdersKeepClients, OrdersAdvance, UnderWay, Started
<1>5. NewRows({row}, serial + 1)
  BY <1>1, FewNewRows
<1>6. \A a \in Actions : UnderWay(a)' => StaysReserved(a, {row})
  BY NothingMoves
<1>7. row.action \in Actions =>
         row.action = t /\ (\A r \in trail : r.action # t) /\ (\A p \in pending : p.action # t)
  BY UnplacedHasNoRow
<1>8. RowsFit({row})
  <2>1. RowFits(row)
    BY <1>3, <1>7 DEF RowFits
  <2>2. \A p \in pending' : p.action # row.action
    BY <1>1, <1>7 DEF TypeOK, Tier3PendingAction
  <2> QED
    BY <2>1, <2>2 DEF RowsFit
<1>9. AnonymousFit({row})
  <2>1. CASE row.client \in Clients
    BY <1>3, <2>1 DEF AnonymousFit
  <2>2. CASE row.client \notin Clients
    BY <2>2 DEF AnonymousFit, Anonymous
  <2> QED
    BY <2>1, <2>2
<1>10. QueueFits
  BY DEF QueueFits
<1> QED
  BY <1>1, <1>2, <1>4, <1>5, <1>6, <1>8, <1>9, <1>10, RecordKeepsSpend

(* The 401s, the 403 for want of a mandate, and the 429 of a full queue.   *)
LEMMA RefusalsKeepSpend ==
    ASSUME 2 * Cardinality(Actions) - 1 <= AuditMax, RacingRefusals = {},
           LedgerInv, LedgerInv', SpendInv,
           \/ \E s \in Strangers : RefuseStranger(s)
           \/ \E a \in Actions, c \in Clients, amount \in Amounts : RefuseNoGrant(a, c, amount)
           \/ \E a \in Actions : RefuseQueueFull(a)
    PROVE  SpendInv'
<1>1. /\ TypeOK /\ UnstartedIsFree /\ OrderIsKnown
      /\ serial + 1 \in Nat /\ now \in Nat
  BY LockedStart
<1>2. ASSUME NEW s \in Strangers, RefuseStranger(s)
      PROVE  SpendInv'
  <2>1. PICK amount \in Amounts :
          RecordUnlocked(s, Event(serial + 1, Unknown, amount, "rejected", NoAction))
    BY <1>2 DEF RefuseStranger
  <2> DEFINE row == Event(serial + 1, Unknown, amount, "rejected", NoAction)
  <2>2. /\ row \in Tier3Event /\ row.seq = serial + 1 /\ row.at = now /\ row.action \notin Actions
        /\ row.outcome = "rejected" /\ row.client \notin Clients
    BY <1>1, GatewayAssumption DEF Event, Tier3Event, Outcomes
  <2> HIDE DEF row
  <2>3. RecordUnlocked(s, row)
    BY <2>1 DEF row
  <2>4. /\ req[s] = "idle" /\ req' = [req EXCEPT ![s] = "refused"]
        /\ UNCHANGED <<now, pending, order, hand, result>>
    BY <1>2 DEF RefuseStranger
  <2>5. s \in Threads /\ RowIsOwned(row)
    BY <2>2 DEF Threads, RowIsOwned
  <2> QED
    BY <2>2, <2>3, <2>4, <2>5, RefusalKeepsSpend
<1>3. ASSUME NEW a \in Actions, NEW c \in Clients, NEW amount \in Amounts,
             RefuseNoGrant(a, c, amount)
      PROVE  SpendInv'
  <2> DEFINE row == Event(serial + 1, c, amount, "rejected", NoAction)
  <2>1. /\ row \in Tier3Event /\ row.seq = serial + 1 /\ row.at = now /\ row.action \notin Actions
        /\ row.outcome = "rejected"
    BY <1>1, GatewayAssumption DEF Event, Tier3Event, Outcomes
  <2> HIDE DEF row
  <2>2. RecordUnlocked(a, row)
    BY <1>3 DEF RefuseNoGrant, row
  <2>3. /\ req[a] = "idle" /\ req' = [req EXCEPT ![a] = "refused"]
        /\ UNCHANGED <<now, pending, order, hand, result>>
    BY <1>3 DEF RefuseNoGrant
  <2>4. a \in Threads /\ RowIsOwned(row)
    BY <2>1 DEF Threads, RowIsOwned
  <2> QED
    BY <2>1, <2>2, <2>3, <2>4, RefusalKeepsSpend
<1>4. ASSUME NEW a \in Actions, RefuseQueueFull(a)
      PROVE  SpendInv'
  <2> DEFINE row == Event(serial + 1, order[a].client, order[a].amount, "rejected", a)
  <2>1. /\ req[a] = "full" /\ hand[a] = "none" /\ req' = [req EXCEPT ![a] = "refused"]
        /\ UNCHANGED <<now, pending, order, hand, result>>
    BY <1>1, <1>4 DEF RefuseQueueFull, UnstartedIsFree, Started
  <2>2. order[a].client \in Clients /\ order[a].amount \in Nat
    BY <1>1, <2>1, GatewayAssumption DEF OrderIsKnown, Placed
  <2>3. /\ row \in Tier3Event /\ row.seq = serial + 1 /\ row.at = now
        /\ row.action = a /\ row.outcome = "rejected" /\ row.amount = order[a].amount
        /\ RowIsOwned(row)
    BY <1>1, <2>1, <2>2 DEF Event, Tier3Event, Outcomes, RowIsOwned
  <2> HIDE DEF row
  <2>4. RecordUnlocked(a, row)
    BY <1>4 DEF RefuseQueueFull, row
  <2>5. a \in Threads
    BY DEF Threads
  <2> QED
    BY <2>1, <2>3, <2>4, <2>5, RefusalKeepsSpend
<1> QED
  BY <1>2, <1>3, <1>4

(* settle_tier3_event changes an "accepted" row to what it held or         *)
(* releases it.                                                            *)
LEMMA SettleEventKeepsSpend ==
    ASSUME LedgerInv, SpendInv, NEW a \in Actions, SettleEvent(a)
    PROVE  SpendInv'
<1> DEFINE seqs == {r.seq : r \in SettleTarget(trail, a)}
           outcome == SettledOutcome(result[a])
           settled(r) == IF r.seq \in seqs THEN [r EXCEPT !.outcome = outcome] ELSE r
<1>1. /\ TypeOK /\ trail \in SUBSET Tier3Event /\ LedgerRows
  BY DEF LedgerInv, TrailInv, AuthorityInv, TypeOK
<1>2. /\ hand[a] = "returned" /\ hand' = [hand EXCEPT ![a] = "audited"]
      /\ UNCHANGED <<now, pending, order, req>>
      /\ trail' = {settled(r) : r \in trail}
  BY DEF SettleEvent, SetOutcome
<1>3. \A b \in Actions : UnderWay(b)' <=> UnderWay(b)
  BY <1>1, <1>2 DEF UnderWay, TypeOK
<1>4. \A r \in trail : r.seq \in seqs => r.action = a /\ r.outcome = "accepted"
  <2> SUFFICES ASSUME NEW r \in trail, r.seq \in seqs
               PROVE  r.action = a /\ r.outcome = "accepted"
    OBVIOUS
  <2>1. r \in SettleTarget(trail, a)
    BY <1>1 DEF SettleTarget, LedgerRows
  <2>2. UnderWay(a)
    BY <1>2 DEF UnderWay
  <2>3. IsReservation(r, a)
    BY <2>1, <2>2, TargetIsReservation
  <2> QED
    BY <1>2, <2>3 DEF IsReservation, HeldOutcome
<1>5. outcome # "queued"
  BY DEF SettledOutcome
<1>6. \A r \in trail : /\ settled(r).client = r.client /\ settled(r).action = r.action
                       /\ settled(r).amount = r.amount
                       /\ settled(r).outcome = "queued" <=> r.outcome = "queued"
                       /\ settled(r).outcome = "accepted" => r.outcome = "accepted"
                       /\ r.action \notin Actions => settled(r) = r
  BY <1>1, <1>4, <1>5 DEF Tier3Event
<1>7. \A s \in trail' : \E r \in trail : s = settled(r)
  BY <1>2
<1>8. \A r \in trail : settled(r) \in trail'
  BY <1>2
<1> HIDE DEF settled
<1>9. TwoRowsEach(trail, req)'
  <2>1. Anonymous(trail') = Anonymous(trail)
    BY <1>6, <1>7, <1>8, GatewayAssumption DEF Anonymous
  <2>2. \A r \in trail' : r.outcome = "queued" => r.action \in Actions /\ req[r.action] \in Started
    BY <1>6, <1>7 DEF SpendInv, TwoRowsEach
  <2>3. ASSUME NEW r \in trail', NEW s \in trail', r.action = s.action, r.action \in Actions,
               r.outcome = "queued" <=> s.outcome = "queued"
        PROVE  r = s
    <3>1. PICK x \in trail : r = settled(x)
      BY <1>7
    <3>2. PICK y \in trail : s = settled(y)
      BY <1>7
    <3>3. x.action = y.action /\ x.action \in Actions /\ (x.outcome = "queued" <=> y.outcome = "queued")
      BY <1>6, <2>3, <3>1, <3>2
    <3>4. x = y
      BY <3>3 DEF SpendInv, TwoRowsEach
    <3> QED
      BY <3>1, <3>2, <3>4
  <2> QED
    BY <1>2, <2>1, <2>2, <2>3 DEF SpendInv, TwoRowsEach
<1>10. AmountsAreOrdered'
  BY <1>2, <1>6, <1>7 DEF SpendInv, AmountsAreOrdered
<1>11. PendingOnlyQueued'
  BY <1>2, <1>6, <1>7 DEF SpendInv, PendingOnlyQueued
<1>12. AcceptedIsUnderWay'
  BY <1>3, <1>6, <1>7 DEF SpendInv, AcceptedIsUnderWay
<1>13. ReservationsKept'
  BY <1>2, <1>3, <1>6, <1>8 DEF SpendInv, ReservationsKept
<1> QED
  BY <1>9, <1>10, <1>11, <1>12, <1>13 DEF SpendInv

(* An empty trail, at the start and after a restart.                       *)
LEMMA EmptyTrailHasTwoRowsEach ==
    ASSUME NEW rq
    PROVE  TwoRowsEach({}, rq)
<1>1. IsFiniteSet(RefusedOf(rq)) /\ Anonymous({}) = {}
  BY GatewayAssumption, FS_Subset DEF RefusedOf, Anonymous
<1>2. Cardinality(RefusedOf(rq)) \in Nat /\ Cardinality({}) = 0
  BY <1>1, FS_EmptySet, FS_CardinalityType
<1> QED
  BY <1>1, <1>2 DEF TwoRowsEach

(* The usage ledger initially.                                             *)
LEMMA InitSpend == Init => SpendInv
<1> SUFFICES ASSUME Init PROVE SpendInv
  OBVIOUS
<1>1. trail = {} /\ pending = {} /\ \A a \in Actions : hand[a] = "none"
  BY DEF Init
<1>2. TwoRowsEach(trail, req)
  BY <1>1, EmptyTrailHasTwoRowsEach
<1> QED
  BY <1>1, <1>2 DEF SpendInv, AmountsAreOrdered, PendingOnlyQueued, AcceptedIsUnderWay,
                    ReservationsKept, UnderWay

(* A restart forgets the ledger and the handoffs together.                 *)
LEMMA RestartKeepsSpend ==
    ASSUME Restart
    PROVE  SpendInv'
<1>1. trail' = {} /\ pending' = {} /\ \A a \in Actions : hand'[a] \in {"none", "lost"}
  BY DEF Restart
<1>2. TwoRowsEach(trail, req)'
  <2>1. TwoRowsEach({}, req')
    BY EmptyTrailHasTwoRowsEach
  <2> QED
    BY <1>1, <2>1
<1> QED
  BY <1>1, <1>2 DEF SpendInv, AmountsAreOrdered, PendingOnlyQueued, AcceptedIsUnderWay,
                    ReservationsKept, UnderWay

(* Every step keeps it, when no refusal is interrupted and no client can   *)
(* fill its share of the trail.                                            *)
LEMMA NextSpend ==
    ASSUME 2 * Cardinality(Actions) - 1 <= AuditMax, RacingRefusals = {}
    PROVE  LedgerInv /\ LedgerInv' /\ SpendInv /\ [Next]_vars => SpendInv'
<1> SUFFICES ASSUME LedgerInv, LedgerInv', SpendInv, [Next]_vars PROVE SpendInv'
  OBVIOUS
<1>1. ASSUME \/ Tick
             \/ UNCHANGED vars
             \/ \E a \in Actions, c \in Clients, amount \in Amounts : ReadLimit(a, c, amount)
             \/ \E a \in Actions : AnswerQueued(a) \/ AnswerHandedOff(a)
             \/ \E a \in Actions, kind \in Results : HandOff(a, kind)
             \/ \E a \in Actions : SettleResolution(a) \/ AssignMap(a)
             \/ \E c \in Clients, limit \in Limits : PutGrant(c, limit)
      PROVE  SpendInv'
  <2>1. /\ UNCHANGED <<trail, pending>> /\ now' \in Nat /\ now <= now' /\ OrdersAdvance
        /\ \A b \in Actions : UnderWay(b)' => StaysReserved(b, {})
    BY <1>1, OutsideFrame
  <2> QED
    BY <2>1, FrameKeepsSpend
<1>2. CASE Tick \/ UNCHANGED vars
  BY <1>1, <1>2
<1>3. CASE \E s \in Strangers : RefuseStranger(s)
  BY <1>3, RefusalsKeepSpend
<1>4. CASE \E t \in Threads : AssignTrail(t)
  BY <1>4 DEF AssignTrail, LedgerInv
<1>5. ASSUME NEW a \in Actions, Arrive(a) PROVE SpendInv'
  BY <1>1, <1>5, RefusalsKeepSpend DEF Arrive
<1>6. ASSUME NEW a \in Actions, OrderThread(a) PROVE SpendInv'
  BY <1>1, <1>6, ReserveKeepsSpend, QueueKeepsSpend, SweepKeepsSpend, RefusalsKeepSpend
     DEF OrderThread
<1>7. ASSUME NEW a \in Actions, HandoffThread(a) PROVE SpendInv'
  BY <1>1, <1>7, SettleEventKeepsSpend DEF HandoffThread
<1>8. ASSUME NEW a \in Actions, Poll(a) PROVE SpendInv'
  BY <1>8, SweepKeepsSpend
<1>9. CASE Administer
  BY <1>1, <1>9, DeleteGrantKeepsSpend, DecisionKeepsSpend, SweepKeepsSpend DEF Administer
<1>10. CASE Restart
  BY <1>10, RestartKeepsSpend
<1> QED
  BY <1>2, <1>3, <1>4, <1>5, <1>6, <1>7, <1>8, <1>9, <1>10 DEF Next

(* What the ledger and the threads say that a client has spent.            *)
Charged(c) == {r \in trail : r.client = c /\ r.outcome = "accepted" /\ InWindow(r.at, now)}

Holding(c) ==
    {a \in Actions : /\ hand[a] \notin {"none", "lost"} /\ ~ Released(a)
                     /\ order[a].client = c /\ InWindow(order[a].at, now)}

(* What tier3_used_cents returns, as such a sum.                           *)
LEMMA UsedIsTrailSum ==
    ASSUME NEW c
    PROVE  Used(c) = TrailSum(Charged(c))
  BY DEF Used, tier3_used_cents, TrailSum, Charged

(* What the threads hold, summed up.                                       *)
LEMMA SpentIsOrderSum == \A c : Spent(c) = OrderSum(order, Holding(c))
  BY DEF Spent, OrderSum, Holding

(* The same of the next state.                                             *)
LEMMA SpentIsOrderSumNext == (\A c : Spent(c) = OrderSum(order, Holding(c)))'
  BY SpentIsOrderSum, PTL

(* A reservation is held, unreleased, exactly as long as its row says      *)
(* "accepted".                                                             *)
LEMMA HeldUntilReleased ==
    ASSUME NEW a \in Actions, UnderWay(a), hand[a] \in HandStates
    PROVE  HeldOutcome(a) = "accepted" <=> ~ Released(a)
  BY DEF HeldOutcome, UnderWay, Released, SettledOutcome, HandStates

(* Row by row the ledger is what the threads hold.                         *)
LEMMA UsedIsSpent ==
    ASSUME LedgerInv, SpendInv, NEW c \in Clients
    PROVE  Used(c) = Spent(c)
<1> DEFINE rows == Charged(c)
           holding == Holding(c)
           g == [r \in rows |-> r.amount]
           k == [a \in holding |-> order[a].amount]
           b == [r \in rows |-> r.action]
<1>1. /\ TypeOK /\ trail \in SUBSET Tier3Event /\ IsFiniteSet(trail) /\ RowsAreOwned
      /\ ReservationsLast /\ LedgerRows /\ OrderIsKnown /\ UnstartedIsFree
  BY DEF LedgerInv, TrailInv, AuthorityInv, TypeOK, LedgerRows
<1>2. /\ rows \in SUBSET Tier3Event /\ IsFiniteSet(rows)
      /\ holding \in SUBSET Actions /\ IsFiniteSet(holding)
  BY <1>1, GatewayAssumption, FS_Subset DEF Charged, Holding
<1>3. ASSUME NEW r \in trail, r.outcome = "accepted"
      PROVE  r.action \in Actions /\ UnderWay(r.action) /\ IsReservation(r, r.action)
  <2>1. r.action \in Actions /\ UnderWay(r.action)
    BY <1>3 DEF SpendInv, AcceptedIsUnderWay
  <2>2. PICK s \in trail : IsReservation(s, r.action)
    BY <1>1, <2>1 DEF ReservationsLast
  <2>3. s.action = r.action /\ s.outcome # "queued"
    BY <2>2 DEF IsReservation, HeldOutcome, SettledOutcome
  <2>4. s = r
    BY <1>3, <2>1, <2>3 DEF SpendInv, TwoRowsEach
  <2> QED
    BY <2>1, <2>2, <2>4
<1>4. \A r \in rows : /\ r \in trail /\ r.outcome = "accepted" /\ r.client = c
                      /\ InWindow(r.at, now)
  BY DEF Charged
<1>5. ASSUME NEW r \in rows
      PROVE  r.action \in holding /\ r.amount = order[r.action].amount
  <2>1. /\ r.action \in Actions /\ UnderWay(r.action) /\ r.at = order[r.action].at
        /\ HeldOutcome(r.action) = "accepted"
    BY <1>3, <1>4 DEF IsReservation
  <2>2. r.client = order[r.action].client
    BY <1>1, <1>4, <2>1 DEF RowsAreOwned, RowIsOwned
  <2>3. r.amount = order[r.action].amount
    BY <1>4, <2>1 DEF SpendInv, AmountsAreOrdered
  <2>4. ~ Released(r.action)
    BY <1>1, <2>1, HeldUntilReleased DEF TypeOK
  <2> QED
    BY <1>4, <2>1, <2>2, <2>3, <2>4 DEF Holding, UnderWay
<1>6. \A r, s \in rows : r.action = s.action => r = s
  BY <1>3, <1>4 DEF SpendInv, TwoRowsEach
<1>7. ASSUME NEW a \in holding
      PROVE  \E r \in rows : r.action = a
  <2>1. /\ a \in Actions /\ UnderWay(a) /\ ~ Released(a) /\ order[a].client = c
        /\ InWindow(order[a].at, now)
    BY DEF Holding, UnderWay
  <2>2. PICK s \in trail : IsReservation(s, a)
    BY <1>1, <2>1 DEF SpendInv, ReservationsKept, ReservationsLast
  <2>3. s.outcome = "accepted" /\ s.at = order[a].at /\ s.action = a
    BY <1>1, <2>1, <2>2, HeldUntilReleased DEF IsReservation, TypeOK
  <2>4. s.client = c
    BY <1>1, <2>1, <2>2, <2>3 DEF RowsAreOwned, RowIsOwned
  <2> QED
    BY <2>1, <2>2, <2>3, <2>4 DEF Charged
<1>8. \A a \in holding : order[a].amount \in Nat
  BY <1>1, <1>2 DEF TypeOK, Order
<1>9. PICK f : IsSum(f, g, rows) /\ TrailSum(rows) = f[rows]
  BY <1>2, TrailSumIsSum
<1>10. PICK h : IsSum(h, k, holding) /\ OrderSum(order, holding) = h[holding]
  BY <1>2, <1>8, OrderSumIsSum
<1> HIDE DEF rows, holding
<1>11. /\ b \in [rows -> holding] /\ \A x, y \in rows : b[x] = b[y] => x = y
       /\ \A x \in rows : g[x] = k[b[x]]
  BY <1>5, <1>6
<1>12. {b[x] : x \in rows} = holding
  BY <1>5, <1>7
<1> HIDE DEF b, g, k
<1>13. f[rows] = h[holding]
  <2>1. f[rows] = h[{b[x] : x \in rows}]
    BY <1>2, <1>9, <1>10, <1>11, SumOfImage
  <2> QED
    BY <1>12, <2>1
<1> QED
  BY <1>9, <1>10, <1>13, UsedIsTrailSum, SpentIsOrderSum DEF rows, holding

(* The audit trail is the usage ledger: for every window, and every cap    *)
(* that the client's own rows cannot fill, its accepted rows add up to the *)
(* reservations that no settlement released (tier3_used_cents).            *)
THEOREM LedgerIsSpend ==
    ASSUME RacingRefusals = {}, 2 * Cardinality(Actions) - 1 <= AuditMax
    PROVE  Spec => []UsageIsSpend
<1>1. Init => SpendInv
  BY InitSpend
<1>2. LedgerInv /\ LedgerInv' /\ SpendInv /\ [Next]_vars => SpendInv'
  BY NextSpend
<1>3. LedgerInv /\ SpendInv => UsageIsSpend
  BY UsedIsSpent DEF UsageIsSpend
<1> QED
  BY <1>1, <1>2, <1>3, LedgerInvariant, PTL DEF Spec

(* The one action that takes an order from the limit it read to a handoff. *)
LEMMA OnlyReserveHandsOver ==
    ASSUME TypeOK, [Next]_vars, NEW a \in Actions, req[a] = "limitRead", req'[a] = "handedOff"
    PROVE  Reserve(a)
<1>1. \A t \in Threads : \A s : req' = [req EXCEPT ![t] = s] => a = t /\ s = "handedOff"
  BY DEF TypeOK
<1>2. req' # req
  OBVIOUS
<1>3. CASE Tick \/ UNCHANGED vars
  BY <1>2, <1>3 DEF Tick, vars, threads, locals
<1>4. CASE \E s \in Strangers : RefuseStranger(s)
  BY <1>1, <1>4 DEF RefuseStranger, Threads
<1>5. CASE \E t \in Threads : AssignTrail(t)
  BY <1>2, <1>5 DEF AssignTrail
<1>6. ASSUME NEW b \in Actions, Arrive(b) PROVE FALSE
  BY <1>1, <1>6 DEF Arrive, ReadLimit, RefuseNoGrant, Threads
<1>7. ASSUME NEW b \in Actions, OrderThread(b) PROVE Reserve(a)
  <2>1. CASE Reserve(b)
    BY <1>1, <2>1 DEF Reserve, Threads
  <2>2. CASE Queue(b) \/ FindQueueFull(b) \/ RefuseQueueFull(b)
    BY <1>1, <2>2 DEF Queue, FindQueueFull, RefuseQueueFull, Threads
  <2>3. CASE AnswerQueued(b)
    <3>1. \E s \in {"answered", "error"} : req' = [req EXCEPT ![b] = s]
      BY <2>3 DEF AnswerQueued
    <3> QED
      BY <1>1, <3>1 DEF Threads
  <2>4. CASE AnswerHandedOff(b)
    BY <1>1, <2>4 DEF AnswerHandedOff, Threads
  <2> QED
    BY <1>7, <2>1, <2>2, <2>3, <2>4 DEF OrderThread
<1>8. ASSUME NEW b \in Actions, HandoffThread(b) \/ Poll(b) PROVE FALSE
  BY <1>2, <1>8 DEF HandoffThread, HandOff, SettleEvent, SettleResolution, AssignMap, Poll, locals
<1>9. CASE Administer
  BY <1>2, <1>9 DEF Administer, PutGrant, DeleteGrant, Approve, ApproveRevoked, Reject, Sweep,
                    threads, locals
<1>10. CASE Restart
  <2>1. req'[a] \in {"lost", req[a]}
    BY <1>10 DEF Restart, Threads
  <2> QED
    BY <2>1
<1> QED
  BY <1>3, <1>4, <1>5, <1>6, <1>7, <1>8, <1>9, <1>10 DEF Next

(* A reservation adds its amount to what its client has spent.             *)
LEMMA ReserveAddsAmount ==
    ASSUME LedgerInv, NEW a \in Actions, Reserve(a), NEW c, c = order[a].client
    PROVE  Spent(c)' = Spent(c) + order[a].amount
<1> DEFINE before == Holding(c)
           after == before \cup {a}
           g == [x \in before |-> order[x].amount]
           k == [x \in after |-> order'[x].amount]
<1>1. TypeOK /\ OrderIsKnown /\ UnstartedIsFree /\ now \in Nat
  BY LockedStart
<1>2. /\ req[a] = "limitRead" /\ UNCHANGED <<now, result>>
      /\ order' = [order EXCEPT ![a].limit = order[a].limit, ![a].at = now]
      /\ hand' = [hand EXCEPT ![a] = "due"]
  BY DEF Reserve, StartHandoff
<1>3. hand[a] = "none"
  BY <1>1, <1>2 DEF UnstartedIsFree, Started
<1>4. /\ \A x \in Actions : order'[x].client = order[x].client /\ order'[x].amount = order[x].amount
      /\ \A x \in Actions \ {a} : order'[x].at = order[x].at /\ hand'[x] = hand[x]
      /\ order'[a].at = now /\ hand'[a] = "due" /\ result' = result /\ now' = now
  BY <1>1, <1>2 DEF TypeOK, Order
<1>5. InWindow(now, now)
  BY <1>1, StoreAssumption DEF InWindow
<1>6. Holding(c)' = after /\ a \notin before /\ before \in SUBSET Actions
  BY <1>3, <1>4, <1>5 DEF Holding, Released
<1>7. IsFiniteSet(before) /\ IsFiniteSet(after)
  BY <1>6, GatewayAssumption, FS_Subset, FS_AddElement
<1>8. /\ \A x \in after : order'[x].amount \in Nat /\ order'[x].amount = order[x].amount
      /\ \A x \in before : order[x].amount \in Nat
  BY <1>1, <1>4, <1>6 DEF TypeOK, Order
<1> HIDE DEF before
<1>9. PICK f : IsSum(f, g, before) /\ OrderSum(order, before) = f[before]
  BY <1>7, <1>8, OrderSumIsSum
<1>10. PICK h : IsSum(h, k, after) /\ OrderSum(order', after) = h[after]
  BY <1>7, <1>8, OrderSumIsSum
<1>11. h[after] = order[a].amount + h[before]
  <2>1. after \ {a} = before
    BY <1>6
  <2>2. h[after] = k[a] + h[after \ {a}]
    BY <1>10 DEF IsSum
  <2> QED
    BY <1>8, <2>1, <2>2
<1>12. f[before] = h[before]
  <2> DEFINE b == [x \in before |-> x]
  <2>1. /\ b \in [before -> after] /\ \A x, y \in before : b[x] = b[y] => x = y
        /\ \A x \in before : g[x] = k[b[x]]
    BY <1>8
  <2>2. {b[x] : x \in before} = before
    OBVIOUS
  <2> HIDE DEF b, g, k, after
  <2>3. f[before] = h[{b[x] : x \in before}]
    BY <1>7, <1>9, <1>10, <2>1, SumOfImage
  <2> QED
    BY <2>2, <2>3
<1>13. Spent(c) = f[before]
  BY <1>9, SpentIsOrderSum DEF before
<1>14. Spent(c)' = h[after]
  <2>1. Spent(c)' = OrderSum(order', Holding(c)')
    BY SpentIsOrderSumNext
  <2> HIDE DEF after
  <2> QED
    BY <1>6, <1>10, <2>1
<1>15. f[before] \in Nat /\ order[a].amount \in Nat
  BY <1>6, <1>8, <1>9 DEF IsSum
<1> QED
  BY <1>11, <1>12, <1>13, <1>14, <1>15

(* Concurrent orders cannot jointly exceed the mandate: whenever an order  *)
(* is handed over within it, all that its client has really spent in the   *)
(* window, this order included, is within the limit the order read (the    *)
(* locked section of create_tier3_order).                                  *)
THEOREM MandateIsNotExceeded ==
    ASSUME RacingRefusals = {}, 2 * Cardinality(Actions) - 1 <= AuditMax
    PROVE  Spec => JointMandate
<1>1. Init => SpendInv
  BY InitSpend
<1>2. LedgerInv /\ LedgerInv' /\ SpendInv /\ [Next]_vars => SpendInv'
  BY NextSpend
<1>3. LedgerInv /\ SpendInv /\ [Next]_vars =>
        \A a \in Actions : (req[a] = "limitRead" /\ req'[a] = "handedOff") =>
          (Spent(order[a].client))' <= order[a].limit
  <2> SUFFICES ASSUME LedgerInv, SpendInv, [Next]_vars,
                      NEW a \in Actions, req[a] = "limitRead", req'[a] = "handedOff"
               PROVE  (Spent(order[a].client))' <= order[a].limit
    OBVIOUS
  <2>1. TypeOK /\ OrderIsKnown
    BY DEF LedgerInv, AuthorityInv
  <2>2. Reserve(a)
    BY <2>1, OnlyReserveHandsOver
  <2>3. PICK c : c = order[a].client
    OBVIOUS
  <2>4. c \in Clients /\ order'[a].client = c
    BY <2>1, <2>2, <2>3 DEF Reserve, StartHandoff, OrderIsKnown, Placed, TypeOK, Order
  <2>5. Used(c) + order[a].amount <= order[a].limit
    BY <2>2, <2>3 DEF Reserve, WithinMandate
  <2>6. Spent(c)' <= order[a].limit
    BY <2>2, <2>3, <2>4, <2>5, UsedIsSpent, ReserveAddsAmount
  <2> QED
    BY <2>4, <2>6
<1>4. [][Next]_vars /\ []LedgerInv /\ []SpendInv => JointMandate
  BY <1>3, PTL DEF JointMandate
<1> QED
  BY <1>1, <1>2, <1>4, LedgerInvariant, PTL DEF Spec
-----------------------------------------------------------------------------
(* The other half of the story: what the poll says of a settled handoff.   *)

(* A handoff that was made has a result, and its settlement told it to the *)
(* poll; no settlement is inside a rebuild of the map.                     *)
PollInv ==
    \A a \in Actions :
        /\ hand[a] # "rebuilding"
        /\ hand[a] \in {"returned", "audited", "settled"} => result[a] \in Results
        /\ hand[a] = "settled" =>
              \A r \in resolutions : r.action = a => r.status = SettledStatus(result[a])

(* A step that settles no handoff and rewrites no settled action's entry.  *)
LEMMA FrameKeepsPoll ==
    ASSUME PollInv, UNCHANGED result,
           \A a \in Actions : \/ hand'[a] = hand[a]
                              \/ hand'[a] \in {"due", "lost"}
                              \/ hand'[a] = "audited" /\ hand[a] = "returned",
           \A r \in resolutions' : r \in resolutions \/ hand'[r.action] # "settled"
    PROVE  PollInv'
  BY DEF PollInv

(* What a locked section writes concerns actions that are not settled.     *)
LEMMA CommitKeepsPoll ==
    ASSUME AuthorityInv, PollInv, NEW rows \in SUBSET Tier3Event,
           NEW writes \in SUBSET Write, NEW last \in Nat, NEW polled,
           Commit(rows, writes, last, polled), UNCHANGED result,
           \A a \in Actions : hand'[a] = hand[a] \/ hand'[a] = "due",
           \A w \in writes : hand[w.action] = "none"
    PROVE  PollInv'
<1>1. TypeOK /\ IsFiniteSet(pending) /\ PendingIsFree
  BY DEF AuthorityInv
<1>2. \A r \in resolutions' : r \in Tier3Resolution /\ WrittenRow(r, resolutions, writes)
  BY <1>1, CommitStep
<1>3. \A p \in Overdue : hand[p.action] = "none"
  BY <1>1 DEF PendingIsFree, Overdue
<1>4. \A r \in resolutions' : r \in resolutions \/ hand'[r.action] # "settled"
  <2> SUFFICES ASSUME NEW r \in resolutions', r \notin resolutions
               PROVE  hand'[r.action] # "settled"
    OBVIOUS
  <2>1. r.action \in Actions /\ hand[r.action] = "none"
    BY <1>2, <1>3 DEF WrittenRow, Tier3Resolution
  <2> QED
    BY <2>1
<1> QED
  BY <1>4, FrameKeepsPoll

(* The locked sections: prune, queue, cancel, reject, approve.             *)
LEMMA LockedKeepsPoll ==
    ASSUME LedgerInv, PollInv,
           \/ Sweep
           \/ \E a \in Actions : Poll(a) \/ FindQueueFull(a) \/ Queue(a)
           \/ \E c \in Clients : DeleteGrant(c)
           \/ \E p \in Live : Approve(p) \/ ApproveRevoked(p) \/ Reject(p)
    PROVE  PollInv'
<1>1. /\ AuthorityInv /\ TypeOK /\ IsFiniteSet(pending) /\ PendingIsFree /\ UnstartedIsFree
      /\ OrderIsKnown /\ now \in Nat /\ AfterSweep \in Nat /\ AfterSweep + 1 \in Nat
      /\ Live \in SUBSET Tier3PendingAction
  BY SweepType, GatewayAssumption DEF LedgerInv, AuthorityInv, TypeOK
<1>2. \A p \in Live : hand[p.action] = "none"
  BY <1>1 DEF PendingIsFree, Live
<1>3. \A p \in Live : p.client \in Clients /\ p.amount \in Nat /\ p.action \in Actions
  BY <1>1, GatewayAssumption DEF Tier3PendingAction
<1>4. ASSUME Sweep \/ \E a \in Actions : Poll(a) \/ FindQueueFull(a)
      PROVE  PollInv'
  <2>1. PICK polled : Commit({}, {}, AfterSweep, polled)
    BY <1>4 DEF Sweep, Poll, FindQueueFull
  <2>2. UNCHANGED <<hand, result>>
    BY <1>4 DEF Sweep, Poll, FindQueueFull, locals
  <2>3. {} \in SUBSET Tier3Event /\ {} \in SUBSET Write
    OBVIOUS
  <2> QED
    BY <1>1, <2>1, <2>2, <2>3, CommitKeepsPoll
<1>5. ASSUME NEW a \in Actions, Queue(a)
      PROVE  PollInv'
  <2> DEFINE row == Event(AfterSweep + 1, order[a].client, order[a].amount, "queued", a)
             write == [action |-> a, client |-> order[a].client, status |-> "queued",
                       seq |-> AfterSweep + 1]
  <2>1. /\ Commit({row}, {write}, AfterSweep + 1, {}) /\ UNCHANGED <<hand, result>>
        /\ req[a] = "limitRead"
    BY <1>5 DEF Queue
  <2>2. order[a].client \in Clients /\ order[a].amount \in Nat /\ hand[a] = "none"
    BY <1>1, <2>1, GatewayAssumption DEF OrderIsKnown, Placed, UnstartedIsFree, Started
  <2>3. {row} \in SUBSET Tier3Event /\ {write} \in SUBSET Write /\ write.action = a
    BY <1>1, <2>2 DEF Event, Tier3Event, Outcomes, Write, Statuses
  <2> HIDE DEF row, write
  <2> QED
    BY <1>1, <2>1, <2>2, <2>3, CommitKeepsPoll
<1>6. ASSUME NEW c \in Clients, DeleteGrant(c)
      PROVE  PollInv'
  <2> DEFINE purged == {p \in Live : p.client = c}
             rows == ClosingRows(purged, AfterSweep, "rejected")
             writes == ClosingWrites(purged, AfterSweep, "rejected")
             last == AfterSweep + Cardinality(purged)
  <2>1. Commit(rows, writes, last, {}) /\ UNCHANGED <<hand, result>>
    BY <1>6 DEF DeleteGrant, locals
  <2>2. purged \in SUBSET pending /\ purged \subseteq Live
    BY DEF Live
  <2>3. last \in Nat
    BY <1>1, <2>2, SweepType
  <2>4. /\ rows \in SUBSET Tier3Event /\ writes \in SUBSET Write
        /\ \A w \in writes : \E p \in purged : w.action = p.action
    BY <1>1, <2>2, ClosingType
  <2> HIDE DEF purged, rows, writes, last
  <2>5. \A w \in writes : hand[w.action] = "none"
    BY <1>2, <2>2, <2>4
  <2> QED
    BY <1>1, <2>1, <2>3, <2>4, <2>5, CommitKeepsPoll
<1>7. ASSUME NEW p \in Live, ApproveRevoked(p) \/ Reject(p)
      PROVE  PollInv'
  <2> DEFINE row == Event(AfterSweep + 1, p.client, p.amount, "rejected", p.action)
             write == [action |-> p.action, client |-> p.client, status |-> "rejected",
                       seq |-> AfterSweep + 1]
  <2>1. Commit({row}, {write}, AfterSweep + 1, {}) /\ UNCHANGED <<hand, result>>
    BY <1>7 DEF ApproveRevoked, Reject, locals
  <2>2. {row} \in SUBSET Tier3Event /\ {write} \in SUBSET Write /\ write.action = p.action
    BY <1>1, <1>3 DEF Event, Tier3Event, Outcomes, Write, Statuses
  <2> HIDE DEF row, write
  <2> QED
    BY <1>1, <1>2, <2>1, <2>2, CommitKeepsPoll
<1>8. ASSUME NEW p \in Live, Approve(p)
      PROVE  PollInv'
  <2> DEFINE row == Event(AfterSweep + 1, p.client, p.amount, "accepted", p.action)
  <2>1. /\ Commit({row}, {}, AfterSweep + 1, {}) /\ UNCHANGED result
        /\ hand' = [hand EXCEPT ![p.action] = "due"]
    BY <1>8 DEF Approve, StartHandoff
  <2>2. {row} \in SUBSET Tier3Event /\ {} \in SUBSET Write
    BY <1>1, <1>3 DEF Event, Tier3Event, Outcomes
  <2>3. \A a \in Actions : hand'[a] = hand[a] \/ hand'[a] = "due"
    BY <1>1, <2>1 DEF TypeOK
  <2> HIDE DEF row
  <2> QED
    BY <1>1, <2>1, <2>2, <2>3, CommitKeepsPoll
<1> QED
  BY <1>4, <1>5, <1>6, <1>7, <1>8

(* The settlement of the poll's entry, in place or as an insertion.        *)
LEMMA SettleResolutionKeepsPoll ==
    ASSUME RacingSettlements = {}, LedgerInv, PollInv, NEW a \in Actions, SettleResolution(a)
    PROVE  PollInv'
<1> DEFINE write == [action |-> a, client |-> order[a].client,
                     status |-> SettledStatus(result[a]), seq |-> serial + 1]
<1>1. /\ TypeOK /\ OrderIsKnown /\ UnstartedIsFree /\ serial \in Nat /\ now \in Nat
      /\ resolutions \in SUBSET Tier3Resolution
  BY GatewayAssumption DEF LedgerInv, AuthorityInv, TypeOK
<1>2. /\ hand[a] = "audited" /\ hand' = [hand EXCEPT ![a] = "settled"]
      /\ resolutions' = set_tier3_resolution(resolutions, {write}, now)
      /\ UNCHANGED result
  BY DEF SettleResolution
<1>3. order[a].client \in Clients
  BY <1>1, <1>2 DEF OrderIsKnown, UnstartedIsFree, Placed
<1>4. write \in Write /\ write.action = a /\ write.status = SettledStatus(result[a])
  BY <1>1, <1>3 DEF Write, Statuses, SettledStatus
<1> HIDE DEF write
<1>5. \A r \in resolutions' : \/ r \in resolutions /\ r.action # a
                              \/ r.action = a /\ r.status = SettledStatus(result[a])
  <2>1. {write} \in SUBSET Write
    BY <1>4
  <2>2. \A r \in resolutions' :
           \/ r \in resolutions /\ \A w \in {write} : w.action # r.action
           \/ \E w \in {write} : w.action = r.action /\ w.status = r.status
    BY <1>1, <1>2, <2>1, ResolutionRows
  <2> QED
    BY <1>4, <2>2
<1>6. hand'[a] = "settled" /\ \A b \in Actions \ {a} : hand'[b] = hand[b]
  BY <1>1, <1>2 DEF TypeOK
<1> QED
  BY <1>2, <1>5, <1>6 DEF PollInv

(* Every step keeps it, when no settlement is interrupted.                 *)
LEMMA NextPoll ==
    ASSUME RacingSettlements = {}
    PROVE  LedgerInv /\ PollInv /\ [Next]_vars => PollInv'
<1> SUFFICES ASSUME LedgerInv, PollInv, [Next]_vars PROVE PollInv'
  OBVIOUS
<1>1. /\ hand \in [Actions -> HandStates] /\ result \in [Actions -> Results \cup {"none"}]
      /\ UnstartedIsFree
  BY DEF LedgerInv, AuthorityInv, TypeOK
<1>2. ASSUME UNCHANGED <<hand, result, resolutions>>
      PROVE  PollInv'
  BY <1>2, FrameKeepsPoll
<1>3. CASE Tick \/ UNCHANGED vars
  BY <1>2, <1>3 DEF Tick, vars, store, threads, locals
<1>4. CASE \E s \in Strangers : RefuseStranger(s)
  BY <1>2, <1>4 DEF RefuseStranger
<1>5. CASE \E t \in Threads : AssignTrail(t)
  BY <1>2, <1>5 DEF AssignTrail
<1>6. ASSUME NEW a \in Actions, Arrive(a) PROVE PollInv'
  BY <1>2, <1>6 DEF Arrive, ReadLimit, RefuseNoGrant, store
<1>7. ASSUME NEW a \in Actions, OrderThread(a) PROVE PollInv'
  <2>1. CASE Reserve(a)
    <3>1. hand' = [hand EXCEPT ![a] = "due"] /\ UNCHANGED <<result, resolutions>>
      BY <2>1 DEF Reserve, StartHandoff
    <3>2. \A b \in Actions : hand'[b] = hand[b] \/ hand'[b] \in {"due", "lost"}
      BY <1>1, <3>1
    <3> QED
      BY <3>1, <3>2, FrameKeepsPoll
  <2>2. CASE Queue(a) \/ FindQueueFull(a)
    BY <2>2, LockedKeepsPoll
  <2>3. CASE RefuseQueueFull(a) \/ AnswerQueued(a) \/ AnswerHandedOff(a)
    BY <1>2, <2>3 DEF RefuseQueueFull, AnswerQueued, AnswerHandedOff, store
  <2> QED
    BY <1>7, <2>1, <2>2, <2>3 DEF OrderThread
<1>8. ASSUME NEW a \in Actions, NEW kind \in Results, HandOff(a, kind) PROVE PollInv'
  <2>1. /\ hand'[a] = "returned" /\ result'[a] = kind /\ resolutions' = resolutions
        /\ \A b \in Actions \ {a} : hand'[b] = hand[b] /\ result'[b] = result[b]
    BY <1>1, <1>8 DEF HandOff, store
  <2> QED
    BY <2>1 DEF PollInv
<1>9. ASSUME NEW a \in Actions, SettleEvent(a) PROVE PollInv'
  <2>1. /\ hand[a] = "returned" /\ hand' = [hand EXCEPT ![a] = "audited"]
        /\ UNCHANGED <<result, resolutions>>
    BY <1>9 DEF SettleEvent
  <2>2. \A b \in Actions : \/ hand'[b] = hand[b]
                           \/ hand'[b] = "audited" /\ hand[b] = "returned"
    BY <1>1, <2>1
  <2> QED
    BY <2>1, <2>2, FrameKeepsPoll
<1>10. ASSUME NEW a \in Actions, AssignMap(a) PROVE PollInv'
  BY <1>10 DEF AssignMap, PollInv
<1>11. ASSUME NEW a \in Actions, HandoffThread(a) PROVE PollInv'
  BY <1>8, <1>9, <1>10, <1>11, SettleResolutionKeepsPoll DEF HandoffThread
<1>12. ASSUME NEW a \in Actions, Poll(a) PROVE PollInv'
  BY <1>12, LockedKeepsPoll
<1>13. CASE Administer
  <2>1. ASSUME NEW c \in Clients, NEW limit \in Limits, PutGrant(c, limit) PROVE PollInv'
    BY <1>2, <2>1 DEF PutGrant, threads, locals
  <2> QED
    BY <1>13, <2>1, LockedKeepsPoll DEF Administer
<1>14. CASE Restart
  <2>1. /\ resolutions' = {} /\ result' = result
        /\ \A a \in Actions : hand'[a] = hand[a] \/ hand'[a] = "lost"
    BY <1>14 DEF Restart
  <2> QED
    BY <2>1, FrameKeepsPoll
<1> QED
  BY <1>3, <1>4, <1>5, <1>6, <1>7, <1>11, <1>12, <1>13, <1>14 DEF Next

(* Once a handoff is settled the budget is consumed exactly when the       *)
(* caller is told that the action was, or may have been, executed          *)
(* (_settle_handoff), for every cap and TTL.                               *)
THEOREM TrailAndPollAgree ==
    ASSUME RacingRefusals = {}, RacingSettlements = {}
    PROVE  Spec => []PollAgreesWithAudit
<1>1. Init => PollInv
  BY DEF Init, PollInv
<1>2. LedgerInv /\ PollInv /\ [Next]_vars => PollInv'
  BY NextPoll
<1>3. LedgerInv /\ PollInv => PollAgreesWithAudit
  <2> SUFFICES ASSUME LedgerInv, PollInv, NEW a \in Actions, hand[a] = "settled",
                      NEW r \in resolutions, NEW e \in SettleTarget(trail, a), r.action = a
               PROVE  e.outcome = "accepted" <=> r.status \in {"executed", "execution_unknown"}
    BY DEF PollAgreesWithAudit
  <2>1. e.outcome = SettledOutcome(result[a])
    BY TargetIsReservation DEF HeldOutcome, UnderWay, IsReservation
  <2>2. r.status = SettledStatus(result[a]) /\ result[a] \in Results
    BY DEF PollInv
  <2> QED
    BY <2>1, <2>2 DEF SettledOutcome, SettledStatus, Results
<1> QED
  BY <1>1, <1>2, <1>3, LedgerInvariant, PTL DEF Spec
-----------------------------------------------------------------------------
(* The resolution map: what the poll said last it says for good, when no   *)
(* settlement is interrupted; and what awaits a human can be polled,       *)
(* whatever settlements rebuild the map.                                   *)

SettledStatuses == {"executed", "failed", "execution_unknown"}

(* One entry for an action, and a settled status only of a settled handoff.*)
EntryInv ==
    /\ \A a \in Actions : hand[a] # "rebuilding"
    /\ \A r, s \in resolutions : r.action = s.action => r = s
    /\ \A r \in resolutions : r.status \in SettledStatuses => hand[r.action] = "settled"

OneEach(rows) == \A r, s \in rows : r.action = s.action => r = s

OneWriteEach(writes) == writes \in SUBSET Write /\ OneEach(writes)

(* What a step writes over says "queued".                                  *)
OverQueued(writes) ==
    \A w \in writes, r \in resolutions : r.action = w.action => r.status = "queued"

HandsKept ==
    \A a \in Actions : /\ hand'[a] = "rebuilding" => hand[a] = "rebuilding"
                       /\ hand[a] = "settled" => hand'[a] = "settled"

(* What is left in the queue was there and is not written about, or is new *)
(* in the queue and in the map.                                            *)
QueueFollows(writes) ==
    \A p \in pending' : now' <= p.expires =>
        \/ p \in Live /\ \A w \in writes : w.action # p.action
        \/ /\ p.expires = now + PendingTTL /\ ~ Known(resolutions, p.action)
           /\ p.crossed = MapIsBeingRebuilt
           /\ \E w \in writes : w.action = p.action /\ w.status = "queued"

(* A step that writes to the map at once, and to the entries that the maps *)
(* about to be assigned share with it.                                     *)
EntryStep(writes, polled) ==
    /\ OneWriteEach(writes)
    /\ resolutions' = {r \in set_tier3_resolution(resolutions, writes, now) :
                          r.action \in polled => now - r.updated <= ResolutionTTL}
    /\ \E shared \in SUBSET writes :
          keptMap' = [b \in Actions |-> Overwrite(keptMap[b], shared, now)]
    /\ \A w \in writes : w.status \in SettledStatuses => hand'[w.action] = "settled"
    /\ HandsKept
    /\ QueueFollows(writes)

MapEmptied ==
    /\ resolutions' = {} /\ pending' = {} /\ keptMap' = [b \in Actions |-> {}]
    /\ \A a \in Actions : hand'[a] # "rebuilding"

MapStep == MapEmptied \/ \E writes, polled : EntryStep(writes, polled) /\ OverQueued(writes)

(* The map after set_tier3_resolution has one entry for an action.         *)
LEMMA OneEntryEach ==
    ASSUME NEW rows \in SUBSET Tier3Resolution, \A r, s \in rows : r.action = s.action => r = s,
           NEW writes \in SUBSET Write, \A v, w \in writes : v.action = w.action => v = w,
           NEW t \in Nat
    PROVE  /\ \A r, s \in Overwrite(rows, writes, t) \cup Created(rows, writes, t) :
                 r.action = s.action => r = s
           /\ set_tier3_resolution(rows, writes, t)
                 \subseteq Overwrite(rows, writes, t) \cup Created(rows, writes, t)
<1> DEFINE over(r) == IF \E w \in writes : w.action = r.action
                        THEN [r EXCEPT !.status = (CHOOSE w \in writes : w.action = r.action).status,
                                       !.updated = t]
                        ELSE r
           new(w) == [action |-> w.action, client |-> w.client, status |-> w.status,
                      updated |-> t, seq |-> w.seq]
<1>1. \A r \in rows : over(r).action = r.action
  BY DEF Tier3Resolution
<1>2. \A r \in Overwrite(rows, writes, t) : \E r0 \in rows : r = over(r0)
  BY DEF Overwrite
<1>3. \A w \in writes : new(w).action = w.action
  OBVIOUS
<1>4. \A r \in Created(rows, writes, t) : \E w \in writes : r = new(w) /\ ~ Known(rows, w.action)
  BY DEF Created
<1> HIDE DEF over, new
<1>5. ASSUME NEW r \in Overwrite(rows, writes, t), NEW s \in Overwrite(rows, writes, t),
             r.action = s.action
      PROVE  r = s
  <2>1. PICK r0 \in rows : r = over(r0)
    BY <1>2
  <2>2. PICK s0 \in rows : s = over(s0)
    BY <1>2
  <2>3. r0 = s0
    BY <1>1, <1>5, <2>1, <2>2
  <2> QED
    BY <2>1, <2>2, <2>3
<1>6. ASSUME NEW r \in Created(rows, writes, t), NEW s \in Created(rows, writes, t),
             r.action = s.action
      PROVE  r = s
  <2>1. PICK v \in writes : r = new(v)
    BY <1>4
  <2>2. PICK w \in writes : s = new(w)
    BY <1>4
  <2>3. v = w
    BY <1>3, <1>6, <2>1, <2>2
  <2> QED
    BY <2>1, <2>2, <2>3
<1>7. ASSUME NEW r \in Overwrite(rows, writes, t), NEW s \in Created(rows, writes, t)
      PROVE  r.action # s.action
  <2>1. PICK r0 \in rows : r = over(r0)
    BY <1>2
  <2>2. PICK w \in writes : s = new(w) /\ ~ Known(rows, w.action)
    BY <1>4
  <2>3. w.action # r0.action
    BY <2>2 DEF Known
  <2> QED
    BY <1>1, <1>3, <2>1, <2>2, <2>3
<1>8. set_tier3_resolution(rows, writes, t)
        \subseteq Overwrite(rows, writes, t) \cup Created(rows, writes, t)
  BY NewestSubset DEF set_tier3_resolution, Unexpired
<1> QED
  BY <1>5, <1>6, <1>7, <1>8

(* Nothing written, nothing changed.                                       *)
LEMMA NoWrites ==
    ASSUME NEW rows, NEW t
    PROVE  set_tier3_resolution(rows, {}, t) = rows
<1>1. Created(rows, {}, t) = {}
  BY DEF Created
<1>2. Overwrite(rows, {}, t) = rows
  BY DEF Overwrite
<1> QED
  BY <1>1, <1>2 DEF set_tier3_resolution

(* What an entry says after a step it said before, or it said "queued".    *)
LEMMA EntryRows ==
    ASSUME AuthorityInv, NEW writes, NEW polled, EntryStep(writes, polled), NEW s \in resolutions'
    PROVE  /\ s \in Tier3Resolution
           /\ \/ s \in resolutions
              \/ \E w \in writes : w.action = s.action /\ w.status = s.status
<1>1. resolutions \in SUBSET Tier3Resolution /\ now \in Nat /\ writes \in SUBSET Write
  BY GatewayAssumption DEF AuthorityInv, TypeOK, EntryStep, OneWriteEach
<1>2. s \in set_tier3_resolution(resolutions, writes, now)
  BY DEF EntryStep
<1> QED
  BY <1>1, <1>2, ResolutionRows

(* Every step that only writes over "queued" keeps the entries unique and  *)
(* final.                                                                  *)
LEMMA MapStepKeepsEntries ==
    ASSUME AuthorityInv, EntryInv, MapStep
    PROVE  /\ EntryInv'
           /\ \A r \in resolutions : \A s \in resolutions' :
                 (r.action = s.action /\ r.status # "queued") => s.status = r.status
<1>1. CASE MapEmptied
  BY <1>1 DEF MapEmptied, EntryInv
<1>2. CASE ~ MapEmptied
  <2>1. PICK writes : \E polled : EntryStep(writes, polled) /\ OverQueued(writes)
    BY <1>2 DEF MapStep
  <2>2. PICK polled : EntryStep(writes, polled) /\ OverQueued(writes)
    BY <2>1
  <2>3. OneWriteEach(writes) /\ HandsKept
    BY <2>2 DEF EntryStep
  <2>4. \A s \in resolutions' :
           /\ s.action \in Actions
           /\ \/ s \in resolutions
              \/ \E w \in writes : w.action = s.action /\ w.status = s.status
    BY <2>2, EntryRows DEF Tier3Resolution
  <2>5. \A r, s \in resolutions' : r.action = s.action => r = s
    <3>1. resolutions' \subseteq set_tier3_resolution(resolutions, writes, now)
      BY <2>2 DEF EntryStep
    <3>2. /\ resolutions \in SUBSET Tier3Resolution /\ now \in Nat
          /\ writes \in SUBSET Write /\ \A v, w \in writes : v.action = w.action => v = w
      BY <2>3, GatewayAssumption DEF AuthorityInv, TypeOK, OneWriteEach, OneEach
    <3>3. \A r, s \in resolutions : r.action = s.action => r = s
      BY DEF EntryInv
    <3>4. /\ \A r, s \in Overwrite(resolutions, writes, now) \cup Created(resolutions, writes, now) :
                r.action = s.action => r = s
          /\ resolutions' \subseteq Overwrite(resolutions, writes, now) \cup Created(resolutions, writes, now)
      BY <3>1, <3>2, <3>3, OneEntryEach
    <3> QED
      BY <3>4
  <2>6. \A s \in resolutions' : s.status \in SettledStatuses => hand'[s.action] = "settled"
    <3> SUFFICES ASSUME NEW s \in resolutions', s.status \in SettledStatuses
                 PROVE  hand'[s.action] = "settled"
      OBVIOUS
    <3>1. CASE s \in resolutions
      BY <2>3, <2>4, <3>1 DEF EntryInv, HandsKept
    <3>2. CASE \E w \in writes : w.action = s.action /\ w.status = s.status
      BY <2>2, <3>2 DEF EntryStep
    <3> QED
      BY <2>4, <3>1, <3>2
  <2>7. EntryInv'
    BY <2>3, <2>5, <2>6 DEF EntryInv, HandsKept
  <2>8. ASSUME NEW r \in resolutions, NEW s \in resolutions', r.action = s.action, r.status # "queued"
        PROVE  s.status = r.status
    <3>1. s \in resolutions
      BY <2>2, <2>4, <2>8 DEF OverQueued
    <3> QED
      BY <2>8, <3>1 DEF EntryInv
  <2> QED
    BY <2>7, <2>8
<1> QED
  BY <1>1, <1>2
-----------------------------------------------------------------------------
(* What each step writes. *)

(* A step that leaves the map and the handoffs' settlements alone.         *)
LEMMA QuietStep ==
    ASSUME TypeOK, UNCHANGED <<resolutions, keptMap, pending>>, now <= now',
           now \in Nat, now' \in Nat, HandsKept
    PROVE  MapStep
<1>1. OneWriteEach({}) /\ OverQueued({})
  BY DEF OneWriteEach, OneEach, OverQueued
<1>2. resolutions' = {r \in set_tier3_resolution(resolutions, {}, now) :
                        r.action \in {} => now - r.updated <= ResolutionTTL}
  BY NoWrites
<1>3. QueueFollows({})
  <2>1. \A p \in pending : p.expires \in Nat
    BY DEF TypeOK, Tier3PendingAction
  <2>2. \A p \in pending : now' <= p.expires => p \in Live
    BY <2>1 DEF Live, Overdue
  <2> QED
    BY <2>2 DEF QueueFollows
<1>4. keptMap' = [b \in Actions |-> Overwrite(keptMap[b], {}, now)]
  <2>1. \A rows : Overwrite(rows, {}, now) = rows
    BY DEF Overwrite
  <2> QED
    BY <2>1 DEF TypeOK
<1>5. EntryStep({}, {})
  BY <1>1, <1>2, <1>3, <1>4 DEF EntryStep
<1> QED
  BY <1>1, <1>5 DEF MapStep

(* The entries of what is in the queue say "queued".                       *)
LEMMA ClosingOverQueued ==
    ASSUME AuthorityInv, NEW S \in SUBSET pending, NEW from \in Nat,
           NEW o \in {"rejected", "expired"}
    PROVE  /\ OneWriteEach(ClosingWrites(S, from, o)) /\ OverQueued(ClosingWrites(S, from, o))
           /\ \A w \in ClosingWrites(S, from, o) :
                 w.status = o /\ \E p \in S : w.action = p.action
<1> DEFINE writes == ClosingWrites(S, from, o)
           write(p) == [action |-> p.action, client |-> p.client, status |-> o,
                        seq |-> from + Rank(p, S)]
<1>1. TypeOK /\ IsFiniteSet(pending) /\ PendingIsFree /\ RowsAreTrue
  BY DEF AuthorityInv
<1>2. /\ writes \in SUBSET Write
      /\ \A w \in writes : w.status = o /\ \E p \in S : w.action = p.action
  BY <1>1, ClosingType
<1>3. \A w \in writes : \E p \in S : w = write(p)
  BY DEF ClosingWrites
<1>4. \A p \in S : write(p).action = p.action
  OBVIOUS
<1> HIDE DEF writes, write
<1>5. \A v, w \in writes : v.action = w.action => v = w
  BY <1>1, <1>3, <1>4 DEF PendingIsFree
<1>6. \A w \in writes, r \in resolutions : r.action = w.action => r.status = "queued"
  BY <1>1, <1>2 DEF RowsAreTrue, RowIsTrue
<1> QED
  BY <1>2, <1>5, <1>6 DEF OneWriteEach, OneEach, OverQueued, writes

(* A locked section: prune_tier3_pending's writes, then the handler's.     *)
LEMMA CommitMapStep ==
    ASSUME AuthorityInv, NEW rows, NEW writes, NEW last, NEW polled,
           Commit(rows, writes, last, polled), UNCHANGED now, HandsKept,
           OneWriteEach(writes), OverQueued(writes),
           \A w \in writes : /\ w.status \notin SettledStatuses
                             /\ \A p \in Overdue : w.action # p.action,
           \A p \in pending' :
              \/ p \in Live /\ \A w \in writes : w.action # p.action
              \/ /\ p.expires = now + PendingTTL /\ ~ Known(resolutions, p.action)
                 /\ p.crossed = MapIsBeingRebuilt
                 /\ \E w \in writes : w.action = p.action /\ w.status = "queued"
    PROVE  MapStep
<1> DEFINE closing == ClosingWrites(Overdue, serial, "expired")
           all == closing \cup writes
           inPlace == {w \in all : Known(resolutions, w.action)}
<1>1. /\ Overdue \in SUBSET pending /\ Live \cap Overdue = {} /\ Live \subseteq pending
      /\ serial \in Nat /\ PendingIsFree
  BY DEF Overdue, Live, AuthorityInv, TypeOK
<1>2. /\ OneWriteEach(closing) /\ OverQueued(closing)
      /\ \A w \in closing : w.status = "expired" /\ \E p \in Overdue : w.action = p.action
  BY <1>1, ClosingOverQueued
<1>3. /\ resolutions' = {r \in set_tier3_resolution(resolutions, all, now) :
                           r.action \in polled => now - r.updated <= ResolutionTTL}
      /\ keptMap' = [b \in Actions |-> Overwrite(keptMap[b], inPlace, now)]
  BY DEF Commit
<1> HIDE DEF closing
<1>4. OneWriteEach(all) /\ OverQueued(all)
  <2>1. \A v \in closing, w \in writes : v.action # w.action
    BY <1>2
  <2> QED
    BY <1>2, <2>1 DEF OneWriteEach, OneEach, OverQueued
<1>5. \A w \in all : w.status \notin SettledStatuses
  BY <1>2 DEF SettledStatuses
<1>6. QueueFollows(all)
  <2>1. \A p \in Live, w \in closing : w.action # p.action
    BY <1>1, <1>2 DEF PendingIsFree
  <2> QED
    BY <2>1 DEF QueueFollows
<1>7. inPlace \in SUBSET all
  OBVIOUS
<1> HIDE DEF all, inPlace
<1>8. EntryStep(all, polled)
  BY <1>3, <1>4, <1>5, <1>6, <1>7 DEF EntryStep
<1> QED
  BY <1>4, <1>8 DEF MapStep

(* prune_tier3_pending alone, and the handlers that close or approve queue *)
(* entries.                                                                *)
LEMMA DecidingMapStep ==
    ASSUME AuthorityInv,
           \/ Sweep
           \/ \E a \in Actions : Poll(a) \/ FindQueueFull(a)
           \/ \E c \in Clients : DeleteGrant(c)
           \/ \E p \in Live : Approve(p) \/ ApproveRevoked(p) \/ Reject(p)
    PROVE  MapStep
<1>1. /\ TypeOK /\ IsFiniteSet(pending) /\ PendingIsFree /\ RowsAreTrue /\ AfterSweep \in Nat
      /\ Live \in SUBSET pending /\ Live \cap Overdue = {} /\ Overdue \in SUBSET pending
  BY SweepType DEF AuthorityInv, Live, Overdue
<1>2. OneWriteEach({}) /\ OverQueued({})
  BY DEF OneWriteEach, OneEach, OverQueued
<1>3. UNCHANGED hand => HandsKept
  BY DEF HandsKept
<1>4. ASSUME Sweep \/ \E a \in Actions : Poll(a) \/ FindQueueFull(a)
      PROVE  MapStep
  <2>1. PICK polled : Commit({}, {}, AfterSweep, polled)
    BY <1>4 DEF Sweep, Poll, FindQueueFull
  <2>2. UNCHANGED <<hand, now>> /\ pending' = Live
    BY <1>4 DEF Sweep, Poll, FindQueueFull, locals
  <2> QED
    BY <1>2, <1>3, <2>1, <2>2, CommitMapStep
<1>5. ASSUME NEW c \in Clients, DeleteGrant(c)
      PROVE  MapStep
  <2> DEFINE purged == {p \in Live : p.client = c}
             rows == ClosingRows(purged, AfterSweep, "rejected")
             writes == ClosingWrites(purged, AfterSweep, "rejected")
             last == AfterSweep + Cardinality(purged)
  <2>1. Commit(rows, writes, last, {}) /\ UNCHANGED <<hand, now>> /\ pending' = Live \ purged
    BY <1>5 DEF DeleteGrant, locals
  <2>2. purged \in SUBSET pending /\ purged \subseteq Live
    BY <1>1
  <2>3. /\ OneWriteEach(writes) /\ OverQueued(writes)
        /\ \A w \in writes : w.status = "rejected" /\ \E p \in purged : w.action = p.action
    BY <1>1, <2>2, ClosingOverQueued
  <2> HIDE DEF purged, rows, writes, last
  <2>4. \A w \in writes : /\ w.status \notin SettledStatuses
                           /\ \A p \in Overdue : w.action # p.action
    BY <1>1, <2>2, <2>3 DEF SettledStatuses, PendingIsFree
  <2>5. \A p \in pending' : p \in Live /\ \A w \in writes : w.action # p.action
    BY <1>1, <2>1, <2>2, <2>3 DEF PendingIsFree
  <2> QED
    BY <1>3, <2>1, <2>3, <2>4, <2>5, CommitMapStep
<1>6. ASSUME NEW p \in Live, ApproveRevoked(p) \/ Reject(p)
      PROVE  MapStep
  <2> DEFINE row == Event(AfterSweep + 1, p.client, p.amount, "rejected", p.action)
             write == [action |-> p.action, client |-> p.client, status |-> "rejected",
                       seq |-> AfterSweep + 1]
  <2>1. /\ Commit({row}, {write}, AfterSweep + 1, {}) /\ UNCHANGED <<hand, now>>
        /\ pending' = Live \ {p}
    BY <1>6 DEF ApproveRevoked, Reject, locals
  <2>2. p \in pending /\ p.client \in Clients /\ p.action \in Actions
    BY <1>1 DEF TypeOK, Tier3PendingAction
  <2>3. write \in Write /\ write.action = p.action /\ write.status = "rejected"
    BY <1>1, <2>2 DEF Write, Statuses
  <2> HIDE DEF row, write
  <2>4. OneWriteEach({write}) /\ OverQueued({write})
    BY <1>1, <2>2, <2>3 DEF OneWriteEach, OneEach, OverQueued, RowsAreTrue, RowIsTrue
  <2>5. \A q \in pending : q.action = p.action => q = p
    BY <1>1, <2>2 DEF PendingIsFree
  <2>6. \A q \in pending' : q \in Live /\ write.action # q.action
    BY <1>1, <2>1, <2>3, <2>5
  <2>7. write.status \notin SettledStatuses /\ \A q \in Overdue : write.action # q.action
    BY <1>1, <2>3, <2>5 DEF SettledStatuses
  <2> QED
    BY <1>3, <2>1, <2>4, <2>6, <2>7, CommitMapStep
<1>7. ASSUME NEW p \in Live, Approve(p)
      PROVE  MapStep
  <2>1. PICK rows : Commit(rows, {}, AfterSweep + 1, {})
    BY <1>7 DEF Approve
  <2>2. UNCHANGED now /\ pending' = Live \ {p} /\ hand' = [hand EXCEPT ![p.action] = "due"]
    BY <1>7 DEF Approve, StartHandoff
  <2>3. hand[p.action] = "none"
    BY <1>1 DEF PendingIsFree
  <2>4. HandsKept
    BY <1>1, <2>2, <2>3 DEF HandsKept, TypeOK
  <2> QED
    BY <1>2, <2>1, <2>2, <2>4, CommitMapStep
<1> QED
  BY <1>4, <1>5, <1>6, <1>7

(* An order over the mandate: its entry is the first of its action.        *)
LEMMA QueueMapStep ==
    ASSUME AuthorityInv, NEW a \in Actions, Queue(a)
    PROVE  MapStep
<1> DEFINE row == Event(AfterSweep + 1, order[a].client, order[a].amount, "queued", a)
           write == [action |-> a, client |-> order[a].client, status |-> "queued",
                     seq |-> AfterSweep + 1]
           entry == [seq |-> AfterSweep + 1, action |-> a, client |-> order[a].client,
                     amount |-> order[a].amount, expires |-> now + PendingTTL,
                     crossed |-> MapIsBeingRebuilt]
<1>1. /\ TypeOK /\ IsFiniteSet(pending) /\ PendingIsFree /\ RowsAreTrue /\ OrderIsKnown
      /\ AfterSweep \in Nat
      /\ Live \in SUBSET pending /\ Overdue \in SUBSET pending
  BY SweepType DEF AuthorityInv, Live, Overdue
<1>2. /\ Commit({row}, {write}, AfterSweep + 1, {}) /\ UNCHANGED <<hand, now>>
      /\ pending' = Live \cup {entry} /\ req[a] = "limitRead"
  BY DEF Queue
<1>3. order[a].client \in Clients
  BY <1>1, <1>2 DEF OrderIsKnown, Placed
<1>4. write \in Write /\ write.action = a /\ write.status = "queued"
  BY <1>1, <1>3 DEF Write, Statuses
<1>5. entry.action = a /\ entry.expires = now + PendingTTL /\ entry.crossed = MapIsBeingRebuilt
  OBVIOUS
<1> HIDE DEF row, write, entry
<1>6. /\ \A r \in resolutions : r.action # a
      /\ \A p \in pending : p.action # a
  BY <1>1, <1>2 DEF RowsAreTrue, RowIsTrue, PendingIsFree, Started
<1>7. OneWriteEach({write}) /\ OverQueued({write})
  BY <1>4, <1>6 DEF OneWriteEach, OneEach, OverQueued
<1>8. \A p \in pending' :
         \/ p \in Live /\ write.action # p.action
         \/ /\ p.expires = now + PendingTTL /\ ~ Known(resolutions, p.action)
            /\ p.crossed = MapIsBeingRebuilt
            /\ write.action = p.action /\ write.status = "queued"
  BY <1>1, <1>2, <1>4, <1>5, <1>6 DEF Known
<1>9. write.status \notin SettledStatuses /\ \A p \in Overdue : write.action # p.action
  BY <1>1, <1>4, <1>6 DEF SettledStatuses
<1>10. HandsKept
  BY <1>2 DEF HandsKept
<1> QED
  BY <1>2, <1>7, <1>8, <1>9, <1>10, CommitMapStep

(* _settle_handoff's entry.                                                *)
LEMMA SettledWrite ==
    ASSUME AuthorityInv, NEW a \in Actions, hand[a] = "audited"
    PROVE  /\ serial \in Nat /\ now \in Nat /\ resolutions \in SUBSET Tier3Resolution
           /\ \E write \in Write :
                 /\ write.action = a /\ write.status \in SettledStatuses
                 /\ write = [action |-> a, client |-> order[a].client,
                             status |-> SettledStatus(result[a]), seq |-> serial + 1]
           /\ \A p \in pending : p.action # a /\ p.expires \in Nat
           /\ \A p \in pending : now <= p.expires => p \in Live
<1> DEFINE write == [action |-> a, client |-> order[a].client,
                     status |-> SettledStatus(result[a]), seq |-> serial + 1]
<1>1. /\ OrderIsKnown /\ UnstartedIsFree /\ PendingIsFree /\ serial \in Nat /\ now \in Nat
      /\ resolutions \in SUBSET Tier3Resolution /\ pending \in SUBSET Tier3PendingAction
  BY GatewayAssumption DEF AuthorityInv, TypeOK
<1>2. order[a].client \in Clients
  BY <1>1 DEF OrderIsKnown, UnstartedIsFree, Placed
<1>3. write \in Write /\ write.action = a /\ write.status \in SettledStatuses
  BY <1>1, <1>2 DEF Write, Statuses, SettledStatus, SettledStatuses
<1>4. \A p \in pending : p.action # a /\ p.expires \in Nat
  BY <1>1 DEF PendingIsFree, Tier3PendingAction
<1>5. \A p \in pending : now <= p.expires => p \in Live
  BY <1>1, <1>4 DEF Live, Overdue
<1> QED
  BY <1>1, <1>3, <1>4, <1>5

(* It is written in place, or inserted by a rebuild that nothing           *)
(* interrupts.                                                             *)
LEMMA SettleEntryStep ==
    ASSUME AuthorityInv, NEW a \in Actions, SettleResolution(a),
           Known(resolutions, a) \/ a \notin RacingSettlements
    PROVE  \E write \in Write : write.action = a /\ EntryStep({write}, {})
<1>1. hand[a] = "audited" /\ TypeOK
  BY DEF SettleResolution, AuthorityInv
<1>2. /\ serial \in Nat /\ now \in Nat /\ resolutions \in SUBSET Tier3Resolution
      /\ \A p \in pending : p.action # a /\ p.expires \in Nat
      /\ \A p \in pending : now <= p.expires => p \in Live
  BY <1>1, SettledWrite
<1>3. PICK write \in Write :
         /\ write.action = a /\ write.status \in SettledStatuses
         /\ write = [action |-> a, client |-> order[a].client,
                     status |-> SettledStatus(result[a]), seq |-> serial + 1]
  BY <1>1, SettledWrite
<1>4. /\ hand' = [hand EXCEPT ![a] = "settled"]
      /\ resolutions' = set_tier3_resolution(resolutions, {write}, now)
      /\ keptMap' = [b \in Actions |->
                       Overwrite(keptMap[b], IF ~ Known(resolutions, a) THEN {} ELSE {write}, now)]
      /\ UNCHANGED <<now, pending>>
  BY <1>3 DEF SettleResolution
<1>5. hand'[a] = "settled" /\ \A b \in Actions \ {a} : hand'[b] = hand[b]
  BY <1>1, <1>4 DEF TypeOK
<1>6. HandsKept /\ OneWriteEach({write})
  BY <1>5 DEF HandsKept, OneWriteEach, OneEach
<1>7. QueueFollows({write})
  BY <1>2, <1>3, <1>4 DEF QueueFollows
<1>8. resolutions' = {r \in set_tier3_resolution(resolutions, {write}, now) :
                         r.action \in {} => now - r.updated <= ResolutionTTL}
  BY <1>4
<1>9. \E shared \in SUBSET {write} :
         keptMap' = [b \in Actions |-> Overwrite(keptMap[b], shared, now)]
  BY <1>4
<1>10. EntryStep({write}, {})
  BY <1>3, <1>5, <1>6, <1>7, <1>8, <1>9 DEF EntryStep
<1> QED
  BY <1>3, <1>10

(* Without interruptions it is written over nothing or over "queued".      *)
LEMMA SettleMapStep ==
    ASSUME RacingSettlements = {}, AuthorityInv, EntryInv, NEW a \in Actions, SettleResolution(a)
    PROVE  MapStep
<1>1. PICK write \in Write : write.action = a /\ EntryStep({write}, {})
  BY SettleEntryStep
<1>2. hand[a] = "audited" /\ RowsAreTrue /\ resolutions \in SUBSET Tier3Resolution
  BY DEF SettleResolution, AuthorityInv, TypeOK
<1>3. ASSUME NEW r \in resolutions, r.action = a
      PROVE  r.status = "queued"
  <2>1. r.status \notin {"rejected", "expired"}
    BY <1>2, <1>3 DEF RowsAreTrue, RowIsTrue
  <2>2. r.status \notin SettledStatuses
    BY <1>2, <1>3 DEF EntryInv
  <2>3. r.status \in Statuses
    BY <1>2 DEF Tier3Resolution
  <2> QED
    BY <2>1, <2>2, <2>3 DEF Statuses, SettledStatuses
<1>4. OverQueued({write})
  BY <1>1, <1>3 DEF OverQueued
<1> QED
  BY <1>1, <1>4 DEF MapStep

(* Every step but a settlement's is one of these.                          *)
LEMMA OtherMapStep ==
    ASSUME AuthorityInv, [Next]_vars,
           \A a \in Actions : ~ SettleResolution(a) /\ ~ AssignMap(a)
    PROVE  MapStep
<1>1. /\ TypeOK /\ UnstartedIsFree /\ now \in Nat /\ pending \in SUBSET Tier3PendingAction
  BY GatewayAssumption DEF AuthorityInv, TypeOK
<1>2. ASSUME UNCHANGED <<resolutions, keptMap, pending>>, now' = now \/ now' = now + 1,
             \A a \in Actions : hand'[a] = hand[a] \/ (hand[a] # "settled" /\ hand'[a] # "rebuilding")
      PROVE  MapStep
  <2>1. HandsKept
    BY <1>2 DEF HandsKept
  <2>2. now <= now' /\ now' \in Nat
    BY <1>1, <1>2
  <2> QED
    BY <1>1, <1>2, <2>1, <2>2, QuietStep
<1>3. CASE Tick \/ UNCHANGED vars
  BY <1>2, <1>3 DEF Tick, vars, store, threads, locals
<1>4. CASE \E s \in Strangers : RefuseStranger(s)
  BY <1>2, <1>4 DEF RefuseStranger
<1>5. CASE \E t \in Threads : AssignTrail(t)
  BY <1>2, <1>5 DEF AssignTrail
<1>6. ASSUME NEW a \in Actions, Arrive(a) PROVE MapStep
  BY <1>2, <1>6 DEF Arrive, ReadLimit, RefuseNoGrant, store
<1>7. ASSUME NEW a \in Actions, OrderThread(a) PROVE MapStep
  <2>1. CASE Reserve(a)
    <3>1. /\ hand' = [hand EXCEPT ![a] = "due"] /\ UNCHANGED <<now, pending, resolutions, keptMap>>
          /\ req[a] = "limitRead"
      BY <2>1 DEF Reserve, StartHandoff
    <3>2. hand[a] = "none"
      BY <1>1, <3>1 DEF UnstartedIsFree, Started
    <3>3. \A b \in Actions : hand'[b] = hand[b] \/ (hand[b] # "settled" /\ hand'[b] # "rebuilding")
      BY <1>1, <3>1, <3>2 DEF TypeOK
    <3> QED
      BY <1>2, <3>1, <3>3
  <2>2. CASE Queue(a)
    BY <2>2, QueueMapStep
  <2>3. CASE FindQueueFull(a)
    BY <2>3, DecidingMapStep
  <2>4. CASE RefuseQueueFull(a) \/ AnswerQueued(a) \/ AnswerHandedOff(a)
    BY <1>2, <2>4 DEF RefuseQueueFull, AnswerQueued, AnswerHandedOff, store
  <2> QED
    BY <1>7, <2>1, <2>2, <2>3, <2>4 DEF OrderThread
<1>8. ASSUME NEW a \in Actions, HandoffThread(a) PROVE MapStep
  <2>1. ASSUME (\E kind \in Results : HandOff(a, kind)) \/ SettleEvent(a)
        PROVE  MapStep
    <3>1. /\ UNCHANGED <<now, pending, resolutions, keptMap>> /\ hand[a] \in {"due", "returned"}
          /\ \/ hand' = [hand EXCEPT ![a] = "returned"]
             \/ hand' = [hand EXCEPT ![a] = "audited"]
      BY <2>1 DEF HandOff, SettleEvent, store
    <3>2. \A b \in Actions : hand'[b] = hand[b] \/ (hand[b] # "settled" /\ hand'[b] # "rebuilding")
      BY <1>1, <3>1 DEF TypeOK
    <3> QED
      BY <1>2, <3>1, <3>2
  <2> QED
    BY <1>8, <2>1 DEF HandoffThread
<1>9. ASSUME NEW a \in Actions, Poll(a) PROVE MapStep
  BY <1>9, DecidingMapStep
<1>10. CASE Administer
  <2>1. ASSUME NEW c \in Clients, NEW limit \in Limits, PutGrant(c, limit) PROVE MapStep
    BY <1>2, <2>1 DEF PutGrant, threads, locals
  <2> QED
    BY <1>10, <2>1, DecidingMapStep DEF Administer
<1>11. CASE Restart
  <2>1. /\ resolutions' = {} /\ pending' = {} /\ keptMap' = [b \in Actions |-> {}]
        /\ \A a \in Actions : hand'[a] # "rebuilding"
    BY <1>11 DEF Restart
  <2> QED
    BY <2>1 DEF MapStep, MapEmptied
<1> QED
  BY <1>3, <1>4, <1>5, <1>6, <1>7, <1>8, <1>9, <1>10, <1>11 DEF Next

(* Without interruptions there is no other step.                           *)
LEMMA NextMapStep ==
    ASSUME RacingSettlements = {}, AuthorityInv, EntryInv, [Next]_vars
    PROVE  MapStep
<1>1. \A a \in Actions : ~ AssignMap(a)
  BY DEF AssignMap, EntryInv
<1> QED
  BY <1>1, OtherMapStep, SettleMapStep

(* An empty map holds no two entries.                                      *)
LEMMA InitEntries == Init => EntryInv
  BY DEF Init, EntryInv

(* A caller that has polled a final status never sees another one, for     *)
(* every cap and TTL, when no settlement is interrupted inside its rebuild *)
(* of the map (set_tier3_resolution).                                      *)
THEOREM PolledIsFinal ==
    ASSUME RacingSettlements = {}
    PROVE  Spec => ResolutionFinal
<1>1. AuthorityInv /\ EntryInv /\ [Next]_vars => EntryInv'
  BY NextMapStep, MapStepKeepsEntries
<1>2. AuthorityInv /\ EntryInv /\ [Next]_vars =>
        [\A r \in resolutions : \A s \in resolutions' :
          (r.action = s.action /\ r.status # "queued") => s.status = r.status]_vars
  BY NextMapStep, MapStepKeepsEntries
<1> QED
  BY <1>1, <1>2, InitEntries, AuthorityInvariant, PTL DEF Spec, ResolutionFinal
-----------------------------------------------------------------------------
(* What awaits a human. *)

(* A map with one entry for an action never outgrows a cap that all the    *)
(* orders fit under.                                                       *)
LEMMA CapHoldsAll ==
    ASSUME Cardinality(Actions) <= ResolutionMax, NEW rows \in SUBSET Tier3Resolution,
           \A r, s \in rows : r.action = s.action => r = s
    PROVE  NewestPerClient(rows, ResolutionMax) = rows
<1>1. IsFiniteSet(Actions) /\ Cardinality(Actions) \in Nat /\ ResolutionMax \in Nat
  BY GatewayAssumption, StoreAssumption, FS_CardinalityType
<1>2. ASSUME NEW some \in SUBSET rows
      PROVE  IsFiniteSet(some) /\ Cardinality(some) \in Nat /\ Cardinality(some) <= ResolutionMax
  <2> DEFINE f == [r \in some |-> r.action]
  <2>1. f \in Injection(some, Actions)
    BY DEF Injection, IsInjective, Tier3Resolution
  <2>2. IsFiniteSet(some) /\ Cardinality(some) <= Cardinality(Actions)
    BY <1>1, <2>1, FS_Injection
  <2> QED
    BY <1>1, <2>2, FS_CardinalityType
<1>3. \A r \in rows : NoOlderOfClient(rows, r) \in SUBSET rows
  BY DEF NoOlderOfClient
<1> QED
  BY <1>2, <1>3 DEF NewestPerClient

(* An unexpired entry that nothing is written about stays, and so does a   *)
(* new one.                                                                *)
LEMMA EntryStays ==
    ASSUME Cardinality(Actions) <= ResolutionMax,
           NEW rows \in SUBSET Tier3Resolution, \A r, s \in rows : r.action = s.action => r = s,
           NEW writes \in SUBSET Write, \A v, w \in writes : v.action = w.action => v = w,
           NEW t \in Nat
    PROVE  /\ \A r \in rows : (t <= r.updated + ResolutionTTL /\ \A w \in writes : w.action # r.action)
                 => r \in set_tier3_resolution(rows, writes, t)
           /\ \A w \in writes : ~ Known(rows, w.action) =>
                 \E r \in set_tier3_resolution(rows, writes, t) :
                    r.action = w.action /\ r.status = w.status /\ r.updated = t
<1> DEFINE over == Overwrite(rows, writes, t)
           created == Created(rows, writes, t)
           all == Unexpired(over \cup created, t)
<1>1. over \in SUBSET Tier3Resolution
  BY OverwriteRows
<1>2. created \in SUBSET Tier3Resolution
  BY DEF Created, Write, Tier3Resolution
<1>3. \A r, s \in over \cup created : r.action = s.action => r = s
  BY OneEntryEach
<1> HIDE DEF over, created
<1>4. all \in SUBSET Tier3Resolution /\ \A r, s \in all : r.action = s.action => r = s
  BY <1>1, <1>2, <1>3 DEF Unexpired
<1>5. set_tier3_resolution(rows, writes, t) = IF created = {} THEN over ELSE all
  <2>1. NewestPerClient(all, ResolutionMax) = all
    BY <1>4, CapHoldsAll
  <2> QED
    BY <2>1 DEF set_tier3_resolution, over, created
<1>6. ResolutionTTL \in Nat /\ \A r \in over \cup created : r.updated \in Nat
  BY <1>1, <1>2, StoreAssumption DEF Tier3Resolution
<1>7. ASSUME NEW r \in rows, t <= r.updated + ResolutionTTL, \A w \in writes : w.action # r.action
      PROVE  r \in set_tier3_resolution(rows, writes, t)
  <2>1. r \in over
    BY <1>7 DEF over, Overwrite
  <2>2. r \in all
    BY <1>6, <1>7, <2>1 DEF Unexpired
  <2> QED
    BY <1>5, <2>1, <2>2
<1>8. ASSUME NEW w \in writes, ~ Known(rows, w.action)
      PROVE  \E r \in set_tier3_resolution(rows, writes, t) :
                r.action = w.action /\ r.status = w.status /\ r.updated = t
  <2> DEFINE r == [action |-> w.action, client |-> w.client, status |-> w.status,
                   updated |-> t, seq |-> w.seq]
  <2>1. r \in created /\ r.action = w.action /\ r.status = w.status /\ r.updated = t
    BY <1>8 DEF created, Created
  <2> HIDE DEF r
  <2>2. r \in all
    BY <1>6, <2>1 DEF Unexpired
  <2> QED
    BY <1>5, <2>1, <2>2
<1> QED
  BY <1>7, <1>8

(* The map, and every map about to be assigned, has one entry for an       *)
(* action.                                                                 *)
CopyInv == OneEach(resolutions) /\ \A b \in Actions : OneEach(keptMap[b])

(* The "queued" entry of a queue entry, as old as itself.                  *)
HoldsQueued(rows, p) ==
    \E r \in rows : r.action = p.action /\ r.status = "queued" /\ p.expires <= r.updated + PendingTTL

(* Until it expires, a queue entry that was not made inside a settlement's *)
(* rebuild has its entry in the map, and in every map about to replace it. *)
PollableInv ==
    \A p \in Live : ~ p.crossed =>
        /\ HoldsQueued(resolutions, p)
        /\ \A b \in Actions : hand[b] = "rebuilding" => HoldsQueued(keptMap[b], p)

(* An interrupted settlement: the entry is in the map, and a copy of the   *)
(* map without what the TTL and the cap drop is about to replace it.       *)
MapInserted(a) ==
    \E write \in Write :
        /\ write.action = a /\ ~ Known(resolutions, a) /\ (\A p \in pending : p.action # a)
        /\ resolutions' = Unexpired(resolutions \cup Created(resolutions, {write}, now), now)
        /\ keptMap' = [keptMap EXCEPT ![a] = set_tier3_resolution(resolutions, {write}, now)]
        /\ \A b \in Actions \ {a} : hand'[b] = hand[b]
        /\ UNCHANGED <<now, pending>>

MapAssigned(a) ==
    /\ hand[a] = "rebuilding" /\ hand'[a] = "settled"
    /\ resolutions' = keptMap[a]
    /\ keptMap' = [keptMap EXCEPT ![a] = {}]
    /\ \A b \in Actions \ {a} : hand'[b] = hand[b]
    /\ UNCHANGED <<now, pending>>

RacingMapStep ==
    \/ MapEmptied
    \/ \E writes, polled : EntryStep(writes, polled)
    \/ \E a \in Actions : MapInserted(a) \/ MapAssigned(a)

LEMMA NextRacingMapStep ==
    ASSUME AuthorityInv, [Next]_vars
    PROVE  RacingMapStep
<1>1. CASE \A a \in Actions : ~ SettleResolution(a) /\ ~ AssignMap(a)
  BY <1>1, OtherMapStep DEF MapStep, RacingMapStep
<1>2. ASSUME NEW a \in Actions, SettleResolution(a) PROVE RacingMapStep
  <2>1. CASE Known(resolutions, a) \/ a \notin RacingSettlements
    BY <1>2, <2>1, SettleEntryStep DEF RacingMapStep
  <2>2. CASE ~ Known(resolutions, a) /\ a \in RacingSettlements
    <3>1. hand[a] = "audited" /\ TypeOK
      BY <1>2 DEF SettleResolution, AuthorityInv
    <3>2. PICK write \in Write :
             /\ write.action = a
             /\ write = [action |-> a, client |-> order[a].client,
                         status |-> SettledStatus(result[a]), seq |-> serial + 1]
      BY <3>1, SettledWrite
    <3>3. \A p \in pending : p.action # a
      BY <3>1, SettledWrite
    <3>4. /\ resolutions' = Unexpired(resolutions \cup Created(resolutions, {write}, now), now)
          /\ keptMap' = [keptMap EXCEPT ![a] = set_tier3_resolution(resolutions, {write}, now)]
          /\ hand' = [hand EXCEPT ![a] = "rebuilding"]
          /\ UNCHANGED <<now, pending>>
      BY <1>2, <2>2, <3>2 DEF SettleResolution
    <3>5. \A b \in Actions \ {a} : hand'[b] = hand[b]
      BY <3>1, <3>4 DEF TypeOK
    <3> QED
      BY <2>2, <3>2, <3>3, <3>4, <3>5 DEF MapInserted, RacingMapStep
  <2> QED
    BY <2>1, <2>2
<1>3. ASSUME NEW a \in Actions, AssignMap(a) PROVE RacingMapStep
  BY <1>3 DEF AssignMap, AuthorityInv, TypeOK, MapAssigned, RacingMapStep
<1> QED
  BY <1>1, <1>2, <1>3

(* No step makes a second entry for an action.                             *)
LEMMA StepKeepsCopies ==
    ASSUME AuthorityInv, CopyInv, RacingMapStep
    PROVE  CopyInv'
<1>1. /\ now \in Nat /\ resolutions \in SUBSET Tier3Resolution
      /\ keptMap \in [Actions -> SUBSET Tier3Resolution]
      /\ OneEach(resolutions) /\ \A b \in Actions : OneEach(keptMap[b])
  BY GatewayAssumption DEF AuthorityInv, TypeOK, CopyInv
<1>2. CASE MapEmptied
  BY <1>2 DEF MapEmptied, CopyInv, OneEach
<1>3. ASSUME NEW writes, NEW polled, EntryStep(writes, polled)
      PROVE  CopyInv'
  <2>1. PICK shared \in SUBSET writes :
           keptMap' = [b \in Actions |-> Overwrite(keptMap[b], shared, now)]
    BY <1>3 DEF EntryStep
  <2>2. /\ writes \in SUBSET Write /\ \A v, w \in writes : v.action = w.action => v = w
        /\ shared \in SUBSET Write /\ \A v, w \in shared : v.action = w.action => v = w
        /\ resolutions' \subseteq set_tier3_resolution(resolutions, writes, now)
    BY <1>3, <2>1 DEF EntryStep, OneWriteEach, OneEach
  <2>3. OneEach(resolutions')
    <3>1. /\ \A r, s \in Overwrite(resolutions, writes, now) \cup Created(resolutions, writes, now) :
                r.action = s.action => r = s
          /\ resolutions' \subseteq Overwrite(resolutions, writes, now) \cup Created(resolutions, writes, now)
      BY <1>1, <2>2, OneEntryEach DEF OneEach
    <3> QED
      BY <3>1 DEF OneEach
  <2>4. ASSUME NEW b \in Actions PROVE OneEach(keptMap'[b])
    <3>1. keptMap[b] \in SUBSET Tier3Resolution /\ keptMap'[b] = Overwrite(keptMap[b], shared, now)
      BY <1>1, <2>1
    <3>2. \A r, s \in keptMap[b] : r.action = s.action => r = s
      BY <1>1 DEF OneEach
    <3>3. \A r, s \in Overwrite(keptMap[b], shared, now) \cup Created(keptMap[b], shared, now) :
             r.action = s.action => r = s
      BY <1>1, <2>2, <3>1, <3>2, OneEntryEach
    <3> QED
      BY <3>1, <3>3 DEF OneEach
  <2> QED
    BY <2>3, <2>4 DEF CopyInv
<1>4. ASSUME NEW a \in Actions, MapInserted(a)
      PROVE  CopyInv'
  <2>1. PICK write \in Write :
           /\ write.action = a /\ ~ Known(resolutions, a)
           /\ resolutions' = Unexpired(resolutions \cup Created(resolutions, {write}, now), now)
           /\ keptMap' = [keptMap EXCEPT ![a] = set_tier3_resolution(resolutions, {write}, now)]
    BY <1>4 DEF MapInserted
  <2>2. /\ \A r, s \in Overwrite(resolutions, {write}, now) \cup Created(resolutions, {write}, now) :
              r.action = s.action => r = s
        /\ set_tier3_resolution(resolutions, {write}, now)
              \subseteq Overwrite(resolutions, {write}, now) \cup Created(resolutions, {write}, now)
    <3>1. {write} \in SUBSET Write /\ \A v, w \in {write} : v.action = w.action => v = w
      OBVIOUS
    <3>2. \A r, s \in resolutions : r.action = s.action => r = s
      BY <1>1 DEF OneEach
    <3> QED
      BY <1>1, <3>1, <3>2, OneEntryEach
  <2>3. Overwrite(resolutions, {write}, now) = resolutions
    BY <2>1 DEF Overwrite, Known
  <2>4. OneEach(resolutions')
    BY <2>1, <2>2, <2>3 DEF OneEach, Unexpired
  <2>5. OneEach(set_tier3_resolution(resolutions, {write}, now))
    BY <2>2 DEF OneEach
  <2>6. \A b \in Actions : OneEach(keptMap'[b])
    BY <1>1, <2>1, <2>5
  <2> QED
    BY <2>4, <2>6 DEF CopyInv
<1>5. ASSUME NEW a \in Actions, MapAssigned(a)
      PROVE  CopyInv'
  <2>1. OneEach({})
    BY DEF OneEach
  <2>2. resolutions' = keptMap[a] /\ \A b \in Actions : keptMap'[b] = IF b = a THEN {} ELSE keptMap[b]
    BY <1>1, <1>5 DEF MapAssigned
  <2>3. \A b \in Actions : OneEach(keptMap'[b])
    BY <1>1, <2>1, <2>2
  <2> QED
    BY <1>1, <2>2, <2>3 DEF CopyInv
<1> QED
  BY <1>2, <1>3, <1>4, <1>5 DEF RacingMapStep

(* A write at once keeps the "queued" entries of what awaits a human, in   *)
(* the map and in its copies.                                              *)
LEMMA WriteKeepsPollable ==
    ASSUME PendingTTL <= ResolutionTTL, Cardinality(Actions) <= ResolutionMax,
           AuthorityInv, AuthorityInv', CopyInv, PollableInv,
           NEW writes, NEW polled, EntryStep(writes, polled)
    PROVE  PollableInv'
<1>1. /\ now \in Nat /\ resolutions \in SUBSET Tier3Resolution
      /\ keptMap \in [Actions -> SUBSET Tier3Resolution]
      /\ pending \in SUBSET Tier3PendingAction /\ PendingTTL \in Nat /\ ResolutionTTL \in Nat
  BY GatewayAssumption, StoreAssumption DEF AuthorityInv, TypeOK
<1>2. /\ writes \in SUBSET Write /\ \A v, w \in writes : v.action = w.action => v = w
      /\ \A r, s \in resolutions : r.action = s.action => r = s
  BY DEF EntryStep, OneWriteEach, OneEach, CopyInv
<1> DEFINE map == set_tier3_resolution(resolutions, writes, now)
<1>3. \A r \in map : now - r.updated <= ResolutionTTL => r \in resolutions'
  BY DEF EntryStep
<1>4. /\ \A r \in resolutions : (now <= r.updated + ResolutionTTL /\ \A w \in writes : w.action # r.action)
            => r \in map
      /\ \A w \in writes : ~ Known(resolutions, w.action) =>
            \E r \in map : r.action = w.action /\ r.status = w.status /\ r.updated = now
  BY <1>1, <1>2, EntryStays
<1>5. PICK shared \in SUBSET writes :
         keptMap' = [b \in Actions |-> Overwrite(keptMap[b], shared, now)]
  BY DEF EntryStep
<1>6. HandsKept /\ QueueFollows(writes)
  BY DEF EntryStep
<1> HIDE DEF map
<1>7. ASSUME NEW p \in Live, ~ p.crossed, \A w \in writes : w.action # p.action
      PROVE  /\ HoldsQueued(resolutions', p)
             /\ \A b \in Actions : hand'[b] = "rebuilding" => HoldsQueued(keptMap'[b], p)
  <2>1. p.expires \in Nat /\ now <= p.expires
    BY <1>1 DEF Live, Overdue, Tier3PendingAction
  <2>2. PICK r \in resolutions :
           r.action = p.action /\ r.status = "queued" /\ p.expires <= r.updated + PendingTTL
    BY <1>7 DEF PollableInv, HoldsQueued
  <2>3. r.updated \in Nat
    BY <1>1 DEF Tier3Resolution
  <2>4. now <= r.updated + ResolutionTTL /\ now - r.updated <= ResolutionTTL
    BY <1>1, <2>1, <2>2, <2>3
  <2>5. r \in resolutions'
    BY <1>3, <1>4, <1>7, <2>2, <2>4
  <2>6. ASSUME NEW b \in Actions, hand'[b] = "rebuilding"
        PROVE  HoldsQueued(keptMap'[b], p)
    <3>1. HoldsQueued(keptMap[b], p)
      BY <1>6, <1>7, <2>6 DEF HandsKept, PollableInv
    <3>2. PICK q \in keptMap[b] :
             q.action = p.action /\ q.status = "queued" /\ p.expires <= q.updated + PendingTTL
      BY <3>1 DEF HoldsQueued
    <3>3. q \in Overwrite(keptMap[b], shared, now)
      BY <1>7, <3>2 DEF Overwrite
    <3> QED
      BY <1>5, <3>2, <3>3 DEF HoldsQueued
  <2> QED
    BY <2>2, <2>5, <2>6 DEF HoldsQueued
<1>8. ASSUME NEW p, ~ p.crossed, p.expires = now + PendingTTL, ~ Known(resolutions, p.action),
             p.crossed = MapIsBeingRebuilt,
             \E w \in writes : w.action = p.action /\ w.status = "queued"
      PROVE  /\ HoldsQueued(resolutions', p)
             /\ \A b \in Actions : hand'[b] # "rebuilding"
  <2>1. PICK r \in map : r.action = p.action /\ r.status = "queued" /\ r.updated = now
    BY <1>4, <1>8
  <2>2. now - r.updated <= ResolutionTTL /\ p.expires <= r.updated + PendingTTL
    BY <1>1, <1>8, <2>1
  <2>3. \A b \in Actions : hand[b] # "rebuilding"
    BY <1>8 DEF MapIsBeingRebuilt
  <2> QED
    BY <1>3, <1>6, <2>1, <2>2, <2>3 DEF HoldsQueued, HandsKept
<1>9. \A p \in Live' : p \in pending' /\ now' <= p.expires
  <2>1. now' \in Nat /\ \A p \in pending' : p.expires \in Nat
    BY GatewayAssumption DEF AuthorityInv, TypeOK, Tier3PendingAction
  <2> QED
    BY <2>1 DEF Live, Overdue
<1>10. ASSUME NEW p \in Live', ~ p.crossed
       PROVE  /\ HoldsQueued(resolutions', p)
              /\ \A b \in Actions : hand'[b] = "rebuilding" => HoldsQueued(keptMap'[b], p)
  <2>1. CASE p \in Live /\ \A w \in writes : w.action # p.action
    BY <1>7, <1>10, <2>1
  <2>2. CASE /\ p.expires = now + PendingTTL /\ ~ Known(resolutions, p.action)
             /\ p.crossed = MapIsBeingRebuilt
             /\ \E w \in writes : w.action = p.action /\ w.status = "queued"
    BY <1>8, <1>10, <2>2
  <2> QED
    BY <1>6, <1>9, <2>1, <2>2 DEF QueueFollows
<1> QED
  BY <1>10 DEF PollableInv, HoldsQueued

(* So does an interrupted settlement, and its assignment.                  *)
LEMMA RebuildKeepsPollable ==
    ASSUME PendingTTL <= ResolutionTTL, Cardinality(Actions) <= ResolutionMax,
           AuthorityInv, CopyInv, PollableInv,
           NEW a \in Actions, MapInserted(a) \/ MapAssigned(a)
    PROVE  PollableInv'
<1>1. /\ now \in Nat /\ resolutions \in SUBSET Tier3Resolution
      /\ keptMap \in [Actions -> SUBSET Tier3Resolution]
      /\ pending \in SUBSET Tier3PendingAction /\ PendingTTL \in Nat /\ ResolutionTTL \in Nat
  BY GatewayAssumption, StoreAssumption DEF AuthorityInv, TypeOK
<1>2. UNCHANGED <<now, pending>> /\ \A b \in Actions \ {a} : hand'[b] = hand[b]
  BY DEF MapInserted, MapAssigned
<1>3. Live' = Live
  BY <1>2 DEF Live, Overdue
<1>4. ASSUME NEW p \in Live, ~ p.crossed
      PROVE  /\ HoldsQueued(resolutions', p)
             /\ \A b \in Actions : hand'[b] = "rebuilding" => HoldsQueued(keptMap'[b], p)
  <2>1. /\ HoldsQueued(resolutions, p)
        /\ \A b \in Actions : hand[b] = "rebuilding" => HoldsQueued(keptMap[b], p)
    BY <1>4 DEF PollableInv
  <2>2. CASE MapAssigned(a)
    <3>1. /\ hand[a] = "rebuilding" /\ hand'[a] # "rebuilding" /\ resolutions' = keptMap[a]
          /\ \A b \in Actions \ {a} : keptMap'[b] = keptMap[b]
      BY <1>1, <2>2 DEF MapAssigned
    <3> QED
      BY <1>2, <2>1, <3>1
  <2>3. CASE MapInserted(a)
    <3>1. PICK write \in Write :
             /\ write.action = a /\ (\A q \in pending : q.action # a)
             /\ resolutions' = Unexpired(resolutions \cup Created(resolutions, {write}, now), now)
             /\ keptMap' = [keptMap EXCEPT ![a] = set_tier3_resolution(resolutions, {write}, now)]
      BY <2>3 DEF MapInserted
    <3>2. PICK r \in resolutions :
             r.action = p.action /\ r.status = "queued" /\ p.expires <= r.updated + PendingTTL
      BY <2>1 DEF HoldsQueued
    <3>3. /\ p \in pending /\ p.expires \in Nat /\ now <= p.expires /\ r.updated \in Nat
      BY <1>1 DEF Live, Overdue, Tier3PendingAction, Tier3Resolution
    <3>4. now <= r.updated + ResolutionTTL /\ r.updated >= now - ResolutionTTL
      BY <1>1, <3>2, <3>3
    <3>5. HoldsQueued(resolutions', p)
      BY <3>1, <3>2, <3>4 DEF Unexpired, HoldsQueued
    <3>6. r \in set_tier3_resolution(resolutions, {write}, now)
      <4>1. \A q, s \in resolutions : q.action = s.action => q = s
        BY DEF CopyInv, OneEach
      <4>2. \A w \in {write} : w.action # r.action
        BY <3>1, <3>2, <3>3
      <4> QED
        BY <1>1, <3>4, <4>1, <4>2, EntryStays
    <3>7. HoldsQueued(keptMap'[a], p)
      BY <1>1, <3>1, <3>2, <3>6 DEF HoldsQueued
    <3>8. \A b \in Actions \ {a} : keptMap'[b] = keptMap[b]
      BY <1>1, <3>1
    <3> QED
      BY <1>2, <2>1, <3>5, <3>7, <3>8
  <2> QED
    BY <2>2, <2>3
<1> QED
  BY <1>3, <1>4 DEF PollableInv, HoldsQueued

LEMMA StepKeepsPollable ==
    ASSUME PendingTTL <= ResolutionTTL, Cardinality(Actions) <= ResolutionMax,
           AuthorityInv, AuthorityInv', CopyInv, PollableInv, RacingMapStep
    PROVE  PollableInv'
<1>1. CASE MapEmptied
  BY <1>1 DEF MapEmptied, PollableInv, Live
<1> QED
  BY <1>1, WriteKeepsPollable, RebuildKeepsPollable DEF RacingMapStep

(* An action awaiting a human's decision can be polled until it expires,   *)
(* whatever settlements and refusals rebuild outside the lock, unless it   *)
(* was queued while a settlement was inside its rebuild of the map         *)
(* (set_tier3_resolution): when an entry of the map outlives one of the    *)
(* queue (tier3_pending_ttl and tier3_resolution_ttl have the same         *)
(* default) and all the orders of this process fit under the map's cap.    *)
THEOREM AwaitingIsPollable ==
    ASSUME PendingTTL <= ResolutionTTL, Cardinality(Actions) <= ResolutionMax
    PROVE  Spec => []PendingIsPollable
<1>1. Init => CopyInv /\ PollableInv
  BY DEF Init, CopyInv, OneEach, PollableInv, Live
<1>2. AuthorityInv /\ AuthorityInv' /\ CopyInv /\ PollableInv /\ [Next]_vars => CopyInv' /\ PollableInv'
  BY NextRacingMapStep, StepKeepsCopies, StepKeepsPollable
<1>3. PollableInv => PendingIsPollable
  BY DEF PollableInv, HoldsQueued, PendingIsPollable
<1> QED
  BY <1>1, <1>2, <1>3, AuthorityInvariant, PTL DEF Spec
-----------------------------------------------------------------------------
(* What the cap drops, whatever the threads do.  This part needs nothing   *)
(* of RacingRefusals: only that the rows of a list are numbered apart.     *)

(* A list of audit rows, none newer than `last'.                           *)
Numbered(rows, last) ==
    /\ IsFiniteSet(rows)
    /\ \A r \in rows : r.seq <= last
    /\ \A r, s \in rows : r.seq = s.seq => r = s

QueueIsNumbered ==
    /\ \A p \in pending : p.seq <= serial
    /\ \A p, q \in pending : p.seq = q.seq => p = q

(* The trail, and every list about to replace it.                          *)
NumberInv ==
    /\ AuthorityInv
    /\ Numbered(trail, serial)
    /\ \A t \in Threads : Numbered(kept[t], serial)
    /\ QueueIsNumbered

(* Rows that a handler is about to append.                                 *)
NextRows(new) ==
    /\ new \in SUBSET Tier3Event
    /\ Numbered(new, serial')
    /\ \A r \in new : serial < r.seq

(* What a step does to the trail and to the lists about to replace it.     *)
Records ==
    /\ UNCHANGED kept
    /\ \E new : NextRows(new) /\ trail' = record_tier3_event(trail, new, now)

Interrupted ==
    /\ \E new : NextRows(new) /\ trail' = Recent(trail \cup new, now)
    /\ \E t \in Threads : kept' = [kept EXCEPT ![t] = NewestPerClient(trail', AuditMax)]

Settles ==
    \E seqs, outcome :
        /\ trail' = SetOutcome(trail, seqs, outcome)
        /\ kept' = [t \in Threads |-> SetOutcome(kept[t], seqs, outcome)]

TrailStep ==
    \/ UNCHANGED <<trail, kept>>
    \/ Records
    \/ Interrupted
    \/ Settles
    \/ \E t \in Threads : AssignTrail(t)
    \/ Restart

(* The rows no older than `r', and the `n' newest rows, of a list.         *)
UpFrom(D, r) == {s \in D : s.seq >= r.seq}

Top(D, n) == {r \in D : Cardinality(UpFrom(D, r)) <= n}

(* Among the rows of a finite list the newest `n' are there: no number is  *)
(* skipped in counting from the newest row down.                           *)
LEMMA NewestAreThere ==
    ASSUME NEW D, IsFiniteSet(D), \A r \in D : r.seq \in Nat,
           \A r, s \in D : r.seq = s.seq => r = s,
           NEW n \in Nat, n <= Cardinality(D)
    PROVE  n <= Cardinality(Top(D, n))
<1> DEFINE bad == {i \in 0..n : ~ (i <= Cardinality(Top(D, i)))}
<1>1. /\ Cardinality(D) \in Nat
      /\ \A i : IsFiniteSet(Top(D, i)) /\ Cardinality(Top(D, i)) \in Nat
      /\ \A r : IsFiniteSet(UpFrom(D, r)) /\ Cardinality(UpFrom(D, r)) \in Nat
  BY FS_Subset, FS_CardinalityType DEF UpFrom, Top
<1>2. \A i : Top(D, i) \subseteq D /\ \A r \in D : r \in Top(D, i) <=> Cardinality(UpFrom(D, r)) <= i
  BY DEF Top
<1>3. SUFFICES ASSUME bad # {} PROVE FALSE
  <2>1. n \in 0..n
    OBVIOUS
  <2> QED
    BY <1>3, <2>1
<1>4. PICK i \in bad : \A j \in bad : i <= j
  <2>1. bad \in SUBSET Nat
    OBVIOUS
  <2> HIDE DEF bad
  <2> QED
    BY <1>3, <2>1, LeastOfNaturals
<1>5. i \in 0..n /\ ~ (i <= Cardinality(Top(D, i))) /\ i \in Nat /\ i <= n
  BY <1>4
<1>6. i # 0
  BY <1>1, <1>5
<1> DEFINE h == i - 1
           T == Top(D, h)
           rest == D \ T
<1>7. h \in 0..n /\ h \in Nat /\ h < i /\ h + 1 = i
  BY <1>5, <1>6
<1>8. h <= Cardinality(T)
  BY <1>4, <1>7
<1> HIDE DEF bad, h
<1>9. T \subseteq Top(D, i)
  BY <1>1, <1>2, <1>5, <1>7
<1>10. IsFiniteSet(T) /\ Cardinality(T) \in Nat /\ Cardinality(T) = h
  <2>1. Cardinality(T) <= Cardinality(Top(D, i))
    BY <1>1, <1>9, FS_Subset
  <2> HIDE DEF T
  <2>2. Cardinality(T) \in Nat /\ Cardinality(Top(D, i)) \in Nat /\ IsFiniteSet(T)
    BY <1>1 DEF T
  <2> QED
    BY <1>5, <1>7, <1>8, <2>1, <2>2
<1>11. T \subseteq D /\ \A r \in D : r \in T <=> Cardinality(UpFrom(D, r)) <= h
  BY <1>2
<1> HIDE DEF T
<1>12. rest # {}
  <2>1. T # D
    BY <1>1, <1>5, <1>7, <1>10
  <2> QED
    BY <1>11, <2>1
<1>13. PICK m \in rest : \A r \in rest : Cardinality(UpFrom(D, m)) <= Cardinality(UpFrom(D, r))
  <2> DEFINE ranks == {Cardinality(UpFrom(D, r)) : r \in rest}
  <2>1. ranks \in SUBSET Nat
    BY <1>1
  <2>2. ranks # {}
    BY <1>12
  <2>3. \E k \in ranks : \A l \in ranks : k <= l
    <3> HIDE DEF ranks
    <3> QED
      BY <2>1, <2>2, LeastOfNaturals
  <2> QED
    BY <2>3
<1>14. m \in D /\ m \notin T
  OBVIOUS
<1>15. UpFrom(D, m) \subseteq T \cup {m}
  <2> SUFFICES ASSUME NEW g \in D, g.seq >= m.seq, g # m, g \in rest PROVE FALSE
    BY DEF UpFrom
  <2>1. m.seq < g.seq
    BY <1>14
  <2>2. UpFrom(D, g) \subseteq UpFrom(D, m) /\ m \in UpFrom(D, m) /\ m \notin UpFrom(D, g)
    BY <1>14, <2>1 DEF UpFrom
  <2>3. /\ Cardinality(UpFrom(D, g)) <= Cardinality(UpFrom(D, m))
        /\ Cardinality(UpFrom(D, g)) # Cardinality(UpFrom(D, m))
    BY <1>1, <2>2, FS_Subset
  <2>4. /\ Cardinality(UpFrom(D, g)) \in Nat /\ Cardinality(UpFrom(D, m)) \in Nat
        /\ Cardinality(UpFrom(D, m)) <= Cardinality(UpFrom(D, g))
    BY <1>1, <1>13
  <2> QED
    BY <2>3, <2>4
<1>16. IsFiniteSet(T \cup {m}) /\ Cardinality(T \cup {m}) = h + 1
  BY <1>10, <1>14, FS_AddElement
<1>17. Cardinality(UpFrom(D, m)) <= i
  <2>1. Cardinality(UpFrom(D, m)) <= Cardinality(T \cup {m})
    BY <1>15, <1>16, FS_Subset
  <2> QED
    BY <1>7, <1>16, <2>1
<1>18. T \cup {m} \subseteq Top(D, i)
  BY <1>2, <1>9, <1>14, <1>17
<1>19. Cardinality(T \cup {m}) <= Cardinality(Top(D, i))
  BY <1>1, <1>18, FS_Subset
<1> QED
  BY <1>5, <1>7, <1>16, <1>19

(* A row that the cap drops leaves behind as many newer rows of its client *)
(* as the cap allows (the loop over reversed events in                     *)
(* record_tier3_event).                                                    *)
LEMMA DroppedForNewer ==
    ASSUME NEW rows \in SUBSET Tier3Event, IsFiniteSet(rows),
           \A r, s \in rows : r.seq = s.seq => r = s,
           NEW max \in Nat, NEW e \in rows, e \notin NewestPerClient(rows, max)
    PROVE  Cardinality({f \in NewestPerClient(rows, max) : f.client = e.client /\ f.seq > e.seq})
              >= max
<1> DEFINE D == NoOlderOfClient(rows, e)
           top == Top(D, max)
           newer == {f \in NewestPerClient(rows, max) : f.client = e.client /\ f.seq > e.seq}
<1>1. /\ D \subseteq rows /\ IsFiniteSet(D) /\ Cardinality(D) \in Nat
      /\ \A r \in rows : r.seq \in Nat
  BY FS_Subset, FS_CardinalityType DEF NoOlderOfClient, Tier3Event
<1>2. max <= Cardinality(D)
  BY <1>1 DEF NewestPerClient
<1>3. max <= Cardinality(Top(D, max))
  <2>1. \A r \in D : r.seq \in Nat
    BY <1>1
  <2>2. \A r, s \in D : r.seq = s.seq => r = s
    BY <1>1
  <2> HIDE DEF D
  <2> QED
    BY <1>1, <1>2, <2>1, <2>2, NewestAreThere
<1>4. \A r \in D : NoOlderOfClient(rows, r) = UpFrom(D, r)
  BY <1>1 DEF NoOlderOfClient, UpFrom
<1>5. top \subseteq newer
  <2> SUFFICES ASSUME NEW f \in top PROVE f \in newer
    OBVIOUS
  <2>1. f \in NewestPerClient(rows, max)
    BY <1>1, <1>4 DEF NewestPerClient, Top
  <2>2. f \in rows /\ f.client = e.client /\ f.seq >= e.seq
    BY DEF NoOlderOfClient, Top
  <2>3. f # e
    BY <2>1
  <2>4. f.seq > e.seq
    BY <1>1, <2>2, <2>3
  <2> QED
    BY <2>1, <2>2, <2>4
<1>6. IsFiniteSet(newer) /\ Cardinality(newer) \in Nat /\ IsFiniteSet(top)
  BY <1>1, <1>5, FS_Subset, FS_CardinalityType, NewestSubset DEF Top
<1>7. Cardinality(top) <= Cardinality(newer) /\ Cardinality(top) \in Nat
  BY <1>5, <1>6, FS_Subset, FS_CardinalityType
<1> HIDE DEF top, newer
<1>8. Cardinality(newer) >= max
  BY <1>3, <1>6, <1>7 DEF top
<1> QED
  BY <1>8 DEF newer

(* A list without some of its rows is numbered.                            *)
LEMMA NumberedSubset ==
    ASSUME NEW rows, NEW last \in Nat, Numbered(rows, last), NEW some \in SUBSET rows
    PROVE  Numbered(some, last)
  BY FS_Subset DEF Numbered

(* So is a list when more numbers have been given out.                     *)
LEMMA NumberedLater ==
    ASSUME NEW rows \in SUBSET Tier3Event, NEW m \in Nat, Numbered(rows, m), NEW last \in Nat, m <= last
    PROVE  Numbered(rows, last)
<1>1. \A r \in rows : r.seq \in Nat
  BY DEF Tier3Event
<1> QED
  BY <1>1 DEF Numbered

(* So is a list with rows appended that carry later numbers.               *)
LEMMA NumberedAppend ==
    ASSUME NEW rows \in SUBSET Tier3Event, NEW m \in Nat, Numbered(rows, m),
           NEW new \in SUBSET Tier3Event, NEW last \in Nat, Numbered(new, last),
           m <= last, \A r \in new : m < r.seq
    PROVE  Numbered(rows \cup new, last)
<1>1. \A r \in rows \cup new : r.seq \in Nat
  BY DEF Tier3Event
<1>2. IsFiniteSet(rows \cup new)
  BY FS_Union DEF Numbered
<1>3. \A r \in rows \cup new : r.seq <= last
  BY <1>1 DEF Numbered
<1>4. \A r, s \in rows \cup new : r.seq = s.seq => r = s
  <2>1. \A r \in rows, s \in new : r.seq < s.seq
    BY <1>1 DEF Numbered
  <2> QED
    BY <1>1, <2>1 DEF Numbered
<1> QED
  BY <1>2, <1>3, <1>4 DEF Numbered

(* An in-place change leaves the numbers as they are.                      *)
LEMMA NumberedSettled ==
    ASSUME NEW rows \in SUBSET Tier3Event, NEW last \in Nat, Numbered(rows, last),
           NEW seqs, NEW outcome
    PROVE  /\ Numbered(SetOutcome(rows, seqs, outcome), last)
           /\ \A r \in rows : \E s \in SetOutcome(rows, seqs, outcome) : s.seq = r.seq
<1> DEFINE change(r) == IF r.seq \in seqs THEN [r EXCEPT !.outcome = outcome] ELSE r
           changed == {change(r) : r \in rows}
<1>1. \A r \in rows : change(r).seq = r.seq
  BY DEF Tier3Event
<1>2. IsFiniteSet(changed)
  <2> DEFINE f == [r \in rows |-> change(r)]
  <2> HIDE DEF change
  <2>1. f \in Surjection(rows, changed)
    BY DEF Surjection
  <2> HIDE DEF f, changed
  <2> QED
    BY <2>1, FS_Surjection DEF Numbered
<1> HIDE DEF change
<1>3. Numbered(changed, last)
  BY <1>1, <1>2 DEF Numbered
<1>4. changed = SetOutcome(rows, seqs, outcome)
  BY DEF SetOutcome, change
<1>5. \A r \in rows : \E s \in changed : s.seq = r.seq
  BY <1>1
<1> QED
  BY <1>3, <1>4, <1>5

(* The rows that close queue entries are numbered after `from'.            *)
LEMMA ClosingNumbered ==
    ASSUME NumberInv, NEW S \in SUBSET pending, NEW from \in Nat,
           NEW o \in {"rejected", "expired"}
    PROVE  /\ ClosingRows(S, from, o) \in SUBSET Tier3Event
           /\ Numbered(ClosingRows(S, from, o), from + Cardinality(S))
           /\ \A r \in ClosingRows(S, from, o) : from < r.seq
<1> DEFINE rows == ClosingRows(S, from, o)
           row(p) == Event(from + Rank(p, S), p.client, p.amount, o, p.action)
<1>1. TypeOK /\ IsFiniteSet(pending) /\ QueueIsNumbered
  BY DEF NumberInv, AuthorityInv
<1>2. /\ IsFiniteSet(S) /\ Cardinality(S) \in Nat /\ S \in SUBSET Tier3PendingAction
      /\ \A p, q \in S : p.seq = q.seq => p = q
  BY <1>1, FS_Subset, FS_CardinalityType DEF TypeOK, QueueIsNumbered
<1>3. rows \in SUBSET Tier3Event
  BY <1>1, ClosingType
<1>4. \A r \in rows : \E p \in S : r = row(p)
  BY DEF ClosingRows
<1>5. IsFiniteSet(rows)
  <2> DEFINE f == [p \in S |-> row(p)]
  <2>1. f \in Surjection(S, rows)
    BY DEF ClosingRows, Surjection
  <2> QED
    BY <1>2, <2>1, FS_Surjection
<1>6. \A p \in S : row(p).seq = from + Rank(p, S)
  BY DEF Event
<1> HIDE DEF rows, row
<1>7. /\ \A p \in S : Rank(p, S) \in 1..Cardinality(S)
      /\ \A p, q \in S : Rank(p, S) = Rank(q, S) => p = q
  BY <1>2, RankIsPosition
<1>8. \A r \in rows : from < r.seq /\ r.seq <= from + Cardinality(S)
  BY <1>2, <1>4, <1>6, <1>7
<1>9. ASSUME NEW r \in rows, NEW s \in rows, r.seq = s.seq
      PROVE  r = s
  <2>1. PICK p \in S : r = row(p)
    BY <1>4
  <2>2. PICK q \in S : s = row(q)
    BY <1>4
  <2>3. Rank(p, S) = Rank(q, S)
    BY <1>2, <1>6, <1>7, <1>9, <2>1, <2>2
  <2> QED
    BY <1>7, <2>1, <2>2, <2>3
<1>10. Numbered(rows, from + Cardinality(S))
  BY <1>5, <1>8, <1>9 DEF Numbered
<1> QED
  BY <1>3, <1>8, <1>10 DEF rows

(* Every locked section after prune_tier3_pending appends numbered rows.   *)
LEMMA CommitRecords ==
    ASSUME NumberInv, NEW rows \in SUBSET Tier3Event, NEW writes, NEW last \in Nat, NEW polled,
           Commit(rows, writes, last, polled), Numbered(rows, last), AfterSweep <= last,
           \A r \in rows : AfterSweep < r.seq, UNCHANGED kept
    PROVE  Records /\ serial' \in Nat /\ serial <= serial'
<1> DEFINE closing == ClosingRows(Overdue, serial, "expired")
           new == closing \cup rows
<1>1. TypeOK /\ IsFiniteSet(pending) /\ serial \in Nat /\ Overdue \in SUBSET pending
  BY DEF NumberInv, AuthorityInv, TypeOK, Overdue
<1>2. AfterSweep \in Nat /\ serial <= AfterSweep
  BY <1>1, SweepType DEF AfterSweep
<1>3. /\ closing \in SUBSET Tier3Event /\ Numbered(closing, AfterSweep)
      /\ \A r \in closing : serial < r.seq
  BY <1>1, ClosingNumbered DEF AfterSweep
<1>4. trail' = record_tier3_event(trail, new, now) /\ serial' = last
  BY DEF Commit
<1> HIDE DEF closing
<1>5. new \in SUBSET Tier3Event /\ Numbered(new, last)
  <2>1. new \in SUBSET Tier3Event
    BY <1>3
  <2>2. Numbered(new, last)
    BY <1>2, <1>3, NumberedAppend
  <2> QED
    BY <2>1, <2>2
<1>6. \A r \in new : serial < r.seq
  <2>1. \A r \in rows : r.seq \in Nat
    BY DEF Tier3Event
  <2> QED
    BY <1>1, <1>2, <1>3, <2>1
<1> HIDE DEF new
<1>7. NextRows(new)
  BY <1>4, <1>5, <1>6 DEF NextRows
<1> QED
  BY <1>1, <1>2, <1>4, <1>7 DEF Records

(* No row, and one row.                                                    *)
LEMMA FewNumbered ==
    ASSUME NEW last \in Nat
    PROVE  /\ Numbered({}, last)
           /\ \A r : r.seq = last => Numbered({r}, last)
<1>1. Numbered({}, last)
  BY FS_EmptySet DEF Numbered
<1>2. ASSUME NEW r, r.seq = last PROVE Numbered({r}, last)
  <2>1. IsFiniteSet({r})
    BY FS_Singleton
  <2>2. r.seq <= last
    BY <1>2
  <2> QED
    BY <2>1, <2>2 DEF Numbered
<1> QED
  BY <1>1, <1>2
-----------------------------------------------------------------------------
(* What each step does to the trail. *)

Numbering ==
    /\ TrailStep
    /\ serial' \in Nat /\ serial <= serial'
    /\ QueueIsNumbered'

(* Steps that leave the queue's entries where they are, or drop some.      *)
LEMMA QueueStaysNumbered ==
    ASSUME NumberInv, pending' \subseteq pending, serial' \in Nat, serial <= serial'
    PROVE  QueueIsNumbered'
<1>1. serial \in Nat /\ \A p \in pending : p.seq \in Nat
  BY DEF NumberInv, AuthorityInv, TypeOK, Tier3PendingAction
<1> QED
  BY <1>1 DEF NumberInv, QueueIsNumbered

(* Outside the trail: reading the limit, the answers, the handoff, the     *)
(* poll's entry, a new grant.                                              *)
LEMMA OutsideNumbers ==
    ASSUME NumberInv,
           \/ Tick
           \/ UNCHANGED vars
           \/ \E a \in Actions, c \in Clients, amount \in Amounts : ReadLimit(a, c, amount)
           \/ \E a \in Actions : AnswerQueued(a) \/ AnswerHandedOff(a)
           \/ \E a \in Actions, kind \in Results : HandOff(a, kind)
           \/ \E a \in Actions : SettleResolution(a) \/ AssignMap(a)
           \/ \E c \in Clients, limit \in Limits : PutGrant(c, limit)
    PROVE  Numbering
<1>1. UNCHANGED <<trail, kept, pending>>
  BY DEF Tick, vars, ReadLimit, AnswerQueued, AnswerHandedOff, HandOff, SettleResolution,
         AssignMap, PutGrant, store, threads, locals
<1>2. serial \in Nat
  BY DEF NumberInv, AuthorityInv, TypeOK
<1>3. serial' = serial \/ serial' = serial + 1
  BY DEF Tick, vars, ReadLimit, AnswerQueued, AnswerHandedOff, HandOff, SettleResolution,
         AssignMap, PutGrant, store, threads, locals
<1>4. serial' \in Nat /\ serial <= serial'
  BY <1>2, <1>3
<1> QED
  BY <1>1, <1>4, QueueStaysNumbered DEF Numbering, TrailStep

(* A refusal, racing or not: one row.                                      *)
LEMMA RefusalNumbers ==
    ASSUME NumberInv, NEW t \in Threads, NEW row \in Tier3Event, row.seq = serial + 1,
           RecordUnlocked(t, row), UNCHANGED pending
    PROVE  Numbering
<1>1. serial \in Nat /\ serial + 1 \in Nat /\ serial' = serial + 1
  BY DEF NumberInv, AuthorityInv, TypeOK, RecordUnlocked
<1>2. NextRows({row})
  BY <1>1, FewNumbered DEF NextRows
<1>3. Records \/ Interrupted
  <2> DEFINE appended == Recent(trail \cup {row}, now)
             capped == NewestPerClient(appended, AuditMax)
  <2>1. CASE t \in RacingRefusals
    <3>1. trail' = appended /\ kept' = [kept EXCEPT ![t] = capped]
      BY <2>1 DEF RecordUnlocked
    <3> QED
      BY <1>2, <3>1 DEF Interrupted
  <2>2. CASE t \notin RacingRefusals
    <3>1. trail' = record_tier3_event(trail, {row}, now) /\ UNCHANGED kept
      BY <2>2 DEF RecordUnlocked, record_tier3_event
    <3> QED
      BY <1>2, <3>1 DEF Records
  <2> QED
    BY <2>1, <2>2
<1> QED
  BY <1>1, <1>3, QueueStaysNumbered DEF Numbering, TrailStep

(* The 401s, the 403 for want of a mandate, and the 429 of a full queue.   *)
LEMMA RefusalsNumber ==
    ASSUME NumberInv,
           \/ \E s \in Strangers : RefuseStranger(s)
           \/ \E a \in Actions, c \in Clients, amount \in Amounts : RefuseNoGrant(a, c, amount)
           \/ \E a \in Actions : RefuseQueueFull(a)
    PROVE  Numbering
<1>1. TypeOK /\ OrderIsKnown /\ serial + 1 \in Nat /\ now \in Nat
  BY GatewayAssumption DEF NumberInv, AuthorityInv, TypeOK
<1>2. ASSUME NEW t \in Threads, NEW c \in Clients \cup {Unknown}, NEW amount \in Nat,
             NEW b \in Actions \cup {NoAction},
             RecordUnlocked(t, Event(serial + 1, c, amount, "rejected", b)), UNCHANGED pending
      PROVE  Numbering
  <2> DEFINE row == Event(serial + 1, c, amount, "rejected", b)
  <2>1. row \in Tier3Event /\ row.seq = serial + 1
    BY <1>1 DEF Event, Tier3Event, Outcomes
  <2>2. RecordUnlocked(t, row)
    BY <1>2
  <2> HIDE DEF row
  <2> QED
    BY <1>2, <2>1, <2>2, RefusalNumbers
<1>3. Amounts \subseteq Nat /\ Actions \subseteq Threads /\ Strangers \subseteq Threads
  BY GatewayAssumption DEF Threads
<1>4. ASSUME NEW s \in Strangers, RefuseStranger(s) PROVE Numbering
  BY <1>2, <1>3, <1>4 DEF RefuseStranger
<1>5. ASSUME NEW a \in Actions, NEW c \in Clients, NEW amount \in Amounts, RefuseNoGrant(a, c, amount)
      PROVE  Numbering
  BY <1>2, <1>3, <1>5 DEF RefuseNoGrant
<1>6. ASSUME NEW a \in Actions, RefuseQueueFull(a) PROVE Numbering
  <2>1. order[a].client \in Clients /\ order[a].amount \in Nat
    BY <1>1, <1>3, <1>6 DEF RefuseQueueFull, OrderIsKnown, Placed
  <2> QED
    BY <1>2, <1>3, <1>6, <2>1 DEF RefuseQueueFull
<1> QED
  BY <1>4, <1>5, <1>6

(* An order within the mandate: its reservation.                           *)
LEMMA ReserveNumbers ==
    ASSUME NumberInv, NEW a \in Actions, Reserve(a)
    PROVE  Numbering
<1> DEFINE row == Event(serial + 1, order[a].client, order[a].amount, "accepted", a)
<1>1. /\ OrderIsKnown /\ serial \in Nat /\ serial + 1 \in Nat /\ now \in Nat
      /\ Amounts \subseteq Nat
  BY GatewayAssumption DEF NumberInv, AuthorityInv, TypeOK
<1>2. /\ trail' = record_tier3_event(trail, {row}, now) /\ serial' = serial + 1
      /\ UNCHANGED <<kept, pending>> /\ req[a] = "limitRead"
  BY DEF Reserve
<1>3. order[a].client \in Clients /\ order[a].amount \in Nat
  BY <1>1, <1>2 DEF OrderIsKnown, Placed
<1>4. row \in Tier3Event /\ row.seq = serial + 1
  BY <1>1, <1>3 DEF Event, Tier3Event, Outcomes
<1> HIDE DEF row
<1>5. NextRows({row})
  BY <1>1, <1>2, <1>4, FewNumbered DEF NextRows
<1> QED
  BY <1>1, <1>2, <1>5, QueueStaysNumbered DEF Numbering, TrailStep, Records

(* The locked sections that append nothing of their own.                   *)
LEMMA SweepNumbers ==
    ASSUME NumberInv, \/ Sweep
                      \/ \E a \in Actions : Poll(a)
                      \/ \E a \in Actions : FindQueueFull(a)
    PROVE  Numbering
<1>1. PICK polled : Commit({}, {}, AfterSweep, polled)
  BY DEF Sweep, Poll, FindQueueFull
<1>2. pending' = Live /\ UNCHANGED kept
  BY DEF Sweep, Poll, FindQueueFull, locals
<1>3. AfterSweep \in Nat
  BY SweepType DEF NumberInv, AuthorityInv
<1>4. Records /\ serial' \in Nat /\ serial <= serial'
  BY <1>1, <1>2, <1>3, FewNumbered, CommitRecords
<1>5. QueueIsNumbered'
  BY <1>2, <1>4, QueueStaysNumbered DEF Live
<1> QED
  BY <1>4, <1>5 DEF Numbering, TrailStep

(* A locked section that appends one row, and at most one queue entry.     *)
LEMMA OneRowNumbers ==
    ASSUME NumberInv, NEW row \in Tier3Event, row.seq = AfterSweep + 1, NEW writes,
           Commit({row}, writes, AfterSweep + 1, {}), UNCHANGED kept,
           \A p \in pending' : p \in pending \/ p.seq = AfterSweep + 1,
           \A p, q \in pending' \ pending : p = q
    PROVE  Numbering
<1>1. TypeOK /\ IsFiniteSet(pending) /\ serial \in Nat /\ QueueIsNumbered
  BY DEF NumberInv, AuthorityInv, TypeOK
<1>2. AfterSweep \in Nat /\ serial <= AfterSweep
  <2>1. Overdue \in SUBSET pending
    BY DEF Overdue
  <2> QED
    BY <1>1, <2>1, SweepType DEF AfterSweep
<1>3. AfterSweep + 1 \in Nat /\ Numbered({row}, AfterSweep + 1)
  BY <1>2, FewNumbered
<1>4. serial' = AfterSweep + 1
  BY DEF Commit
<1>5. Records /\ serial' \in Nat /\ serial <= serial'
  BY <1>2, <1>3, CommitRecords
<1>6. \A p \in pending : p.seq \in Nat
  BY <1>1 DEF TypeOK, Tier3PendingAction
<1>7. QueueIsNumbered'
  BY <1>1, <1>2, <1>4, <1>6 DEF QueueIsNumbered
<1> QED
  BY <1>5, <1>7 DEF Numbering, TrailStep

(* An administrator's decision on a queue entry.                           *)
LEMMA DecisionNumbers ==
    ASSUME NumberInv, NEW p \in Live, Approve(p) \/ ApproveRevoked(p) \/ Reject(p)
    PROVE  Numbering
<1>1. /\ TypeOK /\ IsFiniteSet(pending) /\ now \in Nat /\ Amounts \subseteq Nat
      /\ pending \in SUBSET Tier3PendingAction /\ AfterSweep + 1 \in Nat
  BY SweepType, GatewayAssumption DEF NumberInv, AuthorityInv, TypeOK
<1>2. p \in pending /\ p.client \in Clients /\ p.amount \in Nat /\ p.action \in Actions
  BY <1>1 DEF Live, Tier3PendingAction
<1>3. PICK outcome \in {"accepted", "rejected"} :
        \E writes : Commit({Event(AfterSweep + 1, p.client, p.amount, outcome, p.action)}, writes,
                          AfterSweep + 1, {})
  BY DEF Approve, ApproveRevoked, Reject
<1>4. pending' = Live \ {p} /\ UNCHANGED kept
  BY DEF Approve, ApproveRevoked, Reject, locals
<1> DEFINE row == Event(AfterSweep + 1, p.client, p.amount, outcome, p.action)
<1>5. row \in Tier3Event /\ row.seq = AfterSweep + 1
  BY <1>1, <1>2 DEF Event, Tier3Event, Outcomes
<1>6. \E writes : Commit({row}, writes, AfterSweep + 1, {})
  BY <1>3
<1> HIDE DEF row
<1>7. pending' \subseteq pending
  BY <1>4 DEF Live
<1> QED
  BY <1>4, <1>5, <1>6, <1>7, OneRowNumbers

(* An order over the mandate: a row and a queue entry of the same number.  *)
LEMMA QueueNumbers ==
    ASSUME NumberInv, NEW a \in Actions, Queue(a)
    PROVE  Numbering
<1> DEFINE row == Event(AfterSweep + 1, order[a].client, order[a].amount, "queued", a)
           entry == [seq |-> AfterSweep + 1, action |-> a, client |-> order[a].client,
                     amount |-> order[a].amount, expires |-> now + PendingTTL,
                     crossed |-> MapIsBeingRebuilt]
<1>1. /\ TypeOK /\ OrderIsKnown /\ IsFiniteSet(pending) /\ now \in Nat /\ Amounts \subseteq Nat
      /\ AfterSweep + 1 \in Nat
  BY SweepType, GatewayAssumption DEF NumberInv, AuthorityInv, TypeOK
<1>2. /\ req[a] = "limitRead" /\ pending' = Live \cup {entry} /\ UNCHANGED kept
      /\ \E writes : Commit({row}, writes, AfterSweep + 1, {})
  BY DEF Queue
<1>3. order[a].client \in Clients /\ order[a].amount \in Nat
  BY <1>1, <1>2 DEF OrderIsKnown, Placed
<1>4. row \in Tier3Event /\ row.seq = AfterSweep + 1 /\ entry.seq = AfterSweep + 1
  BY <1>1, <1>3 DEF Event, Tier3Event, Outcomes
<1> HIDE DEF row, entry
<1>5. \A p \in pending' : p \in pending \/ p = entry
  BY <1>2 DEF Live
<1> QED
  BY <1>2, <1>4, <1>5, OneRowNumbers

(* delete_tier3_grant: one row for each entry it cancels.                  *)
LEMMA DeleteGrantNumbers ==
    ASSUME NumberInv, NEW c \in Clients, DeleteGrant(c)
    PROVE  Numbering
<1> DEFINE purged == {p \in Live : p.client = c}
           rows == ClosingRows(purged, AfterSweep, "rejected")
           last == AfterSweep + Cardinality(purged)
<1>1. TypeOK /\ IsFiniteSet(pending) /\ purged \in SUBSET pending
  BY DEF NumberInv, AuthorityInv, Live
<1>2. /\ Commit(rows, ClosingWrites(purged, AfterSweep, "rejected"), last, {})
      /\ pending' = Live \ purged /\ UNCHANGED kept
  BY DEF DeleteGrant, locals
<1>3. AfterSweep \in Nat /\ last \in Nat /\ AfterSweep <= last
  BY <1>1, SweepType
<1>4. rows \in SUBSET Tier3Event /\ Numbered(rows, last) /\ \A r \in rows : AfterSweep < r.seq
  BY <1>1, <1>3, ClosingNumbered
<1> HIDE DEF rows, last, purged
<1>5. Records /\ serial' \in Nat /\ serial <= serial'
  BY <1>2, <1>3, <1>4, CommitRecords
<1>6. QueueIsNumbered'
  BY <1>2, <1>5, QueueStaysNumbered DEF Live
<1> QED
  BY <1>5, <1>6 DEF Numbering, TrailStep

(* The settlement, the late assignment of a racing refusal, a restart.     *)
LEMMA OthersNumber ==
    ASSUME NumberInv, \/ \E a \in Actions : SettleEvent(a)
                      \/ \E t \in Threads : AssignTrail(t)
                      \/ Restart
    PROVE  Numbering
<1>1. serial \in Nat /\ serial' = serial /\ pending' \subseteq pending
  BY DEF NumberInv, AuthorityInv, TypeOK, SettleEvent, AssignTrail, Restart
<1>2. ASSUME NEW a \in Actions, SettleEvent(a) PROVE Settles
  <2> DEFINE seqs == {r.seq : r \in SettleTarget(trail, a)}
             outcome == SettledOutcome(result[a])
  <2>1. /\ trail' = SetOutcome(trail, seqs, outcome)
        /\ kept' = [t \in Threads |-> SetOutcome(kept[t], seqs, outcome)]
    BY <1>2 DEF SettleEvent
  <2> HIDE DEF seqs, outcome
  <2> QED
    BY <2>1 DEF Settles
<1>3. TrailStep
  BY <1>2 DEF TrailStep
<1> QED
  BY <1>1, <1>3, QueueStaysNumbered DEF Numbering

(* Every step is one of these.                                             *)
LEMMA NextNumbers ==
    ASSUME NumberInv, [Next]_vars
    PROVE  Numbering
<1>1. CASE Tick \/ UNCHANGED vars
  BY <1>1, OutsideNumbers
<1>2. CASE \E s \in Strangers : RefuseStranger(s)
  BY <1>2, RefusalsNumber
<1>3. CASE \E t \in Threads : AssignTrail(t)
  BY <1>3, OthersNumber
<1>4. ASSUME NEW a \in Actions, Arrive(a) PROVE Numbering
  BY <1>4, OutsideNumbers, RefusalsNumber DEF Arrive
<1>5. ASSUME NEW a \in Actions, OrderThread(a) PROVE Numbering
  BY <1>5, ReserveNumbers, QueueNumbers, SweepNumbers, RefusalsNumber, OutsideNumbers DEF OrderThread
<1>6. ASSUME NEW a \in Actions, HandoffThread(a) PROVE Numbering
  BY <1>6, OutsideNumbers, OthersNumber DEF HandoffThread
<1>7. ASSUME NEW a \in Actions, Poll(a) PROVE Numbering
  BY <1>7, SweepNumbers
<1>8. CASE Administer
  BY <1>8, OutsideNumbers, DeleteGrantNumbers, DecisionNumbers, SweepNumbers DEF Administer
<1>9. CASE Restart
  BY <1>9, OthersNumber
<1> QED
  BY <1>1, <1>2, <1>3, <1>4, <1>5, <1>6, <1>7, <1>8, <1>9 DEF Next

(* So every list stays numbered apart.                                     *)
LEMMA NumbersAreKept ==
    ASSUME NumberInv, [Next]_vars
    PROVE  NumberInv'
<1>1. AuthorityInv /\ AuthorityInv'
  BY NextInv DEF NumberInv
<1>2. TrailStep /\ serial' \in Nat /\ serial <= serial' /\ QueueIsNumbered'
  BY NextNumbers DEF Numbering
<1>3. /\ serial \in Nat /\ trail \in SUBSET Tier3Event /\ kept \in [Threads -> SUBSET Tier3Event]
      /\ AuditMax \in Nat
  BY <1>1, StoreAssumption DEF AuthorityInv, TypeOK
<1>4. Numbered(trail, serial) /\ \A t \in Threads : Numbered(kept[t], serial)
  BY DEF NumberInv
<1>5. Numbered(trail, serial') /\ \A t \in Threads : Numbered(kept[t], serial')
  BY <1>2, <1>3, <1>4, NumberedLater
<1>6. \A new : NextRows(new) => Numbered(trail \cup new, serial')
  BY <1>2, <1>3, <1>4, NumberedAppend DEF NextRows
<1> DEFINE Kept == Numbered(trail', serial') /\ \A t \in Threads : Numbered(kept'[t], serial')
<1> SUFFICES Kept
  BY <1>1, <1>2 DEF NumberInv
<1>7. CASE UNCHANGED <<trail, kept>>
  BY <1>5, <1>7
<1>8. CASE Records
  <2>1. PICK new : NextRows(new) /\ trail' = record_tier3_event(trail, new, now)
    BY <1>8 DEF Records
  <2>2. trail' \subseteq trail \cup new
    BY <2>1, NewestSubset DEF record_tier3_event, Recent
  <2>3. Numbered(trail', serial')
    BY <1>2, <1>6, <2>1, <2>2, NumberedSubset
  <2> QED
    BY <1>5, <1>8, <2>3 DEF Records
<1>9. CASE Interrupted
  <2>1. PICK new : NextRows(new) /\ trail' = Recent(trail \cup new, now)
    BY <1>9 DEF Interrupted
  <2>2. PICK t \in Threads : kept' = [kept EXCEPT ![t] = NewestPerClient(trail', AuditMax)]
    BY <1>9 DEF Interrupted
  <2>3. trail' \subseteq trail \cup new /\ NewestPerClient(trail', AuditMax) \subseteq trail'
    BY <2>1, NewestSubset DEF Recent
  <2>4. Numbered(trail', serial')
    BY <1>2, <1>6, <2>1, <2>3, NumberedSubset
  <2>5. Numbered(NewestPerClient(trail', AuditMax), serial')
    BY <1>2, <2>3, <2>4, NumberedSubset
  <2> QED
    BY <1>3, <1>5, <2>2, <2>4, <2>5
<1>10. CASE Settles
  <2>1. PICK seqs : \E outcome :
          /\ trail' = SetOutcome(trail, seqs, outcome)
          /\ kept' = [t \in Threads |-> SetOutcome(kept[t], seqs, outcome)]
    BY <1>10 DEF Settles
  <2>2. PICK outcome :
          /\ trail' = SetOutcome(trail, seqs, outcome)
          /\ kept' = [t \in Threads |-> SetOutcome(kept[t], seqs, outcome)]
    BY <2>1
  <2>3. Numbered(trail', serial')
    BY <1>2, <1>3, <1>5, <2>2, NumberedSettled
  <2>4. ASSUME NEW t \in Threads PROVE Numbered(kept'[t], serial')
    BY <1>2, <1>3, <1>5, <2>2, NumberedSettled
  <2> QED
    BY <2>3, <2>4
<1>11. ASSUME NEW t \in Threads, AssignTrail(t) PROVE Kept
  <2>1. trail' = kept[t] /\ kept' = [kept EXCEPT ![t] = {}]
    BY <1>11 DEF AssignTrail
  <2> QED
    BY <1>2, <1>3, <1>5, <2>1, FewNumbered
<1>12. CASE Restart
  <2>1. trail' = {} /\ kept' = [t \in Threads |-> {}]
    BY <1>12 DEF Restart
  <2> QED
    BY <1>2, <2>1, FewNumbered
<1> QED
  BY <1>2, <1>7, <1>8, <1>9, <1>10, <1>11, <1>12 DEF TrailStep

(* An empty trail and an empty queue are numbered apart.                   *)
LEMMA InitNumbers == Init => NumberInv
<1> SUFFICES ASSUME Init PROVE NumberInv
  OBVIOUS
<1>1. AuthorityInv
  BY InitInv
<1>2. serial \in Nat /\ trail = {} /\ kept = [t \in Threads |-> {}] /\ pending = {}
  BY DEF Init
<1> QED
  BY <1>1, <1>2, FewNumbered DEF NumberInv, QueueIsNumbered

(* A row in the window leaves for newer rows of its own client.            *)
LEMMA EvictionStep ==
    ASSUME NumberInv, [Next]_vars, NEW e \in trail, InWindow(e.at, now), ~ Restart,
           \A f \in trail' : f.seq # e.seq, rebuilding \subseteq rebuilding'
    PROVE  Cardinality({f \in trail' : f.client = e.client /\ f.seq > e.seq}) >= AuditMax
<1>1. /\ trail \in SUBSET Tier3Event /\ serial \in Nat /\ AuditMax \in Nat
      /\ Numbered(trail, serial)
  BY StoreAssumption DEF NumberInv, AuthorityInv, TypeOK
<1>2. TrailStep /\ serial' \in Nat /\ serial <= serial'
  BY NextNumbers DEF Numbering
<1>3. e \notin trail'
  OBVIOUS
<1>4. ASSUME NEW t \in Threads, AssignTrail(t) PROVE FALSE
  BY <1>4 DEF AssignTrail
<1>5. ~ Settles
  <2>1. ASSUME NEW seqs, NEW outcome, trail' = SetOutcome(trail, seqs, outcome)
        PROVE  FALSE
    <3>1. \A r \in trail : \E f \in trail' : f.seq = r.seq
      BY <1>1, <2>1, NumberedSettled
    <3> QED
      BY <3>1
  <2> QED
    BY <2>1 DEF Settles
<1>6. ~ Interrupted
  BY <1>3 DEF Interrupted, Recent
<1>7. Records
  BY <1>2, <1>3, <1>4, <1>5, <1>6 DEF TrailStep
<1>8. PICK new : NextRows(new) /\ trail' = record_tier3_event(trail, new, now)
  BY <1>7 DEF Records
<1> DEFINE recent == Recent(trail \cup new, now)
<1>9. new # {} /\ trail' = NewestPerClient(recent, AuditMax)
  BY <1>3, <1>8 DEF record_tier3_event
<1>10. e \in recent /\ recent \subseteq trail \cup new
  BY DEF Recent
<1>11. Numbered(recent, serial')
  <2>1. Numbered(trail \cup new, serial')
    BY <1>1, <1>2, <1>8, NumberedAppend DEF NextRows
  <2> QED
    BY <1>2, <1>10, <2>1, NumberedSubset
<1>12. recent \in SUBSET Tier3Event
  BY <1>1, <1>8, <1>10 DEF NextRows
<1> HIDE DEF recent
<1> QED
  BY <1>1, <1>3, <1>9, <1>10, <1>11, <1>12, DroppedForNewer DEF Numbered

(* In every interleaving, a racing refusal's included, no client's rows    *)
(* are evicted for another client's (record_tier3_event's cap).            *)
THEOREM EvictionIsOwn == Spec => EvictsOnlyOwn
<1>1. NumberInv /\ [Next]_vars => NumberInv'
  BY NumbersAreKept
<1>2. NumberInv /\ [Next]_vars =>
        [\A e \in trail :
          (/\ InWindow(e.at, now)
           /\ ~ Restart
           /\ \A f \in trail' : f.seq # e.seq
           /\ rebuilding \subseteq rebuilding') =>
              Cardinality({f \in trail' : f.client = e.client /\ f.seq > e.seq}) >= AuditMax]_vars
  BY EvictionStep
<1> QED
  BY <1>1, <1>2, InitNumbers, PTL DEF Spec, EvictsOnlyOwn
=============================================================================
