---------------------------- MODULE Tier3Gateway ----------------------------
(***************************************************************************)
(* Tier 3 of the verify gateway: mandates, orders, the approval queue, the *)
(* handoff to the internal agent and its settlement.                       *)
(*                                                                         *)
(* FastAPI runs every handler in a thread of its own.  A section under     *)
(* store.tier3_lock is one action; what a handler does outside the lock is *)
(* one action per access to the shared store.  An action id names one      *)
(* order; its request thread (`req'), and the thread that executes it, its *)
(* own or the approving admin's (`hand'), run independently.  The agent is *)
(* here only the HandoffResult that execute_handoff returns.               *)
(***************************************************************************)
EXTENDS Tier3Store

CONSTANTS
    Clients,      \* authenticated client ids
    Unknown,      \* the literal "unknown" that unauthenticated requests are recorded under
    Actions,      \* action ids: each is minted by one order
    NoAction,     \* action_id = None in an audit row
    Strangers,    \* request threads refused before a client id is known
    Amounts,      \* amount_cents
    Limits,       \* weekly_limit_cents
    NoGrant,      \* tier3_grants.get(client_id) is None
    PendingTTL,   \* tier3_pending_ttl_seconds
    PendingMax,   \* tier3_pending_max_per_client
    MaxTime,      \* bound of the clock
    RacingRefusals,    \* threads inside whose unlocked rebuild of the audit
                       \* trail other threads run
    RacingSettlements, \* actions inside whose unlocked rebuild of the
                       \* resolution map other threads run
    MayRestart         \* whether the process may be restarted

ASSUME GatewayAssumption ==
    /\ Unknown \notin Clients
    /\ NoAction \notin Actions
    /\ Strangers \cap Actions = {}
    /\ IsFiniteSet(Actions) /\ IsFiniteSet(Strangers)
    /\ Amounts \subseteq Nat \ {0}
    /\ Limits \subseteq Nat \ {0}
    /\ NoGrant \notin Limits
    /\ PendingTTL \in Nat \ {0}
    /\ PendingMax \in Nat \ {0}
    /\ MaxTime \in Nat

ASSUME RacingAssumption ==
    /\ RacingRefusals \subseteq Actions \cup Strangers
    /\ RacingSettlements \subseteq Actions
    /\ MayRestart \in BOOLEAN

VARIABLES
    now,          \* time.time()
    serial,       \* insertions into the trail and the resolution map so far
    grants,       \* tier3_grants
    trail,        \* tier3_events
    pending,      \* tier3_pending
    resolutions,  \* tier3_resolutions
    order,        \* per action: what its threads hold in local variables
    req,          \* per request thread: where it is
    hand,         \* per action: where its handoff is
    result,       \* per action: the kind of its HandoffResult
    handoffs,     \* per action: how often execute_handoff was called (history)
    rebuilding,   \* threads between their append and their assignment of the trail
    kept,         \* per thread: the list such a thread is about to assign
    keptMap       \* per action: the map its settlement is about to assign

store == <<grants, trail, pending, resolutions, serial>>
locals == <<order, req, hand, result, handoffs, rebuilding, kept>>
threads == <<locals, keptMap>>
vars == <<now, store, threads>>

Threads == Actions \cup Strangers

Outcomes == {"accepted", "rejected", "queued", "expired"}
Statuses == {"queued", "executed", "failed", "rejected", "expired", "execution_unknown"}
Results  == {"executed", "failed", "down", "unknown"}

(* A request thread, and the handoff of an action.  `lost': it was under   *)
(* way, or was made, in a process that has been restarted since.           *)
ReqStates ==
    {"idle", "limitRead", "full", "queued", "handedOff", "answered", "refused", "error", "lost"}
HandStates == {"none", "due", "returned", "audited", "rebuilding", "settled", "lost"}

Tier3Event ==
    [seq : Nat, at : Nat, client : Clients \cup {Unknown}, amount : Nat,
     outcome : Outcomes, action : Actions \cup {NoAction}]

Tier3PendingAction ==
    [seq : Nat, action : Actions, client : Clients, amount : Amounts, expires : Nat,
     crossed : BOOLEAN]  \* queued while a settlement was in its rebuild (history)

Tier3Resolution ==
    [seq : Nat, action : Actions, client : Clients, status : Statuses, updated : Nat]

(* What the threads of one action hold: who ordered what, the limit they   *)
(* read, and when they reserved.                                           *)
Order ==
    [client : Clients \cup {Unknown}, amount : Nat, limit : Limits \cup {NoGrant},
     at : Nat]

NoOrder == [client |-> Unknown, amount |-> 0, limit |-> NoGrant, at |-> 0]

TypeOK ==
    /\ now \in 0..MaxTime
    /\ serial \in Nat
    /\ grants \in [Clients -> Limits \cup {NoGrant}]
    /\ trail \in SUBSET Tier3Event
    /\ pending \in SUBSET Tier3PendingAction
    /\ resolutions \in SUBSET Tier3Resolution
    /\ order \in [Actions -> Order]
    /\ req \in [Threads -> ReqStates]
    /\ hand \in [Actions -> HandStates]
    /\ result \in [Actions -> Results \cup {"none"}]
    /\ handoffs \in [Actions -> Nat]
    /\ rebuilding \in SUBSET Threads
    /\ kept \in [Threads -> SUBSET Tier3Event]
    /\ keptMap \in [Actions -> SUBSET Tier3Resolution]

Init ==
    /\ now = 0
    /\ serial = 0
    /\ grants = [c \in Clients |-> NoGrant]
    /\ trail = {}
    /\ pending = {}
    /\ resolutions = {}
    /\ order = [a \in Actions |-> NoOrder]
    /\ req = [t \in Threads |-> "idle"]
    /\ hand = [a \in Actions |-> "none"]
    /\ result = [a \in Actions |-> "none"]
    /\ handoffs = [a \in Actions |-> 0]
    /\ rebuilding = {}
    /\ kept = [t \in Threads |-> {}]
    /\ keptMap = [a \in Actions |-> {}]

Tick ==
    /\ now < MaxTime
    /\ now' = now + 1
    /\ UNCHANGED <<store, threads>>
-----------------------------------------------------------------------------
(* Writes to the store under the lock. *)

Event(n, c, amount, outcome, a) ==
    [seq |-> n, at |-> now, client |-> c, amount |-> amount, outcome |-> outcome, action |-> a]

(* A set of queue entries leaves the queue: one audit row and one          *)
(* resolution each, in queue order, numbered after `from'.                 *)
Rank(p, S) == Cardinality({q \in S : q.seq <= p.seq})

ClosingRows(S, from, outcome) ==
    {Event(from + Rank(p, S), p.client, p.amount, outcome, p.action) : p \in S}

ClosingWrites(S, from, status) ==
    {[action |-> p.action, client |-> p.client, status |-> status, seq |-> from + Rank(p, S)] : p \in S}

(* prune_tier3_pending closes the overdue entries before anything else.    *)
Overdue == {p \in pending : now > p.expires}
Live == pending \ Overdue
AfterSweep == serial + Cardinality(Overdue)

(* prune_tier3_pending, then the rows and resolutions of the handler.  An  *)
(* entry changed in place is shared with the maps about to be assigned.    *)
(* `last' is the number of the last insertion; `polled' the actions whose  *)
(* entry the handler then drops if it has outlived its TTL.                *)
Commit(rows, writes, last, polled) ==
    LET all == ClosingWrites(Overdue, serial, "expired") \cup writes
        inPlace == {w \in all : Known(resolutions, w.action)}
    IN  /\ trail' = record_tier3_event(trail, ClosingRows(Overdue, serial, "expired") \cup rows, now)
        /\ resolutions' = {r \in set_tier3_resolution(resolutions, all, now) :
                              r.action \in polled => now - r.updated <= ResolutionTTL}
        /\ keptMap' = [b \in Actions |-> Overwrite(keptMap[b], inPlace, now)]
        /\ serial' = last

(* Mutant: only the usage so far is compared with the limit. *)
UsageWithinMandate(used, amount, limit) == used <= limit

WithinMandate(used, amount, limit) == used + amount <= limit

(* Mutant: the cap is off by one. *)
QueueIsOverfull(c) == Cardinality({p \in Live : p.client = c}) > PendingMax

QueueIsFull(c) == Cardinality({p \in Live : p.client = c}) >= PendingMax
-----------------------------------------------------------------------------
(* record_tier3_event outside the lock: a refused request.  The thread     *)
(* appends and assigns the age-pruned list, computes the capped one, and   *)
(* assigns that.  Unless it is racing nothing happens in between.          *)
RecordUnlocked(t, row) ==
    LET appended == Recent(trail \cup {row}, now)
        capped == NewestPerClient(appended, AuditMax)
    IN  /\ serial' = serial + 1
        /\ IF t \in RacingRefusals
             THEN /\ trail' = appended
                  /\ kept' = [kept EXCEPT ![t] = capped]
                  /\ rebuilding' = rebuilding \cup {t}
             ELSE /\ trail' = capped
                  /\ UNCHANGED <<kept, rebuilding>>

AssignTrail(t) ==
    /\ t \in rebuilding
    /\ trail' = kept[t]
    /\ kept' = [kept EXCEPT ![t] = {}]
    /\ rebuilding' = rebuilding \ {t}
    /\ UNCHANGED <<now, serial, grants, pending, resolutions, order, req, hand, result, handoffs, keptMap>>

(* No client certificate, no bearer token, or a token introspection turns  *)
(* down: the client id is not known.                                       *)
RefuseStranger(s) ==
    /\ req[s] = "idle"
    /\ \E amount \in Amounts : RecordUnlocked(s, Event(serial + 1, Unknown, amount, "rejected", NoAction))
    /\ req' = [req EXCEPT ![s] = "refused"]
    /\ UNCHANGED <<now, grants, pending, resolutions, order, hand, result, handoffs, keptMap>>

RefuseNoGrant(a, c, amount) ==
    /\ req[a] = "idle"
    /\ grants[c] = NoGrant
    /\ RecordUnlocked(a, Event(serial + 1, c, amount, "rejected", NoAction))
    /\ req' = [req EXCEPT ![a] = "refused"]
    /\ UNCHANGED <<now, grants, pending, resolutions, order, hand, result, handoffs, keptMap>>

(* create_tier3_order reads the limit before it takes the lock.            *)
ReadLimit(a, c, amount) ==
    /\ req[a] = "idle"
    /\ grants[c] # NoGrant
    /\ order' = [order EXCEPT ![a] = [NoOrder EXCEPT !.client = c, !.amount = amount, !.limit = grants[c]]]
    /\ req' = [req EXCEPT ![a] = "limitRead"]
    /\ UNCHANGED <<now, store, hand, result, handoffs, rebuilding, kept, keptMap>>
-----------------------------------------------------------------------------
(* create_tier3_order: the locked section and what follows it. *)

Used(c) == tier3_used_cents(trail, c, now)

StartHandoff(a, limit) ==
    /\ order' = [order EXCEPT ![a].limit = limit, ![a].at = now]
    /\ hand' = [hand EXCEPT ![a] = "due"]

(* Within the mandate: the reservation is the accepted audit row.          *)
Reserve(a) ==
    LET o == order[a]
    IN  /\ req[a] = "limitRead"
        /\ WithinMandate(Used(o.client), o.amount, o.limit)
        /\ trail' = record_tier3_event(trail,
                        {Event(serial + 1, o.client, o.amount, "accepted", a)}, now)
        /\ serial' = serial + 1
        /\ StartHandoff(a, o.limit)
        /\ req' = [req EXCEPT ![a] = "handedOff"]
        /\ UNCHANGED <<now, grants, pending, resolutions, result, handoffs, rebuilding, kept, keptMap>>

(* A settlement is between its copy of the resolution map and the copy's   *)
(* assignment.                                                             *)
MapIsBeingRebuilt == \E b \in Actions : hand[b] = "rebuilding"

(* Over the mandate: queued for a human, if the client has a free slot.    *)
Queue(a) ==
    LET o == order[a]
        n == AfterSweep + 1
    IN  /\ req[a] = "limitRead"
        /\ ~ WithinMandate(Used(o.client), o.amount, o.limit)
        /\ ~ QueueIsFull(o.client)
        /\ Commit({Event(n, o.client, o.amount, "queued", a)},
                  {[action |-> a, client |-> o.client, status |-> "queued", seq |-> n]}, n, {})
        /\ pending' = Live \cup {[seq |-> n, action |-> a, client |-> o.client,
                                  amount |-> o.amount, expires |-> now + PendingTTL,
                                  crossed |-> MapIsBeingRebuilt]}
        /\ req' = [req EXCEPT ![a] = "queued"]
        /\ UNCHANGED <<now, grants, order, hand, result, handoffs, rebuilding, kept>>

(* No free slot: the locked section only prunes, the refusal is recorded   *)
(* after the lock is released.                                             *)
FindQueueFull(a) ==
    LET o == order[a]
    IN  /\ req[a] = "limitRead"
        /\ ~ WithinMandate(Used(o.client), o.amount, o.limit)
        /\ QueueIsFull(o.client)
        /\ Commit({}, {}, AfterSweep, {})
        /\ pending' = Live
        /\ req' = [req EXCEPT ![a] = "full"]
        /\ UNCHANGED <<now, grants, order, hand, result, handoffs, rebuilding, kept>>

RefuseQueueFull(a) ==
    /\ req[a] = "full"
    /\ RecordUnlocked(a, Event(serial + 1, order[a].client, order[a].amount, "rejected", a))
    /\ req' = [req EXCEPT ![a] = "refused"]
    /\ UNCHANGED <<now, grants, pending, resolutions, order, hand, result, handoffs, keptMap>>

(* The 202 reads tier3_pending[action_id].expires_at after the lock was    *)
(* released: a KeyError, and a 500, when the entry has left the queue.     *)
AnswerQueued(a) ==
    /\ req[a] = "queued"
    /\ req' = [req EXCEPT ![a] = IF \E p \in pending : p.action = a THEN "answered" ELSE "error"]
    /\ UNCHANGED <<now, store, order, hand, result, handoffs, rebuilding, kept, keptMap>>
-----------------------------------------------------------------------------
(* The administrator's handlers and the poll. *)

PutGrant(c, limit) ==
    /\ grants' = [grants EXCEPT ![c] = limit]
    /\ UNCHANGED <<now, serial, trail, pending, resolutions, threads>>

(* Mutant: the queue's entries are closed in the audit trail and for the   *)
(* poll, but stay in the queue.                                            *)
DeleteGrantKeepingQueue(c) ==
    LET purged == {p \in Live : p.client = c}
    IN  /\ grants' = [grants EXCEPT ![c] = NoGrant]
        /\ Commit(ClosingRows(purged, AfterSweep, "rejected"),
                  ClosingWrites(purged, AfterSweep, "rejected"),
                  AfterSweep + Cardinality(purged), {})
        /\ pending' = Live
        /\ UNCHANGED <<now, locals>>

(* delete_tier3_grant: revoking a mandate also cancels its queue.          *)
DeleteGrant(c) ==
    LET purged == {p \in Live : p.client = c}
    IN  /\ grants' = [grants EXCEPT ![c] = NoGrant]
        /\ Commit(ClosingRows(purged, AfterSweep, "rejected"),
                  ClosingWrites(purged, AfterSweep, "rejected"),
                  AfterSweep + Cardinality(purged), {})
        /\ pending' = Live \ purged
        /\ UNCHANGED <<now, locals>>

(* list_tier3_approvals, and an approve or reject that answers 404.        *)
Sweep ==
    /\ Commit({}, {}, AfterSweep, {})
    /\ pending' = Live
    /\ UNCHANGED <<now, grants, locals>>

(* get_tier3_order_status: prune, then drop the entry if it has outlived   *)
(* its TTL.                                                                *)
Poll(a) ==
    /\ Known(resolutions, a)
    /\ Commit({}, {}, AfterSweep, {a})
    /\ pending' = Live
    /\ UNCHANGED <<now, grants, locals>>

(* Mutant: the entry is read, not popped. *)
ApproveWithoutPop(p) ==
    LET n == AfterSweep + 1
    IN  /\ grants[p.client] # NoGrant
        /\ Commit({Event(n, p.client, p.amount, "accepted", p.action)}, {}, n, {})
        /\ pending' = Live
        /\ StartHandoff(p.action, grants[p.client])
        /\ UNCHANGED <<now, grants, req, result, handoffs, rebuilding, kept>>

(* approve_tier3_action: the pop, the grant's re-check, the reservation.   *)
Approve(p) ==
    LET n == AfterSweep + 1
    IN  /\ grants[p.client] # NoGrant
        /\ Commit({Event(n, p.client, p.amount, "accepted", p.action)}, {}, n, {})
        /\ pending' = Live \ {p}
        /\ StartHandoff(p.action, grants[p.client])
        /\ UNCHANGED <<now, grants, req, result, handoffs, rebuilding, kept>>

(* Mutant: the 409 leaves the entry in the queue. *)
ApproveRevokedWithoutPop(p) ==
    LET n == AfterSweep + 1
    IN  /\ grants[p.client] = NoGrant
        /\ Commit({Event(n, p.client, p.amount, "rejected", p.action)},
                  {[action |-> p.action, client |-> p.client, status |-> "rejected", seq |-> n]}, n, {})
        /\ pending' = Live
        /\ UNCHANGED <<now, grants, locals>>

(* 409: the mandate is gone; the entry is consumed all the same.           *)
ApproveRevoked(p) ==
    LET n == AfterSweep + 1
    IN  /\ grants[p.client] = NoGrant
        /\ Commit({Event(n, p.client, p.amount, "rejected", p.action)},
                  {[action |-> p.action, client |-> p.client, status |-> "rejected", seq |-> n]}, n, {})
        /\ pending' = Live \ {p}
        /\ UNCHANGED <<now, grants, locals>>

(* Mutant: the entry is read, not popped. *)
RejectWithoutPop(p) ==
    LET n == AfterSweep + 1
    IN  /\ Commit({Event(n, p.client, p.amount, "rejected", p.action)},
                  {[action |-> p.action, client |-> p.client, status |-> "rejected", seq |-> n]}, n, {})
        /\ pending' = Live
        /\ UNCHANGED <<now, grants, locals>>

Reject(p) ==
    LET n == AfterSweep + 1
    IN  /\ Commit({Event(n, p.client, p.amount, "rejected", p.action)},
                  {[action |-> p.action, client |-> p.client, status |-> "rejected", seq |-> n]}, n, {})
        /\ pending' = Live \ {p}
        /\ UNCHANGED <<now, grants, locals>>
-----------------------------------------------------------------------------
(* The handoff, and _settle_handoff, run outside the lock. *)

HandOff(a, kind) ==
    /\ hand[a] = "due"
    /\ result' = [result EXCEPT ![a] = kind]
    /\ handoffs' = [handoffs EXCEPT ![a] = @ + 1]
    /\ hand' = [hand EXCEPT ![a] = "returned"]
    /\ UNCHANGED <<now, store, order, req, rebuilding, kept, keptMap>>

(* Mutant: an unknown outcome releases the budget. *)
OnlyExecutedAccepted(kind) == IF kind = "executed" THEN "accepted" ELSE "rejected"

SettledOutcome(kind) == IF kind \in {"failed", "down"} THEN "rejected" ELSE "accepted"

(* Mutant: the kind is shown to the caller as it is. *)
KindAsStatus(kind) == kind

SettledStatus(kind) ==
    CASE kind = "executed" -> "executed"
      [] kind = "unknown" -> "execution_unknown"
      [] OTHER -> "failed"

(* settle_tier3_event changes the reservation's row object in place, in    *)
(* the trail and in every list that is about to replace it.                *)
SettleEvent(a) ==
    LET seqs == {r.seq : r \in SettleTarget(trail, a)}
        outcome == SettledOutcome(result[a])
    IN  /\ hand[a] = "returned"
        /\ trail' = SetOutcome(trail, seqs, outcome)
        /\ kept' = [t \in Threads |-> SetOutcome(kept[t], seqs, outcome)]
        /\ hand' = [hand EXCEPT ![a] = "audited"]
        /\ UNCHANGED <<now, serial, grants, pending, resolutions, order, req, result, handoffs, rebuilding, keptMap>>

(* set_tier3_resolution, unlocked: in place for a human-approved action,   *)
(* an insertion and a rebuild of the whole map for one within the mandate. *)
SettleResolution(a) ==
    LET write == [action |-> a, client |-> order[a].client,
                  status |-> SettledStatus(result[a]), seq |-> serial + 1]
        written == set_tier3_resolution(resolutions, {write}, now)
        inserts == ~ Known(resolutions, a)
        shared == IF inserts THEN {} ELSE {write}
    IN  /\ hand[a] = "audited"
        /\ serial' = IF inserts THEN serial + 1 ELSE serial
        /\ IF inserts /\ a \in RacingSettlements
             THEN /\ resolutions' = Unexpired(resolutions \cup Created(resolutions, {write}, now), now)
                  /\ keptMap' = [keptMap EXCEPT ![a] = written]
                  /\ hand' = [hand EXCEPT ![a] = "rebuilding"]
             ELSE /\ resolutions' = written
                  /\ keptMap' = [b \in Actions |-> Overwrite(keptMap[b], shared, now)]
                  /\ hand' = [hand EXCEPT ![a] = "settled"]
        /\ UNCHANGED <<now, grants, trail, pending, order, req, result, handoffs, rebuilding, kept>>

AssignMap(a) ==
    /\ hand[a] = "rebuilding"
    /\ resolutions' = keptMap[a]
    /\ keptMap' = [keptMap EXCEPT ![a] = {}]
    /\ hand' = [hand EXCEPT ![a] = "settled"]
    /\ UNCHANGED <<now, serial, grants, trail, pending, order, req, result, handoffs, rebuilding, kept>>

(* Mutant: only an executed order is answered. *)
AnswerExecuted(a) ==
    /\ req[a] = "handedOff"
    /\ hand[a] = "settled"
    /\ result[a] = "executed"
    /\ req' = [req EXCEPT ![a] = "answered"]
    /\ UNCHANGED <<now, store, order, hand, result, handoffs, rebuilding, kept, keptMap>>

(* The order's own thread answers once its handoff is settled.             *)
AnswerHandedOff(a) ==
    /\ req[a] = "handedOff"
    /\ hand[a] = "settled"
    /\ req' = [req EXCEPT ![a] = "answered"]
    /\ UNCHANGED <<now, store, order, hand, result, handoffs, rebuilding, kept, keptMap>>
-----------------------------------------------------------------------------
(* The process is killed and started again.  The store is a fresh Store(): *)
(* mandates, ledger, queue and resolutions are gone, and so are the        *)
(* threads.  The agent has run an action, or will, whose handoff was under *)
(* way (a restart from `returned'), or never sees it (from `due').         *)
Restart ==
    /\ MayRestart
    /\ grants' = [c \in Clients |-> NoGrant]
    /\ trail' = {} /\ pending' = {} /\ resolutions' = {}
    /\ req' = [t \in Threads |->
                  IF req[t] \in {"limitRead", "full", "queued", "handedOff"} THEN "lost" ELSE req[t]]
    /\ hand' = [a \in Actions |-> IF hand[a] = "none" THEN "none" ELSE "lost"]
    /\ rebuilding' = {}
    /\ kept' = [t \in Threads |-> {}]
    /\ keptMap' = [a \in Actions |-> {}]
    /\ UNCHANGED <<now, serial, order, result, handoffs>>
-----------------------------------------------------------------------------
OrderThread(a) ==
    \/ Reserve(a) \/ Queue(a) \/ FindQueueFull(a) \/ RefuseQueueFull(a)
    \/ AnswerQueued(a) \/ AnswerHandedOff(a)

HandoffThread(a) ==
    \/ \E kind \in Results : HandOff(a, kind)
    \/ SettleEvent(a) \/ SettleResolution(a) \/ AssignMap(a)

Arrive(a) ==
    \E c \in Clients, amount \in Amounts : ReadLimit(a, c, amount) \/ RefuseNoGrant(a, c, amount)

Administer ==
    \/ \E c \in Clients, limit \in Limits : PutGrant(c, limit)
    \/ \E c \in Clients : DeleteGrant(c)
    \/ \E p \in Live : Approve(p) \/ ApproveRevoked(p) \/ Reject(p)
    \/ Sweep

Next ==
    \/ Tick
    \/ \E s \in Strangers : RefuseStranger(s)
    \/ \E t \in Threads : AssignTrail(t)
    \/ \E a \in Actions : Arrive(a) \/ OrderThread(a) \/ HandoffThread(a) \/ Poll(a)
    \/ Administer
    \/ Restart

Spec == Init /\ [][Next]_vars

(* A thread of the server that can run does run; nobody is obliged to send *)
(* a request, and no administrator to decide.                              *)
Fairness ==
    /\ \A a \in Actions : WF_vars(OrderThread(a)) /\ WF_vars(HandoffThread(a))
    /\ \A t \in Threads : WF_vars(AssignTrail(t))

FairSpec == Spec /\ Fairness
-----------------------------------------------------------------------------
(* Properties.  What the clients really spent in the life of this process  *)
(* is read off the threads, not off the audit trail.                       *)

Released(a) ==
    hand[a] \in {"audited", "rebuilding", "settled"} /\ result[a] \in {"failed", "down"}

Spent(c) ==
    MapThenSumSet(LAMBDA a : order[a].amount,
                  {a \in Actions : /\ hand[a] \notin {"none", "lost"} /\ ~ Released(a)
                                   /\ order[a].client = c /\ InWindow(order[a].at, now)})

(* The audit trail is the usage ledger: at every moment the accepted rows  *)
(* in the window add up to the reservations that were not released         *)
(* (Tier3Event's docstring; record_, settle_ and tier3_used_cents).        *)
UsageIsSpend == \A c \in Clients : Used(c) = Spent(c)

(* Concurrent orders see each other's reservations and cannot jointly      *)
(* exceed the mandate: whenever create_tier3_order reserves within the     *)
(* mandate, all that the client has really spent in the window, this order *)
(* included, is within the limit the order read.                           *)
JointMandate ==
    [][\A a \in Actions : (req[a] = "limitRead" /\ req'[a] = "handedOff") =>
          (Spent(order[a].client))' <= order[a].limit]_vars

(* A refused action is never executed, nor an executed one refused: the    *)
(* poll says rejected or expired only of an action no thread handed to the *)
(* agent (pop under the lock in approve, reject, prune and delete_grant).  *)
RefusedNeverExecuted ==
    /\ \A r \in resolutions : r.status \in {"rejected", "expired"} => hand[r.action] = "none"
    /\ \A a \in Actions : req[a] \in {"full", "refused"} => hand[a] = "none"

(* execute_handoff is called at most once per action id, however many      *)
(* administrators approve, reject, revoke or poll it at the same time      *)
(* ("Double-approve is structurally impossible").                          *)
AtMostOneHandoff == \A a \in Actions : handoffs[a] <= 1

(* An action awaiting a human's decision can be polled: until it expires,  *)
(* its id has a "queued" entry in the resolution map, whatever settlements *)
(* rebuild that map outside the lock.  Only an order queued while one of   *)
(* them was between its copy and its assignment may lose its entry.        *)
PendingIsPollable ==
    \A p \in Live : ~ p.crossed =>
        \E r \in resolutions : r.action = p.action /\ r.status = "queued"

(* A caller that has polled a final status never sees another one (where   *)
(* settlements do not interrupt one another: RacingSettlements = {}).      *)
ResolutionFinal ==
    [][\A r \in resolutions : \A s \in resolutions' :
          (r.action = s.action /\ r.status # "queued") => s.status = r.status]_vars

(* Once a handoff is settled the poll and the audit trail tell the same    *)
(* story: the budget is consumed exactly when the caller is told that the  *)
(* action was, or may have been, executed.                                 *)
PollAgreesWithAudit ==
    \A a \in Actions : hand[a] = "settled" =>
        \A r \in resolutions, e \in SettleTarget(trail, a) : r.action = a =>
            (e.outcome = "accepted" <=> r.status \in {"executed", "execution_unknown"})

(* settle_tier3_event finds the reservation or nothing: a human-approved   *)
(* action has an older "queued" row with the same id, and the cap must not *)
(* leave that one as the newest match.                                     *)
SettleHitsReservation ==
    \A a \in Actions : hand[a] \in {"due", "returned"} =>
        \A e \in SettleTarget(trail, a) : e.outcome = "accepted" /\ e.at = order[a].at

(* The audit cap is per client: a row inside the window leaves the trail   *)
(* only when tier3_audit_max newer rows of the same client stay in it      *)
(* (record_tier3_event: no one evicts another client's entries), when a    *)
(* racing refusal assigns the list it had made before, or in a restart.    *)
EvictsOnlyOwn ==
    [][\A e \in trail :
          (/\ InWindow(e.at, now)
           /\ ~ Restart
           /\ \A f \in trail' : f.seq # e.seq
           /\ rebuilding \subseteq rebuilding') =>
              Cardinality({f \in trail' : f.client = e.client /\ f.seq > e.seq}) >= AuditMax]_vars

(* The inductive invariant behind AtMostOneHandoff and                     *)
(* RefusedNeverExecuted.  `Started': the locked section of                 *)
(* create_tier3_order has reserved or queued the action, or its process is *)
(* gone and it never will.                                                 *)
Started == {"queued", "handedOff", "answered", "error", "lost"}

HandoffCounted ==
    \A a \in Actions :
        /\ hand[a] \in {"none", "due"} => handoffs[a] = 0
        /\ hand[a] \notin {"none", "due"} => handoffs[a] \in 0..1

UnstartedIsFree == \A a \in Actions : req[a] \notin Started => hand[a] = "none"

(* The order itself is in the thread's local variables from ReadLimit on.  *)
Placed == Started \cup {"limitRead", "full"}

OrderIsKnown ==
    \A a \in Actions : req[a] \in Placed => order[a].client \in Clients /\ order[a].amount \in Amounts

PendingIsFree ==
    /\ \A p \in pending : req[p.action] \in Started /\ hand[p.action] = "none"
    /\ \A p, q \in pending : p.action = q.action => p = q

RowIsTrue(r) ==
    /\ req[r.action] \in Started
    /\ r.status \in {"rejected", "expired"} => hand[r.action] = "none"
    /\ \A p \in pending : p.action = r.action => r.status = "queued"

RowsAreTrue ==
    /\ \A r \in resolutions : RowIsTrue(r)
    /\ \A b \in Actions : \A r \in keptMap[b] : RowIsTrue(r)

AuthorityInv ==
    /\ TypeOK
    /\ IsFiniteSet(pending)
    /\ HandoffCounted
    /\ UnstartedIsFree
    /\ OrderIsKnown
    /\ PendingIsFree
    /\ RowsAreTrue

(* A client never has more than tier3_pending_max_per_client orders        *)
(* awaiting a human, however its requests interleave.                      *)
PendingWithinCap ==
    \A c \in Clients : Cardinality({p \in pending : p.client = c}) <= PendingMax

(* An order that was queued is answered with its action id, not with a     *)
(* server error.                                                           *)
QueuedIsAnswered == \A a \in Actions : req[a] # "error"

(* Every reservation is settled (reserve-then-settle): a handoff that was  *)
(* started comes to an end, and the budget of an action the agent did not  *)
(* run is returned for good, unless a refusal's interrupted rebuild hid    *)
(* the reservation's row from the settlement: it has a copy of the row and *)
(* the trail has not, and it will bring the row back as it was.            *)
SettlementSeesRow(a) ==
    hand[a] = "returned" =>
        \A t \in Threads : \A e \in kept[t] :
            e.action = a => \E f \in trail : f.seq = e.seq

BudgetIsReturned(a) ==
    result[a] \in {"failed", "down"} =>
        \A e \in trail : e.action = a => e.outcome # "accepted"

ReservationsSettle ==
    \A a \in Actions :
        /\ hand[a] = "due" ~> hand[a] \in {"settled", "lost"}
        /\ []SettlementSeesRow(a) => (hand[a] = "due" ~> []BudgetIsReturned(a))

(* Every order with a mandate is answered, whatever the agent, the         *)
(* administrators and the other clients do, or its connection is lost in a *)
(* restart.                                                                *)
OrdersAnswered ==
    \A a \in Actions : req[a] = "limitRead" ~>
        (req[a] \in {"answered", "refused", "error", "lost"} /\ a \notin rebuilding)
=============================================================================
