----------------------------- MODULE Tier3Store -----------------------------
(***************************************************************************)
(* The Tier 3 half of the verify gateway's in-memory Store: what each of   *)
(* its methods returns or leaves behind, as operators on sets of rows.     *)
(*                                                                         *)
(* The audit trail (a Python list) and the resolution map (a dict kept in  *)
(* insertion order) are sets of records.  Every record carries `seq', the  *)
(* order of its insertion, which is also its identity: two versions of the *)
(* list share row OBJECTS, and an in-place change shows in both.           *)
(***************************************************************************)
EXTENDS Integers, FiniteSets, FiniteSetsExt

CONSTANTS
    Window,         \* tier3_window_seconds, in ticks
    AuditMax,       \* tier3_audit_max: audit rows kept per client
    ResolutionTTL,  \* tier3_resolution_ttl_seconds
    ResolutionMax   \* tier3_resolution_max_per_client

ASSUME StoreAssumption ==
    /\ Window \in Nat \ {0}
    /\ AuditMax \in Nat \ {0}
    /\ ResolutionTTL \in Nat \ {0}
    /\ ResolutionMax \in Nat \ {0}
-----------------------------------------------------------------------------
(* Both structures are bounded the same way: per client, newest first.     *)

NoOlderOfClient(rows, r) == {s \in rows : s.client = r.client /\ s.seq >= r.seq}

(* Mutant: the cap counts the rows of all clients. *)
NewestOverall(rows, max) ==
    {r \in rows : Cardinality({s \in rows : s.seq >= r.seq}) <= max}

(* Mutant: the cap is off by one. *)
NewestBelowCap(rows, max) ==
    {r \in rows : Cardinality(NoOlderOfClient(rows, r)) < max}

NewestPerClient(rows, max) ==
    {r \in rows : Cardinality(NoOlderOfClient(rows, r)) <= max}

(* The rows that survive, with an in-place change of some of them.  `seqs' *)
(* are the identities of the changed row objects.                          *)
SetOutcome(rows, seqs, outcome) ==
    {IF r.seq \in seqs THEN [r EXCEPT !.outcome = outcome] ELSE r : r \in rows}
-----------------------------------------------------------------------------
(* The audit trail. *)

InWindow(at, now) == at >= now - Window

Recent(rows, now) == {r \in rows : InWindow(r.at, now)}

(* record_tier3_event, once per row of `new': append, age prune, cap.  The *)
(* cap keeps a newest suffix of each client's rows, so applying it once    *)
(* after several appends keeps the rows it keeps when applied after each.  *)
record_tier3_event(rows, new, now) ==
    IF new = {} THEN rows
    ELSE NewestPerClient(Recent(rows \cup new, now), AuditMax)

(* Mutant: usage outside the window counts. *)
EverUsedCents(rows, c, now) ==
    MapThenSumSet(LAMBDA r : r.amount, {r \in rows : r.client = c /\ r.outcome = "accepted"})

tier3_used_cents(rows, c, now) ==
    MapThenSumSet(LAMBDA r : r.amount,
                  {r \in rows : r.client = c /\ r.outcome = "accepted" /\ InWindow(r.at, now)})

(* Mutant: the trail is searched from its oldest row. *)
FirstOfAction(rows, a) ==
    {r \in rows : r.action = a /\ \A s \in rows : s.action = a => r.seq <= s.seq}

(* The row settle_tier3_event changes: the newest one with this action_id, *)
(* none when the trail no longer holds one.                                *)
SettleTarget(rows, a) ==
    {r \in rows : r.action = a /\ \A s \in rows : s.action = a => s.seq <= r.seq}
-----------------------------------------------------------------------------
(* The resolution map.  A write is a record [action, client, status, seq]. *)

Known(rows, a) == \E r \in rows : r.action = a

(* Mutant: an entry of exactly the TTL's age is dropped. *)
YoungerThanTTL(rows, now) == {r \in rows : r.updated > now - ResolutionTTL}

Unexpired(rows, now) == {r \in rows : r.updated >= now - ResolutionTTL}

(* An existing entry is changed in place and keeps its position.           *)
Overwrite(rows, writes, now) ==
    {IF \E w \in writes : w.action = r.action
       THEN [r EXCEPT !.status = (CHOOSE w \in writes : w.action = r.action).status,
                      !.updated = now]
       ELSE r : r \in rows}

(* The entries set_tier3_resolution creates: actions the map does not hold *)
Created(rows, writes, now) ==
    {[action |-> w.action, client |-> w.client, status |-> w.status,
      updated |-> now, seq |-> w.seq] : w \in {v \in writes : ~ Known(rows, v.action)}}

(* set_tier3_resolution, for the writes of one locked section together     *)
(* (their relative order matters only to a cap that is already binding).   *)
set_tier3_resolution(rows, writes, now) ==
    LET created == Created(rows, writes, now)
        written == Overwrite(rows, writes, now)
    IN  IF created = {} THEN written
        ELSE NewestPerClient(Unexpired(written \cup created, now), ResolutionMax)
=============================================================================
