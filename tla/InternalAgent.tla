---------------------------- MODULE InternalAgent ----------------------------
(***************************************************************************)
(* The privileged internal agent: execute_action and its idempotency on    *)
(* the action id.  Each request is a thread of the agent's server; the     *)
(* gateway sends an action at most twice (agent_handoff.py), so a request  *)
(* is an action and the number of the attempt.                             *)
(*                                                                         *)
(* A lock object is named after the request that created it: when          *)
(* _store_result drops a lock from the table, the threads that hold or     *)
(* wait for the object keep it, and the next request creates another one.  *)
(***************************************************************************)
EXTENDS ChannelRouting

CONSTANTS
    Actions,      \* action ids
    NoLock,       \* no entry in _action_locks; a lock nobody holds
    Cents(_),     \* the amount of an action's order
    ResultMax,    \* RESULT_MAP_MAX
    LogMax,       \* DECISION_LOG_MAX
    MaxRestarts,  \* bound on restarts of the agent's container
    Faults        \* which of FaultKinds the environment shows

(* "restart":  the agent's process dies and comes back                     *)
(* "reset":    a connection breaks after the request went out              *)
(* "lateStub": a channel takes the action but its answer is lost           *)
(* "overlap":  requests for distinct actions run at the same time          *)
FaultKinds == {"restart", "reset", "lateStub", "overlap"}

ASSUME AgentAssumption ==
    /\ \A a \in Actions : Cents(a) \in Nat
    /\ {ResultMax, LogMax} \subseteq Nat \ {0}
    /\ MaxRestarts \in Nat
    /\ Faults \subseteq FaultKinds
    /\ NoLock \notin Actions \X {1, 2}

Requests == Actions \X {1, 2}
ActionOf(r) == r[1]

VARIABLES
    deployment,  \* rules.json as loaded, and whether AGENT_LLM_MODEL is set
    results,     \* _results: the bodies already returned, oldest first
    decisions,   \* _decision_log, newest last
    locks,       \* _action_locks
    holder,      \* per lock object: the request that holds it
    mine,        \* per request: the lock object _action_lock gave it
    at,          \* per request: where its thread is
    body,        \* per request: the body it computes or returns
    delivered,   \* per action: the channels that have taken it (stubs/main.py's record)
    restarts     \* restarts so far

agentVars == <<deployment, results, decisions, locks, holder, mine, at, body, delivered, restarts>>

Body == [status : {"executed", "failed"}, channel : Names \cup {None}, by : {"rules", "llm", None}]
NoBody == [status |-> "none", channel |-> None, by |-> None]

Result == [action : Actions, body : Body]
Decision == [action : Actions, body : Body, reply : Names \cup {None}]

(* "absent": never sent; "sent": on its way; "lost": the process died      *)
Places == {"absent", "sent", "waiting", "deciding", "dispatched", "answered", "lost"}

AgentTypeOK ==
    /\ deployment \in Deployments
    /\ results \in Seq(Result)
    /\ decisions \in Seq(Decision)
    /\ Len(decisions) <= LogMax
    /\ locks \in [Actions -> Requests \cup {NoLock}]
    /\ holder \in [Requests -> Requests \cup {NoLock}]
    /\ mine \in [Requests -> Requests \cup {NoLock}]
    /\ at \in [Requests -> Places]
    /\ body \in [Requests -> Body \cup {NoBody}]
    /\ delivered \in [Actions -> Seq(KnownChannels)]
    /\ restarts \in 0..MaxRestarts

AgentInit ==
    /\ deployment \in {d \in Deployments : Boots(d)}
    /\ results = <<>>
    /\ decisions = <<>>
    /\ locks = [a \in Actions |-> NoLock]
    /\ holder = [r \in Requests |-> NoLock]
    /\ mine = [r \in Requests |-> NoLock]
    /\ at = [r \in Requests |-> "absent"]
    /\ body = [r \in Requests |-> NoBody]
    /\ delivered = [a \in Actions |-> <<>>]
    /\ restarts = 0

HasResult(rows, a) == \E i \in DOMAIN rows : rows[i].action = a
ResultOf(a) == results[CHOOSE i \in DOMAIN results : results[i].action = a].body

(* _action_lock: look the lock up, or register a new one, under            *)
(* _registry_lock.                                                         *)
TakeLock(r) ==
    LET lock == IF locks[ActionOf(r)] = NoLock THEN r ELSE locks[ActionOf(r)]
    IN  /\ at[r] = "sent"
        /\ locks' = [locks EXCEPT ![ActionOf(r)] = lock]
        /\ mine' = [mine EXCEPT ![r] = lock]
        /\ at' = [at EXCEPT ![r] = "waiting"]
        /\ UNCHANGED <<deployment, results, decisions, holder, body, delivered, restarts>>

(* Mutant: the lock is taken without waiting. *)
LockIsIgnored(r) == TRUE

LockIsFree(r) == holder[mine[r]] = NoLock

(* The outcome is known: returned, and the lock released again.            *)
ReturnExisting(r) ==
    /\ at[r] = "waiting"
    /\ LockIsFree(r)
    /\ HasResult(results, ActionOf(r))
    /\ body' = [body EXCEPT ![r] = ResultOf(ActionOf(r))]
    /\ at' = [at EXCEPT ![r] = "answered"]
    /\ mine' = [mine EXCEPT ![r] = NoLock]
    /\ UNCHANGED <<deployment, results, decisions, locks, holder, delivered, restarts>>

Decide(r) ==
    /\ at[r] = "waiting"
    /\ LockIsFree(r)
    /\ ~ HasResult(results, ActionOf(r))
    /\ holder' = [holder EXCEPT ![mine[r]] = r]
    /\ at' = [at EXCEPT ![r] = "deciding"]
    /\ UNCHANGED <<deployment, results, decisions, locks, mine, body, delivered, restarts>>

(* What becomes of the POST of channels.execute: the channel takes the     *)
(* action, does not, or takes it while the POST counts as failed.          *)
PostOutcomes == {"notTaken", "taken"} \cup (IF "lateStub" \in Faults THEN {"takenUnseen"} ELSE {})

(* Mutant: a channel that was asked counts as a channel that answered. *)
AnswerAsAsked(routed, outcome) ==
    [status |-> IF routed.channel = None THEN "failed" ELSE "executed",
     channel |-> routed.channel, by |-> routed.by]

Answer(routed, outcome) ==
    [status |-> IF outcome = "taken" THEN "executed" ELSE "failed",
     channel |-> routed.channel, by |-> routed.by]

(* Mutant: an order that is routed nowhere is not logged. *)
LoggedIfRouted(row) ==
    IF row.body.channel = None THEN decisions
    ELSE IF Len(decisions) < LogMax THEN Append(decisions, row)
    ELSE Append(Tail(decisions), row)

(* _log_decision.                                                          *)
Logged(row) ==
    IF Len(decisions) < LogMax THEN Append(decisions, row) ELSE Append(Tail(decisions), row)

(* _decide_and_execute: the rules, the LLM where they delegate to it, the  *)
(* POST to the channel, the log.  An allowed name that is not a channel's  *)
(* is refused by channels.execute.                                         *)
Dispatch(r, reply, outcome) ==
    LET a == ActionOf(r)
        routed == Routed(deployment, Cents(a), reply)
        answer == Answer(routed, outcome)
    IN  /\ at[r] = "deciding"
        /\ reply # None => Consults(deployment, Cents(a))
        /\ outcome # "notTaken" => routed.channel \in KnownChannels
        /\ delivered' = IF outcome = "notTaken" THEN delivered
                          ELSE [delivered EXCEPT ![a] = Append(@, routed.channel)]
        /\ body' = [body EXCEPT ![r] = answer]
        /\ decisions' = Logged([action |-> a, body |-> answer, reply |-> reply])
        /\ at' = [at EXCEPT ![r] = "dispatched"]
        /\ UNCHANGED <<deployment, results, locks, holder, mine, restarts>>

(* Mutant: only an executed outcome is remembered. *)
StoredIfExecuted(r) ==
    IF body[r].status = "failed" THEN results
    ELSE Append(results, [action |-> ActionOf(r), body |-> body[r]])

(* The map after _results[action_id] = body: an entry that is there keeps  *)
(* its position; a new one may push out the oldest.                        *)
Stored(r) ==
    LET entry == [action |-> ActionOf(r), body |-> body[r]]
        all == Append(results, entry)
    IN  IF HasResult(results, ActionOf(r))
          THEN [i \in DOMAIN results |-> IF results[i].action = ActionOf(r) THEN entry ELSE results[i]]
        ELSE IF Len(all) > ResultMax THEN Tail(all)
        ELSE all

(* The lock table "in lockstep": every key without a result is dropped.    *)
KeptLocks(rows) == [a \in Actions |-> IF HasResult(rows, a) THEN locks[a] ELSE NoLock]

(* Mutant: the lock is not released. *)
StoreResultHoldingLock(r) ==
    /\ at[r] = "dispatched"
    /\ results' = Stored(r)
    /\ locks' = KeptLocks(results')
    /\ mine' = [mine EXCEPT ![r] = NoLock]
    /\ at' = [at EXCEPT ![r] = "answered"]
    /\ UNCHANGED <<deployment, decisions, holder, body, delivered, restarts>>

(* _store_result, and the end of the `with' block: the lock is released.   *)
StoreResult(r) ==
    /\ at[r] = "dispatched"
    /\ results' = Stored(r)
    /\ locks' = KeptLocks(results')
    /\ holder' = [holder EXCEPT ![mine[r]] = NoLock]
    /\ mine' = [mine EXCEPT ![r] = NoLock]
    /\ at' = [at EXCEPT ![r] = "answered"]
    /\ UNCHANGED <<deployment, decisions, body, delivered, restarts>>

(* The process dies: results, locks, log and threads are gone, the         *)
(* requests on their way are not; it boots with the same deployment.       *)
Restart ==
    /\ "restart" \in Faults
    /\ restarts < MaxRestarts
    /\ restarts' = restarts + 1
    /\ results' = <<>>
    /\ decisions' = <<>>
    /\ locks' = [a \in Actions |-> NoLock]
    /\ holder' = [r \in Requests |-> NoLock]
    /\ mine' = [r \in Requests |-> NoLock]
    /\ at' = [r \in Requests |->
                IF at[r] \in {"waiting", "deciding", "dispatched"} THEN "lost" ELSE at[r]]
    /\ body' = [r \in Requests |-> IF at'[r] = "lost" THEN NoBody ELSE body[r]]
    /\ UNCHANGED <<deployment, delivered>>

AgentThread(r) ==
    \/ TakeLock(r)
    \/ ReturnExisting(r)
    \/ Decide(r)
    \/ \E reply \in Names \cup {None}, outcome \in PostOutcomes : Dispatch(r, reply, outcome)
    \/ StoreResult(r)
=============================================================================
