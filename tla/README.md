# Agent Embassy in TLA+

A TLA+ development of the stateful parts of Agent Embassy: the `verify` gateway
(`verify/`), the privileged internal agent (`agent/`) with the channels it
posts to (`stubs/`), and the catalog and partner halves of the admin service
(`admin/`). TLC checks the models on small instances; TLAPS proves the most
important invariants, and one refinement, for every instance.

## 1. The system

A business publishes a catalog and lets other parties' agents use it in tiers.
nginx is the only public endpoint and asks `verify` about every protected
request.

| Component | State | Operations | Interacts with |
|---|---|---|---|
| Tier 1 challenge (`verify/main.py`) | pending challenge per domain, sessions, TTLs | challenge, verify, session check, admin-config | fetches a file of the caller's domain |
| Rate limiter (`verify/main.py`) | hits per bucket and IP, limits | check_rate_limit, admin-config | in front of the Tier 1 and Tier 3 endpoints |
| Tier 2 check, introspection (`keycloak_auth.py`, `introspection.py`) | none | validate a token | Keycloak |
| Tier 3 gateway (`verify/main.py`) | grants, audit trail (= usage ledger), approval queue, resolution map | order, poll, approve, reject, list, grants | the handoff; the admin service |
| Tier 3 handoff (`agent_handoff.py`) | none that outlives a call | execute_handoff: POST, one retry on a timeout | the internal agent |
| Internal agent (`agent/main.py`, `channels.py`) | results by action id, one lock per action id, decision log | execute_action, decisions | LLM, channels |
| Routing (`rules.py`, `llm.py`) | rules read at start | pick a channel | LiteLLM |
| Channel stubs (`stubs/main.py`) | deliveries | record one, list them | called by the agent |
| Catalog store (`catalog_store.py`, `schema_types.py`) | JSON files that nginx serves | add, update, delete an item; manifest | nginx reads the files |
| Partner clients (`keycloak_client.py`, `openbao_client.py`) | Keycloak's clients, their secrets mirrored in OpenBao | create, reveal, regenerate, delete, enable | Keycloak, OpenBao |
| Admin pages, log tail, test console | none | forms and relays | the services above |

What is hard here:

- FastAPI runs a `def` handler in a thread of its own. `verify` has one lock,
  `tier3_lock`, around *some* of the Tier 3 code. The audit trail and the
  resolution map are rebuilt by several assignments, some outside the lock, and
  the rate limiter's lists are read and written back without any.
- An order lives in up to three threads: its request, the administrator who
  approves it, the agent that executes it. Approve, reject, revoke, expire and
  poll all end the same queue entry, and a restart forgets it.
- Budget is reserved before the handoff and settled after it, on the strength
  of a four-valued answer that is produced over a connection that may break.
- The agent must not run a retried action twice, while its results and its
  locks are both bounded maps; and its channel may be chosen by an LLM.
- Tier 1 reads a challenge, fetches for seconds, and consumes afterwards.
- The catalog is rewritten as a whole, from the event loop and from threads,
  by a process that may be killed.
- A partner's secret lives in Keycloak and, copied by a second request, in
  OpenBao; either request may fail, or be applied and lose its answer.

What makes each component correct, in one line each: orders never jointly
exceed a mandate and nothing refused is executed (Tier 3); the failure taxonomy
is true (handoff); one action id, one outcome (agent); first matching rule,
else a validated choice, else nothing (routing); a session proves control of
its domain (Tier 1); no 429 that was not earned, no more than the limit without
an overlap (rate limiter); no edit is lost and no crash litters (catalog); a
stale mirror is always the trace of a failure somebody could see or of an
overlap (partner clients).

PROJECT.json lists the hazards, each at its line, with the properties that
would catch it.

## 2. The modules

| Module | Models | Shape |
|---|---|---|
| `Tier3Store` | the Tier 3 methods of `Store` | operators on sets of rows |
| `Tier3Gateway` | the Tier 3 handlers, their threads, a restart | state machine over `Tier3Store` |
| `HandoffContract` | the failure taxonomy of `agent_handoff.py` | abstract specification |
| `ChannelRouting` | `rules.py`, `llm.py` and their use | operators on a rule file, an amount and a reply |
| `InternalAgent` | `execute_action`, locks, results, decision log, channels | the agent's half of a state machine, over `ChannelRouting` |
| `AgentHandoff` | `execute_handoff` composed with the agent | state machine; implements `HandoffContract` |
| `Tier1Challenge` | challenge, fetch, session | state machine with restarts |
| `RateLimit` | `check_rate_limit` and the limits it is called with | state machine with restarts |
| `CatalogStore` | a catalog file and its handlers | state machine with crashes |
| `SecretMirror` | the partner handlers, Keycloak and OpenBao | state machine with lost requests and answers |
| `...Proofs` | `Tier3Gateway`, `AgentHandoff`, `Tier1Challenge`, `RateLimit`, `CatalogStore`, `SecretMirror`; `Tier3LedgerProofs` and `HandoffRefinementProofs` on top of the first two | theorems |
| `MC...` | symmetry sets, sequence and function constants | for TLC |

### Tier3Store and Tier3Gateway

The audit trail (a list) and the resolution map (an ordered dict) are sets of
records with a `seq`, the order of insertion. `seq` doubles as object identity:
Python shares row objects between two versions of a list, so an in-place change
(`settle_tier3_event`, an overwritten resolution) shows in the version another
thread is about to assign. `SetOutcome` and `Overwrite` are applied to `kept`
and `keptMap` for that reason.

| State | Code |
|---|---|
| `grants`, `trail`, `pending`, `resolutions` | `tier3_grants`, `tier3_events`, `tier3_pending`, `tier3_resolutions` |
| `order`, `req` | the local variables and the place of an order's request thread |
| `hand`, `result` | the place of `_settle_handoff`, in whichever thread runs it, and its `HandoffResult.kind` |
| `rebuilding`, `kept`, `keptMap` | a thread between its append and its last assignment, and the list or map it will assign |
| `handoffs`, a queue entry's `crossed` | history: calls of `execute_handoff`; whether the order was queued inside a settlement's rebuild |

One action per section under `tier3_lock` (`Reserve`, `Queue`,
`FindQueueFull`, `DeleteGrant`, `Approve`, `ApproveRevoked`, `Reject`,
`Sweep`, `Poll`), each with the `prune_tier3_pending` it begins with (through
`Live` and `Commit`); one action per access to the store outside the lock
(`ReadLimit`, `RefuseNoGrant`, `RefuseStranger`, `RefuseQueueFull`,
`AssignTrail`, `AnswerQueued`, `SettleEvent`, `SettleResolution`, `AssignMap`).
`HandOff` returns any of the four kinds; which kinds the agent really allows is
the subject of `AgentHandoff`. `Restart` is a fresh `Store()` without threads;
what the old process spent is not this one's, so `Spent` leaves it out.

`RacingRefusals` and `RacingSettlements` are not in the code. They name the
threads inside whose unlocked rebuild others run: between the two assignments of
`record_tier3_event`, and inside `set_tier3_resolution` at the end of an
unlocked settlement. In the program all of them race; where a thread is not in
these sets its rebuild is a single step. The bookkeeping properties hold only
without the race, and one of them fails with it (run `T3_jointly_exceeded`); the
authority properties hold with it, and are proved for every value of both.

A locked section is one action, although the unlocked accesses of other threads
may fall inside it as well as before or after it: `AssignTrail` and `AssignMap`
stand for those accesses at the boundaries of the section.

Simplifications. A poll is one step (its prune is under the lock and its read
is one dict access after it). The rows and resolutions of one locked section
are written together; their order among themselves matters only to a cap that
is already binding. Response bodies, tokens and HTTP codes are left out except
where they decide what happens next.

### ChannelRouting

A deployment is a rule file (the channels it allows, its rules) and whether a
model is configured. `Boots` is the validation at import; `Match` the first
rule that fits type and ceiling; `Routed` what `_decide_and_execute` makes of
it: the rule's channel, or, where the rule delegates, the LLM's validated reply,
or the fallback when no model is configured. A derailed LLM is not rescued by
the fallback. A reply is the name it puts forward; parsing it is left out.

### HandoffContract, InternalAgent and AgentHandoff

A request to the agent is an action id and the number of the attempt. A lock
*object* is named after the request that created it, so a thread can hold or
wait for an object that is no longer in `_action_locks`. `TakeLock` is
`_action_lock`; `Decide` and `ReturnExisting` are the two ways into the locked
section; `Dispatch` is the routing, the POST to the channel with its outcome
(taken, taken and the answer lost, not taken) and the entry of the decision
log; `StoreResult` is `_store_result` with both evictions and the release.
`delivered` is what the channels have recorded; `decisions` the bounded log.

`AgentHandoff` adds `execute_handoff`: `Begin`, `Retry` after the first
timeout, `GiveUp` after the second, `TakeAnswer` (a body that cannot be parsed
is `unknown`), `Refused` (no listener, 403, 422) and `ConnectionLost`. A
timeout may fire at any moment for the actions in `Slow`; the request it
abandons goes on in the agent.

`Faults` says what the environment does: `restart` of the agent, `reset` of a
connection after the request went out, `lateStub` (a channel takes the action
and its answer is lost), `overlap` (distinct actions run at the same time).
`execute_handoff` judges by its last attempt alone, so a retry that is refused
or answered other than 200 makes the kind `down` after a first attempt that
timed out and may have executed. That needs no fault (`AH_down_executed`), and
the contract would not survive it; `Worth` therefore counts the `down` of a
retry as the `unknown` it should have been, and the contract is kept so read,
with `Faults = {}` (run `AH_contract`, theorem `ContractKept`). With `overlap`
the same action can run twice (`AH_purged_lock`), with `reset` even the `down`
of one attempt can hide an execution; `ExecutedWasExecuted` survives all of them
(`AH_faults`, theorem `ExecutedIsTrue`).

### Tier1Challenge

Tokens are fresh, so they are numbers in order of issue. A verify request is
the thread `idle -> fetching -> confirmed -> stored -> verified`, or leaves as
`refused`, `error` (the KeyError of a second `del`) or `lost` (restart).
`site` and `shown` are the outside world: the token a domain's file shows, and
all it ever showed. Any domain may publish any token that was issued, another
domain's included. `check_session` is one step.

### RateLimit

A request is three steps: its arguments and the clock (`Begin`), the list read
and filtered (`Read`), the list written back with itself appended and the
verdict (`Write`). Nothing locks the list, so a `Write` may undo another's. An
entry of a list is named by the request that appended it. A refused request
counts as well. `SetLimit` is PUT `/tier1/admin-config`, `Restart` loses the
lists and the changed limits; both start a new `epoch`. `alone` and `born`
are history, for the property about requests that did not overlap.

### CatalogStore

An item is the fields the form sets and the fields it does not know. A handler
goes `form -> locking -> loaded -> writing -> written -> saved`, or leaves as
`notFound`, `invalid`, `error` (the write failed) or `lost` (crash).
`catalog_create` and `catalog_update` are `async` and hold the event loop from
the moment they stop awaiting the form, waiting for the thread lock included
(`LoopIsFree`); `catalog_delete` runs in a thread. A crash runs no `except`
clause, so the temporary file stays until `Start` sweeps the directory. An edit
reads its item before it awaits the form (`existing`) and writes by the same
index after it. One file is enough: each file has its own lock.

### SecretMirror

A call is one administrator's POST; every request it makes to Keycloak and to
OpenBao is a step, which may fail before it is applied or lose its answer
after. The steps of a call are its places `post`, `fetch`, `secret` (create),
`look`, `recheck`, `op` (the others: `get_client` runs once or twice before the
change), `mirror` and `unmirror`. Clients are named by the call that created
them, secrets by the call that made Keycloak issue them, so an entry that pairs
the wrong two is visible. Creating a client is `async` and blocks the event
loop, so no call begins while one runs (`Begin`). `settled` and `alone` are
history: what the last change of a clientId met, and whether another call on
the same clientId overlapped.

## 3. The runs

| Run | Question | Answer, bounds |
|---|---|---|
| `T3_mandate` | Do mandate, queue, handoff and poll keep their promises? | Yes. One client, two orders of 1, 2 or 3 against a limit of 2 (within, exactly at, over), a queue of one, an audit cap of 3 that binds, a resolution cap of 2 that the orders just fill, window and TTLs of 1 in a clock of 3 values (every expiry happens), restarts at any moment, no racing rebuild. 1 138 160 states. |
| `T3_settle` | What survives the unlocked rebuilds? Does everything end? | The inductive invariant; an order not queued inside a settlement's rebuild can be polled; a row leaves the window's trail only when newer rows of its own client fill the cap. Every handoff is settled and returns the budget of what the agent did not run, unless an interrupted refusal hid the row from it; every order is answered; or a restart forgets it. Every rebuild races, audit and resolution caps of 2, an unauthenticated caller as the other party. 205 714 states, with liveness. |
| `T3_jointly_exceeded` | Do orders see each other's reservations, rebuilds included? | No: see 5. |
| `T3_queued_error` | Is a queued order always answered with its id? | No: see 5. |
| `AH_contract` | Do handoff and agent implement the taxonomy? Do orders go where the rules send them? Does the log reconcile? | Yes, if the `down` of a retry is read as unknown; one action at a time, with timeouts, a retry that may be refused, and bodies that cannot be parsed. The 86 deployments that boot, of at most two rules over an allowed known, an allowed unknown and a known unallowed channel, with and without an LLM, any reply; one order over a ceiling and one within it. 630 716 states. |
| `AH_faults` | Is `executed` true under every fault? Can the per-action locks deadlock? Does every handoff return? | Yes; no; yes. Two overlapping actions, one with two attempts, a result map and a log of one (evictions happen), one restart. 78 102 states, with liveness. |
| `AH_purged_lock` | Is an action run at most once? | No: see 5. |
| `AH_down_executed` | Does `down` mean not executed? | No, without any fault: see 5. |
| `T1_challenge` | Does a session prove control? Is a redeemed challenge read again? | Yes; no. Two domains, two overlapping requests, two tokens, two TTLs, one restart. |
| `RL_limit` | Is a 429 earned? Who gets past a limit? | Yes; only requests that overlap. Four requests of one caller in two buckets, four clock values against windows of 1 and 2, one change of the limits or restart. |
| `CS_catalog` | Can an edit be lost, litter stay, a handler hang, an index shift? | No; only by a deletion saved after the edit had read its item. An addition, two edits, a deletion, any index, one crash. 511 361 states. |
| `SM_mirror` | When is the mirror stale, or mixed up? Is a foreign client touched? | Only after a failure or an overlap; never; never. One clientId besides the built-in one; two creations, two regenerations, a reveal, a deletion, a toggle, all overlapping. 646 512 states. |

Two threads of each kind show every race between one read-modify-write and one
other write, which is what the passing properties are about; a third client
adds nothing because every cap and every sum is per client (`EvictsOnlyOwn` is
the property that says so, with the unauthenticated callers as the other party).
Two orders are *not* enough for what two interrupted settlements do to a third
order: with three, `ResolutionFinal` is false of racing settlements (section 5),
so it is checked and proved without them. `PendingIsPollable` does hold with
three racing orders, as the theorem `AwaitingIsPollable` shows for any number.
In `RL_limit` it takes three hits to fill a limit of two and overrun it, and a
fourth in the other bucket. Clocks stop at `MaxTime`: it is at least one past
every TTL where expiry matters. Symmetry is used in the safety runs only.

Deadlock is checked where the system can always go on (an administrator can
set a mandate, a site can publish). The handoff, catalog, mirror and limiter
runs have finitely many requests and end when all are answered, so there it is
switched off; that nothing hangs before is `HandoffsReturn`,
`RequestsAnswered` and `EditsAnswered`.

Every property of a passing run has a mutant in PROJECT.json: a definition of
the model, changed as a slip in the code would change it, under which TLC finds
the property violated. Mutants stand before the definition they replace.

### Fairness

`Tier3Gateway`: weak fairness of each request thread, each handoff with its
settlement, and each rebuild of the trail. A thread of the server runs when it
can, `tier3_lock` is never held across I/O, and `execute_handoff` is bounded by
its two timeouts. Nobody has to send a request or decide on one, and a restart
may always come. `AgentHandoff`: weak fairness of each handoff (urlopen's
timeout fires in the end: for the actions in `Slow` by `Retry` and `GiveUp`,
for the others because the agent answers or the connection is lost) and of each
thread of the agent (LLM and channels are called with timeouts).
`CatalogStore`: weak fairness of a handler past its form, and of the
container's restart. Each request is made once, so a lock that is only ever
passed on becomes free for good, and weak fairness is enough for its waiters.
`Tier1Challenge`, `RateLimit` and `SecretMirror` state safety only: their
handlers wait for nothing but a bounded request. No fairness is assumed of
clients, administrators, time or faults.

### Assumed of the outside world

Time does not go back. Keycloak and OpenBao apply a request before its answer
times out or not at all (a request that arrives later than its own timeout is
not modelled); OpenBao is configured; a clientId is unique in Keycloak and never
changes. The agent is restarted with the rule file it had.

## 4. What is proved

Every theorem holds for all values of the constants that satisfy the module's
named assumptions. Those ask that identifiers do not clash, that TTLs, caps,
limits and amounts are positive, that sets which are counted are finite, and
that a challenge's TTL is bounded (its request model has `le=86400`). A
theorem that assumes more is marked. Every invariant and every action property
of the passing runs is the conclusion of a theorem; so are the properties of
the two `AH_` runs that find a violation, proved under the assumption the run
breaks or, for `AH_down_executed`, in the weaker form that is true; and so is
that of `T3_jointly_exceeded`.

**`Tier3GatewayProofs`**, with the rebuilds racing and with restarts, or not:

- `AuthorityInvariant`: `AuthorityInv` is an invariant;
- `TypeCorrect`: `TypeOK`;
- `HandedOffOnce`: `execute_handoff` is called at most once per action id;
- `RefusalIsFinal`: what was refused, rejected or expired is never handed over;
- `QueueIsCapped`: no client has more than `tier3_pending_max_per_client`
  orders awaiting a human.

`HandedOffOnce` and `RefusalIsFinal` are not inductive: that a queue entry may
be approved depends on its action not having been reserved, and that depends on
the place of the order's thread. `AuthorityInv` says: the number of handoffs
follows from `hand`; an action whose order was not reserved or queued has no
handoff (`UnstartedIsFree`); a queued action is started, has no handoff, and
has one entry (`PendingIsFree`); and every resolution, *in the map and in every
copy of it that a thread is about to assign*, is true of its action
(`RowsAreTrue`). The clause on the copies is what makes the theorem hold for the
unlocked rebuild: `AssignMap` may bring an old entry back, but only a true one.
The proof has a lemma per action; the locked sections share `CommitStep` and
`RowsStep`, the sections that only refuse share `RefusingStep`, the unlocked
steps share `FrameStep`. `QueueIsCapped` needs of it only that the queue is
finite: `Queue` counts and inserts in one section, and nothing else inserts.

**`Tier3LedgerProofs`**, for every window and TTL, with restarts, wherever the
audit cap binds unless a bound is named:

- `EvictionIsOwn`: `EvictsOnlyOwn`, with every rebuild racing or none; the last
  assignment of an interrupted rebuild, which is what loses rows in
  `T3_jointly_exceeded`, is excepted by the property itself;
- `SettlementFindsReservation` (`RacingRefusals = {}`): `SettleHitsReservation`;
- `LedgerIsSpend` (`RacingRefusals = {}`, `2 * |Actions| - 1 <= AuditMax`):
  `UsageIsSpend`;
- `MandateIsNotExceeded` (the same): `JointMandate`;
- `PolledIsFinal` (`RacingSettlements = {}`): `ResolutionFinal`;
- `TrailAndPollAgree` (both sets empty): `PollAgreesWithAudit`;
- `AwaitingIsPollable` (every rebuild racing or none, `PendingTTL <=
  ResolutionTTL`, `|Actions| <= ResolutionMax`): `PendingIsPollable`.

`RacingRefusals = {}` says that no thread runs inside the unlocked rebuild of a
refusal, `RacingSettlements = {}` the same of a settlement. The proofs cannot
do without: a racing refusal may drop a reservation and leave the "queued" row,
which is how `T3_jointly_exceeded` comes about; racing settlements may bring
back an entry of the map that an earlier assignment had dropped, while the
action went on under a new one (section 5). `AwaitingIsPollable` needs neither:
it is the property that excepts the one thing a racing settlement can do to an
order that waits, losing the entry of one queued during its rebuild. The bounds
on `|Actions|`, the orders of the whole behaviour, are what makes a cap not
bind on one's own rows: an order appends at most a "queued" row and one that
decides it, so the rows newer than a reservation are `2 * |Actions| - 2` at
most (`TwoRowsEach`). Past it the code does forget spending, as the comment at
`main.py:298-299` has it ("only ever evict their own old entries").
`T3_mandate` runs exactly at the bound. Both TTLs default to
`tier3_window_seconds` and the map's cap to 500 (`main.py:189-201`); with less,
an action that waits can vanish from the poll (section 5).

- `LedgerInv` adds to `AuthorityInv` that rows are numbered and dated in the
  order of their insertion, that rows and queue entries carry the client of
  their order, and `ReservationsLast`: a trail that holds any row of an action
  under way holds its reservation, as the newest of them. It is needed because
  a human-approved action has a "queued" row too; the age prune and the cap both
  drop a client's older rows first (`RecordKeepsNewer`). Every locked section is
  covered by `CommitKeepsLedger`, every step that leaves the trail alone by
  `FrameKeepsLedger`.
- `SpendInv` adds that a row has its order's amount, that an accepted row is of
  an action under way, that what waits has only its "queued" row, and
  `ReservationsKept`: in its window an action under way has a row, hence its
  reservation. The rows that count and the actions that spend then correspond
  one to one, with equal amounts; that their sums agree (`FoldIsSum`,
  `SumOfImage`) is shown by a smallest counterexample, since induction over an
  operator is not at hand. `MandateIsNotExceeded` follows because the locked
  section adds its order to the sum it has compared with the limit.
- `NumberInv` says only that the rows of the trail, and of every list about to
  replace it, are numbered apart. Each step then replaces the trail, or one of
  those lists, by what `record_tier3_event` keeps, and what that drops in the
  window has `AuditMax` newer rows of its client (`DroppedForNewer`).
- `PollInv` follows the entry the poll reads; `EntryInv` says that an action has
  one entry, which is final only once the handoff is settled, where settlements
  do not race; `CopyInv` and `PollableInv`, where they do, that the map and
  every copy about to replace it have one entry for an action, and the "queued"
  entry, as old as itself, of every live queue entry that was not queued during
  a rebuild. A copy is made of a map that has the entry, so its assignment does
  not lose it.

**`AgentHandoffProofs`**, under every fault:

- `TypeCorrect`: `TypeOK`;
- `OnlyAllowedChannels`: a channel that takes an action is one the file allows,
  whatever the LLM replies;
- `ExecutedIsTrue`: what the gateway is told was executed was taken by a
  channel.

`ControlInv` relates the places of a request to its body and to the attempts;
`ExecutedInv` follows the word "executed" from the dispatch over bodies and
result map to the kind. That the rule which matches is one of the file's needs
a least element of a set of indexes (`LeastNatural`).

**`HandoffRefinementProofs`**, while actions do not overlap and the agent does
not restart (`Serial`), with timeouts, retries, resets and lost answers of
stubs unless excluded:

- `ContractKept` (`Faults = {}`): `Spec => Contract!Spec`, the refinement, with
  the number of deliveries as the executions and `Worth` as the kind: a retry's
  `down` is read as `unknown`, because of that one the taxonomy is not true;
- `DecidersExclude`: no two threads decide on one action at a time;
- `ExecutedOnce`: `AtMostOneExecution`;
- `AnswersAgree`: `SameAnswer`, a retry fetches the original outcome;
- `DownIsTrue` (no reset): `FirstDownWasNotExecuted`, the `down` of a handoff
  that made one attempt;
- `DerailedRunsNowhere` (`Actions` finite, `|Actions| <= LogMax`):
  `DerailedIsRefused`;
- `LogReconciles` (the same, and no stub's answer lost):
  `UnknownIsReconcilable`.

`AH_purged_lock` shows what an overlap does to `ExecutedOnce`, and
`AH_down_executed` why `ContractKept` and `DownIsTrue` leave the `down` of a
retry out: it is false without any fault, so no assumption about the
environment restores it. What a reset, a restart or a lost stub's answer does
to the theorems that exclude it is said in section 5. `LogMax` is the length of
the agent's decision log; once it has dropped an action's row, nothing
reconciles it.

`Quiet` says that one action is at work (`OneBusy`), that the lock a thread
holds or waits for is the one in the table (`LockedInv`: without an overlap,
`_store_result` drops nobody's lock), that nothing runs twice, and that bodies
and results tell the number of executions (`OutcomeInv`: the telling is
conditional on no stub's answer being lost) and what a kind says of the
requests (`KindInv`: conditional on no reset, and for a `down` on a single
attempt). Each step of the agent is then one execution of the contract or a
stutter, each return of the handoff one `Return`. `AnswerInv` ties a kept
result to the answers given from it, and `LogInv` says that the log has exactly
one row per decided action; that a full log drops nothing is a count of the
actions in it (`LogHasRoom`).

**`Tier1ChallengeProofs`**, for any number of tokens and restarts:

- `SessionsProveControl`: a session's token was issued for its domain and the
  domain's own file has shown it;
- `RedeemedIsNotRead`: `NoReplay`;
- `TypeInvariant`: `TypeOK`, which includes that a session's token was issued
  and that no expiry lies beyond the largest TTL.

`ControlInv` follows a token: pending challenges and the token a request
compares with belong to the domain they are kept for, what a file shows it has
shown, what was confirmed was shown, and a redeemed challenge is pending for no
domain.

**`RateLimitProofs`**:

- `TypeCorrect`: `TypeOK`;
- `RefusalsAreEarned`: a request that was refused had `max` others of its own
  caller and bucket in its window, whatever was lost, changed or restarted;
- `SoloIsLimited`: only requests that overlap exceed a limit.

`LimitInv` says that the lists, and what a request has read of them, hold
answered requests of that key (`ListsAreOwn`), and what a request knows
(`RequestsAreRead`). The second needs `SoloInv` as well: a request that ran
alone stays in every list that is or will be written, until it expires.

**`CatalogStoreProofs`**, for any handlers and any number of crashes:

- `NoEditIsLost`: `NoEditLost`; `TempsAreWritten`: `NoStaleTemps`;
- `ListsAreBounded`: `TypeOK`, with the bound on the length of every document;
- `DeletionsShift`: `OnlyDeletionsShift`: an edit replaces the item it read, or
  it is one that a deletion saved since its read has displaced.

`LockInv`: one handler at most is in the locked section, its document is the
file, or its change of it, and it alone may have a temporary file.

`SpanInv` adds that the file has grown by at most one item per addition that is
past its write (`LengthInv`), and `ShiftInv`: unless the editor is in
`displaced`, the item it has read is at its index still, but for the fields the
forms set. `displaced` is history: the editors that a deletion at or before
their index, saved since their read, has put off their item, and those whose
item such an editor has overwritten. The file only changes by what one handler
does to it (`ChangeIsLocal`): an addition at the end, an edit in its place.

**`SecretMirrorProofs`**, for any clientIds and calls:

- `TypeCorrect`: `TypeOK`; `Untouched`: `BuiltinUntouched`;
- `Paired`: a mirror entry pairs a secret with the client it was issued to,
  under that client's name;
- `StaleIsTold`: `StaleNeedsTrouble`.

`ControlInv` says what a call at each place is and holds; `PairedInv` that held
and mirrored secrets are issued to the client they are kept for;
`SettledInv` that calls which overlap know it, that what a call running alone
holds is current, and that a settled clientId is mirrored or has a call under
way that will see to it. `StepFrame` and `StepOwn` split every step into what it
leaves alone and what it does to its own clientId.

**Only model-checked.** Liveness (`ReservationsSettle`, `OrdersAnswered`,
`RequestsAnswered`, `HandoffsReturn`, `EditsAnswered`), which is out of the
prover's reach. Of the safety properties none: `ResolutionFinal` is proved, and
checked, without racing settlements only, since with them it is false (section
5). `T3_mandate` and `AH_contract` remain the evidence that the theorems'
hypotheses are met by interesting states; what the code does outside them is in
section 5.

## 5. Where code and text part

Each of the first four is a run that finds the violation.

- `T3_jointly_exceeded`. `record_tier3_event` assigns `tier3_events` twice; a
  refusal runs it outside the lock. A reservation made in between is dropped,
  and the next order is accepted beyond the mandate.
- `T3_queued_error`. The 202 reads `tier3_pending[action_id]` after the lock;
  a decision or an expiry in between makes it a KeyError.
- `AH_purged_lock`. `_store_result` drops every lock whose action has no result
  yet, the one another action is being decided under included; its retry takes
  a new lock and runs it again. The comment says this needs `RESULT_MAP_MAX`
  concurrent actions; two are enough.
- `AH_down_executed`. `execute_handoff` judges by its last attempt alone. When
  the first attempt timed out and the retry is refused (no listener, a 403, a
  422, a 500), the kind is `down`, the budget is released and the caller is
  told `failed`, whatever the first attempt does. No fault is needed; the docstring says "did NOT execute". A second way, with one attempt:
  every error that is not a timeout is `down`, a connection that breaks while
  the agent works included.

Seen while modelling, and not the subject of a run:

- An order that read its limit before a revocation is queued after it, and stays
  queued until it expires (approving it finds no grant and refuses it).
- The resolution map's cap can evict an action that still waits for a human.
- A settlement rebuilds the resolution map outside the lock (`main.py:417-425`).
  An order queued between its copy and its assignment loses its entry: the
  poll answers 404 for an action that waits for a human, although the comment at
  `main.py:193` has "action_id -> pollable resolution, every state". This is the
  one case `PendingIsPollable` excepts (`crossed`), and it needs no small cap or
  TTL.
- Two such settlements can make a final status revert. The first inserts and
  copies; an order is queued; the second inserts and copies, with that order's
  entry; the first assigns, which drops the entry; the order is rejected, or
  approved and settled, and gets a new entry; the second assigns, and the poll
  says "queued" again. TLC finds this with three orders and no cap or TTL
  binding; it is why `ResolutionFinal` is stated without racing settlements.
- Iterating over the resolution map (`main.py:417`) while another thread inserts
  into it raises a RuntimeError, a 500 after the handoff was made; the model
  has the copy as one step.
- A reservation that is out of the trail when it is settled is missed by its
  settlement. If an interrupted refusal still has a copy of the row, because
  another refusal or the audit cap dropped it after the copy was made, its
  assignment brings the row back as `accepted`, and the budget of a failed order
  stays used until it leaves the window. `ReservationsSettle` excepts exactly
  this (`SettlementSeesRow`).
- A retry that reaches a restarted agent finds no result and runs the action a
  second time: results live in memory. `ExecutedOnce` excludes restarts.
- Two overlapping verify requests can both redeem one challenge: the session is
  stored whether or not there was a challenge left to consume.
- A verify request that read a challenge before it was reissued redeems the old
  token, although the comment at `main.py:225-227` says that "verify only ever
  succeeds against whichever token is currently stored". `SessionsProveControl`
  allows it: the domain did show that token.
- The same overlap consumes a challenge that was reissued meanwhile and that
  nobody has redeemed, and a `del` that finds the challenge gone
  (`main.py:237`) is a KeyError; the models have both, and no property forbids
  them.
- An edit whose index a deletion has shifted overwrites the item that moved
  there; only an index past the end is a 404. `OnlyDeletionsShift` says that
  nothing but a deletion saved since the edit's own read, or an edit it
  displaced, does this.
- A rule may name a channel that is allowed and unknown; `channels.py` (83-84)
  says `rules.py` validates it at import, but `rules.py` compares it only with
  the `allowed_channels` of the same file. The order then fails. A reply, or a
  fallback, may likewise be the word "llm" if the file allows a channel of that
  name.
- The decision log does not reconcile every unknown outcome: a restart empties
  it, and it says "failed" of an action whose channel took it and whose answer
  was lost. `UnknownIsReconcilable` is checked without these two.
- Two regenerations of one client that overlap can leave the older secret in
  OpenBao with neither page warning; a second, slow deletion can remove the
  entry of a client re-created under the same clientId; a removal that fails is
  not reported (the comment at `admin/main.py:484` says so).
- Lost updates of the rate limiter let overlapping requests past the limit.

## 6. Not modelled

- **Manifest.** Its handlers have the form of the item handlers, the same lock
  and the same write; another file of the same kind adds no behaviour.
- **A deployment without OpenBao.** Every write-through is then skipped and
  there is no mirror to be stale.
- **Tier 2 and introspection.** Stateless calls of a library and of Keycloak;
  in `Tier3Gateway` they decide whether a client id is known (`RefuseStranger`).
- **Domain syntax and the fetch guard.** Pure functions over strings and
  addresses; the fetch is `FileShows` or a failure.
- **Parsing of replies, prompts, bodies and forms.** Abstracted to what they
  yield: a name or none, a status or none, valid or not.
- **Log tail, test console, pages.** Display only; the pages' calls are the
  administrator's actions of the other models.
- **nginx, containers, Keycloak, OpenBao, LiteLLM.** Configuration and external
  services; what the code sees of them is an input.
- **A Tier 3 handoff composed with the agent in one state machine.** The two
  meet in `HandoffResult.kind`: `Tier3Gateway` allows all four kinds at every
  handoff, more than `AgentHandoff` ever returns.
