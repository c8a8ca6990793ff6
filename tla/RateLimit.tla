----------------------------- MODULE RateLimit -----------------------------
(***************************************************************************)
(* The rate limiter of the verify service (Store.check_rate_limit): every  *)
(* caller has a list of recent hits in each bucket. A request reads its    *)
(* limit and the clock, filters the list by age, appends itself, writes    *)
(* the list back and is admitted if the list is not too long. Nothing      *)
(* locks the list, so a request that writes may undo what another wrote    *)
(* since it read.                                                          *)
(*                                                                         *)
(* An entry of a list is named by the request that appended it; `stamp` is *)
(* the time it holds.                                                      *)
(***************************************************************************)
EXTENDS Integers, FiniteSets

CONSTANTS Requests,
          Buckets,      \* challenge, verify, tier3_orders, tier3_poll
          Adjustable,   \* the buckets PUT /tier1/admin-config can change
          Callers,      \* client addresses
          Limits,       \* the limits [max, window] in use
          Default,      \* the environment's limit of each bucket
          None,         \* what a request that has not begun asks for and has read
          MaxTime,      \* bound: the clock
          MaxEpochs     \* bound: changes of limits and restarts

ASSUME RateLimitAssumption ==
  /\ IsFiniteSet(Requests)
  /\ Adjustable \subseteq Buckets
  /\ Limits \subseteq [max : Nat \ {0}, window : Nat \ {0}]
  /\ Default \in [Buckets -> Limits]
  /\ None \notin Limits \cup (Buckets \X Callers)
  /\ MaxTime \in Nat /\ MaxEpochs \in Nat

VARIABLES
  now,       \* the clock
  limits,    \* each bucket's limit
  hits,      \* rate_limit_hits
  at,        \* where each request stands, or its verdict
  who,       \* the bucket and the caller of each request
  stamp,     \* the time each request read
  limit,     \* the limit each request read
  seen,      \* the list each request read, filtered
  epoch,     \* history: changes of limits and restarts so far
  born,      \* history: the epoch in which each request began
  alone      \* history: no request of the same caller and bucket overlapped it

vars == <<now, limits, hits, at, who, stamp, limit, seen, epoch, born, alone>>
asked == <<who, stamp, limit, born>>

Keys == Buckets \X Callers
InFlight(r) == at[r] \in {"clocked", "read"}
Answered(r) == at[r] \in {"admitted", "refused"}

Init ==
  /\ now = 0
  /\ limits = Default
  /\ hits = [k \in Keys |-> {}]
  /\ at = [r \in Requests |-> "idle"]
  /\ who = [r \in Requests |-> None]
  /\ stamp = [r \in Requests |-> 0]
  /\ limit = [r \in Requests |-> None]
  /\ seen = [r \in Requests |-> {}]
  /\ epoch = 0
  /\ born = [r \in Requests |-> 0]
  /\ alone = [r \in Requests |-> TRUE]

----------------------------------------------------------------------------
\* Mutant: the buckets of a caller share one list.
SharedKey(k) == <<CHOOSE b \in Buckets : TRUE, k[2]>>

KeyOf(k) == k

\* The request's arguments and its time.time().
Begin(r, k) ==
  LET others == {q \in Requests : InFlight(q) /\ who[q] = k} IN
  /\ at[r] = "idle"
  /\ at' = [at EXCEPT ![r] = "clocked"]
  /\ who' = [who EXCEPT ![r] = k]
  /\ stamp' = [stamp EXCEPT ![r] = now]
  /\ limit' = [limit EXCEPT ![r] = limits[k[1]]]
  /\ born' = [born EXCEPT ![r] = epoch]
  /\ alone' = [q \in Requests |-> IF q \in others \/ (q = r /\ others # {})
                                  THEN FALSE ELSE alone[q]]
  /\ UNCHANGED <<now, limits, hits, seen, epoch>>

\* Mutant: a hit is forgotten one tick early.
ExpiresEarly(r, q) == stamp[r] - stamp[q] < limit[r].window - 1

InWindow(r, q) == stamp[r] - stamp[q] < limit[r].window

Read(r) ==
  /\ at[r] = "clocked"
  /\ at' = [at EXCEPT ![r] = "read"]
  /\ seen' = [seen EXCEPT ![r] = {q \in hits[KeyOf(who[r])] : InWindow(r, q)}]
  /\ UNCHANGED <<now, limits, hits, asked, epoch, alone>>

WithinLimit(r) == Cardinality(seen[r] \cup {r}) <= limit[r].max

\* A refused request counts too.
Write(r) ==
  /\ at[r] = "read"
  /\ hits' = [hits EXCEPT ![KeyOf(who[r])] = seen[r] \cup {r}]
  /\ at' = [at EXCEPT ![r] = IF WithinLimit(r) THEN "admitted" ELSE "refused"]
  /\ seen' = [seen EXCEPT ![r] = {}]
  /\ UNCHANGED <<now, limits, asked, epoch, alone>>

\* Mutant: a limit of nothing is accepted.
SetLimitUnchecked(b, l) ==
  /\ epoch < MaxEpochs
  /\ limits' = [limits EXCEPT ![b] = [l EXCEPT !.max = l.max - 1]]
  /\ epoch' = epoch + 1
  /\ UNCHANGED <<now, hits, at, asked, seen, alone>>

\* PUT /tier1/admin-config: the next request reads the new limit.
SetLimit(b, l) ==
  /\ epoch < MaxEpochs
  /\ limits' = [limits EXCEPT ![b] = l]
  /\ epoch' = epoch + 1
  /\ UNCHANGED <<now, hits, at, asked, seen, alone>>

\* The lists are in memory only, and so are the limits.
Restart ==
  /\ epoch < MaxEpochs
  /\ hits' = [k \in Keys |-> {}]
  /\ limits' = Default
  /\ at' = [r \in Requests |-> IF InFlight(r) THEN "lost" ELSE at[r]]
  /\ seen' = [r \in Requests |-> {}]
  /\ epoch' = epoch + 1
  /\ UNCHANGED <<now, asked, alone>>

Tick ==
  /\ now < MaxTime
  /\ now' = now + 1
  /\ UNCHANGED <<limits, hits, at, asked, seen, epoch, alone>>

Next ==
  \/ \E r \in Requests : \/ \E k \in Keys : Begin(r, k)
                         \/ Read(r) \/ Write(r)
  \/ \E b \in Adjustable, l \in Limits : SetLimit(b, l)
  \/ Restart
  \/ Tick

Spec == Init /\ [][Next]_vars

----------------------------------------------------------------------------
\* Every variable holds what the limiter and its callers can put there.
TypeOK ==
  /\ now \in 0..MaxTime /\ epoch \in 0..MaxEpochs
  /\ limits \in [Buckets -> Limits]
  /\ hits \in [Keys -> SUBSET Requests]
  /\ at \in [Requests -> {"idle", "clocked", "read", "admitted", "refused", "lost"}]
  /\ who \in [Requests -> Keys \cup {None}]
  /\ stamp \in [Requests -> 0..MaxTime]
  /\ limit \in [Requests -> Limits \cup {None}]
  /\ seen \in [Requests -> SUBSET Requests]
  /\ born \in [Requests -> 0..MaxEpochs]
  /\ alone \in [Requests -> BOOLEAN]

\* However requests interleave and limits change, a 429 is earned: the caller
\* itself made at least `max` other requests in that bucket within the window.
\* Requests in another bucket, of another caller or of before the window never
\* count (verify/main.py:160 and :203, "the same hidden-coupling bug class").
RefusedIsEarned ==
  \A r \in Requests : at[r] = "refused" =>
     Cardinality({q \in Requests \ {r} : /\ who[q] = who[r] /\ Answered(q)
                                         /\ stamp[r] - stamp[q] < limit[r].window})
        >= limit[r].max

\* Lost updates let overlapping requests through, and only those: of the
\* requests that overlapped none of their own caller's, since the limits last
\* changed and the service last started, no window admits more than `max`.
Counted(r, q) == /\ who[q] = who[r] /\ born[q] = born[r] /\ alone[q]
                 /\ Answered(q) /\ stamp[r] - stamp[q] < limit[r].window

SoloWithinLimit ==
  [][\A r \in Requests :
        at[r] = "read" /\ at'[r] = "admitted" /\ alone[r] /\ born[r] = epoch =>
           Cardinality({q \in Requests : Counted(r, q)}) < limit[r].max]_vars
=============================================================================
