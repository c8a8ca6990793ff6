--------------------------- MODULE Tier1Challenge ---------------------------
(***************************************************************************)
(* Tier 1 of the verify gateway: a domain asks for a challenge, publishes  *)
(* the token at a well-known path, and redeems it for a session.           *)
(*                                                                         *)
(* Nothing here takes a lock.  issue_challenge is one dict assignment; a   *)
(* verify request (`Requests') is a thread that reads the pending          *)
(* challenge, fetches the domain's file, stores a session, and only then   *)
(* consumes the challenge.  Tokens are fresh, so they are numbers; the     *)
(* rate limiter and the domain syntax decide only which requests get here. *)
(***************************************************************************)
EXTENDS Naturals, FiniteSets

CONSTANTS
    Domains,
    Requests,     \* verify requests
    TTLs,         \* values the TTLs can have (Tier1ConfigRequest bounds them)
    DefaultTTL,   \* CHALLENGE_TTL_SECONDS and SESSION_TTL_SECONDS, taken as equal
    MaxTokens,    \* bound on the challenges issued
    MaxTime,      \* bound of the clock
    MaxRestarts   \* bound on restarts of the verify process

ASSUME ChallengeAssumption ==
    /\ TTLs \subseteq Nat \ {0} /\ DefaultTTL \in TTLs
    /\ \E t \in TTLs : \A u \in TTLs : u <= t
    /\ MaxTokens \in Nat
    /\ MaxTime \in Nat
    /\ MaxRestarts \in Nat

VARIABLES
    now,         \* time.time()
    minted,      \* tokens issued so far
    owner,       \* per token: the domain it was issued for (history)
    site,        \* per domain: the token its challenge file shows, 0 for none
    shown,       \* per domain: every token its file has shown (history)
    challenges,  \* per domain: the pending challenge
    sessions,
    ttl,         \* challenge_ttl_seconds and session_ttl_seconds
    at,          \* per request: where its thread is
    asked,       \* per request: the domain
    expected,    \* per request: the token it read
    restarts

config == <<ttl, restarts>>
outside == <<site, shown>>
store == <<challenges, sessions>>
threads == <<at, asked, expected>>
vars == <<now, minted, owner, outside, store, config, threads>>

Tokens == 1..MaxTokens
NoToken == 0
NoChallenge == [token |-> NoToken, expires |-> 0]

MaxTTL == CHOOSE t \in TTLs : \A u \in TTLs : u <= t

DefaultConfig == [challenge |-> DefaultTTL, session |-> DefaultTTL]

Session == [domain : Domains, challenge : Tokens, by : Requests, expires : 0..MaxTime + MaxTTL]

Places == {"idle", "overdue", "fetching", "confirmed", "stored", "verified", "refused", "error", "lost"}

TypeOK ==
    /\ now \in 0..MaxTime
    /\ minted \in 0..MaxTokens
    /\ owner \in [1..minted -> Domains]
    /\ site \in [Domains -> Tokens \cup {NoToken}]
    /\ shown \in [Domains -> SUBSET Tokens]
    /\ challenges \in [Domains -> [token : Tokens \cup {NoToken}, expires : 0..MaxTime + MaxTTL]]
    /\ sessions \in SUBSET Session
    /\ ttl \in [challenge : TTLs, session : TTLs]
    /\ at \in [Requests -> Places]
    /\ asked \in [Requests -> Domains]
    /\ expected \in [Requests -> Tokens \cup {NoToken}]
    /\ restarts \in 0..MaxRestarts

Init ==
    /\ now = 0
    /\ minted = 0
    /\ owner = <<>>
    /\ site = [d \in Domains |-> NoToken]
    /\ shown = [d \in Domains |-> {}]
    /\ challenges = [d \in Domains |-> NoChallenge]
    /\ sessions = {}
    /\ ttl = DefaultConfig
    /\ at = [r \in Requests |-> "idle"]
    /\ asked \in [Requests -> Domains]
    /\ expected = [r \in Requests |-> NoToken]
    /\ restarts = 0

Tick ==
    /\ now < MaxTime
    /\ now' = now + 1
    /\ UNCHANGED <<minted, owner, outside, store, config, threads>>

(* Whoever controls a domain publishes a token, any it has heard of.       *)
Publish(d, t) ==
    /\ site' = [site EXCEPT ![d] = t]
    /\ shown' = [shown EXCEPT ![d] = @ \cup {t}]
    /\ UNCHANGED <<now, minted, owner, store, config, threads>>

(* Mutant: the challenge lives for both TTLs.                              *)
IssueLongChallenge(d) ==
    /\ minted < MaxTokens
    /\ minted' = minted + 1
    /\ owner' = [t \in 1..minted' |-> IF t = minted' THEN d ELSE owner[t]]
    /\ challenges' = [challenges EXCEPT ![d] =
                         [token |-> minted', expires |-> now + ttl.challenge + ttl.session]]
    /\ UNCHANGED <<now, outside, sessions, config, threads>>

(* create_challenge: the last one issued for a domain is the pending one.  *)
IssueChallenge(d) ==
    /\ minted < MaxTokens
    /\ minted' = minted + 1
    /\ owner' = [t \in 1..minted' |-> IF t = minted' THEN d ELSE owner[t]]
    /\ challenges' = [challenges EXCEPT ![d] = [token |-> minted', expires |-> now + ttl.challenge]]
    /\ UNCHANGED <<now, outside, sessions, config, threads>>
-----------------------------------------------------------------------------
(* verify_challenge *)

Move(r, place) == at' = [at EXCEPT ![r] = place]

(* get_pending_challenge: the entry is read once, then looked at.          *)
ReadPending(r) ==
    LET entry == challenges[asked[r]]
    IN  /\ at[r] = "idle"
        /\ \/ /\ entry = NoChallenge
              /\ Move(r, "refused")
              /\ UNCHANGED expected
           \/ /\ entry # NoChallenge /\ now > entry.expires
              /\ Move(r, "overdue")
              /\ UNCHANGED expected
           \/ /\ entry # NoChallenge /\ now <= entry.expires
              /\ Move(r, "fetching")
              /\ expected' = [expected EXCEPT ![r] = entry.token]
        /\ UNCHANGED <<now, minted, owner, outside, store, config, asked>>

(* `del' of an overdue challenge: whichever is there by then, a KeyError   *)
(* when none is.                                                           *)
DropOverdue(r) ==
    /\ at[r] = "overdue"
    /\ Move(r, IF challenges[asked[r]] = NoChallenge THEN "error" ELSE "refused")
    /\ challenges' = [challenges EXCEPT ![asked[r]] = NoChallenge]
    /\ UNCHANGED <<now, minted, owner, outside, sessions, config, asked, expected>>

(* fetch_challenge_file: resolve, connect, read, parse; one file, one      *)
(* token.                                                                  *)
FileShows(d, t) == t # NoToken /\ site[d] = t

(* Mutant: a file that can be fetched is taken for the right one.          *)
FetchAny(r) ==
    /\ at[r] = "fetching"
    /\ \E t \in Tokens : FileShows(asked[r], t)
    /\ Move(r, "confirmed")
    /\ UNCHANGED <<now, minted, owner, outside, store, config, asked, expected>>

(* The comparison with the token read before; any failure is a refusal.    *)
Fetch(r) ==
    /\ at[r] = "fetching"
    /\ \/ FileShows(asked[r], expected[r]) /\ Move(r, "confirmed")
       \/ Move(r, "refused")
    /\ UNCHANGED <<now, minted, owner, outside, store, config, asked, expected>>

(* issue_session stores the session, and then consumes the challenge that  *)
(* is pending by then.                                                     *)
IssueSession(r) ==
    /\ at[r] = "confirmed"
    /\ sessions' = sessions \cup {[domain |-> asked[r], challenge |-> expected[r], by |-> r,
                                   expires |-> now + ttl.session]}
    /\ Move(r, "stored")
    /\ UNCHANGED <<now, minted, owner, outside, challenges, config, asked, expected>>

(* Mutant: the challenge is left to expire.                                *)
KeepChallenge(r) ==
    /\ at[r] = "stored"
    /\ Move(r, "verified")
    /\ UNCHANGED <<now, minted, owner, outside, store, config, asked, expected>>

Consume(r) ==
    /\ at[r] = "stored"
    /\ challenges' = [challenges EXCEPT ![asked[r]] = NoChallenge]
    /\ Move(r, "verified")
    /\ UNCHANGED <<now, minted, owner, outside, sessions, config, asked, expected>>
-----------------------------------------------------------------------------
(* check_session: an overdue session is refused and dropped.               *)
CheckSession(s) ==
    /\ now > s.expires
    /\ sessions' = sessions \ {s}
    /\ UNCHANGED <<now, minted, owner, outside, challenges, config, threads>>

(* update_tier1_admin_config: what was issued keeps its expiry.            *)
SetConfig(new) ==
    /\ ttl' = new
    /\ UNCHANGED <<now, minted, owner, outside, store, restarts, threads>>

(* Store and configuration are in memory; the running requests die too.    *)
Restart ==
    /\ restarts < MaxRestarts
    /\ restarts' = restarts + 1
    /\ challenges' = [d \in Domains |-> NoChallenge]
    /\ sessions' = {}
    /\ at' = [r \in Requests |-> IF at[r] \in {"overdue", "fetching", "confirmed", "stored"} THEN "lost" ELSE at[r]]
    /\ ttl' = DefaultConfig
    /\ UNCHANGED <<now, minted, owner, outside, asked, expected>>

Verify(r) == ReadPending(r) \/ DropOverdue(r) \/ Fetch(r) \/ IssueSession(r) \/ Consume(r)

Next ==
    \/ Tick
    \/ \E d \in Domains : IssueChallenge(d) \/ \E t \in 1..minted : Publish(d, t)
    \/ \E r \in Requests : Verify(r)
    \/ \E s \in sessions : CheckSession(s)
    \/ \E new \in [challenge : TTLs, session : TTLs] : SetConfig(new)
    \/ Restart

Spec == Init /\ [][Next]_vars
-----------------------------------------------------------------------------
(* A session proves control of its domain: the token was issued for that   *)
(* very domain and the domain's own file has shown it (verify_challenge).  *)
SessionProvesControl ==
    \A s \in sessions : owner[s.challenge] = s.domain /\ s.challenge \in shown[s.domain]

(* A redeemed challenge is not read again: once a request has been         *)
(* answered with a session for it, no request that starts later, not even  *)
(* after a restart, gets as far as the fetch with the same token.          *)
NoReplay ==
    [][\A r, q \in Requests :
          (at[r] = "idle" /\ at'[r] = "fetching" /\ at[q] = "verified") => expected'[r] # expected[q]]_vars
=============================================================================
