------------------------ MODULE Tier1ChallengeProofs ------------------------
(***************************************************************************)
(* For every set of domains and requests, every TTL and any number of      *)
(* tokens and restarts: a session proves control of its domain, and a      *)
(* redeemed challenge is not read again.                                   *)
(***************************************************************************)
EXTENDS Tier1Challenge, TLAPS

(* Just enough types: which domain every function has.                     *)
Shape ==
    /\ minted \in Nat
    /\ owner = [t \in 1..minted |-> owner[t]]
    /\ site = [d \in Domains |-> site[d]]
    /\ shown = [d \in Domains |-> shown[d]]
    /\ challenges = [d \in Domains |-> challenges[d]]
    /\ at = [r \in Requests |-> at[r]]
    /\ asked \in [Requests -> Domains]
    /\ expected = [r \in Requests |-> expected[r]]

IssuedFor(t, d) == t \in 1..minted /\ owner[t] = d

(* A pending challenge, and the token a request compares with, belong to   *)
(* the domain they are kept for.                                           *)
ChallengesAreOwn ==
    \A d \in Domains : challenges[d] = NoChallenge \/ IssuedFor(challenges[d].token, d)

Compared == {"fetching", "confirmed", "stored", "verified"}

ExpectedIsOwn ==
    \A r \in Requests : at[r] \in Compared => IssuedFor(expected[r], asked[r])

(* What a file shows it has shown, and what was compared was shown.        *)
SiteIsShown == \A d \in Domains : site[d] # NoToken => site[d] \in shown[d]

ConfirmedWasShown ==
    \A r \in Requests : at[r] = "confirmed" => expected[r] \in shown[asked[r]]

(* A redeemed challenge is pending no more.                                *)
VerifiedIsGone ==
    \A r \in Requests : at[r] = "verified" => \A d \in Domains : challenges[d].token # expected[r]

SessionIsTrue(s) ==
    s.domain \in Domains /\ IssuedFor(s.challenge, s.domain) /\ s.challenge \in shown[s.domain]

ControlInv ==
    /\ Shape
    /\ ChallengesAreOwn
    /\ ExpectedIsOwn
    /\ SiteIsShown
    /\ ConfirmedWasShown
    /\ VerifiedIsGone
    /\ \A s \in sessions : SessionIsTrue(s)
-----------------------------------------------------------------------------
(* Initially nothing is pending, shown or in session.                      *)
LEMMA InitControl == Init => ControlInv
<1> SUFFICES ASSUME Init PROVE ControlInv
  OBVIOUS
<1>1. Shape
  <2>1. minted = 0 /\ owner = <<>> /\ asked \in [Requests -> Domains]
    BY DEF Init
  <2>2. owner = [t \in 1..minted |-> owner[t]]
    BY <2>1
  <2> QED
    BY <2>1, <2>2 DEF Init, Shape
<1>2. ChallengesAreOwn /\ SiteIsShown
  BY DEF Init, ChallengesAreOwn, SiteIsShown
<1>3. ExpectedIsOwn /\ ConfirmedWasShown /\ VerifiedIsGone
  BY DEF Init, ExpectedIsOwn, ConfirmedWasShown, VerifiedIsGone, Compared
<1>4. \A x \in sessions : SessionIsTrue(x)
  BY DEF Init
<1> QED
  BY <1>1, <1>2, <1>3, <1>4 DEF ControlInv

(* create_challenge keeps it: the new token is nobody else's, and what was *)
(* issued before keeps its owner.                                          *)
LEMMA IssueStep ==
    ASSUME ControlInv, NEW d \in Domains, IssueChallenge(d)
    PROVE  ControlInv'
<1> USE DEF IssueChallenge, outside, config, threads
<1>1. minted \in Nat /\ minted' = minted + 1 /\ owner'[minted'] = d
  <2>1. minted \in Nat /\ minted' = minted + 1
    BY DEF ControlInv, Shape
  <2>2. owner' = [t \in 1..minted' |-> IF t = minted' THEN d ELSE owner[t]]
    OBVIOUS
  <2>3. minted' \in 1..minted'
    BY <2>1
  <2> QED
    BY <2>1, <2>2, <2>3
<1>2. ASSUME NEW t, NEW e, IssuedFor(t, e) PROVE IssuedFor(t, e)'
  BY <1>1, <1>2 DEF IssuedFor
<1>3. Shape'
  <2>1. owner' = [t \in 1..minted' |-> owner'[t]]
    <3> HIDE DEF IssueChallenge
    <3>1. owner' = [t \in 1..minted' |-> IF t = minted' THEN d ELSE owner[t]]
      BY DEF IssueChallenge
    <3> QED
      BY <3>1
  <2>2. challenges' = [e \in Domains |-> challenges'[e]]
    BY DEF ControlInv, Shape
  <2> QED
    BY <1>1, <2>1, <2>2 DEF ControlInv, Shape
<1>4. ChallengesAreOwn'
  <2> SUFFICES ASSUME NEW e \in Domains
               PROVE  challenges'[e] = NoChallenge \/ IssuedFor(challenges[e].token, e)'
    BY DEF ChallengesAreOwn
  <2>1. CASE e = d
    BY <1>1, <2>1 DEF ControlInv, Shape, IssuedFor
  <2>2. CASE e # d
    BY <1>2, <2>2 DEF ControlInv, Shape, ChallengesAreOwn
  <2> QED
    BY <2>1, <2>2
<1>5. ExpectedIsOwn' /\ ConfirmedWasShown' /\ SiteIsShown'
  BY <1>2 DEF ControlInv, ExpectedIsOwn, ConfirmedWasShown, SiteIsShown
<1>6. \A x \in sessions' : SessionIsTrue(x)'
  BY <1>2 DEF ControlInv, SessionIsTrue
<1>7. VerifiedIsGone'
  <2> SUFFICES ASSUME NEW r \in Requests, at[r] = "verified", NEW e \in Domains
               PROVE  challenges'[e].token # expected[r]
    BY DEF VerifiedIsGone
  <2>1. expected[r] \in 1..minted
    BY DEF ControlInv, ExpectedIsOwn, Compared, IssuedFor
  <2>2. CASE e = d
    BY <1>1, <2>1, <2>2 DEF ControlInv, Shape
  <2>3. CASE e # d
    BY <2>3 DEF ControlInv, Shape, VerifiedIsGone
  <2> QED
    BY <2>2, <2>3
<1> QED
  BY <1>3, <1>4, <1>5, <1>6, <1>7 DEF ControlInv

(* Publishing a token only adds to what a file has shown.                  *)
LEMMA PublishStep ==
    ASSUME ControlInv, NEW d \in Domains, NEW t \in 1..minted, Publish(d, t)
    PROVE  ControlInv'
<1> USE DEF Publish, store, config, threads
<1>1. \A e \in Domains : shown[e] \subseteq shown'[e]
  BY DEF ControlInv, Shape
<1>2. Shape'
  BY DEF ControlInv, Shape
<1>3. ChallengesAreOwn' /\ ExpectedIsOwn' /\ VerifiedIsGone'
  BY DEF ControlInv, ChallengesAreOwn, ExpectedIsOwn, VerifiedIsGone, IssuedFor
<1>4. SiteIsShown'
  BY <1>1 DEF ControlInv, Shape, SiteIsShown
<1>5. ConfirmedWasShown'
  BY <1>1 DEF ControlInv, Shape, ConfirmedWasShown
<1>6. \A x \in sessions' : SessionIsTrue(x)'
  BY <1>1 DEF ControlInv, SessionIsTrue, IssuedFor
<1> QED
  BY <1>2, <1>3, <1>4, <1>5, <1>6 DEF ControlInv

(* Each step of verify_challenge keeps it; storing the session is where it *)
(* is needed.                                                              *)
LEMMA VerifyStep ==
    ASSUME ControlInv, NEW r \in Requests, Verify(r)
    PROVE  ControlInv'
<1>1. CASE ReadPending(r)
  <2> USE <1>1 DEF ReadPending, Move, outside, store, config
  <2>1. Shape'
    BY DEF ControlInv, Shape
  <2>2. ChallengesAreOwn' /\ SiteIsShown'
    BY DEF ControlInv, ChallengesAreOwn, SiteIsShown, IssuedFor
  <2>3. ExpectedIsOwn'
    <3> SUFFICES ASSUME NEW q \in Requests, at'[q] \in Compared
                 PROVE  IssuedFor(expected[q], asked[q])'
      BY DEF ExpectedIsOwn
    <3>1. CASE q = r
      BY <3>1 DEF ControlInv, Shape, ChallengesAreOwn, IssuedFor, Compared
    <3>2. CASE q # r
      BY <3>2 DEF ControlInv, Shape, ExpectedIsOwn, IssuedFor
    <3> QED
      BY <3>1, <3>2
  <2>4. ConfirmedWasShown'
    BY DEF ControlInv, Shape, ConfirmedWasShown
  <2>5. \A x \in sessions' : SessionIsTrue(x)'
    BY DEF ControlInv, SessionIsTrue, IssuedFor
  <2>6. VerifiedIsGone'
    BY DEF ControlInv, Shape, VerifiedIsGone
  <2> QED
    BY <2>1, <2>2, <2>3, <2>4, <2>5, <2>6 DEF ControlInv
<1>2. CASE DropOverdue(r) \/ Consume(r)
  <2> USE <1>2 DEF DropOverdue, Consume, Move, outside, config
  <2>1. Shape'
    BY DEF ControlInv, Shape
  <2>2. ChallengesAreOwn' /\ SiteIsShown'
    BY DEF ControlInv, Shape, ChallengesAreOwn, SiteIsShown, IssuedFor
  <2>3. ExpectedIsOwn' /\ ConfirmedWasShown'
    BY DEF ControlInv, Shape, ExpectedIsOwn, ConfirmedWasShown, IssuedFor, Compared
  <2>4. \A x \in sessions' : SessionIsTrue(x)'
    BY DEF ControlInv, SessionIsTrue, IssuedFor
  <2>5. VerifiedIsGone'
    <3> SUFFICES ASSUME NEW q \in Requests, at'[q] = "verified", NEW d \in Domains
                 PROVE  challenges'[d].token # expected[q]
      BY DEF VerifiedIsGone
    <3>1. IssuedFor(expected[q], asked[q])
      BY DEF ControlInv, Shape, ExpectedIsOwn, Compared
    <3>2. NoChallenge.token # expected[q]
      BY <3>1 DEF ControlInv, Shape, IssuedFor, NoChallenge, NoToken
    <3>3. CASE q # r
      BY <3>2, <3>3 DEF ControlInv, Shape, VerifiedIsGone
    <3>4. CASE q = r
      <4>1. Consume(r)
        BY <3>4 DEF ControlInv, Shape
      <4>2. challenges' = [challenges EXCEPT ![asked[r]] = NoChallenge]
            /\ UNCHANGED expected
        BY <4>1
      <4>3. challenges = [e \in Domains |-> challenges[e]]
        BY DEF ControlInv, Shape
      <4>4. challenges[d] = NoChallenge \/ owner[challenges[d].token] = d
        BY DEF ControlInv, ChallengesAreOwn, IssuedFor
      <4>5. owner[expected[r]] = asked[r]
        BY <3>1, <3>4 DEF IssuedFor
      <4> HIDE <1>2 DEF DropOverdue, Consume
      <4>6. CASE d = asked[r]
        BY <3>2, <3>4, <4>2, <4>3, <4>6
      <4>7. CASE d # asked[r]
        <5>1. challenges'[d] = challenges[d]
          BY <4>2, <4>3, <4>7
        <5> QED
          BY <3>2, <3>4, <4>2, <4>4, <4>5, <4>7, <5>1
      <4> QED
        BY <4>6, <4>7
    <3> QED
      BY <3>3, <3>4
  <2> QED
    BY <2>1, <2>2, <2>3, <2>4, <2>5 DEF ControlInv
<1>3. CASE Fetch(r)
  <2> USE <1>3 DEF Fetch, FileShows, Move, outside, store, config
  <2>1. Shape'
    BY DEF ControlInv, Shape
  <2>2. ChallengesAreOwn' /\ SiteIsShown'
    BY DEF ControlInv, ChallengesAreOwn, SiteIsShown, IssuedFor
  <2>3. ExpectedIsOwn' /\ VerifiedIsGone'
    BY DEF ControlInv, Shape, ExpectedIsOwn, VerifiedIsGone, IssuedFor, Compared
  <2>4. ConfirmedWasShown'
    BY DEF ControlInv, Shape, SiteIsShown, ConfirmedWasShown
  <2>5. \A x \in sessions' : SessionIsTrue(x)'
    BY DEF ControlInv, SessionIsTrue, IssuedFor
  <2> QED
    BY <2>1, <2>2, <2>3, <2>4, <2>5 DEF ControlInv
<1>4. CASE IssueSession(r)
  <2> USE <1>4 DEF IssueSession, Move, outside, config
  <2>1. Shape'
    BY DEF ControlInv, Shape
  <2>2. ChallengesAreOwn' /\ SiteIsShown'
    BY DEF ControlInv, ChallengesAreOwn, SiteIsShown, IssuedFor
  <2>3. ExpectedIsOwn' /\ ConfirmedWasShown' /\ VerifiedIsGone'
    BY DEF ControlInv, Shape, ExpectedIsOwn, ConfirmedWasShown, VerifiedIsGone, IssuedFor, Compared
  <2>4. IssuedFor(expected[r], asked[r]) /\ expected[r] \in shown[asked[r]] /\ asked[r] \in Domains
    BY DEF ControlInv, Shape, ExpectedIsOwn, ConfirmedWasShown, Compared
  <2>5. \A x \in sessions' : SessionIsTrue(x)'
    BY <2>4 DEF ControlInv, SessionIsTrue, IssuedFor
  <2> QED
    BY <2>1, <2>2, <2>3, <2>5 DEF ControlInv
<1> QED
  BY <1>1, <1>2, <1>3, <1>4 DEF Verify

(* Time, configuration, the end of a session, a restart of the process:    *)
(* nothing new is pending, confirmed or in session.                        *)
LEMMA OtherStep ==
    ASSUME ControlInv,
           \/ Tick
           \/ \E x \in sessions : CheckSession(x)
           \/ \E new \in [challenge : TTLs, session : TTLs] : SetConfig(new)
           \/ Restart
           \/ UNCHANGED vars
    PROVE  ControlInv'
<1> USE DEF Tick, CheckSession, SetConfig, Restart, vars, outside, store, config, threads
<1>1. /\ UNCHANGED <<minted, owner, site, shown, asked, expected>>
      /\ sessions' \subseteq sessions
      /\ challenges' = challenges \/ challenges' = [d \in Domains |-> NoChallenge]
      /\ \/ at' = at
         \/ at' = [r \in Requests |-> IF at[r] \in {"overdue", "fetching", "confirmed", "stored"}
                                        THEN "lost" ELSE at[r]]
  OBVIOUS
<1> HIDE DEF Tick, CheckSession, SetConfig, Restart, vars, outside, store, config, threads
<1>2. Shape'
  BY <1>1 DEF ControlInv, Shape
<1>3. ChallengesAreOwn' /\ SiteIsShown'
  BY <1>1 DEF ControlInv, ChallengesAreOwn, SiteIsShown, IssuedFor
<1>4. \A r \in Requests : at'[r] \in Compared => at'[r] = at[r]
  BY <1>1 DEF Compared
<1>5. ExpectedIsOwn' /\ ConfirmedWasShown'
  BY <1>1, <1>4 DEF ControlInv, ExpectedIsOwn, ConfirmedWasShown, IssuedFor, Compared
<1>7. VerifiedIsGone'
  <2> SUFFICES ASSUME NEW r \in Requests, at'[r] = "verified", NEW d \in Domains
               PROVE  challenges'[d].token # expected[r]
    BY <1>1 DEF VerifiedIsGone
  <2>1. at[r] = "verified" /\ IssuedFor(expected[r], asked[r])
    BY <1>4 DEF ControlInv, ExpectedIsOwn, Compared
  <2>2. NoChallenge.token # expected[r]
    BY <2>1 DEF ControlInv, Shape, IssuedFor, NoChallenge, NoToken
  <2> QED
    BY <1>1, <2>1, <2>2 DEF ControlInv, VerifiedIsGone
<1>6. \A x \in sessions' : SessionIsTrue(x)'
  BY <1>1 DEF ControlInv, SessionIsTrue, IssuedFor
<1> QED
  BY <1>2, <1>3, <1>5, <1>6, <1>7 DEF ControlInv

(* The invariant that follows a token from its issue over the file that    *)
(* shows it to the session (verify_challenge, issue_session).              *)
THEOREM ControlInvariant == Spec => []ControlInv
<1>1. ControlInv /\ [Next]_vars => ControlInv'
  BY IssueStep, PublishStep, VerifyStep, OtherStep DEF Next
<1> QED
  BY <1>1, InitControl, PTL DEF Spec

(* No session exists for a domain whose own file has not shown a token     *)
(* issued for that domain: not with overlapping requests, reissued         *)
(* challenges, shortened TTLs or restarts.                                 *)
THEOREM SessionsProveControl == Spec => []SessionProvesControl
<1>1. ControlInv => SessionProvesControl
  BY DEF ControlInv, SessionIsTrue, IssuedFor, SessionProvesControl
<1> QED
  BY <1>1, ControlInvariant, PTL

(* No request that starts after a challenge has been redeemed gets as far  *)
(* as the fetch with its token (issue_session consumes it).                *)
THEOREM RedeemedIsNotRead == Spec => NoReplay
<1>1. ControlInv /\ [Next]_vars =>
        [\A r, q \in Requests :
           (at[r] = "idle" /\ at'[r] = "fetching" /\ at[q] = "verified") => expected'[r] # expected[q]]_vars
  <2> SUFFICES ASSUME ControlInv, Next,
                      NEW r \in Requests, NEW q \in Requests,
                      at[r] = "idle", at'[r] = "fetching", at[q] = "verified"
               PROVE  expected'[r] # expected[q]
    OBVIOUS
  <2>1. \A p \in Requests : at' # at /\ Verify(p) => at' = [at EXCEPT ![p] = at'[p]]
    BY DEF Verify, ReadPending, DropOverdue, Fetch, IssueSession, Consume, Move, ControlInv, Shape
  <2>2. \A p \in Requests : Verify(p) => p = r
    BY <2>1 DEF ControlInv, Shape
  <2>3. ReadPending(r)
    <3>1. PICK p \in Requests : Verify(p)
      BY DEF Next, Tick, IssueChallenge, Publish, CheckSession, SetConfig, Restart, threads, ControlInv, Shape
    <3> QED
      BY <2>2, <3>1 DEF Verify, DropOverdue, Fetch, IssueSession, Consume
  <2>4. expected'[r] = challenges[asked[r]].token
    BY <2>3 DEF ReadPending, Move, ControlInv, Shape
  <2> QED
    BY <2>4 DEF ControlInv, Shape, VerifiedIsGone
<1> QED
  BY <1>1, ControlInvariant, PTL DEF Spec, NoReplay
-----------------------------------------------------------------------------
\* A TTL is at most the largest, which the configuration request bounds.
LEMMA LargestTTL == MaxTTL \in Nat /\ \A u \in TTLs : u \in Nat /\ u <= MaxTTL
BY ChallengeAssumption DEF MaxTTL

Challenge == [token : Tokens \cup {NoToken}, expires : 0..MaxTime + MaxTTL]

\* What is issued now ends within the bound of the clock and the largest TTL.
LEMMA ExpiryType ==
    ASSUME TypeOK
    PROVE  now + ttl.challenge \in 0..MaxTime + MaxTTL /\ now + ttl.session \in 0..MaxTime + MaxTTL
<1>1. ttl.challenge \in TTLs /\ ttl.session \in TTLs /\ now \in 0..MaxTime
  BY DEF TypeOK
<1>2. /\ ttl.challenge \in Nat /\ ttl.challenge <= MaxTTL /\ ttl.session \in Nat /\ ttl.session <= MaxTTL
      /\ MaxTTL \in Nat /\ MaxTime \in Nat
  BY <1>1, LargestTTL, ChallengeAssumption
<1> QED
  BY <1>1, <1>2

\* What the gateway, its clock and the domains' files do keeps the types.
LEMMA OutsideType ==
    ASSUME TypeOK,
           \/ Tick
           \/ \E d \in Domains : \E t \in 1..minted : Publish(d, t)
           \/ \E s \in sessions : CheckSession(s)
           \/ \E new \in [challenge : TTLs, session : TTLs] : SetConfig(new)
           \/ Restart
           \/ UNCHANGED vars
    PROVE  TypeOK'
<1> USE ChallengeAssumption, LargestTTL
<1>1. CASE Tick
  BY <1>1 DEF Tick, TypeOK, outside, store, config, threads
<1>2. ASSUME NEW d \in Domains, NEW t \in 1..minted, Publish(d, t) PROVE TypeOK'
  <2>1. t \in Tokens
    BY DEF TypeOK, Tokens
  <2> QED
    BY <1>2, <2>1 DEF Publish, TypeOK, store, config, threads
<1>3. ASSUME NEW s \in sessions, CheckSession(s) PROVE TypeOK'
  BY <1>3 DEF CheckSession, TypeOK, outside, config, threads
<1>4. ASSUME NEW new \in [challenge : TTLs, session : TTLs], SetConfig(new) PROVE TypeOK'
  BY <1>4 DEF SetConfig, TypeOK, outside, store, threads
<1>5. CASE Restart
  <2>1. NoChallenge \in Challenge /\ DefaultConfig \in [challenge : TTLs, session : TTLs]
    BY DEF NoChallenge, Challenge, DefaultConfig, Tokens, NoToken
  <2>2. /\ challenges' \in [Domains -> Challenge] /\ at' \in [Requests -> Places]
        /\ ttl' \in [challenge : TTLs, session : TTLs] /\ restarts' \in 0..MaxRestarts /\ sessions' = {}
    BY <1>5, <2>1 DEF Restart, TypeOK, Places
  <2> QED
    BY <1>5, <2>2 DEF Restart, TypeOK, outside, Challenge
<1>6. CASE UNCHANGED vars
  BY <1>6 DEF vars, TypeOK, outside, store, config, threads
<1> QED
  BY <1>1, <1>2, <1>3, <1>4, <1>5, <1>6

\* A challenge that is issued has a token of its own and ends within the
\* largest TTL.
LEMMA IssueType ==
    ASSUME TypeOK, NEW d \in Domains, IssueChallenge(d)
    PROVE  TypeOK'
<1> USE ChallengeAssumption, LargestTTL
<1>1. /\ minted' = minted + 1 /\ minted' \in 0..MaxTokens /\ minted' \in Tokens
      /\ now + ttl.challenge \in 0..MaxTime + MaxTTL
  BY ExpiryType DEF IssueChallenge, TypeOK, Tokens
<1>2. owner' \in [1..minted' -> Domains]
  <2>1. owner' = [t \in 1..minted' |-> IF t = minted' THEN d ELSE owner[t]]
    BY DEF IssueChallenge
  <2>2. \A t \in 1..minted' : t # minted' => t \in 1..minted
    BY <1>1 DEF TypeOK
  <2> QED
    BY <2>1, <2>2 DEF TypeOK
<1>3. [token |-> minted', expires |-> now + ttl.challenge] \in Challenge
  BY <1>1 DEF Challenge
<1>4. challenges' \in [Domains -> Challenge]
  BY <1>3 DEF IssueChallenge, TypeOK, Challenge
<1> QED
  BY <1>1, <1>2, <1>4 DEF IssueChallenge, TypeOK, outside, config, threads, Challenge

\* A verify request stores a session for the token it has compared, one that
\* was issued.
LEMMA VerifyType ==
    ASSUME TypeOK, ControlInv, NEW r \in Requests, Verify(r)
    PROVE  TypeOK'
<1> USE ChallengeAssumption, LargestTTL
<1>1. asked[r] \in Domains /\ NoChallenge \in Challenge /\ challenges[asked[r]] \in Challenge
  BY DEF TypeOK, Challenge, NoChallenge, Tokens, NoToken
<1>2. \A place \in Places : Move(r, place) => at' \in [Requests -> Places]
  BY DEF Move, TypeOK
<1>3. CASE ReadPending(r)
  <2>1. at' \in [Requests -> Places]
    BY <1>2, <1>3 DEF ReadPending, Places
  <2>2. expected' \in [Requests -> Tokens \cup {NoToken}]
    BY <1>1, <1>3 DEF ReadPending, TypeOK, Challenge
  <2> QED
    BY <1>3, <2>1, <2>2 DEF ReadPending, TypeOK, outside, store, config
<1>4. CASE DropOverdue(r)
  <2>1. at' \in [Requests -> Places]
    BY <1>2, <1>4 DEF DropOverdue, Places
  <2>2. challenges' \in [Domains -> Challenge]
    BY <1>1, <1>4 DEF DropOverdue, TypeOK, Challenge
  <2> QED
    BY <1>4, <2>1, <2>2 DEF DropOverdue, TypeOK, outside, config, Challenge
<1>5. CASE Fetch(r)
  <2>1. at' \in [Requests -> Places]
    BY <1>2, <1>5 DEF Fetch, Places
  <2> QED
    BY <1>5, <2>1 DEF Fetch, TypeOK, outside, store, config
<1>6. CASE IssueSession(r)
  <2>1. at' \in [Requests -> Places]
    BY <1>2, <1>6 DEF IssueSession, Places
  <2>2. expected[r] \in Tokens
    <3>1. expected[r] \in 1..minted
      BY <1>6 DEF IssueSession, ControlInv, ExpectedIsOwn, Compared, IssuedFor
    <3> QED
      BY <3>1 DEF TypeOK, Tokens
  <2>3. now + ttl.session \in 0..MaxTime + MaxTTL
    BY ExpiryType
  <2>4. [domain |-> asked[r], challenge |-> expected[r], by |-> r, expires |-> now + ttl.session] \in Session
    BY <1>1, <2>2, <2>3 DEF Session
  <2>5. sessions' \in SUBSET Session
    BY <1>6, <2>4 DEF IssueSession, TypeOK
  <2> QED
    BY <1>6, <2>1, <2>5 DEF IssueSession, TypeOK, outside, config
<1>7. CASE Consume(r)
  <2>1. at' \in [Requests -> Places]
    BY <1>2, <1>7 DEF Consume, Places
  <2>2. challenges' \in [Domains -> Challenge]
    BY <1>1, <1>7 DEF Consume, TypeOK, Challenge
  <2> QED
    BY <1>7, <2>1, <2>2 DEF Consume, TypeOK, outside, config, Challenge
<1> QED
  BY <1>3, <1>4, <1>5, <1>6, <1>7 DEF Verify

\* At the start every variable has its type.
LEMMA InitType == Init => TypeOK
<1> SUFFICES ASSUME Init PROVE TypeOK
  OBVIOUS
<1> USE ChallengeAssumption, LargestTTL
<1>1. NoChallenge \in Challenge /\ DefaultConfig \in [challenge : TTLs, session : TTLs]
  BY DEF NoChallenge, Challenge, DefaultConfig, Tokens, NoToken
<1>2. owner \in [1..minted -> Domains]
  <2>1. 1..0 = {} /\ <<>> \in [{} -> Domains]
    OBVIOUS
  <2> QED
    BY <2>1 DEF Init
<1> QED
  BY <1>1, <1>2 DEF Init, TypeOK, Challenge, Places

(* Every variable of the gateway's Tier 1 keeps its type; above all, a     *)
(* session is only ever stored for a token that create_challenge issued,   *)
(* and no expiry is later than the largest TTL allows.                     *)
THEOREM TypeInvariant == Spec => []TypeOK
<1>1. TypeOK /\ ControlInv /\ [Next]_vars => TypeOK'
  <2> SUFFICES ASSUME TypeOK, ControlInv, [Next]_vars PROVE TypeOK'
    OBVIOUS
  <2> QED
    BY OutsideType, IssueType, VerifyType DEF Next
<1> QED
  BY <1>1, InitType, ControlInvariant, PTL DEF Spec
=============================================================================
