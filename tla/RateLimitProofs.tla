--------------------------- MODULE RateLimitProofs ---------------------------
(***************************************************************************)
(* RateLimit for any sets of requests, buckets and callers and any limits: *)
(* a refusal is earned, and only overlapping requests exceed a limit.      *)
(***************************************************************************)
EXTENDS RateLimit, FiniteSetTheorems, TLAPS

Under(r) == InFlight(r) \/ Answered(r)

\* Every entry of a list is an answered request of that caller and bucket.
ListsAreOwn ==
  /\ \A k \in Keys : \A q \in hits[k] : who[q] = k /\ Answered(q)
  /\ \A r \in Requests : at[r] # "read" => seen[r] = {}
  /\ \A r \in Requests : \A q \in seen[r] :
        who[q] = who[r] /\ Answered(q) /\ stamp[r] - stamp[q] < limit[r].window

\* What a request has read, and when.
RequestsAreRead ==
  \A r \in Requests : Under(r) =>
     /\ who[r] \in Keys /\ limit[r] \in Limits /\ stamp[r] <= now /\ born[r] <= epoch
     /\ born[r] = epoch => limit[r] = limits[who[r][1]]

LimitInv == TypeOK /\ ListsAreOwn /\ RequestsAreRead

\* At the start no list has an entry.
LEMMA LimitInit == Init => LimitInv
<1> SUFFICES ASSUME Init PROVE LimitInv
  OBVIOUS
<1>1. TypeOK
  BY RateLimitAssumption DEF Init, TypeOK
<1>2. ListsAreOwn /\ RequestsAreRead
  BY DEF Init, ListsAreOwn, RequestsAreRead, Under, InFlight, Answered
<1> QED
  BY <1>1, <1>2 DEF LimitInv

\* No step breaks it: what a request appends, and what it writes back, are its
\* own key's.
LEMMA LimitNext == LimitInv /\ [Next]_vars => LimitInv'
<1> SUFFICES ASSUME LimitInv, [Next]_vars PROVE LimitInv'
  OBVIOUS
<1>0. TypeOK /\ ListsAreOwn /\ RequestsAreRead
  BY DEF LimitInv
<1> USE RateLimitAssumption, <1>0 DEF Keys, asked
<1>1. ASSUME NEW r \in Requests, NEW k \in Keys, Begin(r, k) PROVE LimitInv'
  <2>1. TypeOK'
    BY <1>1 DEF Begin, TypeOK, KeyOf
  <2>2. ListsAreOwn'
    BY <1>1 DEF Begin, TypeOK, KeyOf, ListsAreOwn, RequestsAreRead, Under, InFlight, Answered, InWindow
  <2>3. RequestsAreRead'
    BY <1>1 DEF Begin, TypeOK, KeyOf, RequestsAreRead, Under, InFlight, Answered
  <2> QED
    BY <2>1, <2>2, <2>3 DEF LimitInv
<1>2. ASSUME NEW r \in Requests, Read(r) PROVE LimitInv'
  <2>1. TypeOK'
    <3>1. who[r] \in Keys
      BY <1>2 DEF Read, RequestsAreRead, Under, InFlight
    <3>2. {q \in hits[KeyOf(who[r])] : InWindow(r, q)} \in SUBSET Requests
      BY <3>1 DEF KeyOf, TypeOK
    <3>3. seen' \in [Requests -> SUBSET Requests]
      BY <1>2, <3>2 DEF Read, TypeOK
    <3> QED
      BY <1>2, <3>3 DEF Read, TypeOK
  <2>2. ListsAreOwn'
    BY <1>2 DEF Read, TypeOK, KeyOf, ListsAreOwn, RequestsAreRead, Under, InFlight, Answered, InWindow
  <2>3. RequestsAreRead'
    BY <1>2 DEF Read, TypeOK, KeyOf, RequestsAreRead, Under, InFlight, Answered
  <2> QED
    BY <2>1, <2>2, <2>3 DEF LimitInv
<1>3. ASSUME NEW r \in Requests, Write(r) PROVE LimitInv'
  <2>1. TypeOK'
    BY <1>3 DEF Write, TypeOK, KeyOf
  <2>2. ListsAreOwn'
    BY <1>3 DEF Write, TypeOK, KeyOf, ListsAreOwn, RequestsAreRead, Under, InFlight, Answered, InWindow
  <2>3. RequestsAreRead'
    BY <1>3 DEF Write, TypeOK, KeyOf, RequestsAreRead, Under, InFlight, Answered
  <2> QED
    BY <2>1, <2>2, <2>3 DEF LimitInv
<1>4. ASSUME NEW b \in Adjustable, NEW l \in Limits, SetLimit(b, l) PROVE LimitInv'
  <2>1. TypeOK'
    BY <1>4 DEF SetLimit, TypeOK, KeyOf
  <2>2. ListsAreOwn'
    BY <1>4 DEF SetLimit, TypeOK, KeyOf, ListsAreOwn, RequestsAreRead, Under, InFlight, Answered, InWindow
  <2>3. RequestsAreRead'
    BY <1>4 DEF SetLimit, TypeOK, KeyOf, RequestsAreRead, Under, InFlight, Answered
  <2> QED
    BY <2>1, <2>2, <2>3 DEF LimitInv
<1>5. ASSUME Restart PROVE LimitInv'
  <2>1. TypeOK'
    BY <1>5 DEF Restart, TypeOK, KeyOf
  <2>2. ListsAreOwn'
    BY <1>5 DEF Restart, TypeOK, KeyOf, ListsAreOwn, RequestsAreRead, Under, InFlight, Answered, InWindow
  <2>3. RequestsAreRead'
    BY <1>5 DEF Restart, TypeOK, KeyOf, RequestsAreRead, Under, InFlight, Answered
  <2> QED
    BY <2>1, <2>2, <2>3 DEF LimitInv
<1>6. ASSUME Tick PROVE LimitInv'
  <2>1. TypeOK'
    BY <1>6 DEF Tick, TypeOK, KeyOf
  <2>2. ListsAreOwn'
    BY <1>6 DEF Tick, TypeOK, KeyOf, ListsAreOwn, RequestsAreRead, Under, InFlight, Answered, InWindow
  <2>3. RequestsAreRead'
    BY <1>6 DEF Tick, TypeOK, KeyOf, RequestsAreRead, Under, InFlight, Answered
  <2> QED
    BY <2>1, <2>2, <2>3 DEF LimitInv
<1>7. CASE UNCHANGED vars
  BY <1>7 DEF vars, LimitInv, TypeOK, ListsAreOwn, RequestsAreRead, Under, InFlight, Answered
<1> QED
  BY <1>1, <1>2, <1>3, <1>4, <1>5, <1>6, <1>7 DEF Next

----------------------------------------------------------------------------
\* The requests of its own caller and bucket that a refusal may count.
Counts(r) == {q \in Requests \ {r} : /\ who[q] = who[r] /\ Answered(q)
                                     /\ stamp[r] - stamp[q] < limit[r].window}

\* An answered request keeps what it asked and its verdict.
LEMMA AnsweredIsKept ==
  ASSUME LimitInv, [Next]_vars, NEW r \in Requests, Answered(r)
  PROVE  at'[r] = at[r] /\ who'[r] = who[r] /\ stamp'[r] = stamp[r] /\ limit'[r] = limit[r]
<1> DEFINE Kept == at'[r] = at[r] /\ who'[r] = who[r] /\ stamp'[r] = stamp[r] /\ limit'[r] = limit[r]
<1> USE DEF LimitInv, TypeOK, Answered, InFlight, asked
<1>1. ASSUME NEW q \in Requests, NEW k \in Keys, Begin(q, k) PROVE Kept
  BY <1>1 DEF Begin
<1>2. ASSUME NEW q \in Requests, Read(q) PROVE Kept
  BY <1>2 DEF Read
<1>3. ASSUME NEW q \in Requests, Write(q) PROVE Kept
  BY <1>3 DEF Write
<1>4. ASSUME NEW b \in Adjustable, NEW l \in Limits, SetLimit(b, l) PROVE Kept
  BY <1>4 DEF SetLimit
<1>5. CASE Restart \/ Tick \/ UNCHANGED vars
  BY <1>5 DEF Restart, Tick, vars
<1> QED
  BY <1>1, <1>2, <1>3, <1>4, <1>5 DEF Next

\* A request is answered by its own Write.
LEMMA AnsweredByWrite ==
  ASSUME LimitInv, [Next]_vars, NEW r \in Requests, ~Answered(r), Answered(r)'
  PROVE  Write(r)
<1> USE DEF LimitInv, TypeOK, Answered, InFlight, asked
<1>1. ASSUME NEW q \in Requests, NEW k \in Keys, Begin(q, k) PROVE FALSE
  BY <1>1 DEF Begin
<1>2. ASSUME NEW q \in Requests, Read(q) PROVE FALSE
  BY <1>2 DEF Read
<1>3. ASSUME NEW q \in Requests, Write(q) PROVE q = r
  BY <1>3 DEF Write
<1>4. ASSUME NEW b \in Adjustable, NEW l \in Limits, SetLimit(b, l) PROVE FALSE
  BY <1>4 DEF SetLimit
<1>5. CASE Restart \/ Tick \/ UNCHANGED vars
  BY <1>5 DEF Restart, Tick, vars
<1> QED
  BY <1>1, <1>2, <1>3, <1>4, <1>5 DEF Next

\* The requests in a window can be counted.
LEMMA CountsAreFinite ==
  ASSUME NEW r \in Requests
  PROVE  IsFiniteSet(Counts(r)) /\ IsFiniteSet(Counts(r)') /\ Cardinality(Counts(r)) \in Nat
BY RateLimitAssumption, FS_Subset, FS_CardinalityType DEF Counts

\* A refusal is made only on as many entries as the limit, and they stay.
LEMMA EarnedNext == LimitInv /\ RefusedIsEarned /\ [Next]_vars => RefusedIsEarned'
<1> SUFFICES ASSUME LimitInv, RefusedIsEarned, [Next]_vars, NEW r \in Requests, at'[r] = "refused"
             PROVE  Cardinality(Counts(r)') >= limit'[r].max
  BY DEF RefusedIsEarned, Counts
<1>0. TypeOK /\ ListsAreOwn /\ RequestsAreRead
  BY DEF LimitInv
<1>1. CASE at[r] = "refused"
  <2>1. limit'[r] = limit[r] /\ limit[r] \in Limits
    BY <1>0, <1>1, AnsweredIsKept DEF Answered, RequestsAreRead, Under
  <2>2. Counts(r) \subseteq Counts(r)'
    BY <1>1, AnsweredIsKept DEF Counts, Answered
  <2>3. Cardinality(Counts(r)) <= Cardinality(Counts(r)') /\ Cardinality(Counts(r)') \in Nat
    BY <2>2, CountsAreFinite, FS_Subset, FS_CardinalityType
  <2>4. Cardinality(Counts(r)) >= limit[r].max
    BY <1>1 DEF RefusedIsEarned, Counts
  <2> QED
    BY <2>1, <2>3, <2>4, CountsAreFinite, RateLimitAssumption
<1>2. CASE at[r] # "refused"
  <2>0. at[r] # "admitted"
    BY <1>2, AnsweredIsKept DEF Answered
  <2>1. Write(r) /\ ~WithinLimit(r)
    <3>1. Write(r)
      BY <1>2, <2>0, AnsweredByWrite DEF Answered
    <3> QED
      BY <1>0, <3>1 DEF Write, TypeOK
  <2>2. limit'[r] = limit[r] /\ limit[r] \in Limits
    BY <1>0, <2>1 DEF Write, asked, RequestsAreRead, Under, InFlight
  <2>3. seen[r] \subseteq Counts(r)' /\ r \notin seen[r]
    BY <1>0, <2>1, AnsweredIsKept DEF Write, asked, ListsAreOwn, Counts, TypeOK, Answered
  <2>4. IsFiniteSet(seen[r]) /\ Cardinality(seen[r]) \in Nat
    BY <1>0, RateLimitAssumption, FS_Subset, FS_CardinalityType DEF TypeOK
  <2>5. Cardinality(seen[r] \cup {r}) = Cardinality(seen[r]) + 1
    BY <2>3, <2>4, FS_AddElement
  <2>6. Cardinality(seen[r]) >= limit[r].max
    BY <2>1, <2>2, <2>4, <2>5, RateLimitAssumption DEF WithinLimit
  <2>7. Cardinality(seen[r]) <= Cardinality(Counts(r)') /\ Cardinality(Counts(r)') \in Nat
    BY <2>3, CountsAreFinite, FS_Subset, FS_CardinalityType
  <2> QED
    BY <2>2, <2>4, <2>6, <2>7, RateLimitAssumption
<1> QED
  BY <1>1, <1>2

----------------------------------------------------------------------------
\* A request of the current epoch that overlapped no other, and is answered.
Solo(q)   == Answered(q) /\ alone[q] /\ born[q] = epoch
Expired(q) == now - stamp[q] >= limits[who[q][1]].window

\* Two requests on one list that overlap know it, also when one of them began
\* before the limits changed.
OverlapIsSeen ==
  \A r, q \in Requests : r # q /\ InFlight(r) /\ Under(q) /\ who[q] = who[r] =>
     /\ InFlight(q) => ~alone[q]
     /\ born[q] = epoch /\ alone[q] => born[r] = epoch

\* No list, and none that a request has read and will write back, misses a
\* request that ran alone and is still in its window.
SoloIsKept ==
  \A q \in Requests : Solo(q) =>
     /\ q \in hits[who[q]] \/ Expired(q)
     /\ \A r \in Requests : at[r] = "read" /\ who[r] = who[q] => q \in seen[r] \/ Expired(q)

\* A request that runs alone will count, or counts, all of them.
AloneSeesSolo ==
  \A r, q \in Requests :
     InFlight(r) /\ alone[r] /\ born[r] = epoch /\ Counted(r, q) =>
        /\ at[r] = "clocked" => q \in hits[who[r]]
        /\ at[r] = "read" => q \in seen[r]

SoloInv == OverlapIsSeen /\ SoloIsKept /\ AloneSeesSolo

\* At the start nothing ran alone.
LEMMA SoloInit == Init => SoloInv
BY DEF Init, SoloInv, OverlapIsSeen, SoloIsKept, AloneSeesSolo, Solo, Counted, Under, InFlight, Answered

\* A request that runs alone is in every list that is read or written from
\* then on, until it expires.
LEMMA SoloNext == LimitInv /\ SoloInv /\ [Next]_vars => SoloInv'
<1> SUFFICES ASSUME LimitInv, SoloInv, [Next]_vars PROVE SoloInv'
  OBVIOUS
<1>0. /\ TypeOK /\ ListsAreOwn /\ RequestsAreRead
      /\ OverlapIsSeen /\ SoloIsKept /\ AloneSeesSolo
  BY DEF LimitInv, SoloInv
<1> USE RateLimitAssumption, <1>0 DEF Keys, asked
<1>1. ASSUME NEW r \in Requests, NEW k \in Keys, Begin(r, k) PROVE SoloInv'
  <2>1. OverlapIsSeen'
    BY <1>1 DEF Begin, TypeOK, RequestsAreRead, OverlapIsSeen, Under, InFlight, Answered
  <2>2. SoloIsKept'
    BY <1>1 DEF Begin, TypeOK, KeyOf, ListsAreOwn, RequestsAreRead, OverlapIsSeen, SoloIsKept, Solo, Expired, Under, InFlight, Answered, InWindow
  <2>3. AloneSeesSolo'
    BY <1>1 DEF Begin, TypeOK, KeyOf, ListsAreOwn, RequestsAreRead, OverlapIsSeen, SoloIsKept, AloneSeesSolo, Solo, Expired, Counted, Under, InFlight, Answered, InWindow
  <2> QED
    BY <2>1, <2>2, <2>3 DEF SoloInv
<1>2. ASSUME NEW r \in Requests, Read(r) PROVE SoloInv'
  <2>1. OverlapIsSeen'
    BY <1>2 DEF Read, TypeOK, RequestsAreRead, OverlapIsSeen, Under, InFlight, Answered
  <2>2. SoloIsKept'
    BY <1>2 DEF Read, TypeOK, KeyOf, ListsAreOwn, RequestsAreRead, OverlapIsSeen, SoloIsKept, Solo, Expired, Under, InFlight, Answered, InWindow
  <2>3. AloneSeesSolo'
    BY <1>2 DEF Read, TypeOK, KeyOf, ListsAreOwn, RequestsAreRead, OverlapIsSeen, SoloIsKept, AloneSeesSolo, Solo, Expired, Counted, Under, InFlight, Answered, InWindow
  <2> QED
    BY <2>1, <2>2, <2>3 DEF SoloInv
<1>3. ASSUME NEW r \in Requests, Write(r) PROVE SoloInv'
  <2>1. OverlapIsSeen'
    BY <1>3 DEF Write, TypeOK, RequestsAreRead, OverlapIsSeen, Under, InFlight, Answered
  <2>2. SoloIsKept'
    BY <1>3 DEF Write, TypeOK, KeyOf, ListsAreOwn, RequestsAreRead, OverlapIsSeen, SoloIsKept, Solo, Expired, Under, InFlight, Answered, InWindow
  <2>3. AloneSeesSolo'
    BY <1>3 DEF Write, TypeOK, KeyOf, ListsAreOwn, RequestsAreRead, OverlapIsSeen, SoloIsKept, AloneSeesSolo, Solo, Expired, Counted, Under, InFlight, Answered, InWindow
  <2> QED
    BY <2>1, <2>2, <2>3 DEF SoloInv
<1>4. ASSUME NEW b \in Adjustable, NEW l \in Limits, SetLimit(b, l) PROVE SoloInv'
  <2>1. OverlapIsSeen'
    BY <1>4 DEF SetLimit, TypeOK, RequestsAreRead, OverlapIsSeen, Under, InFlight, Answered
  <2>2. SoloIsKept'
    BY <1>4 DEF SetLimit, TypeOK, KeyOf, ListsAreOwn, RequestsAreRead, OverlapIsSeen, SoloIsKept, Solo, Expired, Under, InFlight, Answered, InWindow
  <2>3. AloneSeesSolo'
    BY <1>4 DEF SetLimit, TypeOK, KeyOf, ListsAreOwn, RequestsAreRead, OverlapIsSeen, SoloIsKept, AloneSeesSolo, Solo, Expired, Counted, Under, InFlight, Answered, InWindow
  <2> QED
    BY <2>1, <2>2, <2>3 DEF SoloInv
<1>5. ASSUME Restart PROVE SoloInv'
  <2>1. OverlapIsSeen'
    BY <1>5 DEF Restart, TypeOK, RequestsAreRead, OverlapIsSeen, Under, InFlight, Answered
  <2>2. SoloIsKept'
    BY <1>5 DEF Restart, TypeOK, KeyOf, ListsAreOwn, RequestsAreRead, OverlapIsSeen, SoloIsKept, Solo, Expired, Under, InFlight, Answered, InWindow
  <2>3. AloneSeesSolo'
    BY <1>5 DEF Restart, TypeOK, KeyOf, ListsAreOwn, RequestsAreRead, OverlapIsSeen, SoloIsKept, AloneSeesSolo, Solo, Expired, Counted, Under, InFlight, Answered, InWindow
  <2> QED
    BY <2>1, <2>2, <2>3 DEF SoloInv
<1>6. ASSUME Tick PROVE SoloInv'
  <2>1. OverlapIsSeen'
    BY <1>6 DEF Tick, TypeOK, RequestsAreRead, OverlapIsSeen, Under, InFlight, Answered
  <2>2. SoloIsKept'
    BY <1>6 DEF Tick, TypeOK, KeyOf, ListsAreOwn, RequestsAreRead, OverlapIsSeen, SoloIsKept, Solo, Expired, Under, InFlight, Answered, InWindow
  <2>3. AloneSeesSolo'
    BY <1>6 DEF Tick, TypeOK, KeyOf, ListsAreOwn, RequestsAreRead, OverlapIsSeen, SoloIsKept, AloneSeesSolo, Solo, Expired, Counted, Under, InFlight, Answered, InWindow
  <2> QED
    BY <2>1, <2>2, <2>3 DEF SoloInv
<1>7. CASE UNCHANGED vars
  BY <1>7 DEF vars, SoloInv, OverlapIsSeen, SoloIsKept, AloneSeesSolo, Solo, Expired, Counted, Under, InFlight, Answered
<1> QED
  BY <1>1, <1>2, <1>3, <1>4, <1>5, <1>6, <1>7 DEF Next

----------------------------------------------------------------------------
\* The limiter's state and its requests stay what they are typed to be.
THEOREM TypeCorrect == Spec => []TypeOK
<1>1. LimitInv => TypeOK
  BY DEF LimitInv
<1> QED
  BY LimitInit, LimitNext, <1>1, PTL DEF Spec

\* A 429 is earned, for any limits and however requests race
\* (Store.check_rate_limit).
THEOREM RefusalsAreEarned == Spec => []RefusedIsEarned
<1>1. Init => RefusedIsEarned
  BY DEF Init, RefusedIsEarned
<1> QED
  BY LimitInit, LimitNext, <1>1, EarnedNext, PTL DEF Spec

\* Requests that overlap none of their own caller's never exceed the limit.
THEOREM SoloIsLimited == Spec => SoloWithinLimit
<1> DEFINE Step == \A r \in Requests :
             at[r] = "read" /\ at'[r] = "admitted" /\ alone[r] /\ born[r] = epoch =>
                Cardinality({q \in Requests : Counted(r, q)}) < limit[r].max
<1>1. LimitInv /\ SoloInv /\ [Next]_vars => [Step]_vars
  <2> SUFFICES ASSUME LimitInv, SoloInv, Next, NEW r \in Requests,
                      at[r] = "read", at'[r] = "admitted", alone[r], born[r] = epoch
               PROVE  Cardinality({q \in Requests : Counted(r, q)}) < limit[r].max
    OBVIOUS
  <2>0. TypeOK /\ ListsAreOwn /\ RequestsAreRead /\ AloneSeesSolo
    BY DEF LimitInv, SoloInv
  <2>1. Write(r) /\ WithinLimit(r)
    <3>1. Write(r)
      BY AnsweredByWrite DEF Answered
    <3> QED
      BY <2>0, <3>1 DEF Write, TypeOK
  <2>2. {q \in Requests : Counted(r, q)} \subseteq seen[r]
    BY <2>0 DEF AloneSeesSolo, InFlight
  <2>3. seen[r] \subseteq Requests /\ r \notin seen[r]
    BY <2>0 DEF TypeOK, ListsAreOwn, Answered
  <2>4. IsFiniteSet(seen[r]) /\ Cardinality(seen[r]) \in Nat
    BY <2>3, RateLimitAssumption, FS_Subset, FS_CardinalityType
  <2>5. Cardinality(seen[r] \cup {r}) = Cardinality(seen[r]) + 1
    BY <2>3, <2>4, FS_AddElement
  <2>6. limit[r] \in Limits
    BY <2>0 DEF RequestsAreRead, Under, InFlight
  <2>7. /\ Cardinality({q \in Requests : Counted(r, q)}) <= Cardinality(seen[r])
        /\ Cardinality({q \in Requests : Counted(r, q)}) \in Nat
    BY <2>2, <2>4, FS_Subset, FS_CardinalityType
  <2> QED
    BY <2>1, <2>4, <2>5, <2>6, <2>7, RateLimitAssumption DEF WithinLimit
<1>2. [Step]_vars => [\A r \in Requests :
          at[r] = "read" /\ at'[r] = "admitted" /\ alone[r] /\ born[r] = epoch =>
             Cardinality({q \in Requests : Counted(r, q)}) < limit[r].max]_vars
  OBVIOUS
<1> QED
  BY LimitInit, LimitNext, SoloInit, SoloNext, <1>1, <1>2, PTL DEF Spec, SoloWithinLimit
=============================================================================
