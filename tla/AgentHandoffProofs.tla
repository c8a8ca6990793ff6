------------------------- MODULE AgentHandoffProofs -------------------------
(***************************************************************************)
(* Under every fault, for every set of actions, rules and channels and any *)
(* bound on the results kept: handoff and agent keep their types, what the *)
(* gateway is told was executed was taken by a channel the rules allow,    *)
(* and what the agent acted on is allowed.                                 *)
(***************************************************************************)
EXTENDS AgentHandoff, WellFoundedInduction, TLAPS

\* A nonempty set of naturals has a least element.
LEMMA LeastNatural ==
    ASSUME NEW S \in SUBSET Nat, S # {}
    PROVE  \E i \in S : \A j \in S : i <= j
<1> DEFINE R == OpToRel(<, Nat)
<1>1. IsWellFoundedOn(R, Nat)
  BY NatLessThanWellFounded
<1>2. \E i \in S : \A j \in S : ~ (<<j, i>> \in R)
  <2> HIDE DEF R
  <2> QED
    BY <1>1, WFMin
<1>3. \A i, j \in S : <<j, i>> \notin R => i <= j
  BY DEF OpToRel
<1> QED
  BY <1>2, <1>3

\* The rule that matches is one of the file's.
LEMMA MatchIsARule ==
    ASSUME NEW d \in Deployment, NEW cents \in Nat, Matching(d, cents) # {}
    PROVE  \E i \in DOMAIN d.rules : Match(d, cents) = d.rules[i]
<1>1. Matching(d, cents) \in SUBSET Nat
  BY DEF Matching, Deployment
<1>2. \E i \in Matching(d, cents) : \A j \in Matching(d, cents) : i <= j
  BY <1>1, LeastNatural
<1>. QED
  BY <1>2 DEF Match, Matching

Route == [channel : Names \cup {None}, by : {"rules", "llm", None}]

\* The channel an order is routed to is one the rule file allows.
LEMMA RoutedIsAllowed ==
    ASSUME NEW d \in Deployment, Boots(d), NEW cents \in Nat, NEW reply \in Names \cup {None}
    PROVE  /\ Routed(d, cents, reply) \in Route
           /\ Routed(d, cents, reply).channel \in d.allowed \cup {None}
<1> DEFINE rule == Match(d, cents)
<1>1. CASE Matching(d, cents) = {}
  BY <1>1 DEF Routed, Unrouted, Route
<1>2. CASE Matching(d, cents) # {}
  <2>1. PICK i \in DOMAIN d.rules : rule = d.rules[i]
    BY <1>2, MatchIsARule
  <2>2. d.allowed \subseteq Names /\ rule \in Rule
    BY <2>1 DEF Deployment
  <2>3. /\ rule.channel \in d.allowed \cup {"llm"}
        /\ rule.fallback # None => rule.fallback \in d.allowed
    BY <2>1 DEF Boots, RuleLoads
  <2>4. Delegates(d, cents) <=> rule.channel = "llm"
    BY <1>2 DEF Delegates
  <2>5. Validated(d, reply) \in d.allowed \cup {None}
    BY DEF Validated
  <2> HIDE DEF rule
  <2>6. \A channel \in d.allowed \cup {None}, by \in {"rules", "llm"} :
           /\ RoutedBy(channel, by) \in Route
           /\ RoutedBy(channel, by).channel = channel
    BY <2>2 DEF RoutedBy, Unrouted, Route
  <2>7. rule.fallback \in d.allowed \cup {None}
    BY <2>3
  <2>8. Routed(d, cents, reply) =
           IF Consults(d, cents) THEN RoutedBy(Validated(d, reply), "llm")
           ELSE IF Delegates(d, cents) THEN RoutedBy(rule.fallback, "rules")
           ELSE RoutedBy(rule.channel, "rules")
    BY <1>2 DEF Routed, rule
  <2>9. CASE Consults(d, cents)
    BY <2>5, <2>6, <2>8, <2>9
  <2>10. CASE ~ Consults(d, cents) /\ Delegates(d, cents)
    BY <2>6, <2>7, <2>8, <2>10
  <2>11. CASE ~ Consults(d, cents) /\ ~ Delegates(d, cents)
    BY <2>3, <2>4, <2>6, <2>8, <2>11
  <2> QED
    BY <2>9, <2>10, <2>11
<1> QED
  BY <1>1, <1>2
-----------------------------------------------------------------------------
TypeInv == TypeOK /\ deployment \in Deployment /\ Boots(deployment)

\* What a POST that takes the action leaves behind, for any reply of the LLM.
LEMMA DispatchType ==
    ASSUME TypeInv, NEW r \in Requests, NEW reply \in Names \cup {None},
           NEW outcome \in PostOutcomes, Dispatch(r, reply, outcome)
    PROVE  /\ body'[r] \in Body
           /\ body' = [body EXCEPT ![r] = body'[r]]
           /\ decisions' \in Seq(Decision) /\ Len(decisions') <= LogMax
           /\ delivered' \in [Actions -> Seq(KnownChannels)]
<1> DEFINE a == ActionOf(r)
           routed == Routed(deployment, Cents(a), reply)
           row == [action |-> a, body |-> body'[r], reply |-> reply]
<1>1. a \in Actions /\ Cents(a) \in Nat
  BY AgentAssumption DEF Requests, ActionOf
<1>2. routed \in Route
  BY <1>1, RoutedIsAllowed DEF TypeInv
<1> HIDE DEF routed
<1>3. Answer(routed, outcome) \in Body
  BY <1>2 DEF Answer, Body, Route
<1>4. body' = [body EXCEPT ![r] = Answer(routed, outcome)]
  BY DEF Dispatch, routed
<1>5. body'[r] = Answer(routed, outcome)
  BY <1>4 DEF TypeInv, TypeOK, AgentTypeOK
<1>6. row \in Decision
  BY <1>1, <1>3, <1>5 DEF Decision
<1>7. decisions' = Logged(row)
  BY <1>5 DEF Dispatch, routed
<1>8. decisions' \in Seq(Decision) /\ Len(decisions') <= LogMax
  <2> HIDE DEF row
  <2> QED
    BY <1>6, <1>7, AgentAssumption DEF Logged, TypeInv, TypeOK, AgentTypeOK
<1>9. delivered' \in [Actions -> Seq(KnownChannels)]
  <2>1. CASE outcome = "notTaken"
    BY <2>1 DEF Dispatch, TypeInv, TypeOK, AgentTypeOK
  <2>2. CASE outcome # "notTaken"
    <3>1. routed.channel \in KnownChannels
      BY <2>2 DEF Dispatch, routed
    <3>2. delivered' = [delivered EXCEPT ![a] = Append(delivered[a], routed.channel)]
      BY <2>2 DEF Dispatch, routed
    <3>3. Append(delivered[a], routed.channel) \in Seq(KnownChannels)
      BY <1>1, <3>1 DEF TypeInv, TypeOK, AgentTypeOK
    <3> QED
      BY <3>2, <3>3 DEF TypeInv, TypeOK, AgentTypeOK
  <2> QED
    BY <2>1, <2>2
<1> QED
  BY <1>3, <1>4, <1>5, <1>8, <1>9

\* The bodies kept after _store_result are bodies of answered requests.
LEMMA StoredType ==
    ASSUME TypeInv, NEW r \in Requests, body[r] \in Body
    PROVE  /\ Stored(r) \in Seq(Result)
           /\ \A i \in DOMAIN Stored(r) :
                 \/ Stored(r)[i] = [action |-> ActionOf(r), body |-> body[r]]
                 \/ \E j \in DOMAIN results :
                       Stored(r)[i] = results[j] /\ results[j].action # ActionOf(r)
                 \/ /\ ~ HasResult(results, ActionOf(r))
                    /\ \E j \in DOMAIN results : Stored(r)[i] = results[j]
<1> DEFINE entry == [action |-> ActionOf(r), body |-> body[r]]
<1>1. entry \in Result
  BY DEF Result, Requests, ActionOf
<1>2. results \in Seq(Result)
  BY DEF TypeInv, TypeOK, AgentTypeOK
<1> HIDE DEF entry
<1>3. CASE HasResult(results, ActionOf(r))
  <2> DEFINE kept == [i \in DOMAIN results |->
                         IF results[i].action = ActionOf(r) THEN entry ELSE results[i]]
  <2>1. Stored(r) = kept
    BY <1>3 DEF Stored, entry
  <2>2. kept \in Seq(Result)
    BY <1>1, <1>2
  <2> QED
    BY <2>1, <2>2 DEF entry
<1>4. CASE ~ HasResult(results, ActionOf(r))
  <2> DEFINE all == Append(results, entry)
  <2>1. /\ all \in Seq(Result) /\ Len(all) = Len(results) + 1
        /\ \A i \in 1..Len(all) : all[i] = entry \/ \E j \in DOMAIN results : all[i] = results[j]
    BY <1>1, <1>2
  <2>2. Stored(r) = IF Len(all) > ResultMax THEN Tail(all) ELSE all
    BY <1>4 DEF Stored, entry
  <2> HIDE DEF all
  <2>3. /\ Tail(all) \in Seq(Result)
        /\ \A i \in DOMAIN Tail(all) : i + 1 \in 1..Len(all) /\ Tail(all)[i] = all[i + 1]
    BY <2>1, <1>2
  <2>4. \A i \in DOMAIN Stored(r) :
           Stored(r)[i] = entry \/ \E j \in DOMAIN results : Stored(r)[i] = results[j]
    BY <2>1, <2>2, <2>3
  <2> QED
    BY <1>4, <2>1, <2>2, <2>3, <2>4 DEF entry
<1> QED
  BY <1>3, <1>4
-----------------------------------------------------------------------------
\* Every variable starts with its type, under a rule file that boots.
LEMMA TypeInit == Init => TypeInv
<1> SUFFICES ASSUME Init PROVE TypeInv
  OBVIOUS
<1>1. deployment \in Deployments /\ deployment \in Deployment /\ Boots(deployment)
  BY RoutingAssumption DEF Init, AgentInit
<1>2. <<>> \in Seq(Result) /\ <<>> \in Seq(Decision) /\ <<>> \in Seq(KnownChannels)
  OBVIOUS
<1>3. AgentTypeOK
  BY <1>1, <1>2, AgentAssumption DEF Init, AgentInit, AgentTypeOK, Places
<1>4. TypeOK
  BY <1>3 DEF Init, TypeOK
<1> QED
  BY <1>1, <1>4 DEF TypeInv

\* A body that the agent returns is one it has computed.
BodiesAreReturned ==
    /\ \A r \in Requests : at[r] \in {"dispatched", "answered"} => body[r] \in Body
    /\ \A r \in Requests : at[r] \in {"absent", "sent", "waiting", "deciding", "lost"} => body[r] = NoBody

\* What has not been sent is nowhere; a handoff that has not begun is open.
NothingUnsent ==
    /\ \A a \in Actions, n \in {1, 2} : attempt[a] < n => at[<<a, n>>] = "absent"
    /\ \A a \in Actions : attempt[a] = 0 => kind[a] = "none"

ControlInv == TypeInv /\ BodiesAreReturned /\ NothingUnsent

\* A thread of the agent computes the bodies it returns, sends nothing, and
\* leaves the rules alone.
LEMMA AgentControl ==
    ASSUME ControlInv, NEW r \in Requests, AgentThread(r)
    PROVE  /\ AgentTypeOK' /\ BodiesAreReturned' /\ UNCHANGED deployment
           /\ \A q \in Requests : at[q] = "absent" => at'[q] = "absent"
<1> USE DEF ControlInv, TypeInv, TypeOK
<1>0. ActionOf(r) \in Actions
  BY DEF ActionOf, Requests
<1>1. CASE TakeLock(r)
  <2>1. mine'[r] \in Requests /\ locks'[ActionOf(r)] \in Requests
    BY <1>0, <1>1 DEF TakeLock, AgentTypeOK
  <2>2. AgentTypeOK'
    BY <1>0, <1>1, <2>1 DEF TakeLock, AgentTypeOK, Places
  <2>3. BodiesAreReturned'
    BY <1>1 DEF TakeLock, AgentTypeOK, BodiesAreReturned
  <2> QED
    BY <1>1, <2>2, <2>3 DEF TakeLock, AgentTypeOK
<1>2. CASE ReturnExisting(r)
  <2>1. ResultOf(ActionOf(r)) \in Body
    <3>1. (CHOOSE i \in DOMAIN results : results[i].action = ActionOf(r)) \in DOMAIN results
      BY <1>2 DEF ReturnExisting, HasResult
    <3>2. \A i \in DOMAIN results : results[i] \in Result
      BY DEF AgentTypeOK
    <3>3. \A row \in Result : row.body \in Body
      BY DEF Result
    <3> QED
      BY <3>1, <3>2, <3>3 DEF ResultOf
  <2>2. at' = [at EXCEPT ![r] = "answered"] /\ body' = [body EXCEPT ![r] = ResultOf(ActionOf(r))]
    BY <1>2 DEF ReturnExisting
  <2>3. AgentTypeOK'
    BY <1>2, <2>1 DEF ReturnExisting, AgentTypeOK, Places
  <2>4. BodiesAreReturned'
    BY <2>1, <2>2 DEF AgentTypeOK, BodiesAreReturned
  <2> QED
    BY <1>2, <2>3, <2>4 DEF ReturnExisting, AgentTypeOK
<1>3. CASE Decide(r)
  BY <1>3 DEF Decide, AgentTypeOK, Places, BodiesAreReturned
<1>4. ASSUME NEW reply \in Names \cup {None}, NEW outcome \in PostOutcomes,
             Dispatch(r, reply, outcome)
      PROVE  /\ AgentTypeOK' /\ BodiesAreReturned' /\ UNCHANGED deployment
             /\ \A q \in Requests : at[q] = "absent" => at'[q] = "absent"
  <2>1. /\ body'[r] \in Body
        /\ body' = [body EXCEPT ![r] = body'[r]]
        /\ decisions' \in Seq(Decision) /\ Len(decisions') <= LogMax
        /\ delivered' \in [Actions -> Seq(KnownChannels)]
    BY <1>4, DispatchType
  <2>2. /\ at' = [at EXCEPT ![r] = "dispatched"]
        /\ UNCHANGED <<deployment, results, locks, holder, mine, restarts>>
    BY <1>4 DEF Dispatch
  <2>3. AgentTypeOK'
    BY <2>1, <2>2 DEF AgentTypeOK, Places
  <2>4. BodiesAreReturned'
    BY <2>1, <2>2 DEF AgentTypeOK, BodiesAreReturned
  <2> QED
    BY <1>4, <2>2, <2>3, <2>4 DEF Dispatch, AgentTypeOK
<1>5. CASE StoreResult(r)
  <2>1. body[r] \in Body
    BY <1>5 DEF StoreResult, BodiesAreReturned
  <2>2. results' \in Seq(Result)
    BY <1>5, <2>1, StoredType DEF StoreResult
  <2>3. locks' \in [Actions -> Requests \cup {NoLock}]
    BY <1>5 DEF StoreResult, KeptLocks, AgentTypeOK
  <2>4. AgentTypeOK'
    BY <1>5, <2>2, <2>3 DEF StoreResult, AgentTypeOK, Places
  <2>5. BodiesAreReturned'
    BY <1>5, <2>1 DEF StoreResult, AgentTypeOK, BodiesAreReturned
  <2> QED
    BY <1>5, <2>4, <2>5 DEF StoreResult, AgentTypeOK
<1> QED
  BY <1>1, <1>2, <1>3, <1>4, <1>5 DEF AgentThread

\* A restart of the agent invents no body and sends nothing.
LEMMA RestartControl ==
    ASSUME ControlInv, Restart
    PROVE  /\ AgentTypeOK' /\ BodiesAreReturned' /\ UNCHANGED deployment
           /\ \A q \in Requests : at[q] = "absent" => at'[q] = "absent"
<1> USE DEF ControlInv, TypeInv, TypeOK
<1>1. <<>> \in Seq(Result) /\ <<>> \in Seq(Decision) /\ Len(<<>>) = 0
  OBVIOUS
<1>2. at' \in [Requests -> Places]
  BY DEF Restart, AgentTypeOK, Places
<1>3. \A r \in Requests :
         /\ at[r] \in {"waiting", "deciding", "dispatched"} => at'[r] = "lost"
         /\ at[r] \notin {"waiting", "deciding", "dispatched"} => at'[r] = at[r]
  BY DEF Restart
<1>4. body' = [r \in Requests |-> IF at'[r] = "lost" THEN NoBody ELSE body[r]]
  BY DEF Restart
<1>5. body' \in [Requests -> Body \cup {NoBody}]
  BY <1>4 DEF AgentTypeOK
<1>6. restarts' \in 0..MaxRestarts
  BY AgentAssumption DEF Restart, AgentTypeOK
<1>7. AgentTypeOK'
  BY <1>1, <1>2, <1>5, <1>6, AgentAssumption DEF Restart, AgentTypeOK
<1>8. BodiesAreReturned'
  BY <1>2, <1>3, <1>4 DEF AgentTypeOK, Places, BodiesAreReturned
<1> QED
  BY <1>7, <1>8 DEF Restart

\* At the start nothing is sent, nothing has been computed.
LEMMA ControlInit == Init => ControlInv
BY TypeInit DEF ControlInv, BodiesAreReturned, NothingUnsent, Requests, Init, AgentInit

\* No step breaks the control invariant: a body is there once its request is
\* answered, and a second attempt follows a first.
LEMMA ControlNext == ControlInv /\ [Next]_vars => ControlInv'
<1> SUFFICES ASSUME ControlInv, [Next]_vars PROVE ControlInv'
  OBVIOUS
<1> USE DEF ControlInv, TypeInv, TypeOK
<1>0. \A a \in Actions, n \in {1, 2} : <<a, n>> \in Requests
  BY DEF Requests
<1>1. ASSUME NEW r \in Requests, AgentThread(r), UNCHANGED verifyVars PROVE ControlInv'
  BY <1>0, <1>1, AgentControl DEF verifyVars, NothingUnsent
<1>2. CASE Restart /\ UNCHANGED verifyVars
  BY <1>0, <1>2, RestartControl DEF verifyVars, NothingUnsent
<1>3. ASSUME NEW a \in Actions, NEW n \in {1, 2}, attempt[a] = n - 1, kind[a] = "none", Send(a, n)
      PROVE  ControlInv'
  <2>1. at[<<a, n>>] = "absent" /\ <<a, n>> \in Requests
    <3>1. attempt[a] < n
      BY <1>3
    <3> QED
      BY <1>0, <3>1 DEF NothingUnsent
  <2>2. at' \in [Requests -> Places] /\ attempt' \in [Actions -> 0..2]
    <3>1. n \in 0..2 /\ "sent" \in Places
      BY DEF Places
    <3> QED
      BY <1>3, <3>1 DEF Send, AgentTypeOK
  <2>3. TypeOK'
    BY <1>3, <2>2 DEF Send, AgentTypeOK
  <2>4. \A q \in Requests : at'[q] = IF q = <<a, n>> THEN "sent" ELSE at[q]
    BY <1>3, <2>1 DEF Send, AgentTypeOK
  <2>5. BodiesAreReturned'
    BY <1>3, <2>1, <2>4 DEF Send, AgentTypeOK, BodiesAreReturned
  <2>6. NothingUnsent'
    BY <1>0, <1>3, <2>4 DEF Send, NothingUnsent
  <2> QED
    BY <1>3, <2>3, <2>5, <2>6 DEF Send
<1>4. ASSUME NEW a \in Actions, NEW k \in {"executed", "failed", "down", "unknown"},
             attempt[a] # 0, Return(a, k)
      PROVE  ControlInv'
  BY <1>4 DEF Return, agentVars, AgentTypeOK, BodiesAreReturned, NothingUnsent
<1>5. ASSUME NEW a \in Actions, Begin(a) PROVE ControlInv'
  BY <1>3, <1>5 DEF Begin, NothingUnsent
<1>6. ASSUME NEW a \in Actions, Retry(a) PROVE ControlInv'
  BY <1>3, <1>6 DEF Retry, InHandoff
<1>7. ASSUME NEW a \in Actions, GiveUp(a) PROVE ControlInv'
  BY <1>4, <1>7 DEF GiveUp
<1>8. ASSUME NEW a \in Actions, TakeAnswer(a) PROVE ControlInv'
  <2>1. attempt[a] \in {1, 2} /\ Current(a) \in Requests
    <3>1. attempt[a] \in {1, 2}
      BY <1>8 DEF TakeAnswer, InHandoff
    <3> QED
      BY <1>0, <3>1 DEF Current
  <2>2. body[Current(a)].status \in {"executed", "failed"}
    BY <1>8, <2>1 DEF TakeAnswer, BodiesAreReturned, Body
  <2> QED
    BY <1>4, <1>8, <2>1, <2>2 DEF TakeAnswer
<1>9. ASSUME NEW a \in Actions, Refused(a) PROVE ControlInv'
  <2>1. attempt[a] \in {1, 2} /\ Current(a) \in Requests /\ at[Current(a)] = "sent"
    <3>1. attempt[a] \in {1, 2}
      BY <1>9 DEF Refused, InHandoff
    <3> QED
      BY <1>0, <1>9, <3>1 DEF Refused, Current
  <2>2. at' = [at EXCEPT ![Current(a)] = "lost"] /\ UNCHANGED <<attempt, body>>
    BY <1>9 DEF Refused
  <2>3. TypeOK'
    BY <1>9, <2>1, <2>2 DEF Refused, AgentTypeOK, Places
  <2>4. BodiesAreReturned'
    BY <2>1, <2>2 DEF AgentTypeOK, BodiesAreReturned
  <2>5. NothingUnsent'
    <3>1. \A q \in Requests : at'[q] = IF q = Current(a) THEN "lost" ELSE at[q]
      BY <2>1, <2>2 DEF AgentTypeOK
    <3>2. \A b \in Actions, n \in {1, 2} : attempt[b] < n => at[<<b, n>>] # "sent"
      BY DEF NothingUnsent
    <3>3. \A b \in Actions : attempt[b] = 0 => kind'[b] = "none"
      BY <1>9 DEF Refused, InHandoff, NothingUnsent
    <3> QED
      BY <1>0, <2>1, <2>2, <3>1, <3>2, <3>3 DEF NothingUnsent
  <2> QED
    BY <1>9, <2>3, <2>4, <2>5 DEF Refused
<1>10. ASSUME NEW a \in Actions, ConnectionLost(a) PROVE ControlInv'
  BY <1>4, <1>10 DEF ConnectionLost, ErrorKind, InHandoff
<1>11. CASE UNCHANGED vars
  BY <1>11 DEF vars, agentVars, verifyVars, AgentTypeOK, BodiesAreReturned, NothingUnsent
<1> QED
  BY <1>1, <1>2, <1>5, <1>6, <1>7, <1>8, <1>9, <1>10, <1>11 DEF Next, Handle

(* The shape of the state of the handoffs and the agent, for any actions,  *)
(* any rule files and any faults.                                          *)
THEOREM TypeCorrect == Spec => []TypeOK
<1>1. ControlInv => TypeOK
  BY DEF ControlInv, TypeInv
<1> QED
  BY <1>1, ControlInit, ControlNext, PTL DEF Spec
-----------------------------------------------------------------------------
\* What one POST adds to the deliveries of the actions.
LEMMA DeliveryGrows ==
    ASSUME ControlInv, NEW r \in Requests, NEW reply \in Names \cup {None},
           NEW outcome \in PostOutcomes, Dispatch(r, reply, outcome)
    PROVE  \/ UNCHANGED delivered /\ body'[r].status = "failed"
           \/ \E channel \in deployment.allowed :
                 delivered' = [delivered EXCEPT ![ActionOf(r)] = Append(delivered[ActionOf(r)], channel)]
<1> DEFINE routed == Routed(deployment, Cents(ActionOf(r)), reply)
<1>1. Cents(ActionOf(r)) \in Nat
  BY AgentAssumption DEF Requests, ActionOf
<1>2. routed \in Route /\ routed.channel \in deployment.allowed \cup {None}
  BY <1>1, RoutedIsAllowed DEF ControlInv, TypeInv
<1>3. CASE outcome = "notTaken"
  BY <1>3 DEF Dispatch, Answer, ControlInv, TypeInv, TypeOK, AgentTypeOK
<1>4. CASE outcome # "notTaken"
  <2>1. routed.channel \in KnownChannels /\ routed.channel \in Names \cup {None}
    BY <1>2, <1>4 DEF Dispatch, Route
  <2>2. routed.channel # None => routed.channel \in deployment.allowed
    BY <1>2
  <2>3. routed.channel \in deployment.allowed
    BY <2>1, <2>2, RoutingAssumption
  <2> QED
    BY <1>4, <2>3 DEF Dispatch
<1> QED
  BY <1>3, <1>4

AllowedInv == ControlInv /\ ChannelsAreAllowed

\* At the start nothing has been delivered.
LEMMA AllowedInit == Init => AllowedInv
BY ControlInit DEF AllowedInv, ChannelsAreAllowed, Init, AgentInit

\* A dispatch, the one step that delivers, goes to a channel the file allows.
LEMMA AllowedNext == AllowedInv /\ [Next]_vars => AllowedInv'
<1> SUFFICES ASSUME AllowedInv, [Next]_vars PROVE AllowedInv'
  OBVIOUS
<1>1. ControlInv /\ ControlInv' /\ ChannelsAreAllowed
  BY ControlNext DEF AllowedInv
<1>2. deployment' = deployment /\ delivered' = delivered => ChannelsAreAllowed'
  BY <1>1 DEF ChannelsAreAllowed
<1>3. ASSUME NEW r \in Requests, NEW reply \in Names \cup {None},
             NEW outcome \in PostOutcomes, Dispatch(r, reply, outcome)
      PROVE  ChannelsAreAllowed'
  <2>1. CASE UNCHANGED delivered
    BY <1>2, <1>3, <2>1 DEF Dispatch
  <2>2. ASSUME NEW channel \in deployment.allowed,
               delivered' = [delivered EXCEPT ![ActionOf(r)] = Append(delivered[ActionOf(r)], channel)]
        PROVE  ChannelsAreAllowed'
    <3> SUFFICES ASSUME NEW b \in Actions, NEW i \in DOMAIN delivered'[b]
                 PROVE  delivered'[b][i] \in deployment.allowed
      BY <1>3 DEF ChannelsAreAllowed, Dispatch
    <3>1. delivered \in [Actions -> Seq(KnownChannels)]
      BY <1>1 DEF ControlInv, TypeInv, TypeOK, AgentTypeOK
    <3>2. CASE b # ActionOf(r)
      BY <1>1, <2>2, <3>1, <3>2 DEF ChannelsAreAllowed
    <3>3. CASE b = ActionOf(r)
      <4>1. delivered'[b] = Append(delivered[b], channel) /\ delivered[b] \in Seq(KnownChannels)
        BY <2>2, <3>1, <3>3
      <4>2. i \in DOMAIN delivered[b] \/ i = Len(delivered[b]) + 1
        BY <4>1
      <4> QED
        BY <1>1, <4>1, <4>2 DEF ChannelsAreAllowed
    <3> QED
      BY <3>2, <3>3
  <2> QED
    BY <1>1, <1>3, <2>1, <2>2, DeliveryGrows
<1>4. ASSUME NEW r \in Requests, AgentThread(r) PROVE ChannelsAreAllowed'
  BY <1>2, <1>3, <1>4 DEF AgentThread, TakeLock, ReturnExisting, Decide, StoreResult
<1>5. ASSUME NEW a \in Actions, Begin(a) \/ Handle(a) PROVE ChannelsAreAllowed'
  BY <1>2, <1>5 DEF Begin, Handle, Send, Return, Retry, GiveUp, TakeAnswer, Refused, ConnectionLost, agentVars
<1>6. CASE Restart
  <2>1. deployment' = deployment /\ delivered' = delivered
    BY <1>6 DEF Restart
  <2> QED
    BY <1>1, <1>2, <2>1 DEF AllowedInv
<1>7. CASE UNCHANGED vars
  <2>1. deployment' = deployment /\ delivered' = delivered
    BY <1>7 DEF vars, agentVars
  <2> QED
    BY <1>1, <1>2, <2>1 DEF AllowedInv
<1> QED
  BY <1>1, <1>4, <1>5, <1>6, <1>7 DEF Next, AllowedInv

(* For any rule file that boots and any replies of the LLM, an action is   *)
(* only delivered to channels the file allows.                             *)
THEOREM OnlyAllowedChannels == Spec => []ChannelsAreAllowed
<1>1. AllowedInv => ChannelsAreAllowed
  BY DEF AllowedInv
<1> QED
  BY <1>1, AllowedInit, AllowedNext, PTL DEF Spec
-----------------------------------------------------------------------------
Ran(a) == Executions[a] > 0

\* Wherever "executed" is written, the action has been taken.
ExecutedInv ==
    /\ \A r \in Requests : body[r].status = "executed" => Ran(ActionOf(r))
    /\ \A i \in DOMAIN results : results[i].body.status = "executed" => Ran(results[i].action)
    /\ ExecutedWasExecuted

\* What a channel has taken stays taken.
LEMMA NothingIsUndelivered ==
    ASSUME ControlInv, ControlInv',
           \/ UNCHANGED delivered
           \/ \E a \in Actions : \E channel \in deployment.allowed :
                 delivered' = [delivered EXCEPT ![a] = Append(delivered[a], channel)]
    PROVE  \A a \in Actions : Ran(a) => Ran(a)'
<1>1. delivered \in [Actions -> Seq(KnownChannels)]
  BY DEF ControlInv, TypeInv, TypeOK, AgentTypeOK
<1>2. CASE UNCHANGED delivered
  BY <1>2 DEF Ran, Executions
<1>3. ASSUME NEW b \in Actions, NEW channel \in deployment.allowed,
             delivered' = [delivered EXCEPT ![b] = Append(delivered[b], channel)]
      PROVE  \A a \in Actions : Ran(a) => Ran(a)'
  <2> TAKE a \in Actions
  <2>1. delivered[a] \in Seq(KnownChannels) /\ Len(delivered[a]) \in Nat
    BY <1>1
  <2>2. delivered'[a] = delivered[a] \/ delivered'[a] = Append(delivered[a], channel)
    BY <1>1, <1>3
  <2>3. Len(delivered'[a]) >= Len(delivered[a])
    BY <2>1, <2>2
  <2> QED
    BY <2>1, <2>3 DEF Ran, Executions
<1> QED
  BY <1>2, <1>3

\* At the start nobody says "executed".
LEMMA ExecutedInit == Init => ControlInv /\ ExecutedInv
BY ControlInit DEF ExecutedInv, ExecutedWasExecuted, NoBody, Init, AgentInit

\* "executed" passes from the dispatch to the body, the result map and the
\* caller, never from anywhere else.
LEMMA ExecutedNext == ControlInv /\ ExecutedInv /\ [Next]_vars => ControlInv' /\ ExecutedInv'
<1> SUFFICES ASSUME ControlInv, ExecutedInv, [Next]_vars PROVE ControlInv' /\ ExecutedInv'
  OBVIOUS
<1>0. ControlInv'
  BY ControlNext
<1>1. /\ results \in Seq(Result) /\ body \in [Requests -> Body \cup {NoBody}]
      /\ delivered \in [Actions -> Seq(KnownChannels)] /\ kind \in [Actions -> {"none", "executed", "failed", "down", "unknown"}]
  BY DEF ControlInv, TypeInv, TypeOK, AgentTypeOK
<1>2. ASSUME delivered' = delivered, body' = body, results' = results,
             \A a \in Actions : kind'[a] = "executed" => kind[a] = "executed" \/ Ran(a)
      PROVE  ExecutedInv'
  BY <1>2 DEF ExecutedInv, ExecutedWasExecuted, Ran, Executions
<1>3. ASSUME NEW r \in Requests, ReturnExisting(r), kind' = kind PROVE ExecutedInv'
  <2>1. PICK i \in DOMAIN results : results[i].action = ActionOf(r) /\ ResultOf(ActionOf(r)) = results[i].body
    BY <1>3 DEF ReturnExisting, HasResult, ResultOf
  <2>2. results' = results /\ delivered' = delivered /\ body' = [body EXCEPT ![r] = results[i].body]
    BY <1>3, <2>1 DEF ReturnExisting
  <2>3. \A q \in Requests : body'[q] = IF q = r THEN results[i].body ELSE body[q]
    BY <1>1, <2>2
  <2> QED
    BY <1>3, <2>1, <2>2, <2>3 DEF ExecutedInv, ExecutedWasExecuted, Ran, Executions
<1>4. ASSUME NEW r \in Requests, NEW reply \in Names \cup {None},
             NEW outcome \in PostOutcomes, Dispatch(r, reply, outcome), kind' = kind
      PROVE  ExecutedInv'
  <2>0. ActionOf(r) \in Actions
    BY DEF ActionOf, Requests
  <2>1. body' = [body EXCEPT ![r] = body'[r]] /\ results' = results
    BY <1>4, DispatchType DEF ControlInv, Dispatch
  <2>2. \A a \in Actions : Ran(a) => Ran(a)'
    BY <1>0, <1>4, <2>0, DeliveryGrows, NothingIsUndelivered
  <2>3. body'[r].status = "executed" => Ran(ActionOf(r))'
    <3> SUFFICES ASSUME body'[r].status = "executed" PROVE Ran(ActionOf(r))'
      OBVIOUS
    <3>1. body'[r].status # "failed"
      OBVIOUS
    <3>2. PICK channel \in deployment.allowed :
             delivered' = [delivered EXCEPT ![ActionOf(r)] = Append(delivered[ActionOf(r)], channel)]
      BY <1>4, <3>1, DeliveryGrows
    <3>3. delivered'[ActionOf(r)] = Append(delivered[ActionOf(r)], channel)
          /\ delivered[ActionOf(r)] \in Seq(KnownChannels)
      BY <1>1, <2>0, <3>2
    <3>4. Len(delivered'[ActionOf(r)]) > 0
      BY <3>3
    <3> QED
      BY <2>0, <3>4 DEF Ran, Executions
  <2>4. \A q \in Requests : q # r => body'[q] = body[q]
    BY <1>1, <2>1
  <2>5. \A q \in Requests : ActionOf(q) \in Actions
    BY DEF ActionOf, Requests
  <2>6. \A i \in DOMAIN results : results[i].action \in Actions
    <3>1. \A row \in Result : row.action \in Actions
      BY DEF Result
    <3>2. \A i \in DOMAIN results : results[i] \in Result
      BY <1>1
    <3> QED
      BY <3>1, <3>2
  <2>7. \A q \in Requests : body'[q].status = "executed" => Ran(ActionOf(q))'
    BY <2>2, <2>3, <2>4, <2>5 DEF ExecutedInv
  <2>8. \A i \in DOMAIN results' :
           results'[i].body.status = "executed" => Executions'[results'[i].action] > 0
    <3>1. \A i \in DOMAIN results : results[i].body.status = "executed" => Ran(results[i].action)
      BY DEF ExecutedInv
    <3>2. \A a \in Actions : Ran(a) => Executions'[a] > 0
      BY <2>2 DEF Ran
    <3> QED
      BY <2>1, <2>6, <3>1, <3>2
  <2>9. ExecutedWasExecuted'
    <3>1. \A a \in Actions : kind[a] = "executed" => Ran(a)
      BY DEF ExecutedInv, ExecutedWasExecuted, Ran
    <3> QED
      BY <1>4, <2>2, <3>1 DEF ExecutedWasExecuted, Ran
  <2> QED
    BY <2>7, <2>8, <2>9 DEF ExecutedInv, Ran
<1>5. ASSUME NEW r \in Requests, StoreResult(r), kind' = kind PROVE ExecutedInv'
  <2>1. results' = Stored(r) /\ body' = body /\ delivered' = delivered /\ body[r] \in Body
    BY <1>5 DEF StoreResult, ControlInv, BodiesAreReturned
  <2>2. \A i \in DOMAIN results' :
           \/ results'[i] = [action |-> ActionOf(r), body |-> body[r]]
           \/ \E j \in DOMAIN results : results'[i] = results[j]
    BY <2>1, StoredType DEF ControlInv
  <2>3. \A i \in DOMAIN results' : results'[i].body.status = "executed" => Ran(results'[i].action)
    BY <2>2 DEF ExecutedInv
  <2> QED
    BY <1>5, <2>1, <2>3 DEF ExecutedInv, ExecutedWasExecuted, Ran, Executions
<1>6. ASSUME NEW r \in Requests, AgentThread(r), kind' = kind PROVE ExecutedInv'
  <2>1. CASE TakeLock(r) \/ Decide(r)
    BY <1>2, <1>6, <2>1 DEF TakeLock, Decide
  <2> QED
    BY <1>3, <1>4, <1>5, <1>6, <2>1 DEF AgentThread
<1>7. ASSUME Restart, kind' = kind PROVE ExecutedInv'
  <2>1. results' = <<>> /\ delivered' = delivered
    BY <1>7 DEF Restart
  <2>2. \A r \in Requests : body'[r] = NoBody \/ body'[r] = body[r]
    BY <1>7 DEF Restart
  <2>3. NoBody.status # "executed" /\ DOMAIN results' = {}
    BY <2>1 DEF NoBody
  <2>4. \A a : Ran(a)' <=> Ran(a)
    BY <2>1 DEF Ran, Executions
  <2>5. \A r \in Requests : body'[r].status = "executed" => Ran(ActionOf(r))'
    BY <2>2, <2>3, <2>4 DEF ExecutedInv
  <2>6. ExecutedWasExecuted'
    BY <1>7, <2>1 DEF ExecutedInv, ExecutedWasExecuted, Executions
  <2> QED
    BY <2>3, <2>5, <2>6 DEF ExecutedInv
<1>8. ASSUME NEW a \in Actions, Begin(a) \/ Retry(a) \/ Refused(a) PROVE ExecutedInv'
  BY <1>1, <1>2, <1>8 DEF Begin, Retry, Refused, Send
<1>9. ASSUME NEW a \in Actions, NEW k \in {"executed", "failed", "down", "unknown"}, Return(a, k),
             k = "executed" => Ran(a)
      PROVE  ExecutedInv'
  BY <1>1, <1>2, <1>9 DEF Return, agentVars
<1>10. ASSUME NEW a \in Actions, TakeAnswer(a) PROVE ExecutedInv'
  <2>1. attempt[a] \in {1, 2}
    BY <1>10 DEF TakeAnswer, InHandoff, ControlInv, TypeInv, TypeOK
  <2>2. Current(a) \in Requests /\ ActionOf(Current(a)) = a
    BY <2>1 DEF Current, Requests, ActionOf
  <2>3. body[Current(a)].status \in {"executed", "failed"}
    BY <1>10, <2>2 DEF TakeAnswer, BodiesAreReturned, Body, ControlInv
  <2>4. body[Current(a)].status = "executed" => Ran(a)
    BY <2>2 DEF ExecutedInv
  <2> QED
    BY <1>9, <1>10, <2>3, <2>4 DEF TakeAnswer
<1>11. ASSUME NEW a \in Actions, GiveUp(a) \/ ConnectionLost(a) PROVE ExecutedInv'
  BY <1>9, <1>11 DEF GiveUp, ConnectionLost, ErrorKind
<1>12. CASE UNCHANGED vars
  BY <1>0, <1>2, <1>12 DEF vars, agentVars, verifyVars
<1>13. CASE Next
  BY <1>0, <1>6, <1>7, <1>8, <1>10, <1>11, <1>13 DEF Next, Handle, verifyVars
<1> QED
  BY <1>12, <1>13

(* Whatever was lost, reset, restarted, retried or overlapping: the caller *)
(* is told "executed" only of an action a channel has taken.               *)
THEOREM ExecutedIsTrue == Spec => []ExecutedWasExecuted
<1>1. ExecutedInv => ExecutedWasExecuted
  BY DEF ExecutedInv
<1> QED
  BY <1>1, ExecutedInit, ExecutedNext, PTL DEF Spec
=============================================================================
