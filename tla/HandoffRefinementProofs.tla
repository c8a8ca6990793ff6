----------------------- MODULE HandoffRefinementProofs -----------------------
(***************************************************************************)
(* What holds while actions do not overlap and the agent does not restart  *)
(* (Serial), whatever times out, is reset, cannot be parsed or gets lost   *)
(* between the agent and a channel: an action runs at most once, and all   *)
(* its answers agree.  Without any fault, handoff and agent implement      *)
(* HandoffContract, where the "down" of a retry counts as "unknown".  Both *)
(* for any bound on the results the agent keeps.                           *)
(***************************************************************************)
EXTENDS AgentHandoffProofs, FiniteSetTheorems

Serial == "overlap" \notin Faults /\ "restart" \notin Faults

Working == {"sent", "waiting", "deciding", "dispatched"}
Holding == {"deciding", "dispatched"}

Busy(a) == InHandoff(a) \/ \E r \in Requests : ActionOf(r) = a /\ at[r] \in Working

OneBusy == \A a, b \in Actions : Busy(a) /\ Busy(b) => a = b

\* The lock a thread waits for or holds is the one in the table.
LockedInv ==
    \A r \in Requests :
        /\ at[r] \in Holding \cup {"waiting"} => mine[r] \in Requests /\ mine[r] = locks[ActionOf(r)]
        /\ at[r] \in Holding => holder[mine[r]] = r
        /\ holder[r] # NoLock => mine[holder[r]] = r /\ at[holder[r]] \in Holding

\* As long as no answer of a channel gets lost, a status tells whether the
\* action has run.
Tells(status, n) == "lateStub" \notin Faults => n = IF status = "executed" THEN 1 ELSE 0

\* No action runs twice, and every body tells what became of its action; the
\* results are complete for the action at work, and empty of it while it is
\* decided.
OutcomeInv ==
    /\ \A a \in Actions : Executions[a] \in {0, 1}
    /\ \A r \in Requests : at[r] \in {"dispatched", "answered"} => Tells(body[r].status, Executions[ActionOf(r)])
    /\ \A i \in DOMAIN results : Tells(results[i].body.status, Executions[results[i].action])
    /\ \A a \in Actions : Executions[a] # 0 =>
         \E r \in Requests : ActionOf(r) = a /\ at[r] \in {"dispatched", "answered"}
    /\ \A r \in Requests : at[r] = "answered" /\ Busy(ActionOf(r)) => HasResult(results, ActionOf(r))
    /\ \A r \in Requests : at[r] \in Holding => ~ HasResult(results, ActionOf(r))

\* What a kind says of the requests, as long as no connection is reset.
KindInv == "reset" \notin Faults =>
    /\ \A a \in Actions : kind[a] \in {"executed", "failed"} =>
         \E r \in Requests : ActionOf(r) = a /\ at[r] = "answered"
    /\ \A a \in Actions : kind[a] = "down" /\ attempt[a] = 1 => at[<<a, 1>>] = "lost"
    /\ \A r \in Requests : at[r] = "lost" => kind[ActionOf(r)] = "down"

Quiet == OneBusy /\ LockedInv /\ OutcomeInv /\ KindInv
QuietInv == ControlInv /\ Quiet

Types ==
    /\ results \in Seq(Result)
    /\ locks \in [Actions -> Requests \cup {NoLock}]
    /\ holder \in [Requests -> Requests \cup {NoLock}]
    /\ mine \in [Requests -> Requests \cup {NoLock}]
    /\ at \in [Requests -> Places]
    /\ body \in [Requests -> Body \cup {NoBody}]
    /\ delivered \in [Actions -> Seq(KnownChannels)]
    /\ attempt \in [Actions -> 0..2]
    /\ kind \in [Actions -> {"none", "executed", "failed", "down", "unknown"}]
    /\ \A r \in Requests : ActionOf(r) \in Actions
    /\ \A a \in Actions, n \in {1, 2} : <<a, n>> \in Requests /\ ActionOf(<<a, n>>) = a
    /\ \A r \in Requests : r \in {<<ActionOf(r), 1>>, <<ActionOf(r), 2>>}
    /\ NoLock \notin Requests

\* The types, and how requests and actions relate, in one place.
LEMMA ControlTypes == ControlInv => Types
BY AgentAssumption DEF ControlInv, TypeInv, TypeOK, AgentTypeOK, Types, Requests, ActionOf

\* _store_result keeps the result it stores.
LEMMA StoredIsThere ==
    ASSUME ControlInv, NEW r \in Requests, body[r] \in Body
    PROVE  HasResult(Stored(r), ActionOf(r))
<1> DEFINE entry == [action |-> ActionOf(r), body |-> body[r]]
<1>1. results \in Seq(Result) /\ entry.action = ActionOf(r)
  BY DEF ControlInv, TypeInv, TypeOK, AgentTypeOK
<1>2. entry \in Result
  BY DEF Result, Requests, ActionOf
<1> HIDE DEF entry
<1>3. CASE HasResult(results, ActionOf(r))
  BY <1>1, <1>3 DEF Stored, HasResult, entry
<1>4. CASE ~ HasResult(results, ActionOf(r))
  <2> DEFINE all == Append(results, entry)
  <2>1. all \in Seq(Result) /\ Len(all) = Len(results) + 1 /\ all[Len(all)] = entry
    BY <1>1, <1>2
  <2>2. Stored(r) = IF Len(all) > ResultMax THEN Tail(all) ELSE all
    BY <1>4 DEF Stored, entry
  <2>3. Len(results) \in Nat /\ ResultMax \in Nat /\ ResultMax >= 1
    BY <1>1, AgentAssumption
  <2> HIDE DEF all
  <2>4. CASE Len(all) > ResultMax
    <3>1. Len(Tail(all)) = Len(all) - 1 /\ Len(all) - 1 \in 1..Len(Tail(all))
      BY <2>1, <2>3, <2>4
    <3>2. Tail(all)[Len(all) - 1] = all[Len(all)] /\ Len(all) - 1 \in DOMAIN Tail(all)
      BY <2>1, <2>3, <2>4, <3>1
    <3> QED
      BY <1>1, <2>1, <2>2, <2>4, <3>2 DEF HasResult
  <2>5. CASE ~ (Len(all) > ResultMax)
    <3>1. Len(all) \in DOMAIN all
      BY <2>1, <2>3
    <3> QED
      BY <1>1, <2>1, <2>2, <2>5, <3>1 DEF HasResult
  <2> QED
    BY <2>4, <2>5
<1> QED
  BY <1>3, <1>4

\* A step of a thread keeps the other actions idle.
LEMMA ThreadIsBusy ==
    ASSUME Types, OneBusy, NEW r \in Requests, at[r] \in Working,
           NEW place, at' = [at EXCEPT ![r] = place], UNCHANGED verifyVars
    PROVE  /\ OneBusy'
           /\ \A a \in Actions : Busy(a)' => Busy(a)
           /\ \A a \in Actions : Busy(a) => a = ActionOf(r)
<1>1. \A q \in Requests : at'[q] \in Working => at[q] \in Working
  BY DEF Types
<1>2. \A a \in Actions : Busy(a)' => Busy(a)
  BY <1>1 DEF Busy, InHandoff, verifyVars
<1>3. ActionOf(r) \in Actions /\ Busy(ActionOf(r))
  BY DEF Busy, Types
<1> QED
  BY <1>2, <1>3 DEF OneBusy
\* A step that finishes nothing keeps what the bodies tell.
LEMMA OutcomeKept ==
    ASSUME OutcomeInv, results' = results, body' = body, delivered' = delivered,
           \A q \in Requests : at'[q] = "dispatched" <=> at[q] = "dispatched",
           \A q \in Requests : at'[q] = "answered" <=> at[q] = "answered",
           \A q \in Requests : at[q] = "answered" /\ Busy(ActionOf(q))' => Busy(ActionOf(q)),
           \A q \in Requests : at'[q] \in Holding => at[q] \in Holding \/ ~ HasResult(results, ActionOf(q))
    PROVE  OutcomeInv'
<1>2. Executions' = Executions
  BY DEF Executions
<1>3. \A q \in Requests : at'[q] \in {"dispatched", "answered"} => Tells(body'[q].status, Executions'[ActionOf(q)])
  BY <1>2 DEF OutcomeInv
<1>4. \A i \in DOMAIN results' : Tells(results'[i].body.status, Executions'[results'[i].action])
  BY <1>2 DEF OutcomeInv
<1>5. \A a \in Actions : Executions'[a] # 0 =>
         \E q \in Requests : ActionOf(q) = a /\ at'[q] \in {"dispatched", "answered"}
  BY <1>2 DEF OutcomeInv
<1>6. \A q \in Requests : at'[q] = "answered" /\ Busy(ActionOf(q))' => HasResult(results', ActionOf(q))
  BY DEF OutcomeInv
<1>7. \A q \in Requests : at'[q] \in Holding => ~ HasResult(results', ActionOf(q))
  BY DEF OutcomeInv
<1>8. \A a \in Actions : Executions'[a] \in {0, 1}
  BY <1>2 DEF OutcomeInv
<1> QED
  BY <1>3, <1>4, <1>5, <1>6, <1>7, <1>8 DEF OutcomeInv

-----------------------------------------------------------------------------
\* A thread that takes or waits for a lock uses the one in the table.
LEMMA TakeLockQuiet ==
    ASSUME QuietInv, NEW r \in Requests, TakeLock(r), UNCHANGED verifyVars
    PROVE  Quiet'
<1>1. Types
  BY ControlTypes DEF QuietInv
<1>2. /\ at[r] = "sent" /\ at' = [at EXCEPT ![r] = "waiting"]
      /\ UNCHANGED <<results, holder, body, delivered>>
  BY DEF TakeLock
<1>3. OneBusy' /\ \A a \in Actions : Busy(a)' => Busy(a)
  BY <1>1, <1>2, ThreadIsBusy DEF QuietInv, Quiet, Working
<1>4. \A q \in Requests : at'[q] = IF q = r THEN "waiting" ELSE at[q]
  BY <1>1, <1>2 DEF Types
<1>5. LockedInv'
  <2>1. locks'[ActionOf(r)] \in Requests /\ mine'[r] = locks'[ActionOf(r)]
    BY <1>1 DEF TakeLock, Types
  <2>2. \A q \in Requests : q # r => mine'[q] = mine[q]
    BY <1>1 DEF TakeLock, Types
  <2>3. \A a \in Actions : locks[a] # NoLock => locks'[a] = locks[a]
    BY <1>1 DEF TakeLock, Types
  <2>4. \A q \in Requests : q # r /\ at[q] \in Holding \cup {"waiting"} =>
           mine'[q] \in Requests /\ mine'[q] = locks'[ActionOf(q)]
    BY <1>1, <2>2, <2>3 DEF QuietInv, Quiet, LockedInv, Types
  <2>5. \A q \in Requests : at[q] \in Holding => q # r
    BY <1>2 DEF Holding
  <2>6. \A q \in Requests : at'[q] \in Holding => at[q] \in Holding /\ q # r
    BY <1>4 DEF Holding
  <2>7. \A q \in Requests : at'[q] \in Holding \cup {"waiting"} =>
           mine'[q] \in Requests /\ mine'[q] = locks'[ActionOf(q)]
    BY <1>4, <2>1, <2>4
  <2>8. \A q \in Requests : at'[q] \in Holding => holder'[mine'[q]] = q
    BY <1>2, <2>2, <2>6 DEF QuietInv, Quiet, LockedInv
  <2>9. \A q \in Requests : holder'[q] # NoLock =>
           mine'[holder'[q]] = q /\ at'[holder'[q]] \in Holding
    BY <1>1, <1>2, <1>4, <2>2, <2>5 DEF QuietInv, Quiet, LockedInv, Types
  <2> QED
    BY <2>7, <2>8, <2>9 DEF LockedInv
<1>6. OutcomeInv'
  <2>1. \A q \in Requests : at'[q] \in Holding => at[q] \in Holding
    BY <1>4 DEF Holding
  <2>2. /\ \A q \in Requests : at'[q] = "dispatched" <=> at[q] = "dispatched"
        /\ \A q \in Requests : at'[q] = "answered" <=> at[q] = "answered"
    <3>1. at[r] \notin {"dispatched", "answered"} /\ at'[r] \notin {"dispatched", "answered"}
      BY <1>2, <1>4
    <3> QED
      BY <1>4, <3>1
  <2>3. \A q \in Requests : Busy(ActionOf(q))' => Busy(ActionOf(q))
    BY <1>1, <1>3 DEF Types
  <2> QED
    BY <1>2, <2>1, <2>2, <2>3, OutcomeKept DEF QuietInv, Quiet
<1>7. KindInv'
  BY <1>1, <1>2, <1>4 DEF QuietInv, Quiet, KindInv, Types, verifyVars
<1> QED
  BY <1>3, <1>5, <1>6, <1>7 DEF Quiet

\* A thread that decides holds the lock, and its action has no result.
LEMMA DecideQuiet ==
    ASSUME QuietInv, NEW r \in Requests, Decide(r), UNCHANGED verifyVars
    PROVE  Quiet'
<1>1. Types
  BY ControlTypes DEF QuietInv
<1>2. /\ at[r] = "waiting" /\ at' = [at EXCEPT ![r] = "deciding"]
      /\ holder[mine[r]] = NoLock /\ holder' = [holder EXCEPT ![mine[r]] = r]
      /\ ~ HasResult(results, ActionOf(r))
      /\ UNCHANGED <<results, locks, mine, body, delivered>>
  BY DEF Decide, LockIsFree
<1>3. OneBusy' /\ \A a \in Actions : Busy(a)' => Busy(a)
  BY <1>1, <1>2, ThreadIsBusy DEF QuietInv, Quiet, Working
<1>4. \A q \in Requests : at'[q] = IF q = r THEN "deciding" ELSE at[q]
  BY <1>1, <1>2 DEF Types
<1>5. LockedInv'
  <2>1. mine[r] \in Requests
    BY <1>2 DEF QuietInv, Quiet, LockedInv
  <2>2. \A q \in Requests : holder'[q] = IF q = mine[r] THEN r ELSE holder[q]
    BY <1>1, <1>2, <2>1 DEF Types
  <2>3. \A q \in Requests : at[q] \in Holding => holder[mine[q]] = q /\ mine[q] \in Requests
    BY DEF QuietInv, Quiet, LockedInv
  <2>4. \A q \in Requests : at'[q] \in Holding => q = r \/ at[q] \in Holding
    BY <1>4
  <2>5. \A q \in Requests : at'[q] \in Holding => holder'[mine'[q]] = q
    <3> TAKE q \in Requests
    <3> HAVE at'[q] \in Holding
    <3>1. CASE q = r
      BY <1>2, <2>1, <2>2, <3>1
    <3>2. CASE q # r
      <4>1. holder[mine[q]] = q /\ mine[q] \in Requests
        BY <2>3, <2>4, <3>2
      <4>2. mine[q] # mine[r]
        BY <1>1, <1>2, <4>1 DEF Types
      <4> QED
        BY <1>2, <2>2, <4>1, <4>2
    <3> QED
      BY <3>1, <3>2
  <2>6. \A q \in Requests : at'[q] \in Holding \cup {"waiting"} =>
           mine'[q] \in Requests /\ mine'[q] = locks'[ActionOf(q)]
    BY <1>2, <1>4 DEF QuietInv, Quiet, LockedInv, Holding
  <2>7. \A q \in Requests : holder'[q] # NoLock =>
           mine'[holder'[q]] = q /\ at'[holder'[q]] \in Holding
    BY <1>1, <1>2, <1>4, <2>2 DEF QuietInv, Quiet, LockedInv, Types, Holding
  <2> QED
    BY <2>5, <2>6, <2>7 DEF LockedInv
<1>6. OutcomeInv'
  <2>1. \A q \in Requests : at'[q] \in Holding => at[q] \in Holding \/ ~ HasResult(results, ActionOf(q))
    BY <1>2, <1>4
  <2>2. /\ \A q \in Requests : at'[q] = "dispatched" <=> at[q] = "dispatched"
        /\ \A q \in Requests : at'[q] = "answered" <=> at[q] = "answered"
    <3>1. at[r] \notin {"dispatched", "answered"} /\ at'[r] \notin {"dispatched", "answered"}
      BY <1>2, <1>4
    <3> QED
      BY <1>4, <3>1
  <2>3. \A q \in Requests : Busy(ActionOf(q))' => Busy(ActionOf(q))
    BY <1>1, <1>3 DEF Types
  <2> QED
    BY <1>2, <2>1, <2>2, <2>3, OutcomeKept DEF QuietInv, Quiet
<1>7. KindInv'
  BY <1>1, <1>2, <1>4 DEF QuietInv, Quiet, KindInv, Types, verifyVars
<1> QED
  BY <1>3, <1>5, <1>6, <1>7 DEF Quiet

\* A retry that finds a result answers with what it tells.
LEMMA ReturnExistingQuiet ==
    ASSUME QuietInv, NEW r \in Requests, ReturnExisting(r), UNCHANGED verifyVars
    PROVE  Quiet'
<1>1. Types
  BY ControlTypes DEF QuietInv
<1>2. /\ at[r] = "waiting" /\ at' = [at EXCEPT ![r] = "answered"]
      /\ mine' = [mine EXCEPT ![r] = NoLock]
      /\ body' = [body EXCEPT ![r] = ResultOf(ActionOf(r))]
      /\ HasResult(results, ActionOf(r))
      /\ UNCHANGED <<results, locks, holder, delivered>>
  BY DEF ReturnExisting
<1>3. OneBusy' /\ \A a \in Actions : Busy(a)' => Busy(a)
  BY <1>1, <1>2, ThreadIsBusy DEF QuietInv, Quiet, Working
<1>4. /\ \A q \in Requests : at'[q] = IF q = r THEN "answered" ELSE at[q]
      /\ \A q \in Requests : q # r => mine'[q] = mine[q] /\ body'[q] = body[q]
      /\ body'[r] = ResultOf(ActionOf(r))
  BY <1>1, <1>2 DEF Types
<1>5. LockedInv'
  <2>1. \A q \in Requests : at'[q] \in Holding \cup {"waiting"} => q # r
    BY <1>4 DEF Holding
  <2>2. \A q \in Requests : at'[q] \in Holding => at[q] \in Holding
    BY <1>4 DEF Holding
  <2>3. at[r] \notin Holding
    BY <1>2 DEF Holding
  <2>4. \A q \in Requests : at'[q] \in Holding \cup {"waiting"} =>
           mine'[q] \in Requests /\ mine'[q] = locks'[ActionOf(q)]
    BY <1>2, <1>4, <2>1 DEF QuietInv, Quiet, LockedInv
  <2>5. \A q \in Requests : at'[q] \in Holding => holder'[mine'[q]] = q
    BY <1>2, <1>4, <2>1, <2>2 DEF QuietInv, Quiet, LockedInv
  <2>6. \A q \in Requests : holder'[q] # NoLock =>
           mine'[holder'[q]] = q /\ at'[holder'[q]] \in Holding
    BY <1>1, <1>2, <1>4, <2>3 DEF QuietInv, Quiet, LockedInv, Types
  <2> QED
    BY <2>4, <2>5, <2>6 DEF LockedInv
<1>6. OutcomeInv'
  <2>1. Executions' = Executions /\ results' = results
    BY <1>2 DEF Executions
  <2>2. Tells(body'[r].status, Executions[ActionOf(r)])
    <3>1. PICK i \in DOMAIN results : results[i].action = ActionOf(r) /\ ResultOf(ActionOf(r)) = results[i].body
      BY <1>2 DEF HasResult, ResultOf
    <3> QED
      BY <1>4, <3>1 DEF QuietInv, Quiet, OutcomeInv
  <2>3. \A q \in Requests : at'[q] \in {"dispatched", "answered"} =>
           Tells(body'[q].status, Executions'[ActionOf(q)])
    BY <1>4, <2>1, <2>2 DEF QuietInv, Quiet, OutcomeInv
  <2>4. \A a \in Actions : Executions'[a] # 0 =>
           \E q \in Requests : ActionOf(q) = a /\ at'[q] \in {"dispatched", "answered"}
    BY <1>4, <2>1 DEF QuietInv, Quiet, OutcomeInv
  <2>5. \A q \in Requests : at'[q] = "answered" /\ Busy(ActionOf(q))' => HasResult(results', ActionOf(q))
    BY <1>1, <1>2, <1>3, <1>4, <2>1 DEF QuietInv, Quiet, OutcomeInv, Types
  <2>6. \A q \in Requests : at'[q] \in Holding => ~ HasResult(results', ActionOf(q))
    BY <1>4, <2>1 DEF QuietInv, Quiet, OutcomeInv, Holding
  <2> QED
    BY <2>1, <2>3, <2>4, <2>5, <2>6 DEF QuietInv, Quiet, OutcomeInv
<1>7. KindInv'
  BY <1>1, <1>2, <1>4 DEF QuietInv, Quiet, KindInv, Types, verifyVars
<1> QED
  BY <1>3, <1>5, <1>6, <1>7 DEF Quiet

\* While an action is decided, it has not run, and no thread has its outcome.
LEMMA DecidedOnce ==
    ASSUME QuietInv, NEW r \in Requests, at[r] = "deciding"
    PROVE  /\ Executions[ActionOf(r)] = 0
           /\ \A q \in Requests : ActionOf(q) = ActionOf(r) => at[q] \notin {"dispatched", "answered"}
           /\ \A i \in DOMAIN results : results[i].action # ActionOf(r)
<1>1. Types
  BY ControlTypes DEF QuietInv
<1>2. ActionOf(r) \in Actions /\ Busy(ActionOf(r)) /\ at[r] \in Holding
  BY <1>1 DEF Types, Busy, Working, Holding
<1>3. ~ HasResult(results, ActionOf(r))
  BY <1>2 DEF QuietInv, Quiet, OutcomeInv
<1>4. ASSUME NEW q \in Requests, ActionOf(q) = ActionOf(r) PROVE at[q] \notin {"dispatched", "answered"}
  <2>1. at[q] = "dispatched" => q = r
    BY <1>2, <1>4 DEF QuietInv, Quiet, LockedInv, Holding
  <2>2. at[q] # "answered"
    BY <1>2, <1>3, <1>4 DEF QuietInv, Quiet, OutcomeInv
  <2> QED
    BY <2>1, <2>2
<1>5. Executions[ActionOf(r)] = 0
  BY <1>2, <1>4 DEF QuietInv, Quiet, OutcomeInv
<1> QED
  BY <1>3, <1>4, <1>5 DEF HasResult

\* One dispatch runs the action once, and says so, or not at all.
LEMMA DispatchRuns ==
    ASSUME QuietInv, NEW r \in Requests, NEW reply \in Names \cup {None},
           NEW outcome \in PostOutcomes, Dispatch(r, reply, outcome)
    PROVE  /\ Tells(body'[r].status, Executions'[ActionOf(r)])
           /\ body'[r].status \in {"executed", "failed"}
           /\ \/ Executions' = Executions
              \/ Executions' = [Executions EXCEPT ![ActionOf(r)] = 1]
<1> DEFINE routed == Routed(deployment, Cents(ActionOf(r)), reply)
<1>1. Types /\ ControlInv
  BY ControlTypes DEF QuietInv
<1>2. ActionOf(r) \in Actions /\ Executions[ActionOf(r)] = 0
  BY <1>1, DecidedOnce DEF Types, Dispatch
<1>3. outcome \in {"notTaken", "taken"} \/ (outcome = "takenUnseen" /\ "lateStub" \in Faults)
  BY DEF PostOutcomes
<1>4. body'[r].status = IF outcome = "taken" THEN "executed" ELSE "failed"
  BY <1>1 DEF Dispatch, Answer, Types
<1>5. CASE outcome = "notTaken"
  <2>1. delivered' = delivered
    BY <1>5 DEF Dispatch
  <2>2. Executions' = Executions
    BY <2>1 DEF Executions
  <2> QED
    BY <1>2, <1>4, <1>5, <2>2 DEF Tells
<1>6. CASE outcome # "notTaken"
  <2>1. /\ delivered' = [delivered EXCEPT ![ActionOf(r)] = Append(delivered[ActionOf(r)], routed.channel)]
        /\ routed.channel \in KnownChannels
    BY <1>6 DEF Dispatch
  <2> HIDE DEF routed
  <2>2. Len(delivered[ActionOf(r)]) = 0 /\ delivered[ActionOf(r)] \in Seq(KnownChannels)
    BY <1>1, <1>2 DEF Executions, Types
  <2>3. delivered'[ActionOf(r)] = Append(delivered[ActionOf(r)], routed.channel)
    BY <1>1, <1>2, <2>1 DEF Types
  <2>4. Len(delivered'[ActionOf(r)]) = 1
    BY <2>1, <2>2, <2>3
  <2>5. \A a \in Actions : a # ActionOf(r) => delivered'[a] = delivered[a]
    BY <1>1, <2>1 DEF Types
  <2>6. \A a \in Actions : Executions'[a] = IF a = ActionOf(r) THEN 1 ELSE Executions[a]
    BY <2>4, <2>5 DEF Executions
  <2>7. Executions' = [Executions EXCEPT ![ActionOf(r)] = 1]
    BY <2>6 DEF Executions
  <2> QED
    BY <1>2, <1>3, <1>4, <1>6, <2>6, <2>7 DEF Tells
<1> QED
  BY <1>5, <1>6

\* A dispatch runs an action that has not run, and its body says so.
LEMMA DispatchQuiet ==
    ASSUME QuietInv, NEW r \in Requests, NEW reply \in Names \cup {None},
           NEW outcome \in PostOutcomes, Dispatch(r, reply, outcome), UNCHANGED verifyVars
    PROVE  Quiet'
<1>1. Types /\ ControlInv
  BY ControlTypes DEF QuietInv
<1>2. /\ at[r] = "deciding" /\ at' = [at EXCEPT ![r] = "dispatched"]
      /\ UNCHANGED <<results, locks, mine, holder>>
  BY DEF Dispatch
<1>3. OneBusy' /\ \A a \in Actions : Busy(a)' => Busy(a)
  BY <1>1, <1>2, ThreadIsBusy DEF QuietInv, Quiet, Working
<1>4. /\ \A q \in Requests : at'[q] = IF q = r THEN "dispatched" ELSE at[q]
      /\ \A q \in Requests : q # r => body'[q] = body[q]
  BY <1>1, <1>2, DispatchType DEF Types, ControlInv
<1>5. LockedInv'
  <2>1. \A q \in Requests : at'[q] \in Holding <=> at[q] \in Holding
    <3>1. at[r] \in Holding /\ at'[r] \in Holding
      BY <1>2, <1>4 DEF Holding
    <3> QED
      BY <1>4, <3>1
  <2>2. \A q \in Requests : at'[q] \in Holding \cup {"waiting"} => at[q] \in Holding \cup {"waiting"}
    BY <1>4, <2>1
  <2>3. \A q \in Requests : at'[q] \in Holding \cup {"waiting"} =>
           mine'[q] \in Requests /\ mine'[q] = locks'[ActionOf(q)]
    BY <1>2, <2>2 DEF QuietInv, Quiet, LockedInv
  <2>4. \A q \in Requests : at'[q] \in Holding => holder'[mine'[q]] = q
    BY <1>2, <2>1 DEF QuietInv, Quiet, LockedInv
  <2>5. \A q \in Requests : holder'[q] # NoLock =>
           mine'[holder'[q]] = q /\ at'[holder'[q]] \in Holding
    BY <1>1, <1>2, <2>1 DEF QuietInv, Quiet, LockedInv, Types
  <2> QED
    BY <2>3, <2>4, <2>5 DEF LockedInv
<1>6. OutcomeInv'
  <2>1. /\ Tells(body'[r].status, Executions'[ActionOf(r)])
        /\ \A a \in Actions : a # ActionOf(r) => Executions'[a] = Executions[a]
    BY DispatchRuns DEF Executions
  <2>2. /\ \A q \in Requests : ActionOf(q) = ActionOf(r) => at[q] \notin {"dispatched", "answered"}
        /\ \A i \in DOMAIN results : results[i].action # ActionOf(r)
    BY <1>2, DecidedOnce
  <2>3. \A q \in Requests : at'[q] \in {"dispatched", "answered"} =>
           Tells(body'[q].status, Executions'[ActionOf(q)])
    <3> TAKE q \in Requests
    <3> HAVE at'[q] \in {"dispatched", "answered"}
    <3>1. CASE q = r
      BY <2>1, <3>1
    <3>2. CASE q # r
      <4>1. at[q] \in {"dispatched", "answered"} /\ body'[q] = body[q]
        BY <1>4, <3>2
      <4>2. ActionOf(q) # ActionOf(r) /\ ActionOf(q) \in Actions
        BY <1>1, <2>2, <4>1 DEF Types
      <4> QED
        BY <2>1, <4>1, <4>2 DEF QuietInv, Quiet, OutcomeInv
    <3> QED
      BY <3>1, <3>2
  <2>4. \A i \in DOMAIN results' : Tells(results'[i].body.status, Executions'[results'[i].action])
    <3>1. \A i \in DOMAIN results : results[i] \in Result
      BY <1>1 DEF Types
    <3>2. \A row \in Result : row.action \in Actions
      BY DEF Result
    <3>3. \A i \in DOMAIN results : Executions'[results[i].action] = Executions[results[i].action]
      BY <2>1, <2>2, <3>1, <3>2
    <3> QED
      BY <1>2, <3>3 DEF QuietInv, Quiet, OutcomeInv
  <2>5. \A a \in Actions : Executions'[a] # 0 =>
           \E q \in Requests : ActionOf(q) = a /\ at'[q] \in {"dispatched", "answered"}
    BY <1>4, <2>1 DEF QuietInv, Quiet, OutcomeInv
  <2>6. \A q \in Requests : at'[q] = "answered" /\ Busy(ActionOf(q))' => HasResult(results', ActionOf(q))
    BY <1>1, <1>2, <1>3, <1>4 DEF QuietInv, Quiet, OutcomeInv, Types
  <2>7. \A q \in Requests : at'[q] \in Holding => ~ HasResult(results', ActionOf(q))
    BY <1>2, <1>4 DEF QuietInv, Quiet, OutcomeInv, Holding
  <2>8. \A a \in Actions : Executions'[a] \in {0, 1}
    BY DispatchRuns DEF QuietInv, Quiet, OutcomeInv, Executions
  <2> QED
    BY <2>3, <2>4, <2>5, <2>6, <2>7, <2>8 DEF OutcomeInv
<1>7. KindInv'
  BY <1>1, <1>2, <1>4 DEF QuietInv, Quiet, KindInv, Types, verifyVars
<1> QED
  BY <1>3, <1>5, <1>6, <1>7 DEF Quiet

\* The result stored tells what its body tells; the locks dropped are
\* nobody's.
LEMMA StoreResultQuiet ==
    ASSUME QuietInv, NEW r \in Requests, StoreResult(r), UNCHANGED verifyVars
    PROVE  Quiet'
<1>1. Types /\ ControlInv
  BY ControlTypes DEF QuietInv
<1>2. /\ at[r] = "dispatched" /\ at' = [at EXCEPT ![r] = "answered"]
      /\ mine' = [mine EXCEPT ![r] = NoLock]
      /\ holder' = [holder EXCEPT ![mine[r]] = NoLock]
      /\ results' = Stored(r) /\ locks' = KeptLocks(results')
      /\ UNCHANGED <<body, delivered>>
  BY DEF StoreResult
<1>3. /\ OneBusy' /\ \A a \in Actions : Busy(a)' => Busy(a)
      /\ \A a \in Actions : Busy(a) => a = ActionOf(r)
  BY <1>1, <1>2, ThreadIsBusy DEF QuietInv, Quiet, Working
<1>4. /\ \A q \in Requests : at'[q] = IF q = r THEN "answered" ELSE at[q]
      /\ \A q \in Requests : q # r => mine'[q] = mine[q]
  BY <1>1, <1>2 DEF Types
<1>5. body[r] \in Body
  BY <1>1, <1>2 DEF ControlInv, BodiesAreReturned
<1>6. HasResult(results', ActionOf(r))
  BY <1>1, <1>2, <1>5, StoredIsThere
<1>7. \A q \in Requests : at[q] \in Working => ActionOf(q) = ActionOf(r)
  BY <1>1, <1>3 DEF Busy, Types
<1>8. \A q \in Requests : at'[q] \in Holding => q = r
  BY <1>2, <1>4, <1>7 DEF QuietInv, Quiet, LockedInv, Holding, Working
<1>9. \A q \in Requests : at'[q] \notin Holding
  BY <1>4, <1>8 DEF Holding
<1>10. LockedInv'
  <2>1. locks'[ActionOf(r)] = locks[ActionOf(r)]
    BY <1>1, <1>2, <1>6 DEF KeptLocks, Types
  <2>2. \A q \in Requests : at'[q] = "waiting" =>
           mine'[q] \in Requests /\ mine'[q] = locks'[ActionOf(q)]
    BY <1>4, <1>7, <2>1 DEF QuietInv, Quiet, LockedInv, Working
  <2>3. \A q \in Requests : holder'[q] = NoLock
    <3> TAKE q \in Requests
    <3>1. mine[r] \in Requests
      BY <1>2 DEF QuietInv, Quiet, LockedInv, Holding
    <3>2. CASE holder[q] = NoLock
      BY <1>1, <1>2, <3>1, <3>2 DEF Types
    <3>3. CASE holder[q] # NoLock
      <4>1. holder[q] \in Requests /\ mine[holder[q]] = q /\ at[holder[q]] \in Holding
        BY <1>1, <3>3 DEF QuietInv, Quiet, LockedInv, Types
      <4>2. holder[q] = r
        BY <1>2, <1>7, <4>1 DEF QuietInv, Quiet, LockedInv, Holding, Working
      <4> QED
        BY <1>1, <1>2, <4>1, <4>2 DEF Types
    <3> QED
      BY <3>2, <3>3
  <2> QED
    BY <1>9, <2>2, <2>3 DEF LockedInv
<1>11. OutcomeInv'
  <2>1. Executions' = Executions
    BY <1>2 DEF Executions
  <2>2. Tells(body[r].status, Executions[ActionOf(r)])
    BY <1>2 DEF QuietInv, Quiet, OutcomeInv
  <2>3. \A q \in Requests : at'[q] \in {"dispatched", "answered"} =>
           Tells(body'[q].status, Executions'[ActionOf(q)])
    BY <1>2, <1>4, <2>1, <2>2 DEF QuietInv, Quiet, OutcomeInv
  <2>4. \A i \in DOMAIN results' : Tells(results'[i].body.status, Executions'[results'[i].action])
    <3> TAKE i \in DOMAIN results'
    <3>1. \/ results'[i] = [action |-> ActionOf(r), body |-> body[r]]
          \/ \E j \in DOMAIN results : results'[i] = results[j]
      BY <1>1, <1>2, <1>5, StoredType DEF ControlInv
    <3>2. CASE results'[i] = [action |-> ActionOf(r), body |-> body[r]]
      BY <2>1, <2>2, <3>2
    <3>3. CASE \E j \in DOMAIN results : results'[i] = results[j]
      BY <2>1, <3>3 DEF QuietInv, Quiet, OutcomeInv
    <3> QED
      BY <3>1, <3>2, <3>3
  <2>5. \A a \in Actions : Executions'[a] # 0 =>
           \E q \in Requests : ActionOf(q) = a /\ at'[q] \in {"dispatched", "answered"}
    BY <1>4, <2>1 DEF QuietInv, Quiet, OutcomeInv
  <2>6. \A q \in Requests : at'[q] = "answered" /\ Busy(ActionOf(q))' => HasResult(results', ActionOf(q))
    BY <1>1, <1>3, <1>6 DEF Types
  <2>7. \A a \in Actions : Executions'[a] \in {0, 1}
    BY <2>1 DEF QuietInv, Quiet, OutcomeInv
  <2> QED
    BY <1>9, <2>3, <2>4, <2>5, <2>6, <2>7 DEF OutcomeInv
<1>12. KindInv'
  BY <1>1, <1>2, <1>4 DEF QuietInv, Quiet, KindInv, Types, verifyVars
<1> QED
  BY <1>3, <1>10, <1>11, <1>12 DEF Quiet
-----------------------------------------------------------------------------
\* An attempt that is sent makes its action the only one at work.
LEMMA SendQuiet ==
    ASSUME QuietInv, NEW a \in Actions, NEW n \in {1, 2}, attempt[a] = n - 1, kind[a] = "none",
           n = 1 => Alone(a), Send(a, n)
    PROVE  Quiet'
<1>1. Types /\ ControlInv
  BY ControlTypes DEF QuietInv
<1> DEFINE s == <<a, n>>
<1>2. s \in Requests /\ ActionOf(s) = a /\ at[s] = "absent"
  <2>1. attempt[a] < n
    OBVIOUS
  <2> QED
    BY <1>1, <2>1 DEF Types, ControlInv, NothingUnsent
<1>3. /\ at' = [at EXCEPT ![s] = "sent"] /\ attempt' = [attempt EXCEPT ![a] = n]
      /\ UNCHANGED <<results, locks, holder, mine, body, delivered, kind>>
  BY DEF Send
<1> HIDE DEF s
<1>4. \A q \in Requests : at'[q] = IF q = s THEN "sent" ELSE at[q]
  BY <1>1, <1>2, <1>3 DEF Types
<1>5. n = 2 => Busy(a)
  BY DEF Busy, InHandoff
<1>6. n = 1 => \A b \in Actions : b # a => ~ Busy(b)
  <2>1. ASSUME n = 1, NEW b \in Actions, b # a PROVE ~ Busy(b)
    <3>1. \A r \in Requests : ActionOf(r) # a => ~ InHandoff(ActionOf(r)) /\ at[r] \in {"absent", "answered", "lost"}
      BY <2>1 DEF Alone
    <3>2. <<b, 1>> \in Requests /\ ActionOf(<<b, 1>>) = b
      BY <1>1 DEF Types
    <3>3. ~ InHandoff(b)
      BY <2>1, <3>1, <3>2
    <3> QED
      BY <2>1, <3>1, <3>3 DEF Busy, Working
  <2> QED
    BY <2>1
<1>7. \A b \in Actions : b # a => (Busy(b)' => Busy(b))
  BY <1>1, <1>2, <1>3, <1>4 DEF Busy, InHandoff, Types
<1>8. OneBusy'
  <2>1. \A b \in Actions : Busy(b)' => b = a
    BY <1>5, <1>6, <1>7 DEF QuietInv, Quiet, OneBusy
  <2> QED
    BY <2>1 DEF OneBusy
<1>9. LockedInv'
  <2>1. \A q \in Requests : at'[q] \in Holding \cup {"waiting"} => at'[q] = at[q]
    BY <1>4 DEF Holding
  <2>2. \A q \in Requests : at[q] \in Holding => at'[q] = at[q]
    BY <1>2, <1>4 DEF Holding
  <2> QED
    BY <1>1, <1>3, <2>1, <2>2 DEF QuietInv, Quiet, LockedInv, Types
<1>10. OutcomeInv'
  <2>1. /\ \A q \in Requests : at'[q] = "dispatched" <=> at[q] = "dispatched"
        /\ \A q \in Requests : at'[q] = "answered" <=> at[q] = "answered"
        /\ \A q \in Requests : at'[q] \in Holding => at[q] \in Holding
    BY <1>2, <1>4 DEF Holding
  <2>2. \A q \in Requests : at[q] = "answered" /\ Busy(ActionOf(q))' => Busy(ActionOf(q))
    <3> SUFFICES ASSUME NEW q \in Requests, at[q] = "answered", ActionOf(q) = a, n = 1 PROVE FALSE
      BY <1>1, <1>5, <1>7 DEF Types
    <3>1. \A m \in {1, 2} : attempt[a] < m
      OBVIOUS
    <3>2. \A m \in {1, 2} : at[<<a, m>>] = "absent"
      BY <1>1, <3>1 DEF ControlInv, NothingUnsent
    <3> QED
      BY <1>1, <3>2 DEF Types
  <2> QED
    BY <1>3, <2>1, <2>2, OutcomeKept DEF QuietInv, Quiet
<1>11. KindInv'
  <2> SUFFICES ASSUME "reset" \notin Faults
               PROVE  /\ \A b \in Actions : kind'[b] \in {"executed", "failed"} =>
                           \E r \in Requests : ActionOf(r) = b /\ at'[r] = "answered"
                      /\ \A b \in Actions : kind'[b] = "down" /\ attempt'[b] = 1 => at'[<<b, 1>>] = "lost"
                      /\ \A r \in Requests : at'[r] = "lost" => kind'[ActionOf(r)] = "down"
    BY DEF KindInv
  <2>1. \A b \in Actions : kind'[b] = "down" => b # a /\ attempt'[b] = attempt[b] /\ at'[<<b, 1>>] = at[<<b, 1>>]
    BY <1>1, <1>2, <1>3, <1>4 DEF Types, s
  <2>2. \A b \in Actions : kind'[b] \in {"executed", "failed"} =>
           \E r \in Requests : ActionOf(r) = b /\ at'[r] = "answered"
    BY <1>2, <1>3, <1>4 DEF QuietInv, Quiet, KindInv
  <2>3. \A r \in Requests : at'[r] = "lost" => kind'[ActionOf(r)] = "down"
    BY <1>3, <1>4 DEF QuietInv, Quiet, KindInv
  <2> QED
    BY <1>3, <2>1, <2>2, <2>3 DEF QuietInv, Quiet, KindInv
<1> QED
  BY <1>8, <1>9, <1>10, <1>11 DEF Quiet

\* A handoff that returns leaves the agent alone.
LEMMA ReturnQuiet ==
    ASSUME QuietInv, NEW a \in Actions, NEW k \in {"executed", "failed", "down", "unknown"},
           k = "down" => "reset" \in Faults,
           k \in {"executed", "failed"} => \E r \in Requests : ActionOf(r) = a /\ at[r] = "answered",
           InHandoff(a), Return(a, k)
    PROVE  Quiet'
<1>1. Types
  BY ControlTypes DEF QuietInv
<1>2. /\ kind' = [kind EXCEPT ![a] = k] /\ kind[a] = "none"
      /\ UNCHANGED <<results, locks, holder, mine, at, body, delivered, attempt>>
  BY DEF Return, agentVars, InHandoff
<1>3. \A b \in Actions : kind'[b] = IF b = a THEN k ELSE kind[b]
  BY <1>1, <1>2 DEF Types
<1>4. \A b \in Actions : Busy(b)' => Busy(b)
  BY <1>2, <1>3 DEF Busy, InHandoff
<1>5. OneBusy'
  BY <1>4 DEF QuietInv, Quiet, OneBusy
<1>6. LockedInv'
  BY <1>2 DEF QuietInv, Quiet, LockedInv
<1>7. OutcomeInv'
  <2>1. \A q \in Requests : Busy(ActionOf(q))' => Busy(ActionOf(q))
    BY <1>1, <1>4 DEF Types
  <2> QED
    BY <1>2, <2>1, OutcomeKept DEF QuietInv, Quiet
<1>8. KindInv'
  <2>1. "reset" \notin Faults => \A r \in Requests : at[r] = "lost" => ActionOf(r) # a
    BY <1>2 DEF QuietInv, Quiet, KindInv
  <2> QED
    BY <1>1, <1>2, <1>3, <2>1 DEF QuietInv, Quiet, KindInv, Types
<1> QED
  BY <1>5, <1>6, <1>7, <1>8 DEF Quiet

\* A request that is refused was never taken in: if it is the only one of
\* its action, nothing ran.
LEMMA RefusedQuiet ==
    ASSUME QuietInv, NEW a \in Actions, Refused(a)
    PROVE  Quiet' /\ (attempt[a] = 1 => Executions[a] = 0)
<1>1. Types /\ ControlInv
  BY ControlTypes DEF QuietInv
<1> DEFINE s == Current(a)
<1>2. /\ attempt[a] \in {1, 2} /\ kind[a] = "none" /\ at[s] = "sent"
      /\ kind' = [kind EXCEPT ![a] = "down"] /\ at' = [at EXCEPT ![s] = "lost"]
      /\ UNCHANGED <<results, locks, holder, mine, body, delivered, attempt>>
  BY <1>1 DEF Refused, InHandoff, Types
<1>3. s \in Requests /\ ActionOf(s) = a /\ (attempt[a] = 1 => s = <<a, 1>>)
  BY <1>1, <1>2 DEF Types, Current
<1> HIDE DEF s
<1>4. /\ \A q \in Requests : at'[q] = IF q = s THEN "lost" ELSE at[q]
      /\ \A b \in Actions : kind'[b] = IF b = a THEN "down" ELSE kind[b]
  BY <1>1, <1>2, <1>3 DEF Types
<1>5. attempt[a] = 1 => Executions[a] = 0
  <2> SUFFICES ASSUME attempt[a] = 1 PROVE Executions[a] = 0
    OBVIOUS
  <2>1. at[<<a, 2>>] = "absent"
    <3>1. attempt[a] < 2
      OBVIOUS
    <3> QED
      BY <1>1, <3>1 DEF ControlInv, NothingUnsent
  <2>2. \A r \in Requests : ActionOf(r) = a => at[r] \in {"sent", "absent"}
    <3>1. at[<<a, 1>>] = "sent"
      BY <1>2, <1>3
    <3>2. \A r \in Requests : ActionOf(r) = a => r = <<a, 1>> \/ r = <<a, 2>>
      BY <1>1 DEF Types
    <3> QED
      BY <2>1, <3>1, <3>2
  <2> QED
    BY <2>2 DEF QuietInv, Quiet, OutcomeInv
<1>6. \A b \in Actions : Busy(b)' => Busy(b)
  BY <1>2, <1>4 DEF Busy, InHandoff, Working
<1>7. OneBusy'
  BY <1>6 DEF QuietInv, Quiet, OneBusy
<1>8. LockedInv'
  <2>1. \A q \in Requests : at'[q] \in Holding \cup {"waiting"} => at'[q] = at[q]
    BY <1>4 DEF Holding
  <2>2. \A q \in Requests : at[q] \in Holding => at'[q] = at[q]
    BY <1>2, <1>4 DEF Holding
  <2> QED
    BY <1>1, <1>2, <2>1, <2>2 DEF QuietInv, Quiet, LockedInv, Types
<1>9. OutcomeInv'
  <2>1. /\ \A q \in Requests : at'[q] = "dispatched" <=> at[q] = "dispatched"
        /\ \A q \in Requests : at'[q] = "answered" <=> at[q] = "answered"
        /\ \A q \in Requests : at'[q] \in Holding => at[q] \in Holding
    BY <1>2, <1>4 DEF Holding
  <2>2. \A q \in Requests : Busy(ActionOf(q))' => Busy(ActionOf(q))
    BY <1>1, <1>6 DEF Types
  <2> QED
    BY <1>2, <2>1, <2>2, OutcomeKept DEF QuietInv, Quiet
<1>10. KindInv'
  <2> SUFFICES ASSUME "reset" \notin Faults
               PROVE  /\ \A b \in Actions : kind'[b] \in {"executed", "failed"} =>
                           \E r \in Requests : ActionOf(r) = b /\ at'[r] = "answered"
                      /\ \A b \in Actions : kind'[b] = "down" /\ attempt'[b] = 1 => at'[<<b, 1>>] = "lost"
                      /\ \A r \in Requests : at'[r] = "lost" => kind'[ActionOf(r)] = "down"
    BY DEF KindInv
  <2>1. \A b \in Actions : kind'[b] \in {"executed", "failed"} =>
           \E r \in Requests : ActionOf(r) = b /\ at'[r] = "answered"
    BY <1>2, <1>4 DEF QuietInv, Quiet, KindInv
  <2>2. \A b \in Actions : kind'[b] = "down" /\ attempt'[b] = 1 => at'[<<b, 1>>] = "lost"
    BY <1>1, <1>2, <1>3, <1>4 DEF QuietInv, Quiet, KindInv, Types
  <2>3. \A r \in Requests : at'[r] = "lost" => kind'[ActionOf(r)] = "down"
    BY <1>1, <1>3, <1>4 DEF QuietInv, Quiet, KindInv, Types
  <2> QED
    BY <2>1, <2>2, <2>3 DEF KindInv
<1> QED
  BY <1>5, <1>7, <1>8, <1>9, <1>10 DEF Quiet
-----------------------------------------------------------------------------
\* At the start nothing is at work.
LEMMA QuietInit == Init => QuietInv
<1> SUFFICES ASSUME Init PROVE QuietInv
  OBVIOUS
<1>1. ControlInv /\ Types
  BY ControlInit, ControlTypes
<1>2. \A a \in Actions : Executions[a] = 0 /\ ~ Busy(a)
  BY <1>1 DEF Init, AgentInit, Executions, Busy, InHandoff, Working
<1>3. OneBusy /\ LockedInv /\ KindInv
  BY <1>1, <1>2 DEF Init, AgentInit, OneBusy, LockedInv, KindInv, Holding, Types
<1>4. OutcomeInv
  BY <1>1, <1>2 DEF Init, AgentInit, OutcomeInv, Holding
<1> QED
  BY <1>1, <1>3, <1>4 DEF QuietInv, Quiet

\* A step of the contract, or one it does not see.
Promised == Contract!Next \/ UNCHANGED <<Executions, Worth>>

\* A kind whose worth is true of the executions is a step of the contract.
LEMMA ReturnIsPromised ==
    ASSUME Types, NEW a \in Actions, NEW k \in {"executed", "failed", "down", "unknown"},
           InHandoff(a), kind' = [kind EXCEPT ![a] = k], attempt' = attempt, Executions' = Executions,
           k = "executed" => Executions[a] = 1, k = "failed" => Executions[a] = 0,
           k = "down" /\ attempt[a] = 1 => Executions[a] = 0
    PROVE  Promised
<1> DEFINE worth == IF k = "down" /\ attempt[a] = 2 THEN "unknown" ELSE k
<1>1. Worth[a] = "none" /\ attempt[a] \in {1, 2}
  BY DEF Worth, InHandoff, Types
<1>2. Worth' = [Worth EXCEPT ![a] = worth]
  <2>1. \A b \in Actions : kind'[b] = IF b = a THEN k ELSE kind[b]
    BY DEF Types
  <2>2. \A b \in Actions :
           (IF kind'[b] = "down" /\ attempt'[b] = 2 THEN "unknown" ELSE kind'[b])
             = IF b = a THEN worth ELSE Worth[b]
    BY <2>1 DEF Worth
  <2> HIDE DEF worth
  <2>3. Worth' = [b \in Actions |-> IF b = a THEN worth ELSE Worth[b]]
    BY <2>2 DEF Worth
  <2> QED
    BY <2>3 DEF Worth
<1>3. /\ worth \in {"executed", "failed", "down", "unknown"}
      /\ worth = "executed" => Executions[a] = 1
      /\ worth \in {"failed", "down"} => Executions[a] = 0
  BY <1>1
<1> HIDE DEF worth
<1> QED
  BY <1>1, <1>2, <1>3 DEF Promised, Contract!Next, Contract!Return, Contract!Kinds

\* While a handoff is open, its attempts do not change what kinds are worth.
LEMMA AttemptsAreWorthNothing ==
    ASSUME Types, NEW a \in Actions, NEW n, kind[a] = "none", Send(a, n)
    PROVE  Promised
<1>1. kind' = kind /\ Executions' = Executions /\ \A b \in Actions : b # a => attempt'[b] = attempt[b]
  BY DEF Send, Executions, Types
<1>2. Worth' = Worth
  BY <1>1 DEF Worth
<1> QED
  BY <1>1, <1>2 DEF Promised

\* A thread of the agent keeps the invariant.
LEMMA AgentStep ==
    ASSUME QuietInv, NEW r \in Requests, AgentThread(r), UNCHANGED verifyVars
    PROVE  Quiet'
BY TakeLockQuiet, ReturnExistingQuiet, DecideQuiet, DispatchQuiet, StoreResultQuiet DEF AgentThread

\* What the contract sees of a thread of the agent is one execution at most.
LEMMA AgentPromised ==
    ASSUME Faults = {}, QuietInv, NEW r \in Requests, AgentThread(r), UNCHANGED verifyVars
    PROVE  Promised
<1>1. Types
  BY ControlTypes DEF QuietInv
<1>0. Worth' = Worth
  BY DEF Worth, verifyVars
<1>2. ASSUME delivered' = delivered PROVE Promised
  BY <1>0, <1>2 DEF Promised, Executions
<1>3. ASSUME NEW reply \in Names \cup {None}, NEW outcome \in PostOutcomes, Dispatch(r, reply, outcome)
      PROVE  Promised
  <2>1. CASE Executions' = Executions
    BY <1>0, <2>1 DEF Promised
  <2>2. CASE Executions' = [Executions EXCEPT ![ActionOf(r)] = 1]
    <3> DEFINE a == ActionOf(r)
    <3>1. a \in Actions /\ Executions[a] = 0 /\ at[r] = "deciding"
      BY <1>1, <1>3, DecidedOnce DEF Types, Dispatch
    <3>2. \A q \in Requests : ActionOf(q) = a => at[q] # "answered"
      BY <3>1, DecidedOnce
    <3>3. kind[a] \notin {"executed", "failed"}
      BY <3>1, <3>2 DEF QuietInv, Quiet, KindInv
    <3>4. attempt[a] # 0
      <4>1. ASSUME attempt[a] = 0 PROVE FALSE
        <5>1. \A m \in {1, 2} : attempt[a] < m
          BY <4>1
        <5> QED
          BY <1>1, <3>1, <5>1 DEF QuietInv, ControlInv, NothingUnsent, Types
      <4> QED
        BY <4>1
    <3>5. ~ (kind[a] = "down" /\ attempt[a] = 1)
      <4>1. ASSUME kind[a] = "down", attempt[a] = 1 PROVE FALSE
        <5>1. at[<<a, 1>>] = "lost"
          BY <3>1, <4>1 DEF QuietInv, Quiet, KindInv
        <5>2. at[<<a, 2>>] = "absent"
          <6>1. attempt[a] < 2
            BY <4>1
          <6> QED
            BY <3>1, <6>1 DEF QuietInv, ControlInv, NothingUnsent
        <5> QED
          BY <1>1, <3>1, <5>1, <5>2 DEF Types
      <4> QED
        BY <4>1
    <3>6. Worth[a] \in {"none", "unknown"}
      BY <1>1, <3>1, <3>3, <3>4, <3>5 DEF Types, Worth
    <3>7. Contract!Run(a)
      BY <1>0, <2>2, <3>1, <3>6 DEF Contract!Run
    <3> QED
      BY <3>1, <3>7 DEF Promised, Contract!Next
  <2> QED
    BY <1>3, <2>1, <2>2, DispatchRuns
<1> QED
  BY <1>2, <1>3 DEF AgentThread, TakeLock, ReturnExisting, Decide, StoreResult

\* A step of execute_handoff keeps the invariant.
LEMMA HandoffStep ==
    ASSUME Serial, QuietInv, NEW a \in Actions, Begin(a) \/ Handle(a)
    PROVE  Quiet'
<1>1. Types /\ ControlInv
  BY ControlTypes DEF QuietInv
<1>2. CASE Begin(a)
  <2>1. attempt[a] = 0 /\ Alone(a) /\ Send(a, 1) /\ kind[a] = "none"
    BY <1>1, <1>2 DEF Begin, ControlInv, NothingUnsent, Serial
  <2> QED
    BY <2>1, SendQuiet
<1>3. CASE Retry(a)
  <2>1. attempt[a] = 1 /\ kind[a] = "none" /\ Send(a, 2)
    BY <1>3 DEF Retry, InHandoff
  <2> QED
    BY <2>1, SendQuiet
<1>4. CASE GiveUp(a)
  BY <1>4, ReturnQuiet DEF GiveUp
<1>5. ASSUME InHandoff(a) PROVE Current(a) \in Requests /\ ActionOf(Current(a)) = a
  <2>1. attempt[a] \in {1, 2}
    BY <1>1, <1>5 DEF InHandoff, Types
  <2> QED
    BY <1>1, <2>1 DEF Current, Types
<1>6. CASE TakeAnswer(a)
  <2>1. Current(a) \in Requests /\ ActionOf(Current(a)) = a
    BY <1>5, <1>6 DEF TakeAnswer
  <2>2. body[Current(a)].status \in {"executed", "failed"} /\ at[Current(a)] = "answered"
    BY <1>1, <1>6, <2>1 DEF TakeAnswer, BodiesAreReturned, Body, ControlInv
  <2> QED
    BY <1>6, <2>1, <2>2, ReturnQuiet DEF TakeAnswer
<1>7. CASE Refused(a)
  BY <1>7, RefusedQuiet
<1>8. CASE ConnectionLost(a)
  <2>1. /\ Return(a, "down") /\ InHandoff(a)
        /\ at[Current(a)] = "lost" \/ "reset" \in Faults
    BY <1>8 DEF ConnectionLost, ErrorKind
  <2>2. "reset" \in Faults
    BY <1>5, <2>1 DEF QuietInv, Quiet, KindInv, InHandoff
  <2> QED
    BY <2>1, <2>2, ReturnQuiet
<1> QED
  BY <1>2, <1>3, <1>4, <1>6, <1>7, <1>8 DEF Handle

\* The kind that execute_handoff returns is one the contract allows.
LEMMA HandoffPromised ==
    ASSUME Faults = {}, QuietInv, NEW a \in Actions, Begin(a) \/ Handle(a)
    PROVE  Promised
<1>1. Types /\ ControlInv
  BY ControlTypes DEF QuietInv
<1>2. CASE Begin(a) \/ Retry(a)
  BY <1>1, <1>2, AttemptsAreWorthNothing DEF Begin, Retry, InHandoff, ControlInv, NothingUnsent
<1>3. ASSUME NEW k \in {"executed", "failed", "unknown"}, InHandoff(a), Return(a, k),
             k \in {"executed", "failed"} =>
                \E r \in Requests : ActionOf(r) = a /\ at[r] = "answered" /\ body[r].status = k
      PROVE  Promised
  <2>1. kind' = [kind EXCEPT ![a] = k] /\ attempt' = attempt /\ Executions' = Executions
    BY <1>3 DEF Return, agentVars, Executions
  <2>2. k = "executed" => Executions[a] = 1
    BY <1>3 DEF QuietInv, Quiet, OutcomeInv, Tells
  <2>3. k = "failed" => Executions[a] = 0
    BY <1>3 DEF QuietInv, Quiet, OutcomeInv, Tells
  <2> QED
    BY <1>1, <1>3, <2>1, <2>2, <2>3, ReturnIsPromised
<1>4. ASSUME InHandoff(a) PROVE Current(a) \in Requests /\ ActionOf(Current(a)) = a
  <2>1. attempt[a] \in {1, 2}
    BY <1>1, <1>4 DEF InHandoff, Types
  <2> QED
    BY <1>1, <2>1 DEF Current, Types
<1>5. CASE TakeAnswer(a)
  <2>1. Current(a) \in Requests /\ ActionOf(Current(a)) = a
    BY <1>4, <1>5 DEF TakeAnswer
  <2>2. body[Current(a)].status \in {"executed", "failed"} /\ at[Current(a)] = "answered"
    BY <1>1, <1>5, <2>1 DEF TakeAnswer, BodiesAreReturned, Body, ControlInv
  <2> QED
    BY <1>3, <1>5, <2>1, <2>2 DEF TakeAnswer
<1>6. CASE Refused(a)
  <2>1. attempt[a] = 1 => Executions[a] = 0
    BY <1>6, RefusedQuiet
  <2>2. InHandoff(a) /\ kind' = [kind EXCEPT ![a] = "down"] /\ attempt' = attempt /\ Executions' = Executions
    BY <1>6 DEF Refused, Executions
  <2> QED
    BY <1>1, <2>1, <2>2, ReturnIsPromised
<1>7. ~ ConnectionLost(a)
  BY <1>4 DEF ConnectionLost, QuietInv, Quiet, KindInv, InHandoff
<1> QED
  BY <1>2, <1>3, <1>5, <1>6, <1>7 DEF Handle, GiveUp

\* Every step keeps the invariant.
LEMMA QuietNext ==
    ASSUME Serial
    PROVE  QuietInv /\ [Next]_vars => QuietInv'
<1> SUFFICES ASSUME QuietInv, [Next]_vars PROVE QuietInv'
  OBVIOUS
<1>1. ControlInv'
  BY ControlNext DEF QuietInv
<1>2. CASE Next
  <2>1. ~ Restart
    BY DEF Restart, Serial
  <2> QED
    BY <1>1, <1>2, <2>1, AgentStep, HandoffStep DEF Next, QuietInv
<1>3. CASE UNCHANGED vars
  <2>1. UNCHANGED <<results, locks, holder, mine, at, body, delivered, attempt, kind>>
    BY <1>3 DEF vars, agentVars, verifyVars
  <2>2. \A a : Busy(a)' <=> Busy(a)
    BY <2>1 DEF Busy, InHandoff
  <2>3. OneBusy' /\ LockedInv' /\ KindInv'
    BY <2>1, <2>2 DEF QuietInv, Quiet, OneBusy, LockedInv, KindInv
  <2>4. OutcomeInv'
    BY <2>1, <2>2, OutcomeKept DEF QuietInv, Quiet
  <2> QED
    BY <1>1, <2>3, <2>4 DEF QuietInv, Quiet
<1> QED
  BY <1>2, <1>3

\* Without faults every step is one of the contract, or one it does not see.
LEMMA PromisedNext ==
    ASSUME Faults = {}
    PROVE  Serial /\ (QuietInv /\ [Next]_vars => Promised)
<1> SUFFICES ASSUME QuietInv, [Next]_vars PROVE Promised
  BY DEF Serial
<1>1. CASE Next
  BY <1>1, AgentPromised, HandoffPromised DEF Next, Restart
<1>2. CASE UNCHANGED vars
  BY <1>2 DEF vars, agentVars, verifyVars, Promised, Executions, Worth
<1> QED
  BY <1>1, <1>2

(* agent_handoff.py's failure taxonomy holds as long as actions do not     *)
(* overlap and nothing is reset, restarted or lost, for any number of      *)
(* actions, any rule files, any bounds and any timeouts -- but for the     *)
(* "down" of a retry, which is taken for the "unknown" that it should be   *)
(* (Worth): of that one the taxonomy is wrong (the run AH_down_executed).  *)
THEOREM ContractKept ==
    ASSUME Faults = {}
    PROVE  Spec => KeepsContract
<1>1. Init => Contract!Init
  BY DEF Init, AgentInit, Contract!Init, Executions, Worth
<1>2. Promised <=> [Contract!Next]_<<Executions, Worth>>
  BY DEF Promised
<1> QED
  BY <1>1, <1>2, QuietInit, QuietNext, PromisedNext, PTL DEF Spec, KeepsContract, Contract!Spec

(* While actions do not overlap and the agent does not restart, no two of  *)
(* its threads decide on one action: the per-action lock is not dropped    *)
(* from the table while it is in use (_action_lock, _store_result).        *)
THEOREM DecidersExclude ==
    ASSUME Serial
    PROVE  Spec => []OneDecider
<1>1. QuietInv => OneDecider
  BY DEF QuietInv, Quiet, LockedInv, OneDecider, Holding
<1> QED
  BY <1>1, QuietInit, QuietNext, PTL DEF Spec
-----------------------------------------------------------------------------
Done == {"dispatched", "answered"}

\* All answers of an action are the body that was stored; a result that is
\* kept was answered.
AnswerInv ==
    /\ \A r, q \in Requests :
         (at[r] = "answered" /\ at[q] = "answered" /\ ActionOf(r) = ActionOf(q)) => body[r] = body[q]
    /\ \A i \in DOMAIN results : \E q \in Requests :
         at[q] = "answered" /\ ActionOf(q) = results[i].action /\ body[q] = results[i].body

\* The log has one row per action that has been decided, which tells what
\* became of it.
LogInv ==
    /\ \A i, j \in DOMAIN decisions : decisions[i].action = decisions[j].action => i = j
    /\ \A i \in DOMAIN decisions : Tells(decisions[i].body.status, Executions[decisions[i].action])
    /\ \A i \in DOMAIN decisions : \E r \in Requests : ActionOf(r) = decisions[i].action /\ at[r] \in Done
    /\ \A r \in Requests : at[r] \in Done => \E i \in DOMAIN decisions : decisions[i].action = ActionOf(r)
    /\ DerailedIsRefused

\* A step that answers nothing and stores nothing keeps the answers.
LEMMA AnswersKept ==
    ASSUME AnswerInv, results' = results,
           \A q \in Requests : at'[q] = "answered" <=> at[q] = "answered",
           \A q \in Requests : at[q] = "answered" => body'[q] = body[q]
    PROVE  AnswerInv'
BY DEF AnswerInv

\* A step that decides nothing keeps what the log says.
LEMMA LogKept ==
    ASSUME LogInv, UNCHANGED <<deployment, decisions, delivered>>,
           \A q \in Requests : at[q] \in Done => at'[q] \in Done,
           \A q \in Requests : at'[q] \in Done =>
              \E p \in Requests : ActionOf(p) = ActionOf(q) /\ at[p] \in Done
    PROVE  LogInv'
<1>1. Executions' = Executions
  BY DEF Executions
<1>2. DerailedIsRefused'
  BY DEF LogInv, DerailedIsRefused
<1>3. \A i \in DOMAIN decisions' : \E r \in Requests : ActionOf(r) = decisions'[i].action /\ at'[r] \in Done
  BY DEF LogInv
<1>4. \A r \in Requests : at'[r] \in Done => \E i \in DOMAIN decisions' : decisions'[i].action = ActionOf(r)
  <2> TAKE r \in Requests
  <2> HAVE at'[r] \in Done
  <2>1. PICK p \in Requests : ActionOf(p) = ActionOf(r) /\ at[p] \in Done
    OBVIOUS
  <2> QED
    BY <2>1 DEF LogInv
<1> QED
  BY <1>1, <1>2, <1>3, <1>4 DEF LogInv

\* A log that names every action at most once and one of them not at all is
\* shorter than there are actions.
LEMMA LogHasRoom ==
    ASSUME IsFiniteSet(Actions), NEW rows \in Seq(Decision), NEW a \in Actions,
           \A i, j \in DOMAIN rows : rows[i].action = rows[j].action => i = j,
           \A i \in DOMAIN rows : rows[i].action # a
    PROVE  Len(rows) < Cardinality(Actions)
<1> DEFINE f == [i \in 1..Len(rows) |-> rows[i].action]
           others == Actions \ {a}
<1>1. Len(rows) \in Nat /\ DOMAIN rows = 1..Len(rows)
  OBVIOUS
<1>2. \A i \in 1..Len(rows) : rows[i] \in Decision /\ rows[i].action \in others
  <2>1. \A i \in 1..Len(rows) : rows[i] \in Decision
    OBVIOUS
  <2>2. \A row \in Decision : row.action \in Actions
    BY DEF Decision
  <2> QED
    BY <1>1, <2>1, <2>2
<1>3. f \in Injection(1..Len(rows), others)
  BY <1>1, <1>2 DEF Injection, IsInjective
<1>4. IsFiniteSet(others) /\ Cardinality(others) = Cardinality(Actions) - 1
  BY FS_RemoveElement
<1> HIDE DEF f, others
<1>5. Cardinality(1..Len(rows)) <= Cardinality(others)
  BY <1>3, <1>4, FS_Injection
<1>6. Cardinality(1..Len(rows)) = Len(rows)
  BY <1>1, FS_Interval
<1>7. Cardinality(Actions) \in Nat
  BY FS_CardinalityType
<1> QED
  BY <1>1, <1>4, <1>5, <1>6, <1>7

\* A dispatch logs the action it decides, behind what is there.
LEMMA DispatchLogs ==
    ASSUME IsFiniteSet(Actions), Cardinality(Actions) <= LogMax,
           QuietInv, LogInv, NEW r \in Requests, NEW reply \in Names \cup {None},
           NEW outcome \in PostOutcomes, Dispatch(r, reply, outcome)
    PROVE  LogInv'
<1> DEFINE a == ActionOf(r)
           routed == Routed(deployment, Cents(a), reply)
           row == [action |-> a, body |-> body'[r], reply |-> reply]
<1>1. Types /\ decisions \in Seq(Decision)
  BY ControlTypes DEF QuietInv, ControlInv, TypeInv, TypeOK, AgentTypeOK
<1>2. a \in Actions /\ at[r] = "deciding" /\ UNCHANGED deployment
  BY <1>1 DEF Types, Dispatch
<1>3. \A q \in Requests : ActionOf(q) = a => at[q] \notin Done
  BY <1>2, DecidedOnce DEF Done
<1>4. \A i \in DOMAIN decisions : decisions[i].action # a
  BY <1>3 DEF LogInv
<1>5. Len(decisions) < LogMax
  <2>1. Len(decisions) < Cardinality(Actions)
    BY <1>1, <1>2, <1>4, LogHasRoom DEF LogInv
  <2> QED
    BY <1>1, <2>1, AgentAssumption, FS_CardinalityType
<1>6. decisions' = Append(decisions, row)
  <2>1. body'[r] = Answer(routed, outcome)
    BY <1>1 DEF Dispatch, Types
  <2> QED
    BY <1>5, <2>1 DEF Dispatch, Logged
<1>7. /\ Tells(body'[r].status, Executions'[a])
      /\ \A b \in Actions : b # a => Executions'[b] = Executions[b]
  <2>1. \A b \in Actions : b # a => Executions'[b] = Executions[b]
    <3>1. Executions' = Executions \/ Executions' = [Executions EXCEPT ![a] = 1]
      BY DispatchRuns
    <3> QED
      BY <3>1 DEF Executions
  <2> QED
    BY <2>1, DispatchRuns
<1>8. \A q \in Requests : at'[q] = IF q = r THEN "dispatched" ELSE at[q]
  BY <1>1 DEF Dispatch, Types
<1>9. /\ row.action = a /\ row.body = body'[r] /\ row.reply = reply
  OBVIOUS
<1>10. \A i \in DOMAIN decisions : decisions[i].action \in Actions
  <2>1. \A d \in Decision : d.action \in Actions
    BY DEF Decision
  <2>2. \A i \in DOMAIN decisions : decisions[i] \in Decision
    BY <1>1
  <2> QED
    BY <2>1, <2>2
<1>11. /\ Len(decisions) \in Nat /\ DOMAIN decisions = 1..Len(decisions)
       /\ DOMAIN decisions' = 1..(Len(decisions) + 1)
       /\ \A i \in 1..Len(decisions) : decisions'[i] = decisions[i]
       /\ decisions'[Len(decisions) + 1] = row
  <2> HIDE DEF row
  <2> QED
    BY <1>1, <1>6
<1>12. DerailedIsRefused'
  <2> SUFFICES ASSUME NEW b \in Actions, Consults(deployment, Cents(b)), NEW i \in DOMAIN delivered'[b]
               PROVE  \E j \in DOMAIN decisions' :
                         decisions'[j].action = b /\ decisions'[j].reply = delivered'[b][i]
    BY <1>2 DEF DerailedIsRefused
  <2>1. CASE delivered'[b] = delivered[b]
    <3>1. PICK j \in DOMAIN decisions : decisions[j].action = b /\ decisions[j].reply = delivered[b][i]
      BY <2>1 DEF LogInv, DerailedIsRefused
    <3>2. j \in DOMAIN decisions' /\ decisions'[j] = decisions[j]
      BY <1>11
    <3> QED
      BY <2>1, <3>1, <3>2
  <2>2. CASE delivered'[b] # delivered[b]
    <3>1. /\ b = a /\ outcome # "notTaken" /\ routed.channel \in KnownChannels
          /\ delivered'[a] = Append(delivered[a], routed.channel)
      BY <1>1, <1>2, <2>2 DEF Dispatch, Types
    <3>2. Len(delivered[a]) = 0 /\ delivered[a] \in Seq(KnownChannels)
      BY <1>1, <1>2, DecidedOnce DEF Executions, Types
    <3>3. delivered'[b][i] = routed.channel
      <4> HIDE DEF routed
      <4>1. DOMAIN delivered'[a] = {1} /\ delivered'[a][1] = routed.channel
        BY <3>1, <3>2
      <4> QED
        BY <3>1, <4>1
    <3>4. routed = RoutedBy(Validated(deployment, reply), "llm")
      BY <3>1 DEF Routed, Consults, Delegates
    <3>5. routed.channel = reply
      <4>1. routed.channel # None
        BY <3>1, RoutingAssumption
      <4> QED
        BY <3>4, <4>1 DEF RoutedBy, Unrouted, Validated
    <3> QED
      BY <1>9, <1>11, <3>1, <3>3, <3>5
  <2> QED
    BY <2>1, <2>2
<1> HIDE DEF row, a
<1>13. \A i, j \in DOMAIN decisions' : decisions'[i].action = decisions'[j].action => i = j
  BY <1>4, <1>9, <1>11 DEF LogInv
<1>14. \A i \in DOMAIN decisions' : Tells(decisions'[i].body.status, Executions'[decisions'[i].action])
  BY <1>4, <1>7, <1>9, <1>10, <1>11 DEF LogInv
<1>15. \A i \in DOMAIN decisions' : \E q \in Requests : ActionOf(q) = decisions'[i].action /\ at'[q] \in Done
  <2>1. ActionOf(r) = a /\ at'[r] \in Done
    BY <1>8 DEF Done, a
  <2>2. \A q \in Requests : at[q] \in Done => at'[q] \in Done
    BY <1>8 DEF Done
  <2> QED
    BY <1>9, <1>11, <2>1, <2>2 DEF LogInv
<1>16. \A q \in Requests : at'[q] \in Done => \E i \in DOMAIN decisions' : decisions'[i].action = ActionOf(q)
  <2> TAKE q \in Requests
  <2> HAVE at'[q] \in Done
  <2>1. CASE q = r
    BY <1>9, <1>11, <2>1 DEF a
  <2>2. CASE q # r
    <3>1. PICK i \in DOMAIN decisions : decisions[i].action = ActionOf(q)
      BY <1>8, <2>2 DEF LogInv
    <3>2. i \in DOMAIN decisions' /\ decisions'[i] = decisions[i]
      BY <1>11
    <3> QED
      BY <3>1, <3>2
  <2> QED
    BY <2>1, <2>2
<1> QED
  BY <1>12, <1>13, <1>14, <1>15, <1>16 DEF LogInv

\* A result that is found is the body every answer of the action had.
LEMMA ReturnExistingAnswers ==
    ASSUME QuietInv, AnswerInv, NEW r \in Requests, ReturnExisting(r)
    PROVE  AnswerInv' /\ \E p \in Requests : ActionOf(p) = ActionOf(r) /\ at[p] \in Done
<1>1. Types
  BY ControlTypes DEF QuietInv
<1>2. PICK i \in DOMAIN results : results[i].action = ActionOf(r) /\ ResultOf(ActionOf(r)) = results[i].body
  BY DEF ReturnExisting, HasResult, ResultOf
<1>3. PICK p \in Requests : at[p] = "answered" /\ ActionOf(p) = ActionOf(r) /\ body[p] = results[i].body
  BY <1>2 DEF AnswerInv
<1>4. /\ at[r] = "waiting" /\ results' = results
      /\ \A q \in Requests : at'[q] = IF q = r THEN "answered" ELSE at[q]
      /\ \A q \in Requests : body'[q] = IF q = r THEN body[p] ELSE body[q]
  BY <1>1, <1>2, <1>3 DEF ReturnExisting, Types
<1>5. \A q \in Requests : at[q] = "answered" => q # r
  BY <1>4
<1>6. \A q \in Requests : (at'[q] = "answered" /\ ActionOf(q) = ActionOf(r)) => body'[q] = body[p]
  BY <1>3, <1>4 DEF AnswerInv
<1>7. \A q, s \in Requests :
         (at'[q] = "answered" /\ at'[s] = "answered" /\ ActionOf(q) = ActionOf(s)) => body'[q] = body'[s]
  BY <1>4, <1>6 DEF AnswerInv
<1>8. \A j \in DOMAIN results' : \E q \in Requests :
         at'[q] = "answered" /\ ActionOf(q) = results'[j].action /\ body'[q] = results'[j].body
  BY <1>4, <1>5 DEF AnswerInv
<1> QED
  BY <1>3, <1>7, <1>8 DEF AnswerInv, Done

\* The first answer of an action is the body that is stored.
LEMMA StoreResultAnswers ==
    ASSUME QuietInv, AnswerInv, NEW r \in Requests, StoreResult(r)
    PROVE  AnswerInv'
<1>1. Types /\ ControlInv
  BY ControlTypes DEF QuietInv
<1>2. /\ at[r] = "dispatched" /\ results' = Stored(r) /\ body' = body
      /\ \A q \in Requests : at'[q] = IF q = r THEN "answered" ELSE at[q]
  BY <1>1 DEF StoreResult, Types
<1>3. ~ HasResult(results, ActionOf(r))
  BY <1>2 DEF QuietInv, Quiet, OutcomeInv, Holding
<1>4. Busy(ActionOf(r))
  BY <1>2 DEF Busy, Working
<1>5. \A q \in Requests : ActionOf(q) = ActionOf(r) => at[q] # "answered"
  BY <1>3, <1>4 DEF QuietInv, Quiet, OutcomeInv
<1>6. \A q, s \in Requests :
         (at'[q] = "answered" /\ at'[s] = "answered" /\ ActionOf(q) = ActionOf(s)) => body'[q] = body'[s]
  BY <1>2, <1>5 DEF AnswerInv
<1>7. body[r] \in Body
  BY <1>1, <1>2 DEF ControlInv, BodiesAreReturned
<1>8. \A j \in DOMAIN results' :
         \/ results'[j] = [action |-> ActionOf(r), body |-> body[r]]
         \/ \E i \in DOMAIN results : results'[j] = results[i]
  BY <1>1, <1>2, <1>7, StoredType DEF ControlInv
<1>9. \A j \in DOMAIN results' : \E q \in Requests :
         at'[q] = "answered" /\ ActionOf(q) = results'[j].action /\ body'[q] = results'[j].body
  <2> TAKE j \in DOMAIN results'
  <2>1. CASE results'[j] = [action |-> ActionOf(r), body |-> body[r]]
    BY <1>2, <2>1
  <2>2. ASSUME NEW i \in DOMAIN results, results'[j] = results[i]
        PROVE  \E q \in Requests :
                 at'[q] = "answered" /\ ActionOf(q) = results'[j].action /\ body'[q] = results'[j].body
    <3>1. PICK q \in Requests :
             at[q] = "answered" /\ ActionOf(q) = results[i].action /\ body[q] = results[i].body
      BY DEF AnswerInv
    <3> QED
      BY <1>2, <2>2, <3>1
  <2> QED
    BY <1>8, <2>1, <2>2
<1> QED
  BY <1>6, <1>9 DEF AnswerInv

\* No step gives an action a second answer.
LEMMA AnswerNext ==
    ASSUME Serial
    PROVE  QuietInv /\ AnswerInv /\ [Next]_vars => AnswerInv'
<1> SUFFICES ASSUME QuietInv, AnswerInv, [Next]_vars PROVE AnswerInv'
  OBVIOUS
<1>1. Types /\ ControlInv
  BY ControlTypes DEF QuietInv
<1>2. ASSUME NEW r \in Requests, TakeLock(r) \/ Decide(r) PROVE AnswerInv'
  BY <1>1, <1>2, AnswersKept DEF TakeLock, Decide, Types
<1>3. ASSUME NEW r \in Requests, NEW reply \in Names \cup {None}, NEW outcome \in PostOutcomes,
             Dispatch(r, reply, outcome)
      PROVE  AnswerInv'
  <2>1. at[r] = "deciding" /\ results' = results /\ at' = [at EXCEPT ![r] = "dispatched"]
    BY <1>3 DEF Dispatch
  <2>2. \A q \in Requests : q # r => body'[q] = body[q]
    BY <1>1, <1>3 DEF Dispatch, Types
  <2>3. \A q \in Requests : at'[q] = IF q = r THEN "dispatched" ELSE at[q]
    BY <1>1, <2>1 DEF Types
  <2> QED
    BY <2>1, <2>2, <2>3, AnswersKept
<1>4. ASSUME NEW r \in Requests, AgentThread(r) PROVE AnswerInv'
  BY <1>2, <1>3, <1>4, ReturnExistingAnswers, StoreResultAnswers DEF AgentThread
<1>5. ASSUME NEW a \in Actions, NEW n \in {1, 2}, attempt[a] < n, Send(a, n) PROVE AnswerInv'
  <2>1. <<a, n>> \in Requests /\ at[<<a, n>>] = "absent"
    BY <1>1, <1>5 DEF Types, ControlInv, NothingUnsent
  <2>2. \A q \in Requests : at'[q] = IF q = <<a, n>> THEN "sent" ELSE at[q]
    BY <1>1, <1>5, <2>1 DEF Send, Types
  <2>3. results' = results /\ body' = body
    BY <1>5 DEF Send
  <2> QED
    BY <2>1, <2>2, <2>3, AnswersKept
<1>6. ASSUME NEW a \in Actions, NEW k, Return(a, k) PROVE AnswerInv'
  BY <1>6, AnswersKept DEF Return, agentVars
<1>7. ASSUME NEW a \in Actions, Refused(a) PROVE AnswerInv'
  <2>1. /\ at[Current(a)] = "sent" /\ at' = [at EXCEPT ![Current(a)] = "lost"]
        /\ results' = results /\ body' = body
    BY <1>7 DEF Refused
  <2>2. \A q \in Requests : at'[q] = at[q] \/ (at[q] = "sent" /\ at'[q] = "lost")
    BY <1>1, <2>1 DEF Types
  <2> QED
    BY <2>1, <2>2, AnswersKept
<1>8. ASSUME NEW a \in Actions, Begin(a) \/ Handle(a) PROVE AnswerInv'
  BY <1>5, <1>6, <1>7, <1>8 DEF Begin, Handle, Retry, GiveUp, TakeAnswer, ConnectionLost
<1>9. CASE UNCHANGED vars
  BY <1>9, AnswersKept DEF vars, agentVars
<1> QED
  BY <1>4, <1>8, <1>9 DEF Next, Restart, Serial

\* No step logs an action twice, or one that it does not decide.
LEMMA LogNext ==
    ASSUME Serial, IsFiniteSet(Actions), Cardinality(Actions) <= LogMax
    PROVE  QuietInv /\ AnswerInv /\ LogInv /\ [Next]_vars => LogInv'
<1> SUFFICES ASSUME QuietInv, AnswerInv, LogInv, [Next]_vars PROVE LogInv'
  OBVIOUS
<1>1. Types /\ ControlInv
  BY ControlTypes DEF QuietInv
<1>2. ASSUME NEW r \in Requests, TakeLock(r) \/ Decide(r) PROVE LogInv'
  <2>1. /\ at[r] \notin Done /\ UNCHANGED <<deployment, decisions, delivered>>
        /\ \E place \in {"waiting", "deciding"} : at' = [at EXCEPT ![r] = place]
    BY <1>2 DEF TakeLock, Decide, Done
  <2>2. \A q \in Requests : at'[q] \in Done <=> at[q] \in Done
    BY <1>1, <2>1 DEF Types, Done
  <2> QED
    BY <2>1, <2>2, LogKept
<1>3. ASSUME NEW r \in Requests, ReturnExisting(r) \/ StoreResult(r) PROVE LogInv'
  <2>1. /\ UNCHANGED <<deployment, decisions, delivered>>
        /\ at' = [at EXCEPT ![r] = "answered"]
        /\ \E p \in Requests : ActionOf(p) = ActionOf(r) /\ at[p] \in Done
    BY <1>3, ReturnExistingAnswers DEF ReturnExisting, StoreResult, Done
  <2>2. /\ \A q \in Requests : at[q] \in Done => at'[q] \in Done
        /\ \A q \in Requests : at'[q] \in Done => q = r \/ at[q] \in Done
    BY <1>1, <2>1 DEF Types, Done
  <2> QED
    BY <2>1, <2>2, LogKept
<1>4. ASSUME NEW r \in Requests, AgentThread(r) PROVE LogInv'
  BY <1>2, <1>3, <1>4, DispatchLogs DEF AgentThread
<1>5. ASSUME NEW a \in Actions, NEW n \in {1, 2}, attempt[a] < n, Send(a, n) PROVE LogInv'
  <2>1. <<a, n>> \in Requests /\ at[<<a, n>>] = "absent"
    BY <1>1, <1>5 DEF Types, ControlInv, NothingUnsent
  <2>2. \A q \in Requests : at'[q] = IF q = <<a, n>> THEN "sent" ELSE at[q]
    BY <1>1, <1>5, <2>1 DEF Send, Types
  <2>3. \A q \in Requests : at'[q] \in Done <=> at[q] \in Done
    BY <2>1, <2>2 DEF Done
  <2>4. UNCHANGED <<deployment, decisions, delivered>>
    BY <1>5 DEF Send
  <2> QED
    BY <2>3, <2>4, LogKept
<1>6. ASSUME NEW a \in Actions, NEW k, Return(a, k) PROVE LogInv'
  BY <1>6, LogKept DEF Return, agentVars
<1>7. ASSUME NEW a \in Actions, Refused(a) PROVE LogInv'
  <2>1. /\ at[Current(a)] = "sent" /\ at' = [at EXCEPT ![Current(a)] = "lost"]
        /\ UNCHANGED <<deployment, decisions, delivered>>
    BY <1>7 DEF Refused
  <2>2. \A q \in Requests : at'[q] = at[q] \/ (at[q] = "sent" /\ at'[q] = "lost")
    BY <1>1, <2>1 DEF Types
  <2>3. \A q \in Requests : at'[q] \in Done <=> at[q] \in Done
    BY <2>2 DEF Done
  <2> QED
    BY <2>1, <2>3, LogKept
<1>8. ASSUME NEW a \in Actions, Begin(a) \/ Handle(a) PROVE LogInv'
  BY <1>5, <1>6, <1>7, <1>8 DEF Begin, Handle, Retry, GiveUp, TakeAnswer, ConnectionLost
<1>9. CASE UNCHANGED vars
  BY <1>9, LogKept DEF vars, agentVars
<1> QED
  BY <1>4, <1>8, <1>9 DEF Next, Restart, Serial

(* While actions do not overlap and the agent does not restart, a retry    *)
(* can only fetch the original outcome, even one that a channel did not    *)
(* confirm: status, channel and who chose it agree (_store_result, and the *)
(* lookup of execute_action), for any bound on the results kept -- the one *)
(* of the action at work is never evicted.                                 *)
THEOREM AnswersAgree ==
    ASSUME Serial
    PROVE  Spec => []SameAnswer
<1>1. Init => AnswerInv
  BY DEF Init, AgentInit, AnswerInv
<1>2. QuietInv /\ AnswerInv => SameAnswer
  <2> SUFFICES ASSUME QuietInv, AnswerInv, NEW a \in Actions,
                      at[<<a, 1>>] = "answered", at[<<a, 2>>] = "answered"
               PROVE  body[<<a, 1>>] = body[<<a, 2>>]
    BY DEF SameAnswer
  <2> QED
    BY ControlTypes DEF QuietInv, Types, AnswerInv
<1> QED
  BY <1>1, <1>2, QuietInit, QuietNext, AnswerNext, PTL DEF Spec

(* While actions do not overlap and the agent does not restart, an action  *)
(* is executed once at most, however often it is sent and whatever is      *)
(* reset, timed out or not confirmed (_action_lock, _results).  With an    *)
(* overlap the code does execute twice (the run AH_purged_lock).           *)
THEOREM ExecutedOnce ==
    ASSUME Serial
    PROVE  Spec => []AtMostOneExecution
<1>1. QuietInv => AtMostOneExecution
  BY DEF QuietInv, Quiet, OutcomeInv, AtMostOneExecution
<1> QED
  BY <1>1, QuietInit, QuietNext, PTL DEF Spec

(* The "down" of a single attempt releases the budget, and rightly so, as  *)
(* long as no connection is reset, actions do not overlap and the agent    *)
(* does not restart: nothing of the action has run, even where answers of  *)
(* channels get lost (_post_action's taxonomy).  The "down" of a retry is  *)
(* false without any fault (the run AH_down_executed).                     *)
THEOREM DownIsTrue ==
    ASSUME Serial, "reset" \notin Faults
    PROVE  Spec => []FirstDownWasNotExecuted
<1>1. QuietInv => FirstDownWasNotExecuted
  <2> SUFFICES ASSUME QuietInv, NEW a \in Actions, Worth[a] = "down" PROVE Executions[a] = 0
    BY DEF FirstDownWasNotExecuted
  <2>1. Types /\ ControlInv
    BY ControlTypes DEF QuietInv
  <2>2. attempt[a] = 1 /\ at[<<a, 1>>] = "lost"
    <3>1. kind[a] = "down" /\ attempt[a] # 2
      BY DEF Worth
    <3>2. attempt[a] = 1
      BY <2>1, <3>1 DEF Types, ControlInv, NothingUnsent
    <3> QED
      BY <3>1, <3>2 DEF QuietInv, Quiet, KindInv
  <2>3. at[<<a, 2>>] = "absent"
    BY <2>1, <2>2 DEF ControlInv, NothingUnsent
  <2>4. \A r \in Requests : ActionOf(r) = a => at[r] \notin {"dispatched", "answered"}
    BY <2>1, <2>2, <2>3 DEF Types
  <2> QED
    BY <2>4 DEF QuietInv, Quiet, OutcomeInv
<1> QED
  BY <1>1, QuietInit, QuietNext, PTL DEF Spec

\* At the start the log is empty and nothing has been delivered.
LEMMA LogInit == Init => AnswerInv /\ LogInv
BY DEF Init, AgentInit, AnswerInv, LogInv, DerailedIsRefused, Done

(* As long as the decision log holds every action, an order that the LLM   *)
(* was to decide runs only where its reply said (llm.py's validation;      *)
(* _decide_and_execute never falls back from a derailed LLM).              *)
THEOREM DerailedRunsNowhere ==
    ASSUME Serial, IsFiniteSet(Actions), Cardinality(Actions) <= LogMax
    PROVE  Spec => []DerailedIsRefused
<1>1. LogInv => DerailedIsRefused
  BY DEF LogInv
<1> QED
  BY <1>1, LogInit, QuietInit, QuietNext, AnswerNext, LogNext, PTL DEF Spec

(* As long as the decision log holds every action, and no answer of a      *)
(* channel gets lost, it reconciles a handoff of unknown outcome, be it by *)
(* timeouts, a reset or a body that cannot be parsed: each answered action *)
(* has one row, which says "executed" exactly if a channel took it         *)
(* (_log_decision).                                                        *)
THEOREM LogReconciles ==
    ASSUME Serial, "lateStub" \notin Faults, IsFiniteSet(Actions), Cardinality(Actions) <= LogMax
    PROVE  Spec => []UnknownIsReconcilable
<1>1. QuietInv /\ LogInv => UnknownIsReconcilable
  <2> SUFFICES ASSUME QuietInv, LogInv, NEW r \in Requests, at[r] = "answered"
               PROVE  LET rows == {i \in DOMAIN decisions : decisions[i].action = ActionOf(r)}
                      IN  /\ \E i \in rows : rows = {i}
                          /\ \A i \in rows :
                                (decisions[i].body.status = "executed") <=> (Executions[ActionOf(r)] > 0)
    BY DEF UnknownIsReconcilable
  <2> DEFINE rows == {i \in DOMAIN decisions : decisions[i].action = ActionOf(r)}
  <2>1. PICK i \in DOMAIN decisions : decisions[i].action = ActionOf(r)
    BY DEF LogInv, Done
  <2>2. i \in rows /\ rows = {i}
    BY <2>1 DEF LogInv
  <2>3. \A j \in rows : Tells(decisions[j].body.status, Executions[ActionOf(r)])
    BY DEF LogInv
  <2>4. \A j \in rows : (decisions[j].body.status = "executed") <=> (Executions[ActionOf(r)] > 0)
    BY <2>3 DEF Tells
  <2> QED
    BY <2>2, <2>4
<1> QED
  BY <1>1, LogInit, QuietInit, QuietNext, AnswerNext, LogNext, PTL DEF Spec
=============================================================================
