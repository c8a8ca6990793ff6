---------------------------- MODULE AgentHandoff ----------------------------
(***************************************************************************)
(* verify/agent_handoff.py composed with the internal agent: one           *)
(* execute_handoff per action, its timeout, its one retry, and the kinds   *)
(* of result the order handler settles the budget by.                      *)
(***************************************************************************)
EXTENDS InternalAgent

CONSTANT Slow    \* actions whose attempts may time out

ASSUME HandoffAssumption == Slow \subseteq Actions

VARIABLES
    attempt,  \* per action: attempts made (0: the handoff has not begun)
    kind      \* per action: the kind execute_handoff returned

verifyVars == <<attempt, kind>>
vars == <<agentVars, verifyVars>>

TypeOK ==
    /\ AgentTypeOK
    /\ attempt \in [Actions -> 0..2]
    /\ kind \in [Actions -> {"none", "executed", "failed", "down", "unknown"}]

Init ==
    /\ AgentInit
    /\ attempt = [a \in Actions |-> 0]
    /\ kind = [a \in Actions |-> "none"]

Current(a) == <<a, attempt[a]>>
InHandoff(a) == attempt[a] > 0 /\ kind[a] = "none"

(* No other action is in a handoff or still in the agent's threads.        *)
Alone(a) ==
    \A r \in Requests : ActionOf(r) # a =>
        /\ ~ InHandoff(ActionOf(r))
        /\ at[r] \in {"absent", "answered", "lost"}

Send(a, n) ==
    /\ attempt' = [attempt EXCEPT ![a] = n]
    /\ at' = [at EXCEPT ![<<a, n>>] = "sent"]
    /\ UNCHANGED <<deployment, results, decisions, locks, holder, mine, body, delivered, restarts, kind>>

Begin(a) ==
    /\ attempt[a] = 0
    /\ "overlap" \in Faults \/ Alone(a)
    /\ Send(a, 1)

(* Mutants: every timeout retries; the retry does not count. *)
RetryAgain(a) ==
    /\ InHandoff(a)
    /\ Send(a, attempt[a] + 1)

RetryForever(a) ==
    /\ InHandoff(a)
    /\ Send(a, 1)

(* The first timeout retries the identical envelope; whatever became of    *)
(* the first attempt goes on.                                              *)
Retry(a) ==
    /\ InHandoff(a)
    /\ a \in Slow
    /\ attempt[a] = 1
    /\ Send(a, 2)

Return(a, k) ==
    /\ kind' = [kind EXCEPT ![a] = k]
    /\ UNCHANGED <<agentVars, attempt>>

GiveUp(a) ==
    /\ InHandoff(a)
    /\ attempt[a] = 2
    /\ Return(a, "unknown")

(* Mutant: a body that cannot be parsed counts as an agent that is down. *)
TakeAnswerAsDown(a) ==
    /\ InHandoff(a)
    /\ at[Current(a)] = "answered"
    /\ \E k \in {body[Current(a)].status, "down"} : Return(a, k)

(* A 200: its status, or "unknown" when the body that arrives cannot be     *)
(* parsed.                                                                 *)
TakeAnswer(a) ==
    /\ InHandoff(a)
    /\ at[Current(a)] = "answered"
    /\ \E k \in {body[Current(a)].status, "unknown"} : Return(a, k)

(* The agent cannot be reached, or answers other than 200 without having   *)
(* run anything (403, 422): this attempt goes nowhere.  If it is the retry *)
(* the kind is "down" all the same, whatever becomes of the first attempt. *)
Refused(a) ==
    /\ InHandoff(a)
    /\ at[Current(a)] = "sent"
    /\ kind' = [kind EXCEPT ![a] = "down"]
    /\ at' = [at EXCEPT ![Current(a)] = "lost"]
    /\ UNCHANGED <<deployment, results, decisions, locks, holder, mine, body, delivered,
                   restarts, attempt>>

(* _post_action maps every error that is not a timeout to "down", whether  *)
(* or not the request had reached the agent.                               *)
ErrorKind == "down"

ConnectionLost(a) ==
    /\ InHandoff(a)
    /\ at[Current(a)] = "lost" \/ "reset" \in Faults
    /\ Return(a, ErrorKind)

Handle(a) == Retry(a) \/ GiveUp(a) \/ TakeAnswer(a) \/ Refused(a) \/ ConnectionLost(a)

Next ==
    \/ \E a \in Actions : Begin(a) \/ Handle(a)
    \/ \E r \in Requests : AgentThread(r) /\ UNCHANGED verifyVars
    \/ Restart /\ UNCHANGED verifyVars

Spec == Init /\ [][Next]_vars

(* urlopen's timeout always fires in the end, and a thread of the agent    *)
(* that can run does run (the LLM and the channels have deadlines).        *)
Fairness ==
    /\ \A a \in Actions : WF_vars(Handle(a))
    /\ \A r \in Requests : WF_vars(AgentThread(r) /\ UNCHANGED verifyVars)

FairSpec == Spec /\ Fairness
-----------------------------------------------------------------------------
(* How often a channel has taken an action.                                *)
Executions == [a \in Actions |-> Len(delivered[a])]

(* What a kind is worth to the settlement.  The "down" of a retry says     *)
(* nothing of the first attempt, which timed out and may have executed, or *)
(* may do so yet: it is worth an "unknown", although the budget is         *)
(* released (_settle_handoff).                                             *)
Worth == [a \in Actions |-> IF kind[a] = "down" /\ attempt[a] = 2 THEN "unknown" ELSE kind[a]]

Contract == INSTANCE HandoffContract WITH executions <- Executions, kind <- Worth

(* What agent_handoff.py's failure taxonomy is worth to the settlement: at *)
(* most one execution, "executed" only after one, "failed", and "down"     *)
(* after a single attempt, only when there was none and will be none.      *)
KeepsContract == Contract!Spec

(* The agent runs an action at most once, however often it is sent         *)
(* (_action_lock, _results).                                               *)
AtMostOneExecution == \A a \in Actions : Executions[a] <= 1

(* A retry can only ever fetch the original outcome: two answers for one   *)
(* action agree, in the channel and who chose it too.                      *)
SameAnswer ==
    \A a \in Actions : (at[<<a, 1>>] = "answered" /\ at[<<a, 2>>] = "answered") =>
        body[<<a, 1>>] = body[<<a, 2>>]

(* The caller is told "executed" only of an action a channel has taken,    *)
(* whatever was lost, reset, restarted or retried on the way.              *)
ExecutedWasExecuted == \A a \in Actions : kind[a] = "executed" => Executions[a] > 0

(* "down" releases the budget, so the action was not executed.             *)
DownWasNotExecuted == \A a \in Actions : kind[a] = "down" => Executions[a] = 0

(* "down" after one attempt: the action was not executed.                  *)
FirstDownWasNotExecuted == \A a \in Actions : Worth[a] = "down" => Executions[a] = 0

(* No two threads of the agent decide on the same action at the same time. *)
OneDecider ==
    \A r, s \in Requests :
        (ActionOf(r) = ActionOf(s) /\ at[r] \in {"deciding", "dispatched"}
                                   /\ at[s] \in {"deciding", "dispatched"}) => r = s

(* Whatever the LLM replies, and even where an answer was lost, a channel  *)
(* that took an action is one rules.json allows (rules.py's validation at  *)
(* import, llm.py's of the reply).                                         *)
ChannelsAreAllowed ==
    \A a \in Actions : \A i \in DOMAIN delivered[a] : delivered[a][i] \in deployment.allowed

(* An order that the LLM was to decide ran nowhere but where its reply     *)
(* said: a derailed LLM makes it fail, no rule and no fallback rescues it. *)
DerailedIsRefused ==
    \A a \in Actions : Consults(deployment, Cents(a)) =>
        \A i \in DOMAIN delivered[a] :
            \E j \in DOMAIN decisions :
                decisions[j].action = a /\ decisions[j].reply = delivered[a][i]

(* The decision log reconciles a handoff of unknown outcome: an action     *)
(* whose request the agent has answered is logged once, and as executed    *)
(* exactly if a channel took it.                                           *)
UnknownIsReconcilable ==
    \A r \in Requests : at[r] = "answered" =>
        LET rows == {i \in DOMAIN decisions : decisions[i].action = ActionOf(r)}
        IN  /\ \E i \in rows : rows = {i}
            /\ \A i \in rows :
                  (decisions[i].body.status = "executed") <=> (Executions[ActionOf(r)] > 0)

(* The per-action locks never deadlock: a request that the agent has taken *)
(* in is answered, unless the process dies.                                *)
RequestsAnswered ==
    \A r \in Requests : at[r] = "waiting" ~> at[r] \in {"answered", "lost"}

(* execute_handoff returns.                                                *)
HandoffsReturn == \A a \in Actions : attempt[a] > 0 ~> kind[a] # "none"
=============================================================================
