--------------------------- MODULE HandoffContract ---------------------------
(***************************************************************************)
(* What the failure taxonomy at the head of verify/agent_handoff.py        *)
(* promises the order handler, whose budget settlement relies on it: an    *)
(* action runs at most once; "executed" is only said of one that ran; and  *)
(* "failed" and "down", which release the budget, only of one that did not *)
(* run and never will.  Only "unknown" leaves it open.                     *)
(***************************************************************************)
EXTENDS Naturals

CONSTANT Actions

VARIABLES
    executions,  \* per action: how often a channel has taken it
    kind         \* per action: what execute_handoff has returned

Kinds == {"executed", "failed", "down", "unknown"}

Init ==
    /\ executions = [a \in Actions |-> 0]
    /\ kind = [a \in Actions |-> "none"]

Run(a) ==
    /\ executions[a] = 0
    /\ kind[a] \in {"none", "unknown"}
    /\ executions' = [executions EXCEPT ![a] = 1]
    /\ UNCHANGED kind

Return(a, k) ==
    /\ kind[a] = "none"
    /\ k = "executed" => executions[a] = 1
    /\ k \in {"failed", "down"} => executions[a] = 0
    /\ kind' = [kind EXCEPT ![a] = k]
    /\ UNCHANGED executions

Next == \E a \in Actions : Run(a) \/ \E k \in Kinds : Return(a, k)

Spec == Init /\ [][Next]_<<executions, kind>>
=============================================================================
