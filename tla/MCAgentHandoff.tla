--------------------------- MODULE MCAgentHandoff ---------------------------
(***************************************************************************)
(* AgentHandoff for TLC: one order over a ceiling of 1 and one within it,  *)
(* and rule files of at most two rules over an allowed channel that is     *)
(* known, an allowed one that is not, and a known one that is not allowed. *)
(***************************************************************************)
EXTENDS AgentHandoff

CONSTANT Large    \* the actions of 2 cents; the others are of 1

MCCents(a) == IF a \in Large THEN 2 ELSE 1

MCNames == {"mock_erp", "slack_stub", "fax", "llm"}

MCRules == [type : {"order.place"}, ceiling : {1, NoCeiling},
            channel : {"mock_erp", "slack_stub", "llm"},
            fallback : {None, "mock_erp", "slack_stub"}]

RulesUpTo2 == {<<>>} \cup {<<x>> : x \in MCRules} \cup {<<x, y>> : x, y \in MCRules}

MCDeployments ==
    {[allowed |-> {"mock_erp", "fax"}, rules |-> rules, llm |-> llm] :
        rules \in RulesUpTo2, llm \in BOOLEAN}

(* Every order goes to the ERP.                                            *)
OneRule ==
    {[allowed |-> {"mock_erp"}, llm |-> FALSE,
      rules |-> <<[type |-> "order.place", ceiling |-> NoCeiling,
                   channel |-> "mock_erp", fallback |-> None]>>]}
=============================================================================
