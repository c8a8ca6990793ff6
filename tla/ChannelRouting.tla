--------------------------- MODULE ChannelRouting ---------------------------
(***************************************************************************)
(* How the internal agent picks the channel of an order: rules.json and    *)
(* its validation at import (agent/rules.py), the LLM's reply and its      *)
(* validation (agent/llm.py), and _decide_and_execute up to the channel.   *)
(*                                                                         *)
(* A deployment is a rule file and whether a model is configured:          *)
(*   [allowed : SUBSET Names, rules : Seq(Rule), llm : BOOLEAN]            *)
(* "llm" as a rule's channel delegates the order to the LLM.               *)
(***************************************************************************)
EXTENDS Integers, Sequences

CONSTANTS
    Names,      \* strings in the place of a channel's name, in a file or a reply
    None,       \* no channel; no fallback_channel; a reply that names nothing
    NoCeiling,  \* a rule without max_amount_cents
    Deployments \* the deployments considered

(* The channels channels.execute dispatches to.                            *)
KnownChannels == {"mock_erp", "slack_stub", "email_stub"}

Rule == [type : STRING, ceiling : Nat \cup {NoCeiling},
         channel : Names, fallback : Names \cup {None}]

Deployment == [allowed : SUBSET Names, rules : Seq(Rule), llm : BOOLEAN]

ASSUME RoutingAssumption ==
    /\ None \notin Names \cup KnownChannels
    /\ NoCeiling \notin Nat
    /\ Deployments \subseteq Deployment

(* The checks the import makes of one rule.                                *)
RuleLoads(d, rule) ==
    /\ rule.channel \in d.allowed \cup {"llm"}
    /\ rule.fallback # None => rule.fallback \in d.allowed /\ rule.channel = "llm"

Boots(d) ==
    /\ d.allowed # {}
    /\ \A i \in DOMAIN d.rules : RuleLoads(d, d.rules[i])

Matches(rule, cents) ==
    /\ rule.type = "order.place"
    /\ rule.ceiling = NoCeiling \/ cents <= rule.ceiling

(* The rules that match, and the first of them.                            *)
Matching(d, cents) == {i \in DOMAIN d.rules : Matches(d.rules[i], cents)}

Match(d, cents) ==
    d.rules[CHOOSE i \in Matching(d, cents) : \A j \in Matching(d, cents) : i <= j]

Delegates(d, cents) == Matching(d, cents) # {} /\ Match(d, cents).channel = "llm"

(* The LLM is asked.                                                       *)
Consults(d, cents) == Delegates(d, cents) /\ d.llm

(* Mutant: any name will do. *)
ValidatedLoosely(d, reply) == reply

(* A usable reply names an allowed channel, to the letter.                 *)
Validated(d, reply) == IF reply \in d.allowed THEN reply ELSE None

Unrouted == [channel |-> None, by |-> None]
RoutedBy(channel, by) ==
    IF channel = None THEN Unrouted ELSE [channel |-> channel, by |-> by]

(* Mutant: the fallback rescues an LLM whose reply is of no use. *)
RoutedWithRescue(d, cents, reply) ==
    IF Matching(d, cents) = {} THEN Unrouted
    ELSE IF Consults(d, cents) /\ Validated(d, reply) # None
           THEN RoutedBy(Validated(d, reply), "llm")
    ELSE IF Delegates(d, cents) THEN RoutedBy(Match(d, cents).fallback, "rules")
    ELSE RoutedBy(Match(d, cents).channel, "rules")

(* Where an order goes and who chose it; reply is what the LLM says when   *)
(* it is asked.                                                            *)
Routed(d, cents, reply) ==
    IF Matching(d, cents) = {} THEN Unrouted
    ELSE IF Consults(d, cents) THEN RoutedBy(Validated(d, reply), "llm")
    ELSE IF Delegates(d, cents) THEN RoutedBy(Match(d, cents).fallback, "rules")
    ELSE RoutedBy(Match(d, cents).channel, "rules")
=============================================================================
