------------------------------- MODULE MCPolicy -------------------------------
(***************************************************************************)
(* A catalog of two capabilities out of three names, one of which needs an *)
(* ip; policies of at most three rules drawn from nine, among them one     *)
(* that does not parse and one whose glob covers no known capability.      *)
(***************************************************************************)
EXTENDS Policy

CONSTANTS get, ban, other, token, literal, private, public

MCRequired == [c \in {get, ban} |-> IF c = ban THEN {"ip"} ELSE {}]
MCScopeKey == [k \in {"ip", "ip__scope"} |->
                 IF k = "ip" THEN "ip__scope" ELSE "ip__scope__scope"]
MCScope == [v \in {token, literal, private, public} |->
              IF v = token THEN private ELSE Absent]

If(key, op, list, values) == [key |-> key, op |-> op, list |-> list, values |-> values]
When(covers, conds, effect) == [covers |-> covers, conds |-> conds, effect |-> effect]

MCRules ==
  {When({get}, {}, "allow"),
   When({get, ban, other}, {If("ip", "absent", FALSE, {})}, "allow"),
   When({ban}, {If("ip__scope", "eq", FALSE, {private})}, "deny"),
   When({get, ban}, {If("ip__scope", "ne", FALSE, {private})}, "allow"),
   When({ban}, {If("ip", "present", FALSE, {}),
                If("ip__scope", "in", TRUE, {private, public})}, "approve"),
   When({get, ban}, {If("ip", "nin", TRUE, {token})}, "approve"),
   When({ban}, {If("ip", "in", FALSE, {literal})}, "allow"),
   When({other}, {}, "deny"),
   Malformed}

MCRawPolicies == UNION {[1..n -> MCRules] : n \in 0..3}
===============================================================================
