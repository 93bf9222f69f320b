----------------------------- MODULE CrowdsecAgent -----------------------------
(***************************************************************************)
(* What each function of the CrowdSec agent asks (agents/crowdsec_agent.py *)
(* with a client, and clients/crowdsec_client.py): one request to the      *)
(* local API, or one cscli process, without an await.  Plans as in         *)
(* OpnsenseAgent; the arguments are those the client's validators accept.  *)
(***************************************************************************)
EXTENDS OpnsenseAgent

\* A synchronous client: the process waits, for its timeout at most.
Blocking(steps) == [steps |-> steps, guarded |-> TRUE, blocks |-> TRUE]

\* A decision is in effect at once.
LapiClient ==
  [m \in {"add_decision", "delete_decision", "delete_decision_by_ip", "delete_alert"} |-> Asks("act")]
  @@ [m \in {"get_decisions", "get_alerts", "get_alert", "get_allowlists",
             "check_allowlist"} |-> Asks("read")]

CscliClient ==
  [m \in {"list_bouncers", "list_machines", "get_metrics"} |-> Asks("read")]
  @@ [m \in {"hub_upgrade", "set_simulation"} |-> Asks("act")]

\* Every body is a try block around one call of the client.
Around(method) == Blocking((LapiClient @@ CscliClient)[method])

DecisionFunctions ==
  "ban_ip" :> Around("add_decision")
  @@ "unban_ip" :> Around("delete_decision_by_ip")
  @@ [f \in {"get_decisions", "add_decision", "delete_decision"} |-> Around(f)]

AlertFunctions ==
  [f \in {"get_alerts", "get_alert", "delete_alert", "get_allowlists",
          "check_allowlist"} |-> Around(f)]

CscliFunctions == [f \in DOMAIN CscliClient |-> Around(f)]

CrowdsecFunctions == DecisionFunctions @@ AlertFunctions @@ CscliFunctions
===============================================================================
