----------------------------- MODULE OpnsenseAgent -----------------------------
(***************************************************************************)
(* What each function of the OPNsense agent asks of the firewall           *)
(* (agents/opnsense/_*.py, on the OPNsense platform with a client), and    *)
(* what each method of its client is (clients/opnsense_api_client.py).     *)
(* A plan is the sequence of requests of a function; OpnsenseChange says   *)
(* how plans are run.                                                      *)
(***************************************************************************)
EXTENDS Sequences, TLC

NoService == "none"

\* One request.  `if_saved': it is sent when the change before it was answered
\* with success.  `retry': the exceptions after which a second endpoint is
\* tried.  `caught': its failure is logged and the function goes on.
AStep(does, service, retry) ==
  [does |-> does, service |-> service, if_saved |-> FALSE, retry |-> retry, caught |-> FALSE]

Asks(does) == <<AStep(does, NoService, "never")>>
Change(s) == <<AStep("change", s, "never")>>
Apply(s) == <<AStep("apply", s, "never")>>
IfSaved(steps) == [k \in DOMAIN steps |-> [steps[k] EXCEPT !.if_saved = TRUE]]

\* A name that does not exist: an AttributeError, or a NameError.  Likewise a
\* NotImplementedError.
Missing == Asks("missing")

(***************************************************************************)
(* The client.                                                             *)
(***************************************************************************)
FilterAndNatClient ==
  [m \in {"add_filter_rule", "set_filter_rule", "delete_filter_rule", "toggle_filter_rule",
          "add_nat_outbound", "delete_nat_outbound", "add_nat_port_forward",
          "add_nat_one_to_one", "delete_nat_one_to_one"} |-> Change("firewall")]
  @@ "get_filter_rule" :> Asks("read")

AliasClient ==
  [m \in {"add_alias", "set_alias", "delete_alias"} |-> Change("firewall")]
  @@ [m \in {"add_to_alias", "delete_from_alias", "flush_alias"} |->
        Change("alias") \o IfSaved(Apply("alias"))]
  @@ [m \in {"get_alias", "list_alias_content", "find_alias_references"} |-> Asks("read")]

DiagnosticsClient ==
  [m \in {"kill_firewall_states", "flush_firewall_states", "ping_host", "traceroute_host",
          "port_probe"} |-> Asks("act")]
  @@ [m \in {"get_firewall_log", "get_firewall_states", "get_firewall_statistics",
             "get_rule_statistics"} |-> Asks("read")]

ConfigClient ==
  "apply_firewall_changes" :> Apply("firewall")
  @@ "cancel_firewall_rollback" :> Asks("act")
  @@ "revert_firewall_changes" :> <<AStep("revert", "firewall", "404")>>
  @@ "create_firewall_savepoint" :> <<AStep("savepoint", NoService, "404")>>
  @@ "get_interface_list" :> <<AStep("read", NoService, "any")>>

OrganisationClient ==
  [m \in {"add_category", "delete_category"} |-> Change("firewall")]
  @@ [m \in {"update_bogons", "check_updates", "upgrade_firmware"} |-> Asks("act")]
  @@ "revert_to_restore_point" :> Asks("restore")
  @@ [m \in {"list_available_categories", "download_configuration", "list_restore_points",
             "list_geoip_countries", "get_geoip_database", "get_upgrade_status"} |-> Asks("read")]

NetworkClient ==
  [m \in {"add_dns_override", "delete_dns_override"} |-> Change("unbound")]
  @@ "reconfigure_unbound" :> Apply("unbound")
  @@ "manage_dns_blocklist" :> Change("unbound") \o Apply("unbound")
  @@ "manage_dns_blocklist(force_download)" :> Change("unbound") \o Asks("act") \o Apply("unbound")
  @@ "add_static_mapping" :> Change("dhcp")
  @@ [m \in {"search_dns_overrides", "search_dns_queries", "get_dhcp_leases"} |-> Asks("read")]

ShaperClient ==
  [m \in {"add_traffic_pipe", "del_traffic_pipe", "add_traffic_queue", "del_traffic_queue",
          "add_traffic_rule", "del_traffic_rule"} |-> Change("shaper")]
  @@ "apply_traffic_changes" :> Apply("shaper")
  @@ [m \in {"get_traffic_statistics", "list_traffic_pipes", "list_traffic_queues",
             "list_traffic_rules"} |-> Asks("read")]

AcmeAndVpnClient ==
  "toggle_ipsec_connection" :> Change("ipsec") @@ "apply_ipsec_changes" :> Apply("ipsec")
  @@ "toggle_openvpn_instance" :> Change("openvpn") @@ "apply_openvpn_changes" :> Apply("openvpn")
  @@ [m \in {"sign_acme_certificate", "update_acme_certificate", "revoke_acme_certificate",
             "connect_ipsec_session", "disconnect_ipsec_session", "kill_openvpn_session"} |->
        Asks("act")]
  @@ [m \in {"get_acme_status", "list_acme_certificates", "list_acme_accounts",
             "get_ipsec_status", "list_ipsec_connections", "list_ipsec_sessions",
             "list_openvpn_instances", "list_openvpn_sessions"} |-> Asks("read")]

Client ==
  FilterAndNatClient @@ AliasClient @@ DiagnosticsClient @@ ConfigClient @@ OrganisationClient
  @@ NetworkClient @@ ShaperClient @@ AcmeAndVpnClient

\* self._api_client.<method>(...)
ClientCall(method) == IF method \in DOMAIN Client THEN Client[method] ELSE Missing

(***************************************************************************)
(* The agent.                                                              *)
(***************************************************************************)
\* A body whose requests are in a try block, and one that has none.
Try(steps) == [steps |-> steps, guarded |-> TRUE, blocks |-> FALSE]
Bare(steps) == [steps |-> steps, guarded |-> FALSE, blocks |-> FALSE]

\* @safety_snapshot: a restore point first, whatever comes of it.
SafetySnapshot(plan) ==
  LET point == ClientCall("create_firewall_savepoint") IN
  [plan EXCEPT !.steps = [k \in DOMAIN point |-> [point[k] EXCEPT !.caught = TRUE]] \o @]

Plain(method) == Try(ClientCall(method))
Guarded(method) == SafetySnapshot(Plain(method))
\* if response.get('result') == 'saved': await self._api_client.<apply>()
ThenIfSaved(method, apply) ==
  SafetySnapshot(Try(ClientCall(method) \o IfSaved(ClientCall(apply))))
ThenAlways(method, apply) == SafetySnapshot(Try(ClientCall(method) \o ClientCall(apply)))

FilterRulesMixin ==
  LET method == "add_filter_rule" :> "add_filter_rule"
                @@ "del_filter_rule" :> "delete_filter_rule"
                @@ "set_filter_rule" :> "update_filter_rule"
                @@ "toggle_filter_rule" :> "toggle_filter_rule"
                @@ "move_filter_rule" :> "move_filter_rule"
  IN [f \in DOMAIN method |-> ThenIfSaved(method[f], "apply_firewall_changes")]
     @@ "get_filter_rule" :> Plain("get_filter_rule")

AliasesMixin ==
  LET method == "add_alias" :> "add_alias" @@ "del_alias" :> "delete_alias"
                @@ "set_alias" :> "update_alias" @@ "import_alias" :> "import_alias"
  IN [f \in DOMAIN method |-> ThenIfSaved(method[f], "apply_firewall_changes")]
     @@ "add_to_alias" :> Guarded("add_to_alias")
     @@ "del_from_alias" :> Guarded("delete_from_alias")
     @@ "flush_alias" :> Guarded("flush_alias")
     @@ [f \in {"get_alias", "list_alias_content", "find_alias_references"} |-> Plain(f)]

NATMixin ==
  LET method == "add_nat_outbound" :> "add_nat_outbound"
                @@ "del_nat_outbound" :> "delete_nat_outbound"
                @@ "add_nat_port_forward" :> "add_nat_port_forward"
                @@ "add_nat_one_to_one" :> "add_nat_one_to_one"
                @@ "del_nat_one_to_one" :> "delete_nat_one_to_one"
  IN [f \in DOMAIN method |-> ThenIfSaved(method[f], "apply_firewall_changes")]

\* get_system_status answers without a request.
DiagnosticsMixin ==
  [f \in {"get_firewall_log", "get_firewall_states", "kill_firewall_states",
          "flush_firewall_states", "get_firewall_statistics", "get_rule_statistics",
          "ping_host", "traceroute_host", "port_probe"} |-> Plain(f)]
  @@ "get_system_status" :> Try(<<>>)

ConfigMixin ==
  [f \in {"apply_firewall_changes", "cancel_firewall_rollback", "revert_firewall_changes",
          "create_firewall_savepoint", "get_interface_list", "list_restore_points",
          "revert_to_restore_point"} |-> Plain(f)]
  @@ "backup_configuration" :> Plain("download_configuration")
  @@ "create_restore_point" :> Plain("create_firewall_savepoint")

ExtendedMixin ==
  "add_category" :> ThenIfSaved("create_category", "apply_firewall_changes")
  @@ "del_category" :> ThenIfSaved("delete_category", "apply_firewall_changes")
  @@ "list_categories" :> Plain("list_available_categories")
  @@ "update_bogons" :> Guarded("update_bogons")
  @@ [f \in {"list_geoip_countries", "get_geoip_database", "get_upgrade_status",
             "search_dns_queries", "get_dhcp_leases"} |-> Plain(f)]
  @@ "check_updates" :> Try(ClientCall("check_updates") \o ClientCall("get_upgrade_status"))
  @@ "upgrade_firmware" :> Guarded("upgrade_firmware")

DnsAndDhcpFunctions ==
  "add_dns_override" :> ThenAlways("add_dns_override", "reconfigure_unbound")
  @@ "list_dns_overrides" :> Plain("search_dns_overrides")
  \* An error unless the record is found; not decorated.
  @@ "del_dns_override" :> Try(Asks("find") \o ClientCall("delete_dns_override")
                                            \o ClientCall("reconfigure_unbound"))
  @@ [f \in {"manage_dns_blocklist", "manage_dns_blocklist(force_download)",
             "add_static_mapping"} |-> Guarded(f)]

AcmeFunctions ==
  [f \in {"get_acme_status", "list_acme_certificates", "sign_acme_certificate",
          "update_acme_certificate", "revoke_acme_certificate", "list_acme_accounts"} |-> Plain(f)]

\* The first three use self.client, the others a logger this file does not
\* define, before their try block: neither name exists.
IDSMixin ==
  [f \in {"get_ids_status", "query_ids_alerts", "toggle_ids_rule",
          "list_ids_rulesets", "toggle_ids_ruleset", "update_ids_rules",
          "start_ids", "stop_ids", "restart_ids"} |-> Bare(Missing)]

\* self.client again.
MonitCronRoutingMixins ==
  [f \in {"get_monit_status", "get_cron_jobs", "get_static_routes"} |-> Bare(Missing)]
  @@ [f \in {"restart_monit_service", "schedule_cron_job", "toggle_cron_job",
             "add_static_route", "del_static_route"} |-> SafetySnapshot(Bare(Missing))]

TrafficShaperMixin ==
  [f \in {"get_traffic_statistics", "list_traffic_pipes", "list_traffic_queues",
          "list_traffic_rules", "apply_traffic_changes"} |-> Plain(f)]
  @@ [f \in {"add_traffic_pipe", "add_traffic_queue", "add_traffic_rule"} |->
        ThenIfSaved(f, "apply_traffic_changes")]
  @@ [f \in {"del_traffic_pipe", "del_traffic_queue", "del_traffic_rule"} |->
        ThenAlways(f, "apply_traffic_changes")]

VPNMixin ==
  [f \in {"get_ipsec_status", "list_ipsec_connections", "list_ipsec_sessions",
          "connect_ipsec_session", "list_openvpn_instances", "list_openvpn_sessions"} |-> Plain(f)]
  @@ [f \in {"disconnect_ipsec_session", "kill_openvpn_session"} |-> Guarded(f)]
  @@ "toggle_ipsec_connection" :> ThenAlways("toggle_ipsec_connection", "apply_ipsec_changes")
  @@ "toggle_openvpn_instance" :> ThenAlways("toggle_openvpn_instance", "apply_openvpn_changes")

\* Function name to plan.  block_ip and unblock_ip call functions of this table.
Functions ==
  FilterRulesMixin @@ AliasesMixin @@ NATMixin @@ DiagnosticsMixin @@ ConfigMixin
  @@ ExtendedMixin @@ DnsAndDhcpFunctions @@ AcmeFunctions @@ IDSMixin
  @@ MonitCronRoutingMixins @@ TrafficShaperMixin @@ VPNMixin
================================================================================
