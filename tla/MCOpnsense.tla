------------------------------ MODULE MCOpnsense ------------------------------
(* OpnsenseChange with the plans of the agents' functions on four services:
   those of the others have the same shapes. *)
EXTENDS OpnsenseChange, WireguardAgent, CrowdsecAgent

PlansOf(functions) == {functions[f] : f \in DOMAIN functions}
AllPlans == PlansOf(Functions) \cup PlansOf(WireguardFunctions) \cup PlansOf(CrowdsecFunctions)
AllServices ==
  {"firewall", "alias", "shaper", "unbound", "dhcp", "ipsec", "openvpn", "wireguard"}

ASSUME TableAssumption == \A p \in AllPlans : WellFormed(p, AllServices)

MCServices == {"firewall", "unbound", "dhcp", "wireguard"}
MCPlans ==
  {p \in AllPlans : \A k \in Steps(p) : p.steps[k].service \in MCServices \cup {NoService}}
================================================================================
