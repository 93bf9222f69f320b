----------------------------- MODULE WireguardAgent -----------------------------
(***************************************************************************)
(* What each function of the WireGuard agent asks of the firewall          *)
(* (agents/wireguard_agent.py on the OPNsense platform, the one server.py  *)
(* registers, with a client), and what each method of its client is        *)
(* (clients/wireguard_api_client.py).  Plans as in OpnsenseAgent.          *)
(***************************************************************************)
EXTENDS OpnsenseAgent

ServersAndPeersClient ==
  [m \in {"add_wireguard_server", "update_wireguard_server", "delete_wireguard_server",
          "toggle_wireguard_server", "add_wireguard_client", "update_wireguard_client",
          "delete_wireguard_client", "toggle_wireguard_client"} |-> Change("wireguard")]
  @@ [m \in {"get_wireguard_servers", "get_wireguard_server", "get_wireguard_clients",
             "get_wireguard_client"} |-> Asks("read")]

KeysAndServiceClient ==
  "set_wireguard_general_config" :> Change("wireguard")
  @@ "reconfigure_wireguard" :> Apply("wireguard")
  @@ "restart_wireguard" :> Asks("act")
  @@ [m \in {"generate_wireguard_keypair", "generate_wireguard_psk",
             "get_wireguard_general_config", "get_wireguard_status",
             "list_servers_for_client", "get_server_info_for_client"} |-> Asks("read")]

\* self.client.<method>(...)
WireguardCall(method) == (ServersAndPeersClient @@ KeysAndServiceClient)[method]

\* A pair of keys for each end, and a key shared by both if enabled.
Keys(nodes) ==
  CASE nodes = 1 -> WireguardCall("generate_wireguard_keypair")
    [] nodes = 2 -> WireguardCall("generate_wireguard_keypair")
                    \o WireguardCall("generate_wireguard_keypair")
KeysAndPsk(nodes) == Keys(nodes) \o WireguardCall("generate_wireguard_psk")

\* The server of site A, the peer of site B, and the reconfiguration, whatever
\* the two answers were.
SiteToSite(keys) ==
  Bare(keys \o WireguardCall("add_wireguard_server")
            \o WireguardCall("add_wireguard_client")
            \o WireguardCall("reconfigure_wireguard"))

\* Not implemented on OPNsense, which the function finds out after the keys.
PointToPoint(keys) == Bare(keys \o Missing)

\* A mesh, here of two nodes, and a rotation make keys and put them nowhere.
MeshNetwork == Bare(Keys(2))
RotateKeys == Bare(Keys(1))

\* The adapters change and do not reconfigure.
Adapters ==
  [f \in {"add_wireguard_server", "add_wireguard_client", "generate_wireguard_keypair",
          "generate_wireguard_psk", "get_wireguard_status"} |-> Bare(WireguardCall(f))]

\* No body has a try block.
WireguardFunctions ==
  "create_site_to_site_tunnel" :> SiteToSite(KeysAndPsk(2))
  @@ "create_site_to_site_tunnel(enable_psk=False)" :> SiteToSite(Keys(2))
  @@ "create_point_to_point_tunnel" :> PointToPoint(KeysAndPsk(2))
  @@ "create_point_to_point_tunnel(enable_psk=False)" :> PointToPoint(Keys(2))
  @@ "create_mesh_network" :> MeshNetwork
  @@ "rotate_keys" :> RotateKeys
  @@ "verify_routing" :> Bare(<<>>)
  @@ "get_tunnel_status" :> Bare(WireguardCall("get_wireguard_status"))
  @@ Adapters
================================================================================
