---------------------------- MODULE PcpDiscovery ----------------------------
(***************************************************************************)
(* The server array of pcp_client_db.c and how pcp_server_discovery.c      *)
(* fills it: psd_add_gws with the gateways of the system when the context  *)
(* is made, psd_add_pcp_server with the servers the application names.     *)
(*                                                                         *)
(* The state machine of a server is left to PcpClient; here a server is at *)
(* work (pss_ping stands for all such states), given up (pss_not_working), *)
(* without a route (pss_allocated), or its slot is unused.                 *)
(***************************************************************************)
EXTENDS PcpGateway

CONSTANTS
  Ips,         \* addresses of servers; AnyIp stands for :: and 0.0.0.0
  AnyIp,
  LinkLocal,   \* those of fe80::/10
  Scopes,      \* interface numbers; 0 is no interface
  PCP_INIT_SERVER_COUNT,
  MaxServers   \* bound: there is no memory for a longer array

ASSUME DiscoveryAssumption ==
  /\ AnyIp \in Ips /\ LinkLocal \subseteq Ips \ {AnyIp}
  /\ Scopes \subseteq Nat /\ 0 \in Scopes
  /\ PCP_INIT_SERVER_COUNT \in Nat \ {0}
  /\ MaxServers \in Nat /\ MaxServers >= PCP_INIT_SERVER_COUNT

(* What the kernel answers: datagrams that are not empty, of messages with  *)
(* the gateways and interfaces there are. NLMSG_DONE comes in a datagram    *)
(* without routes, an answer that is not NLM_F_MULTI is one message, and    *)
(* either ends the answer.                                                  *)
NlMsgRec == [type : {"route", "done", "error"}, size : Nat \ {0},
             multi : BOOLEAN, main : BOOLEAN, oif : Scopes,
             gw : Ips \cup {NoGateway}]

Ended(dgrams) ==
  \A k \in DOMAIN dgrams :
    /\ dgrams[k][1].type = "done" =>
         k = Len(dgrams) /\ \A j \in DOMAIN dgrams[k] : ~dgrams[k][j].main
    /\ ~dgrams[k][1].multi => k = Len(dgrams) /\ Len(dgrams[k]) = 1

ASSUME DumpAssumption ==
  /\ Dumps \subseteq Seq(Seq(NlMsgRec) \ {<<>>})
  /\ \A d \in Dumps : Ended(d)

VARIABLE servers  \* ctx->pcp_db.pcp_servers; the index of a slot is its place

NULL == 0

SlotRec == [state : {"pss_unitialized", "pss_allocated", "pss_ping",
                     "pss_not_working"}, ip : Ips, scope : Scopes]

Unused == [state |-> "pss_unitialized", ip |-> AnyIp, scope |-> 0]

(* get_pcp_server finds a server at this index. *)
InUse(i) == i \in DOMAIN servers /\ servers[i].state # "pss_unitialized"

ScopeOf(ip, scope) == IF ip \in LinkLocal THEN scope ELSE 0

(* The first server with the address, or NULL. *)
get_pcp_server_by_ip(ip, scope) ==
  LET found == {i \in DOMAIN servers :
                  /\ InUse(i) /\ servers[i].ip = ip
                  /\ servers[i].scope = ScopeOf(ip, scope)}
  IN  IF found = {} THEN NULL ELSE CHOOSE i \in found : \A j \in found : i <= j

(* pcp_new_server: the array it looks through for an unused slot, doubled   *)
(* if there is none and memory for it, and the slot, NULL if there is none. *)
Grown_Cleared(arr) ==  \* mutant: memset over the array, not behind it
  [i \in 1..(2 * Len(arr)) |-> Unused]

Grown(arr) == arr \o [i \in 1..Len(arr) |-> Unused]

Room ==
  IF servers = <<>> THEN [i \in 1..PCP_INIT_SERVER_COUNT |-> Unused]
  ELSE IF \E i \in DOMAIN servers : ~InUse(i) THEN servers
  ELSE IF 2 * Len(servers) <= MaxServers THEN Grown(servers) ELSE servers

NewSlot ==
  LET free == {i \in DOMAIN Room : Room[i].state = "pss_unitialized"}
  IN  IF free = {} THEN NULL ELSE CHOOSE i \in free : \A j \in free : i <= j

(* findsaddr6: no route, or a source address. A link-local address needs    *)
(* its interface and is left by the link-local source of that interface,    *)
(* so psd_fill_pcp_server_src finds no other scope for the server.          *)
Routed(ip, scope) == IF ip \in LinkLocal /\ scope = 0 THEN {FALSE} ELSE BOOLEAN

Slot(state, ip, scope) ==
  IF state = "pss_unitialized" THEN Unused  \* what else is in it is not read
  ELSE [state |-> state, ip |-> ip, scope |-> ScopeOf(ip, scope)]

(* One gateway in the loop of psd_add_gws. A gateway without a route stays  *)
(* pss_allocated.                                                           *)
psd_add_gw ==
  /\ nl.at = "found" /\ nl.used < Len(nl.gws)
  /\ LET gw == nl.gws[nl.used + 1]
     IN  IF \/ gw.ip = AnyIp \/ NewSlot = NULL
            \/ get_pcp_server_by_ip(gw.ip, gw.scope) # NULL
         THEN UNCHANGED servers
         ELSE \E routed \in Routed(gw.ip, gw.scope) :
                servers' = [Room EXCEPT ![NewSlot] =
                  Slot(IF routed THEN "pss_ping" ELSE "pss_allocated",
                       gw.ip, gw.scope)]
  /\ nl' = [nl EXCEPT !.used = @ + 1]

(* The end of pcp_init, with or without autodiscovery. *)
pcp_init ==
  /\ \/ nl.at \in {"idle", "failed"}
     \/ nl.at = "found" /\ nl.used = Len(nl.gws)
  /\ nl' = [NoLookup EXCEPT !.at = "ready"]
  /\ UNCHANGED servers

(* psd_add_pcp_server. Without a route the slot is unused again, whichever  *)
(* server was in it and whatever that one was doing.                        *)
Known_Unscoped(ip, scope) ==  \* mutant: looked up without its scope
  get_pcp_server_by_ip(ip, 0)

Known(ip, scope) == get_pcp_server_by_ip(ip, scope)

psd_add_pcp_server(ip, scope) ==
  LET known == Known(ip, scope)
      arr   == IF known # NULL THEN servers ELSE Room
      i     == IF known # NULL THEN known ELSE NewSlot
  IN  /\ nl.at = "ready" /\ i # NULL
      /\ \E routed \in Routed(ip, scope) :
           servers' = [arr EXCEPT ![i] =
             Slot(IF routed THEN "pss_ping" ELSE "pss_unitialized", ip, scope)]
      /\ UNCHANGED nl

(* The state machine of a server gives it up, or tries it again. *)
ServerMoves ==
  /\ nl.at = "ready"
  /\ \E i \in DOMAIN servers :
       /\ servers[i].state \in {"pss_ping", "pss_not_working"}
       /\ servers' = [servers EXCEPT ![i].state =
            IF @ = "pss_ping" THEN "pss_not_working" ELSE "pss_ping"]
  /\ UNCHANGED nl

-----------------------------------------------------------------------------
(* A server keeps its index for as long as it is there, whatever is added   *)
(* and however often the array is moved: flows name their server by it. A   *)
(* slot changes hands only through pss_unitialized.                         *)
ServersStay ==
  [][\A i \in DOMAIN servers :
       InUse(i) /\ servers' # <<>> =>
         /\ i \in DOMAIN servers'
         /\ servers'[i].state # "pss_unitialized" =>
              /\ servers'[i].ip = servers[i].ip
              /\ servers'[i].scope = servers[i].scope]_<<nl, servers>>
=============================================================================
