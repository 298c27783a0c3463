----------------------------- MODULE PcpClient -----------------------------
(***************************************************************************)
(* The PCP client library as its application drives it: the calls of       *)
(* pcp_api.c and pcp_server_discovery.c, pcp_pulse with its loop over the  *)
(* servers (hserver_iter), the passing of time, and a network that loses,  *)
(* duplicates, delays and reorders the answers of the servers.             *)
(*                                                                         *)
(* The library is single threaded. pulse.at says who runs: the application *)
(* ("app"), or a pcp_pulse call that is about to read the socket ("read"), *)
(* drains server pulse.s after a message ("io"), or visits the servers in  *)
(* index order for their timeouts ("sweep"). No time passes inside a call. *)
(***************************************************************************)
EXTENDS PcpEventHandler

CONSTANTS
  Unrouted,       \* discovered gateways without a source address
  Lifetimes,      \* lifetimes the application asks for
  Granted,        \* lifetimes (> 0) a server grants or puts into an error
  Results,        \* result codes the servers use
  Jumps,          \* may an answer look as if its server had restarted?
  ApiCalls        \* calls the application makes

ASSUME EnvironmentAssumption ==
  /\ Unrouted \subseteq Servers
  /\ Lifetimes \subseteq Nat
  /\ Granted \subseteq Nat \ {0}
  /\ Results \subseteq ResultCodes
  /\ Jumps \subseteq BOOLEAN
  /\ ApiCalls \subseteq {"new", "set_lifetime", "close", "delete", "readd"}

VARIABLE pulse

vars == <<flow, server, asked, refused, pulse>>

PulseRec ==
  [at : {"app", "read", "io", "sweep"}, s : 0 .. NServers, odd : BOOLEAN]

(* Control has reached "at"; odd is the parity of the turns of hserver_iter *)
(* since, so that a turn that changes nothing is a step nevertheless.       *)
At(at, s) == [at |-> at, s |-> s, odd |-> FALSE]
App       == At("app", 0)

(* pcp_new_server, and psd_fill_pcp_server_src for a server it can route to. *)
NewServer(s) ==
  [state |-> IF s \in Unrouted THEN "pss_allocated" ELSE "pss_ping",
   next_timeout |-> NoTime, pcp_version |-> PCP_MAX_SUPPORTED_VERSION,
   next_version |-> 0, ping_count |-> 0, ping_flow |-> NoFlow,
   restart_flow |-> NoFlow, epoch_known |-> FALSE]

(* pcp_init with autodiscovery (psd_add_gws). *)
Init ==
  /\ flow = [f \in Flows |-> NewFlow("free", 0, NoTime)]
  /\ server = [s \in Servers |-> NewServer(s)]
  /\ asked = [f \in Flows |-> {}]
  /\ refused = {}
  /\ pulse = App

-----------------------------------------------------------------------------
(* Calls of the application.                                                *)

(* The flows of a request, linked by next_child in the order of the servers *)
(* they were created for: those from f on.                                  *)
ChainFrom(f) ==
  {g \in Flows : /\ InDb(g) /\ Key[g].req = Key[f].req
                 /\ Key[g].op # "announce"
                 /\ Key[g].server >= Key[f].server}
IsHead(f) == \A g \in Flows : /\ InDb(g) /\ Key[g].req = Key[f].req
                              /\ Key[g].op # "announce"
                              => Key[g].server >= Key[f].server
UserFlow(f) == InDb(f) /\ Key[f].op # "announce"
ServersOf(F) == {Key[f].server : f \in F}

(* s->next_timeout = now, for the servers get_pcp_server finds. *)
Wake_Uninitialized(S) ==   \* mutant: not for a server that has answered
  [s \in Servers |->
     IF s \in S /\ server[s].state = "pss_ping"
     THEN [server[s] EXCEPT !.next_timeout = 0] ELSE server[s]]

Wake(S) ==
  [s \in Servers |->
     IF s \in S /\ server[s].state # "pss_unitialized"
     THEN [server[s] EXCEPT !.next_timeout = 0] ELSE server[s]]

(* pcp_new_flow: chain_and_assign_src_ip and init_flow for every server     *)
(* that is not known to be out of order.                                    *)
pcp_new_flow(r, lifetime) ==
  LET mine == {f \in Flows : Key[f].req = r /\ Key[f].op # "announce"}
      made == {f \in mine : server[Key[f].server].state
                              \notin {"pss_unitialized", "pss_not_working"}}
  IN  /\ "new" \in ApiCalls
      /\ made # {} /\ \A f \in mine : ~InDb(f)
      /\ flow' = [f \in Flows |->
                    IF f \in made
                    THEN NewFlow(IF server[Key[f].server].state = "pss_wait_io"
                                 THEN "pfs_send"
                                 ELSE "pfs_wait_for_server_init",
                                 lifetime, 0)
                    ELSE flow[f]]
      /\ server' = Wake(ServersOf(made))
      /\ UNCHANGED <<asked, refused, pulse>>

(* pcp_flow_updated *)
Updated_NoTimer(g) ==   \* mutant: f->timeout is left alone
  [g EXCEPT !.state = IF @ \in {"pfs_wait_for_server_init", "pfs_idle",
                                "pfs_failed"}
                      THEN @ ELSE "pfs_send"]

Updated(g) ==
  [g EXCEPT !.timeout = 0,
            !.state = IF @ \in {"pfs_wait_for_server_init", "pfs_idle",
                                "pfs_failed"}
                      THEN @ ELSE "pfs_send"]

(* pcp_flow_set_lifetime; with the lifetime the flow already has, any of    *)
(* the setters that only change an option of the request.                   *)
pcp_flow_set_lifetime(f, lifetime) ==
  /\ "set_lifetime" \in ApiCalls
  /\ UserFlow(f)
  /\ flow' = [g \in Flows |->
                IF g \in ChainFrom(f)
                THEN Updated([flow[g] EXCEPT !.lifetime = lifetime])
                ELSE flow[g]]
  /\ server' = Wake(ServersOf(ChainFrom(f)))
  /\ UNCHANGED <<asked, refused, pulse>>

(* pcp_close_flow_intern: a flow that waits for its server, or has failed,  *)
(* is only marked.                                                          *)
OnlyMarked(g) ==
  g.state \in {"pfs_wait_for_server_init", "pfs_idle", "pfs_failed"}
Closed(g) ==
  IF OnlyMarked(g) THEN [g EXCEPT !.state = "pfs_failed"]
  ELSE Updated([g EXCEPT !.lifetime = 0])

(* pcp_close_flow, which goes on to pcp_pulse. *)
pcp_close_flow(f) ==
  /\ "close" \in ApiCalls
  /\ UserFlow(f)
  /\ flow' = [g \in Flows |-> IF g \in ChainFrom(f) THEN Closed(flow[g])
                              ELSE flow[g]]
  /\ server' = Wake(ServersOf({g \in ChainFrom(f) : ~OnlyMarked(flow[g])}))
  /\ pulse' = At("read", 0)
  /\ UNCHANGED wire

(* pcp_delete_flow for the handle that pcp_new_flow returned. *)
pcp_delete_flow_Dangling(f) ==   \* mutant: ping_flow_msg is left alone
  /\ "delete" \in ApiCalls
  /\ UserFlow(f) /\ IsHead(f)
  /\ flow' = [g \in Flows |-> IF g \in ChainFrom(f)
                              THEN NewFlow("free", 0, NoTime) ELSE flow[g]]
  /\ UNCHANGED <<server, asked, refused, pulse>>

pcp_delete_flow(f) ==
  /\ "delete" \in ApiCalls
  /\ UserFlow(f) /\ IsHead(f)
  /\ flow' = [g \in Flows |-> IF g \in ChainFrom(f)
                              THEN NewFlow("free", 0, NoTime) ELSE flow[g]]
  /\ server' = [s \in Servers |->
                  IF /\ server[s].state # "pss_unitialized"
                     /\ server[s].ping_flow \in ChainFrom(f)
                  THEN [server[s] EXCEPT !.ping_flow = NoFlow]
                  ELSE server[s]]
  /\ UNCHANGED <<asked, refused, pulse>>

(* pcp_add_server for the address of a server that is already there. routed *)
(* says whether psd_fill_pcp_server_src finds a source address.             *)
pcp_add_server(s, v, routed) ==
  /\ "readd" \in ApiCalls
  /\ server[s].state # "pss_unitialized"
  /\ server' = [server EXCEPT
                  ![s].pcp_version = v,
                  ![s].next_timeout = IF routed THEN NoTime ELSE @,
                  ![s].state = IF routed THEN "pss_ping"
                               ELSE "pss_unitialized"]
  /\ UNCHANGED <<flow, asked, refused, pulse>>

ApiStep ==
  /\ pulse.at = "app"
  /\ \/ \E r \in {Key[f].req : f \in Flows}, l \in Lifetimes :
          pcp_new_flow(r, l)
     \/ \E f \in Flows, l \in Lifetimes : pcp_flow_set_lifetime(f, l)
     \/ \E f \in Flows : pcp_close_flow(f)
     \/ \E f \in Flows : pcp_delete_flow(f)
     \/ \E s \in Servers, v \in Versions, routed \in BOOLEAN :
          pcp_add_server(s, v, routed)

-----------------------------------------------------------------------------
(* The servers and the network: every answer that a request on the wire can *)
(* have drawn stays deliverable for good, and none has to be delivered. The *)
(* version of an answer matters only if it is a refusal, which names the    *)
(* highest one, or to an announce, which may have been sent in any.         *)

Answers(s) ==
  {m \in [flow : Flows, result : Results, lifetime : Granted \cup {0},
          version : Versions, jump : Jumps] :
     /\ Key[m.flow].server = s
     /\ \/ m.version = ServerVersion[s]
        \/ /\ m.version < ServerVersion[s] /\ m.result # "unsupp_version"
           /\ Key[m.flow].op = "announce"
     /\ IF m.result = "unsupp_version"
        THEN /\ s \in refused /\ m.lifetime = 0
             /\ m.jump = (CHOOSE j \in Jumps : TRUE)
             /\ \A f \in Flows : Key[f].server = s => m.flow <= f
        ELSE /\ asked[m.flow] # {}
             /\ m.result = "success" =>
                  \/ m.lifetime = 0 /\ "remove" \in asked[m.flow]
                  \/ m.lifetime > 0 /\ "map" \in asked[m.flow]
             /\ \/ m.result \in LongLifeErrors
                \/ Key[m.flow].op = "announce"
                => m.lifetime = 0}

(* Bound on the announce flows: no fallback to NAT-PMP without a slot. *)
AnnounceSlots(s, m) ==
  LET v == server[s].pcp_version
  IN  /\ m.result = "unsupp_version"
      /\ v # 0
      /\ m.version = 0 \/ (m.version = v /\ v = 1)
      => FreeAnnounce(s) # {}

-----------------------------------------------------------------------------
(* pcp_pulse.                                                               *)

Due(s) == server[s].state # "pss_unitialized" /\ server[s].next_timeout = 0

(* read_msg finds nothing, or a datagram that is not a valid response or    *)
(* not from a known server.                                                 *)
PulseReadNothing ==
  /\ pulse.at \in {"app", "read"}
  /\ pulse' = At("sweep", 1)
  /\ UNCHANGED <<flow, server, asked, refused>>

PulseReadMsg(s, m) ==
  /\ pulse.at \in {"app", "read"}
  /\ m \in Answers(s) /\ AnnounceSlots(s, m)
  /\ OnMessage(s, m)
  /\ pulse' = At("io", s)

(* One turn of the while (1) loop of hserver_iter. *)
PulseRun(s) ==
  /\ pulse.at \in {"io", "sweep"} /\ pulse.s = s
  /\ Due(s)
  /\ OnTimeout(s)
  /\ pulse' = [pulse EXCEPT !.odd = ~@]

PulseNext_Once ==   \* mutant: the handler is run once, without the loop
  /\ pulse.at \in {"io", "sweep"}
  /\ ~Due(pulse.s) \/ pulse.odd
  /\ pulse' = IF pulse.at = "io" THEN At("sweep", 1)
              ELSE IF pulse.s < NServers
              THEN At("sweep", pulse.s + 1)
              ELSE App
  /\ UNCHANGED <<flow, server, asked, refused>>

PulseNext ==
  /\ pulse.at \in {"io", "sweep"}
  /\ ~Due(pulse.s)
  /\ pulse' = IF pulse.at = "io" THEN At("sweep", 1)
              ELSE IF pulse.s < NServers
              THEN At("sweep", pulse.s + 1)
              ELSE App
  /\ UNCHANGED <<flow, server, asked, refused>>

(* The clock. *)
Sooner(t) == IF t > 0 THEN t - 1 ELSE t
Tick ==
  /\ pulse.at = "app"
  /\ flow' = [f \in Flows |->
                [flow[f] EXCEPT
                   !.timeout = Sooner(@),
                   !.recv_lifetime = IF @ = 0 THEN NoTime ELSE Sooner(@)]]
  /\ server' = [s \in Servers |->
                  [server[s] EXCEPT !.next_timeout = Sooner(@)]]
  /\ UNCHANGED <<asked, refused, pulse>>

PulseStart == \/ PulseReadNothing
              \/ \E s \in Servers : \E m \in Answers(s) : PulseReadMsg(s, m)
PulseStep  == (\E s \in Servers : PulseRun(s)) \/ PulseNext

Next == ApiStep \/ PulseStart \/ PulseStep \/ Tick

Spec == Init /\ [][Next]_vars

(* Every call of pcp_pulse runs to its end. The application calls it again  *)
(* and again, as the select loop in pcp.h does, and time passes between the *)
(* calls. The first two are the weak fairness of PulseStart and PulseStep;  *)
(* ENABLED is spelled out, as it is known: one of the two always is.        *)
Fairness ==
  /\ []<>(pulse.at \notin {"app", "read"}) \/ []<><<PulseStart>>_vars
  /\ []<>(pulse.at \notin {"io", "sweep"}) \/ []<><<PulseStep>>_vars
  /\ SF_vars(Tick)

FairSpec == Spec /\ Fairness

-----------------------------------------------------------------------------
(* Properties.                                                              *)

(* Every variable has its type. *)
TypeOK ==
  /\ flow \in [Flows -> FlowRec]
  /\ server \in [Servers -> ServerRec]
  /\ asked \in [Flows -> SUBSET {"map", "remove"}]
  /\ refused \in SUBSET Servers
  /\ pulse \in PulseRec
  /\ pulse.at \in {"io", "sweep"} => pulse.s \in Servers

(* A server is in a transient state only inside the loop of hserver_iter    *)
(* that is about to run its handler: next_timeout is due. A handler that    *)
(* left it cleared or in the future would strand the server in a state no   *)
(* message is handled in, and the application's calls would meet it there.  *)
TransientIsDriven ==
  \A s \in Servers :
    server[s].state \in TransientStates =>
      /\ server[s].next_timeout = 0
      /\ pulse.at \in {"io", "sweep"} /\ pulse.s = s

(* restart_flow_msg, which makes fhndl_send skip its flow and which         *)
(* pcp_delete_flow_intern does not clear, is set only while the restart is  *)
(* being handled: no later send is skipped and no freed flow stays in it.   *)
RestartMarkIsMomentary ==
  \A s \in Servers : server[s].restart_flow # NoFlow =>
                       server[s].state = "pss_server_restart"

(* ping_flow_msg is NULL or a flow of this server that is in the table, in  *)
(* every server state with a handler that dereferences it.                  *)
PingFlowValid ==
  \A s \in Servers :
    /\ server[s].state \notin {"pss_unitialized", "pss_allocated", "pss_ping"}
    /\ server[s].ping_flow # NoFlow
    => server[s].ping_flow \in FlowsOf(s)

(* A server that waits for the answer to a ping has a timeout set, whatever *)
(* the application and the other servers did to the ping flow: the flow is  *)
(* in a state in which a timeout sends it again or gives the server up.     *)
PingHasDeadline ==
  \A s \in Servers :
    server[s].state = "pss_wait_ping_resp" =>
      /\ server[s].next_timeout # NoTime
      /\ server[s].ping_flow # NoFlow =>
           flow[server[s].ping_flow].state
             \in {"pfs_send", "pfs_wait_resp", "pfs_failed"}

(* A flow that has something to send or an answer or error to wait for has  *)
(* a timer, due at once for the former, and handle_flow_event never leaves  *)
(* a flow in the middle of a renewal or untouched in pfs_idle.              *)
RequestHasTimer ==
  \A f \in Flows :
    /\ flow[f].state \notin {"pfs_idle", "pfs_send_renew"}
    /\ flow[f].state = "pfs_send" => flow[f].timeout = 0
    /\ flow[f].state \in {"pfs_wait_resp", "pfs_wait_after_short_life_error"}
         => flow[f].timeout # NoTime

(* Once a server has answered, no flow of it still waits for its            *)
(* initialization: whichever way the server got to pss_wait_io, all its     *)
(* flows were told.                                                         *)
NoOrphanFlow ==
  \A s \in Servers :
    server[s].state \in {"pss_wait_io", "pss_wait_io_calc_nearest_timeout"} =>
      \A f \in FlowsOf(s) : flow[f].state # "pfs_wait_for_server_init"

(* A request that an application call asks for is not forgotten: while a    *)
(* flow of a working server is unsent, the next pcp_pulse visits the server. *)
UnsentIsScheduled ==
  \A s \in Servers :
    server[s].state = "pss_wait_io" /\ server[s].next_timeout # 0 =>
      \A f \in FlowsOf(s) : flow[f].state # "pfs_send"

(* The version in use is one the library can build messages of: the uint8_t *)
(* next_version, which wraps to 255 when a NAT-PMP server refuses version   *)
(* 0, never reaches pcp_version.                                            *)
VersionSupported ==
  \A s \in Servers :
    /\ server[s].pcp_version <= PCP_MAX_SUPPORTED_VERSION
    /\ server[s].state = "pss_version_negotiation" =>
         server[s].next_version <= PCP_MAX_SUPPORTED_VERSION

(* Every call of pcp_pulse returns: the while (1) loop of hserver_iter ends *)
(* for every server.                                                        *)
PulseReturns == pulse.at # "app" ~> pulse.at = "app"

(* A ping ends: the server is found working, given up or started over.      *)
PingResolves ==
  \A s \in Servers : server[s].state = "pss_wait_ping_resp"
                       ~> server[s].state # "pss_wait_ping_resp"
=============================================================================
