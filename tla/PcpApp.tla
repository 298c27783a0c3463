------------------------------- MODULE PcpApp -------------------------------
(***************************************************************************)
(* The command line client, pcp_app.c: getopt takes one option after the   *)
(* other, main checks the addresses, makes a context with its servers, a   *)
(* flow of the kind that the options ask for, waits for it and turns the   *)
(* result into an exit code. The library is used through what its calls    *)
(* return; PcpWait and PcpContext say what they do.                        *)
(***************************************************************************)
EXTENDS PcpAddress

CONSTANTS
  Commands,  \* command lines: sequences of options
  Gateways,  \* addresses of gateways that autodiscovery may find
  PCP_MAX_SUPPORTED_VERSION

(* What getopt hands over: an option, its argument and that as a number. *)
Option == [o : STRING, arg : Seq(STRING), val : Int]

ASSUME AppAssumption ==
  /\ Commands \subseteq Seq(Option)
  /\ IsFiniteSet(Gateways) /\ PCP_MAX_SUPPORTED_VERSION \in 0..255

VARIABLES
  argv,     \* the command line
  optind,   \* the next option of it
  p,        \* struct pcp_params
  at,       \* how far main is
  net,      \* the gateways that are found, the addresses with a route
  ctx,      \* the servers: the version of each address
  request,  \* the operation of the flow
  chain,    \* the results of the flows of its chain
  exit      \* the exit code, NoExit before

avars == <<argv, optind, p, at, net, ctx, request, chain, exit>>

NoExit == 99
Abort  == 134  \* an assertion of the library fails

Params0 == [int |-> NoText, peer |-> NoText, ext |-> NoText,
            filter |-> NoText, third |-> NoText, pfailure |-> FALSE,
            version |-> PCP_MAX_SUPPORTED_VERSION, disc |-> TRUE,
            fast |-> FALSE, mappeer |-> FALSE, sadscp |-> FALSE,
            servers |-> <<>>]

AppInit ==
  /\ argv \in Commands /\ optind = 1 /\ p = Params0 /\ at = "parse"
  /\ net = [gateways |-> {}, routes |-> {}] /\ ctx = <<>>
  /\ request = "none" /\ chain = <<>> /\ exit = NoExit

Leave(code) == at' = "end" /\ exit' = code

-----------------------------------------------------------------------------
(* parse_params. An option is [o, arg, val]. *)
o == argv[optind]

WithServer_Late(q, arg) ==  \* mutant: the version given before it is not kept
  [q EXCEPT !.servers = <<[name |-> arg,
                           version |-> PCP_MAX_SUPPORTED_VERSION]>> \o @]

WithServer(q, arg) ==
  [q EXCEPT !.servers = <<[name |-> arg, version |-> q.version]>> \o @]

uint8_Wide(n) == n  \* mutant: without the conversion

uint8(n) == n % 256

parse_opt ==
  CASE o.o = "i" -> [p EXCEPT !.int = o.arg, !.mappeer = TRUE]
    [] o.o = "p" -> [p EXCEPT !.peer = o.arg, !.mappeer = TRUE]
    [] o.o = "e" -> [p EXCEPT !.ext = o.arg, !.mappeer = TRUE]
    [] o.o = "F" -> [p EXCEPT !.filter = o.arg, !.mappeer = TRUE]
    [] o.o = "3" -> [p EXCEPT !.third = o.arg, !.mappeer = TRUE]
    [] o.o = "P" -> [p EXCEPT !.pfailure = TRUE, !.mappeer = TRUE]
    [] o.o = "t" -> [p EXCEPT !.mappeer = TRUE]  \* and -u, -n, -U, -D, -I, -V
    [] o.o = "J" -> [p EXCEPT !.sadscp = TRUE]   \* and -L, -E, -A
    [] o.o = "s" -> WithServer(p, o.arg)
    [] o.o = "v" -> [p EXCEPT !.version = uint8(o.val)]
    [] o.o = "d" -> [p EXCEPT !.disc = FALSE]
    [] o.o = "f" -> [p EXCEPT !.fast = TRUE]
    [] OTHER     -> p                            \* -l, -T, the device options

ParseOption ==
  /\ at = "parse" /\ optind <= Len(argv)
  /\ p' = parse_opt /\ optind' = optind + 1
  /\ IF o.o = "h" THEN Leave(0)
     ELSE IF o.o = "?" \/ p'.version > PCP_MAX_SUPPORTED_VERSION THEN Leave(1)
     ELSE UNCHANGED <<at, exit>>
  /\ UNCHANGED <<argv, net, ctx, request, chain>>

BadMix_Allowed == ~p.mappeer /\ ~p.sadscp  \* mutant: the kinds may be mixed

BadMix == p.mappeer = p.sadscp

ParseEnd ==
  /\ at = "parse" /\ optind > Len(argv)
  /\ IF BadMix THEN Leave(1) ELSE at' = "check" /\ exit' = exit
  /\ UNCHANGED <<argv, optind, p, net, ctx, request, chain>>

-----------------------------------------------------------------------------
(* main. *)
Invalid(text) == text # NoText /\ ~sock_pton(text).ok

NotForPeer == p.peer # NoText /\ (p.pfailure \/ p.filter # NoText)

Check ==
  /\ at = "check"
  /\ IF \/ Invalid(p.int) \/ Invalid(p.peer) \/ Invalid(p.ext)
        \/ Invalid(p.third) \/ NotForPeer
        \/ p.filter # NoText /\ ~sock_pton_with_prefix(p.filter).ok
     THEN Leave(1) ELSE at' = "init" /\ exit' = exit
  /\ UNCHANGED <<argv, optind, p, net, ctx, request, chain>>

(* The servers that can be read, and the addresses by which the library     *)
(* knows them: an IPv4 address is kept as the IPv6 address that maps it.     *)
Readable(text) == sock_pton(text).ok

In6(host) == IF host \in V4Texts THEN <<":", ":", "ffff", ":">> \o host ELSE host

pcp_ip(text) == In6(sock_pton(text).host)

Named(servers) ==
  {pcp_ip(servers[k].name) :
     k \in {j \in DOMAIN servers : Readable(servers[j].name)}}

(* pcp_add_server: a server that is known by its address gets the version   *)
(* anew, and one without a route to it is given up, also if it was added    *)
(* before. The result is ignored.                                           *)
pcp_add_server(routes, c, s) ==
  LET a == pcp_ip(s.name)
  IN  IF ~Readable(s.name) THEN c
      ELSE IF a \in routes
      THEN [b \in DOMAIN c \cup {a} |-> IF b = a THEN s.version ELSE c[b]]
      ELSE [b \in DOMAIN c \ {a} |-> c[b]]

(* pcp_init and the loop over the servers, the one named last first.        *)
(* Without a context there are no servers; pcp_new_flow finds that out,     *)
(* pcp_learn_dscp does not.                                                 *)
Discovered(gateways) == [a \in gateways |-> PCP_MAX_SUPPORTED_VERSION]

AddServers(routes, c, servers) ==
  FoldLeft(LAMBDA d, s : pcp_add_server(routes, d, s), c, servers)

StartContext ==
  /\ at = "init"
  /\ \/ \E gateways \in SUBSET (IF p.disc THEN Gateways ELSE {}),
           routes \in SUBSET Named(p.servers) :
          /\ net' = [gateways |-> gateways, routes |-> routes]
          /\ ctx' = AddServers(routes, Discovered(gateways), p.servers)
          /\ at' = "flow" /\ exit' = exit
     \/ Leave(IF p.mappeer THEN 1 ELSE Abort) /\ UNCHANGED <<net, ctx>>
  /\ UNCHANGED <<argv, optind, p, request, chain>>

(* pcp_new_flow makes a PEER of a destination that is not the any address.  *)
(* A source that is not given has no family, and without an external        *)
(* address that is an error; so is a family that does not suit.             *)
AnyAddr4  == <<"0.0.0.0">>
Is6(text) == sock_pton(text).host \in V6Texts
ToPeer    == p.peer # NoText /\ sock_pton(p.peer).host \notin {AnyAddr, AnyAddr4}

FlowError ==
  \/ p.int = NoText /\ p.ext = NoText
  \/ /\ ToPeer /\ p.int # NoText /\ Is6(p.int)
     /\ sock_pton(p.int).host # AnyAddr /\ ~Is6(p.peer)

Results == {"processing", "succeeded", "short_lifetime_error", "failed"}

(* A flow for each server that suits, and what has become of them when      *)
(* pcp_wait is done.                                                        *)
CreateFlow ==
  /\ at = "flow"
  /\ \E c \in UNION {[1..n -> Results] : n \in 0..Cardinality(DOMAIN ctx)} :
       IF p.mappeer /\ (c = <<>> \/ FlowError)
       THEN Leave(1) /\ UNCHANGED <<request, chain>>
       ELSE /\ request' = IF p.sadscp THEN "sadscp"
                          ELSE IF ToPeer THEN "peer" ELSE "map"
            /\ chain' = c /\ at' = "wait" /\ exit' = exit
  /\ UNCHANGED <<argv, optind, p, net, ctx>>

(* pcp_eval_flow_state. *)
Got(r) == \E k \in DOMAIN chain : chain[k] = r

State_Short ==  \* mutant: a failure is not noted
  IF Got("processing")
  THEN IF Got("succeeded") THEN "partial_result" ELSE "processing"
  ELSE IF Got("succeeded") THEN "succeeded" ELSE "short_lifetime_error"

State ==
  IF Got("processing")
  THEN IF Got("succeeded") THEN "partial_result" ELSE "processing"
  ELSE IF Got("succeeded") THEN "succeeded"
  ELSE IF Got("failed") THEN "failed" ELSE "short_lifetime_error"

Code == [processing |-> 2, succeeded |-> 0, short_lifetime_error |-> 3,
         failed |-> 4]

(* The first flow that has a result decides. *)
check_flow_info ==
  LET done == {k \in DOMAIN chain : chain[k] # "processing"}
  IN  IF done = {} THEN 2 ELSE Code[chain[Least(done)]]

(* pcp_wait ends with the state of the chain, a partial result only if that *)
(* was asked for; or its time is over before all flows have a result. With  *)
(* no flow it has failed.                                                   *)
Wait ==
  /\ at = "wait"
  /\ \E r \in IF chain = <<>> THEN {"failed"}
              ELSE {State} \cup (IF Got("processing") THEN {"processing"}
                                ELSE {}) :
       /\ r = "partial_result" => p.fast
       /\ Leave(IF r = "partial_result" THEN check_flow_info ELSE Code[r])
  /\ UNCHANGED <<argv, optind, p, net, ctx, request, chain>>

AppNext == ParseOption \/ ParseEnd \/ Check \/ StartContext \/ CreateFlow \/ Wait

AppSpec == AppInit /\ [][AppNext]_avars

-----------------------------------------------------------------------------
(* Properties. *)

TypeOK ==
  /\ optind \in 1..(Len(argv) + 1) /\ p.version \in 0..255
  /\ \A a \in DOMAIN ctx : ctx[a] \in 0..PCP_MAX_SUPPORTED_VERSION
  /\ at \in {"parse", "check", "init", "flow", "wait", "end"}
  /\ request \in {"none", "map", "peer", "sadscp"}
  /\ exit \in {0, 1, 2, 3, 4, NoExit, Abort}

Given(options) == \E k \in 1..(optind - 1) : argv[k].o \in options

(* The exit code of a request is what the library says became of one of its *)
(* flows: success is reported only if it takes a flow for granted, a        *)
(* timeout only if one has no result yet, whatever mixture of results the   *)
(* servers give and when the wait ends; a request that no server got has    *)
(* failed. Success without a request is only that of --help.                *)
ExitIsAFlowsResult ==
  exit # NoExit =>
    IF request = "none" THEN exit = 0 => Given({"h"})
    ELSE \/ chain = <<>> /\ exit = 4
         \/ \E k \in DOMAIN chain : Code[chain[k]] = exit

(* The options that ask for a MAP or PEER request, and "J" for those that   *)
(* ask for learning DSCP values.                                            *)
MapPeerOptions == {"i", "p", "e", "F", "3", "P", "t"}

(* README of the client: "Only one type of request can be sent per CLI      *)
(* invocation". The request that is made was asked for by an option, and no *)
(* option asked for the other kind, in whichever order they came. The       *)
(* lifetime and the device options ask for no request: with DSCP learning   *)
(* they have no effect.                                                     *)
OneKindOfRequest ==
  /\ request = "sadscp" => Given({"J"}) /\ ~Given(MapPeerOptions)
  /\ request \in {"map", "peer"} => Given(MapPeerOptions) /\ ~Given({"J"})

(* The version that was given last before the option k. *)
VersionBefore(k) ==
  LET before == {j \in 1..(k - 1) : argv[j].o = "v"}
  IN  IF before = {} THEN PCP_MAX_SUPPORTED_VERSION
      ELSE argv[Greatest(before)].val % 256

ServerOptions == {k \in DOMAIN argv : argv[k].o = "s" /\ Readable(argv[k].arg)}
NamedAt(a)    == {k \in ServerOptions : pcp_ip(argv[k].arg) = a}

(* The servers of the context are the addresses named with a route to them  *)
(* and the gateways that were not named, each once. Named several times, in *)
(* whichever notation, a server keeps the version that was given last       *)
(* before its first mention, since the list is gone through from its end    *)
(* and each addition overwrites; a gateway has the greatest version unless  *)
(* it is named. The conversion to uint8_t comes before the check, so that   *)
(* no version is one that the library does not speak.                       *)
ServersGetTheirVersion ==
  at \in {"flow", "wait"} =>
    LET named == {pcp_ip(argv[k].arg) : k \in ServerOptions}
    IN  ctx = [a \in (net.gateways \ named) \cup (named \cap net.routes) |->
                 IF a \in named THEN VersionBefore(Least(NamedAt(a)))
                 ELSE PCP_MAX_SUPPORTED_VERSION]

(* An address is read as it is written: with or without a port, IPv6 with   *)
(* or without brackets, a port alone; and a filter with its prefix, unless  *)
(* that is longer than the address.                                         *)
Hosts == V4Texts \cup V6Texts
Ports == {Value[n] : n \in DOMAIN Value}

WrittenIsRead ==
  \A k \in DOMAIN argv, h \in Hosts, n \in Ports :
    /\ argv[k].arg \in Written(h, n) =>
         sock_pton(argv[k].arg) = Address(h, n, 0)
    /\ \A m \in Ports :
         argv[k].arg = <<"[">> \o h \o <<"/", Digits(n), "]", ":", Digits(m)>> =>
           sock_pton_with_prefix(argv[k].arg) =
             IF n <= MaxPrefix(h) THEN Address(h, m, n) ELSE Refused

(* What sock_ntop writes for an address that sock_pton has read is read as  *)
(* the same address and port.                                               *)
RoundTrip ==
  \A k \in DOMAIN argv :
    LET a == sock_pton(argv[k].arg)
    IN  a.ok => sock_pton(sock_ntop(a.host, a.port)) = a
=============================================================================
