---------------------------- MODULE PcpAppProofs ----------------------------
(***************************************************************************)
(* The command line client for every set of command lines, any gateways    *)
(* and routes and all addresses: its exit code is the result of a flow,    *)
(* requests are not mixed, servers get their version, and an address is    *)
(* read as it was written.                                                 *)
(***************************************************************************)
EXTENDS PcpApp, PcpInduction

(* What the options before optind may have left. *)
ArgTexts == {argv[k].arg : k \in DOMAIN argv} \cup {NoText}
ServerRec == [name : ArgTexts, version : Nat]
ParamRec == [int : ArgTexts, peer : ArgTexts, ext : ArgTexts,
             filter : ArgTexts, third : ArgTexts, pfailure : BOOLEAN,
             version : Nat, disc : BOOLEAN, fast : BOOLEAN,
             mappeer : BOOLEAN, sadscp : BOOLEAN, servers : Seq(ServerRec)]

ServerAt(k) == [name |-> argv[k].arg, version |-> VersionBefore(k)]

(* The list of servers: the options -s before n, the last one first. *)
Listed(servers, n, pos) ==
  /\ pos \in [DOMAIN servers -> 1 .. (n - 1)]
  /\ \A j \in DOMAIN servers : /\ argv[pos[j]].o = "s"
                               /\ servers[j] = ServerAt(pos[j])
  /\ \A i, j \in DOMAIN servers : i < j => pos[j] < pos[i]
  /\ \A k \in 1 .. (n - 1) : argv[k].o = "s" => \E j \in DOMAIN servers : pos[j] = k

(* The parameters are those of the options that were read. *)
ParseInv ==
  /\ argv \in Commands /\ optind \in 1 .. (Len(argv) + 1) /\ p \in ParamRec
  /\ p.mappeer = Given(MapPeerOptions) /\ p.sadscp = Given({"J"})
  /\ p.version = VersionBefore(optind) /\ p.version <= 255
  /\ \A j \in DOMAIN p.servers : p.servers[j].version <= PCP_MAX_SUPPORTED_VERSION
  /\ \E pos : Listed(p.servers, optind, pos)

(* How far main is, and what it has by then. *)
MainInv ==
  /\ at \in {"parse", "check", "init", "flow", "wait", "end"}
  /\ at # "end" => exit = NoExit /\ p.version <= PCP_MAX_SUPPORTED_VERSION
  /\ at \notin {"parse", "end"} =>
       optind = Len(argv) + 1 /\ p.mappeer = ~p.sadscp
  /\ at \notin {"wait", "end"} => request = "none"
  /\ at = "wait" => request # "none"
  /\ exit \in {0, 1, 2, 3, 4, NoExit, Abort}
  /\ request \in {"none", "map", "peer", "sadscp"}
  /\ request = "sadscp" => p.sadscp /\ ~p.mappeer
  /\ request \in {"map", "peer"} => p.mappeer /\ ~p.sadscp
  /\ chain \in Seq(Results)

(* The position j is the last one of t that names its address. *)
LastIn(servers, t, j) ==
  /\ j \in t /\ Readable(servers[j].name)
  /\ \A i \in t : /\ Readable(servers[i].name)
                  /\ pcp_ip(servers[i].name) = pcp_ip(servers[j].name)
                  => i <= j

NamedIn(servers, t) ==
  {pcp_ip(servers[k].name) : k \in {j \in t : Readable(servers[j].name)}}

Versions == 0 .. PCP_MAX_SUPPORTED_VERSION

(* What the servers at the positions t make of the servers base. *)
Merged(c, routes, base, servers, t) ==
  LET named == NamedIn(servers, t)
  IN  /\ c \in [DOMAIN c -> Versions]
      /\ DOMAIN c = (DOMAIN base \ named) \cup (named \cap routes)
      /\ \A a \in DOMAIN c \ named : c[a] = base[a]
      /\ \A j \in t : LastIn(servers, t, j) /\ pcp_ip(servers[j].name) \in DOMAIN c
                      => c[pcp_ip(servers[j].name)] = servers[j].version

ContextInv ==
  /\ ctx \in [DOMAIN ctx -> Versions] /\ IsFiniteSet(DOMAIN ctx)
  /\ at \in {"flow", "wait"} =>
       Merged(ctx, net.routes, Discovered(net.gateways), p.servers, DOMAIN p.servers)

AppInv == ParseInv /\ MainInv /\ ContextInv /\ ExitIsAFlowsResult

-----------------------------------------------------------------------------
(* Options. *)

LEMMA GreatestOfPositions ==
  ASSUME NEW n \in Nat, NEW s \in SUBSET (1 .. n), s # {}
  PROVE  Greatest(s) \in s /\ \A y \in s : y <= Greatest(s)
<1>1. \E x \in s : \A y \in s : y <= x
  BY MaxOfPositions
<1> QED BY <1>1 DEF Greatest

LEMMA LeastOfPositions ==
  ASSUME NEW n \in Nat, NEW s \in SUBSET (1 .. n), s # {}
  PROVE  Least(s) \in s
BY LeastPosition DEF Least

LEMMA VersionAfter ==
  ASSUME NEW n \in Nat
  PROVE  VersionBefore(n + 2) = IF argv[n + 1].o = "v" THEN argv[n + 1].val % 256
                                ELSE VersionBefore(n + 1)
<1> DEFINE before(k) == {j \in 1 .. (k - 1) : argv[j].o = "v"}
<1>1. (n + 2) - 1 = n + 1 /\ (n + 1) - 1 = n
  OBVIOUS
<1>2. CASE argv[n + 1].o = "v"
  <2>1. n + 1 \in before(n + 2)
    BY <1>1, <1>2
  <2>2. before(n + 2) \in SUBSET (1 .. n + 1)
    BY <1>1
  <2>3. Greatest(before(n + 2)) = n + 1
    <3>1. ASSUME NEW m \in Nat, NEW s \in SUBSET (1 .. m), m \in s
          PROVE  Greatest(s) = m
      <4> DEFINE x == Greatest(s)
      <4>1. x \in s /\ m <= x
        BY <3>1, GreatestOfPositions
      <4> HIDE DEF x
      <4>2. x \in 1 .. m
        BY <4>1
      <4> QED BY <4>1, <4>2 DEF x
    <3>2. \A s \in SUBSET (1 .. n + 1) : n + 1 \in s => Greatest(s) = n + 1
      BY <3>1
    <3> HIDE DEF before
    <3> QED BY <2>1, <2>2, <3>2, Zenon
  <2> QED BY <1>2, <2>1, <2>3, Zenon DEF VersionBefore
<1>3. CASE argv[n + 1].o # "v"
  <2>1. before(n + 2) = before(n + 1)
    BY <1>1, <1>3
  <2> QED BY <1>3, <2>1, Zenon DEF VersionBefore
<1> QED BY <1>2, <1>3

LEMMA GivenAfter ==
  ASSUME NEW n \in Nat, NEW options
  PROVE  (\E k \in 1 .. (n + 2 - 1) : argv[k].o \in options)
           <=> \/ \E k \in 1 .. (n + 1 - 1) : argv[k].o \in options
               \/ argv[n + 1].o \in options
OBVIOUS

(* What parse_params does with one option. *)
LEMMA ParseOpt ==
  ASSUME p \in ParamRec, o.arg \in ArgTexts, o.val \in Int
  PROVE  /\ parse_opt \in ParamRec
         /\ parse_opt.mappeer = (p.mappeer \/ o.o \in MapPeerOptions)
         /\ parse_opt.sadscp = (p.sadscp \/ o.o = "J")
         /\ parse_opt.version = IF o.o = "v" THEN o.val % 256 ELSE p.version
         /\ parse_opt.servers =
              IF o.o = "s" THEN <<[name |-> o.arg, version |-> p.version]>> \o p.servers
              ELSE p.servers
<1>1. CASE o.o = "i"
  BY <1>1 DEF parse_opt, ParamRec, MapPeerOptions
<1>2. CASE o.o = "p"
  BY <1>2 DEF parse_opt, ParamRec, MapPeerOptions
<1>3. CASE o.o = "e"
  BY <1>3 DEF parse_opt, ParamRec, MapPeerOptions
<1>4. CASE o.o = "F"
  BY <1>4 DEF parse_opt, ParamRec, MapPeerOptions
<1>5. CASE o.o = "3"
  BY <1>5 DEF parse_opt, ParamRec, MapPeerOptions
<1>6. CASE o.o = "P"
  BY <1>6 DEF parse_opt, ParamRec, MapPeerOptions
<1>7. CASE o.o = "t"
  BY <1>7 DEF parse_opt, ParamRec, MapPeerOptions
<1>8. CASE o.o = "J"
  BY <1>8 DEF parse_opt, ParamRec, MapPeerOptions
<1>9. CASE o.o = "s"
  <2>1. parse_opt = WithServer(p, o.arg)
    BY <1>9 DEF parse_opt
  <2>2. [name |-> o.arg, version |-> p.version] \in ServerRec
    BY DEF ParamRec, ServerRec
  <2>3. <<[name |-> o.arg, version |-> p.version]>> \o p.servers \in Seq(ServerRec)
    BY <2>2 DEF ParamRec
  <2> QED BY <1>9, <2>1, <2>3 DEF WithServer, ParamRec, MapPeerOptions
<1>10. CASE o.o = "v"
  <2>1. uint8(o.val) \in Nat /\ uint8(o.val) = o.val % 256
    BY DEF uint8
  <2> QED BY <1>10, <2>1 DEF parse_opt, ParamRec, MapPeerOptions
<1>11. CASE o.o = "d"
  BY <1>11 DEF parse_opt, ParamRec, MapPeerOptions
<1>12. CASE o.o = "f"
  BY <1>12 DEF parse_opt, ParamRec, MapPeerOptions
<1>13. CASE o.o \notin {"i", "p", "e", "F", "3", "P", "t", "J", "s", "v", "d", "f"}
  <2>1. parse_opt = p
    BY <1>13 DEF parse_opt
  <2> QED BY <1>13, <2>1 DEF ParamRec, MapPeerOptions
<1> QED
  BY <1>1, <1>2, <1>3, <1>4, <1>5, <1>6, <1>7, <1>8, <1>9, <1>10, <1>11, <1>12,
     <1>13

-----------------------------------------------------------------------------
(* The servers. *)

AddStep(g, routes, seq, base, t) ==
  IF t = {} THEN base ELSE pcp_add_server(routes, g[t \ {Max(t)}], seq[Max(t)])

(* One more server, behind the others. *)
LEMMA AddOne ==
  ASSUME NEW n \in Nat, NEW seq, NEW t \in SUBSET (1 .. n), NEW m \in t,
         \A j \in t : j <= m, seq[m].version \in Versions,
         NEW routes, NEW base, NEW c,
         Merged(c, routes, base, seq, t \ {m})
  PROVE  Merged(pcp_add_server(routes, c, seq[m]), routes, base, seq, t)
<1> DEFINE r == t \ {m}
           old == NamedIn(seq, r)
           new == NamedIn(seq, t)
           a == pcp_ip(seq[m].name)
           v == seq[m].version
           Ok(j) == Readable(seq[j].name)
           Ip(j) == pcp_ip(seq[j].name)
<1>1. /\ c \in [DOMAIN c -> Versions]
      /\ DOMAIN c = (DOMAIN base \ old) \cup (old \cap routes)
      /\ \A b \in DOMAIN c \ old : c[b] = base[b]
      /\ \A j \in r : LastIn(seq, r, j) /\ Ip(j) \in DOMAIN c => c[Ip(j)] = seq[j].version
  BY DEF Merged
<1>2. CASE ~Ok(m)
  <2>1. pcp_add_server(routes, c, seq[m]) = c
    BY <1>2 DEF pcp_add_server
  <2>2. new = old
    BY <1>2 DEF NamedIn
  <2>3. \A j \in t : LastIn(seq, t, j) => LastIn(seq, r, j)
    BY <1>2 DEF LastIn
  <2>4. \A j \in t : LastIn(seq, t, j) => j \in r
    BY <2>3 DEF LastIn
  <2> QED BY <1>1, <2>1, <2>2, <2>3, <2>4 DEF Merged
<1>3. CASE Ok(m)
  <2>1. new = old \cup {a}
    BY <1>3 DEF NamedIn
  <2>2. \A j \in t : LastIn(seq, t, j) /\ Ip(j) = a => j = m
    BY <1>3 DEF LastIn
  <2>3. \A j \in t : LastIn(seq, t, j) /\ Ip(j) # a => j \in r /\ LastIn(seq, r, j)
    BY DEF LastIn
  <2>4. CASE a \in routes
    <3> DEFINE d == [b \in DOMAIN c \cup {a} |-> IF b = a THEN v ELSE c[b]]
    <3>1. pcp_add_server(routes, c, seq[m]) = d
      BY <1>3, <2>4 DEF pcp_add_server
    <3>2. /\ DOMAIN d = DOMAIN c \cup {a} /\ d[a] = v
          /\ \A b \in DOMAIN c : b # a => d[b] = c[b]
          /\ d \in [DOMAIN d -> Versions]
      BY <1>1
    <3> HIDE DEF d
    <3>3. DOMAIN d = (DOMAIN base \ new) \cup (new \cap routes)
      BY <1>1, <2>1, <2>4, <3>2
    <3>4. \A b \in DOMAIN d \ new : d[b] = base[b]
      BY <1>1, <2>1, <3>2
    <3>5. ASSUME NEW j \in t, LastIn(seq, t, j), Ip(j) \in DOMAIN d
          PROVE  d[Ip(j)] = seq[j].version
      <4>1. CASE Ip(j) = a
        BY <2>2, <3>2, <3>5, <4>1
      <4>2. CASE Ip(j) # a
        BY <1>1, <2>3, <3>2, <3>5, <4>2
      <4> QED BY <4>1, <4>2
    <3> QED BY <3>1, <3>2, <3>3, <3>4, <3>5 DEF Merged
  <2>5. CASE a \notin routes
    <3> DEFINE d == [b \in DOMAIN c \ {a} |-> c[b]]
    <3>1. pcp_add_server(routes, c, seq[m]) = d
      BY <1>3, <2>5 DEF pcp_add_server
    <3>2. /\ DOMAIN d = DOMAIN c \ {a} /\ \A b \in DOMAIN d : d[b] = c[b]
          /\ d \in [DOMAIN d -> Versions]
      BY <1>1
    <3> HIDE DEF d
    <3>3. DOMAIN d = (DOMAIN base \ new) \cup (new \cap routes)
      BY <1>1, <2>1, <2>5, <3>2
    <3>4. \A b \in DOMAIN d \ new : d[b] = base[b]
      BY <1>1, <2>1, <3>2
    <3>5. ASSUME NEW j \in t, LastIn(seq, t, j), Ip(j) \in DOMAIN d
          PROVE  d[Ip(j)] = seq[j].version
      BY <1>1, <2>3, <3>2, <3>5
    <3> QED BY <3>1, <3>2, <3>3, <3>4, <3>5 DEF Merged
  <2> QED BY <2>4, <2>5
<1> QED BY <1>2, <1>3

(* The loop over the servers. *)
LEMMA ServersAdded ==
  ASSUME NEW S, NEW seq \in Seq(S), \A j \in 1 .. Len(seq) : seq[j].version \in Versions,
         NEW routes, NEW G, NEW base \in [G -> Versions]
  PROVE  Merged(AddServers(routes, base, seq), routes, base, seq, DOMAIN seq)
<1> DEFINE n == Len(seq)
           P == 1 .. n
           U == G \cup NamedIn(seq, P)
           C == UNION {[D -> Versions] : D \in SUBSET U}
           step == [ic \in P \X C |-> pcp_add_server(routes, ic[2], seq[ic[1]])]
           It(g) == g = [t \in SUBSET P |-> AddStep(g, routes, seq, base, t)]
<1>0. n \in Nat /\ DOMAIN seq = P
  OBVIOUS
<1>1. AddServers(routes, base, seq) = (CHOOSE g : It(g))[P]
  BY <1>0, Zenon DEF AddServers, FoldLeft, MapThenFoldSet, AddStep
<1> HIDE DEF n
<1>a. ASSUME NEW c \in C, NEW j \in P
      PROVE  pcp_add_server(routes, c, seq[j]) \in C
  <2> DEFINE a == pcp_ip(seq[j].name)
             v == seq[j].version
  <2>0. PICK D \in SUBSET U : c \in [D -> Versions]
    OBVIOUS
  <2>1. CASE ~Readable(seq[j].name)
    BY <2>1 DEF pcp_add_server
  <2>2. CASE Readable(seq[j].name) /\ a \in routes
    <3>1. a \in U
      BY <2>2 DEF NamedIn
    <3>2. v \in Versions
      BY <1>0 DEF n
    <3> HIDE DEF a, v, U
    <3>3. D \cup {a} \in SUBSET U
      BY <3>1
    <3>4. [b \in D \cup {a} |-> IF b = a THEN v ELSE c[b]] \in [D \cup {a} -> Versions]
      BY <2>0, <3>2
    <3>5. pcp_add_server(routes, c, seq[j]) =
            [b \in D \cup {a} |-> IF b = a THEN v ELSE c[b]]
      <4>1. DOMAIN c = D
        BY <2>0
      <4> QED BY <2>2, <4>1 DEF pcp_add_server, a, v
    <3> QED BY <3>3, <3>4, <3>5
  <2>3. CASE Readable(seq[j].name) /\ a \notin routes
    <3>1. pcp_add_server(routes, c, seq[j]) = [b \in D \ {a} |-> c[b]]
      <4>1. DOMAIN c = D
        BY <2>0
      <4> QED BY <2>3, <4>1 DEF pcp_add_server
    <3>2. [b \in D \ {a} |-> c[b]] \in [D \ {a} -> Versions] /\ D \ {a} \in SUBSET U
      BY <2>0
    <3> QED BY <3>1, <3>2
  <2> QED BY <2>1, <2>2, <2>3
<1>b. base \in C
  <2>1. G \in SUBSET U
    OBVIOUS
  <2> QED BY <2>1
<1> HIDE DEF C
<1>2. step \in [P \X C -> C]
  BY <1>a
<1>3. PICK g : Folds(g, n, C, base, step)
  <2> HIDE DEF step
  <2> QED BY <1>0, <1>2, <1>b, FoldsExists
<1>4. \A t \in SUBSET P : g[t] = AddStep(g, routes, seq, base, t)
  <2>1. \A i \in P : \A d \in C : step[<<i, d>>] = pcp_add_server(routes, d, seq[i])
    OBVIOUS
  <2> HIDE DEF step
  <2> QED BY <1>3, <2>1 DEF Folds, AddStep
<1>5. It(g)
  BY <1>3, <1>4 DEF Folds
<1> DEFINE f == CHOOSE h : It(h)
<1>7. It(f)
  BY <1>5, Zenon
<1> HIDE DEF f
<1> DEFINE K == C \cup {f[t] : t \in SUBSET P}
           A == [t \in SUBSET P |-> {c \in K : Merged(c, routes, base, seq, t)}]
<1>8. f[{}] \in A[{}]
  <2>1. f[{}] = base
    BY <1>7 DEF AddStep
  <2>2. Merged(base, routes, base, seq, {})
    BY DEF Merged, NamedIn
  <2> QED BY <2>1, <2>2
<1>9. ASSUME NEW s \in SUBSET P, s # {}, Max(s) \in s,
             f[s \ {Max(s)}] \in A[s \ {Max(s)}]
      PROVE  f[s] \in A[s]
  <2>1. f[s] = pcp_add_server(routes, f[s \ {Max(s)}], seq[Max(s)])
    BY <1>7, <1>9 DEF AddStep
  <2>2. PICK m : m = Max(s)
    OBVIOUS
  <2>3. m \in s /\ m \in P /\ \A j \in s : j <= m
    <3>1. \A j \in s : Max(s) >= j
      BY <1>0, <1>9, MaxOfPositions
    <3> QED BY <1>0, <1>9, <2>2, <3>1
  <2>4. Merged(f[s \ {m}], routes, base, seq, s \ {m})
    BY <1>9, <2>2
  <2>5. seq[m].version \in Versions
    BY <2>3 DEF n
  <2>6. Merged(f[s], routes, base, seq, s)
    BY <1>0, <2>1, <2>2, <2>3, <2>4, <2>5, AddOne
  <2> QED BY <2>6
<1>10. f[P] \in A[P]
  <2> HIDE DEF A
  <2> QED BY <1>0, <1>8, <1>9, FoldReaches
<1>11. AddServers(routes, base, seq) = f[P]
  BY <1>1 DEF f
<1> QED BY <1>0, <1>10, <1>11

-----------------------------------------------------------------------------
(* The steps. *)

LEMMA OptionsTyped ==
  ASSUME argv \in Commands
  PROVE  /\ argv \in Seq(Option) /\ Len(argv) \in Nat /\ DOMAIN argv = 1 .. Len(argv)
         /\ \A k \in 1 .. Len(argv) : argv[k].arg \in ArgTexts /\ argv[k].val \in Int
<1>1. argv \in Seq(Option)
  BY AppAssumption
<1>2. Len(argv) \in Nat /\ DOMAIN argv = 1 .. Len(argv)
      /\ \A k \in 1 .. Len(argv) : argv[k] \in Option
  BY <1>1
<1> QED BY <1>1, <1>2 DEF ArgTexts, Option

LEMMA InitAppInv == AppInit => AppInv
<1> SUFFICES ASSUME AppInit
             PROVE  AppInv
  OBVIOUS
<1> USE DEF AppInit
<1>0. PCP_MAX_SUPPORTED_VERSION \in Nat /\ PCP_MAX_SUPPORTED_VERSION <= 255
  BY AppAssumption
<1>1. p \in ParamRec
  <2>1. NoText \in ArgTexts
    BY DEF ArgTexts
  <2>2. <<>> \in Seq(ServerRec)
    OBVIOUS
  <2> QED BY <1>0, <2>1, <2>2 DEF Params0, ParamRec
<1>2. p.version = PCP_MAX_SUPPORTED_VERSION /\ p.servers = <<>>
      /\ ~p.mappeer /\ ~p.sadscp
  BY DEF Params0
<1>3. 1 .. (optind - 1) = {}
  OBVIOUS
<1>4. VersionBefore(optind) = PCP_MAX_SUPPORTED_VERSION
  <2>1. {j \in 1 .. (optind - 1) : argv[j].o = "v"} = {}
    BY <1>3
  <2> QED BY <2>1, Zenon DEF VersionBefore
<1>5. \A options : ~Given(options)
  BY <1>3, Zenon DEF Given
<1>6. ParseInv
  <2>1. p.mappeer = Given(MapPeerOptions) /\ p.sadscp = Given({"J"})
    BY <1>1, <1>2, <1>5, Zenon DEF ParamRec, Given
  <2>2. optind \in 1 .. (Len(argv) + 1)
    BY OptionsTyped
  <2>3. Listed(p.servers, optind, <<>>)
    BY <1>2, <1>3 DEF Listed
  <2> QED BY <1>0, <1>1, <1>2, <1>4, <2>1, <2>2, <2>3 DEF ParseInv
<1>7. MainInv
  BY <1>0, <1>2 DEF MainInv, NoExit
<1>8. ContextInv
  <2>1. DOMAIN ctx = {}
    OBVIOUS
  <2> QED BY <2>1, FS_EmptySet DEF ContextInv
<1> QED BY <1>6, <1>7, <1>8 DEF AppInv, ExitIsAFlowsResult

(* Only ParseOption touches what ParseInv is about. *)
LEMMA ParseStays ==
  ASSUME ParseInv, UNCHANGED <<argv, optind, p>>
  PROVE  ParseInv'
<1>1. ParamRec' = ParamRec /\ ServerRec' = ServerRec
  BY DEF ParamRec, ServerRec, ArgTexts
<1>2. /\ VersionBefore(optind)' = VersionBefore(optind)
      /\ \A k : ServerAt(k)' = ServerAt(k)
  BY DEF VersionBefore, ServerAt
<1>3. /\ Given(MapPeerOptions)' = Given(MapPeerOptions)
      /\ Given({"J"})' = Given({"J"})
  BY DEF Given
<1>4. \E pos : Listed(p.servers, optind, pos)'
  <2>1. PICK pos : Listed(p.servers, optind, pos)
    BY DEF ParseInv
  <2>2. Listed(p.servers, optind, pos)'
    BY <1>2, <2>1 DEF Listed
  <2> QED BY <2>2
<1> QED BY <1>1, <1>2, <1>3, <1>4 DEF ParseInv

(* The servers of the context are not touched, or not asked for any more. *)
LEMMA ContextStays ==
  ASSUME ContextInv, UNCHANGED <<p, net, ctx>>,
         at' \in {"flow", "wait"} => at \in {"flow", "wait"}
  PROVE  ContextInv'
BY DEF ContextInv

(* A server at the head of the list. *)
LEMMA ListedMore ==
  ASSUME NEW n \in Nat, NEW seq \in Seq(ServerRec), NEW pos, Listed(seq, n + 1, pos),
         argv[n + 1].o = "s"
  PROVE  \E q : Listed(<<ServerAt(n + 1)>> \o seq, n + 2, q)
<1> DEFINE y == ServerAt(n + 1)
           z == <<y>> \o seq
           m == Len(seq)
           q == [j \in 1 .. (m + 1) |-> IF j = 1 THEN n + 1 ELSE pos[j - 1]]
<1>1. /\ DOMAIN z = 1 .. (m + 1) /\ DOMAIN seq = 1 .. m
      /\ z[1] = y /\ m \in Nat
      /\ \A j \in 1 .. m : z[j + 1] = seq[j]
  OBVIOUS
<1> HIDE DEF z, m, y
<1>2. /\ pos \in [1 .. m -> 1 .. n]
      /\ \A j \in 1 .. m : argv[pos[j]].o = "s" /\ seq[j] = ServerAt(pos[j])
      /\ \A i, j \in 1 .. m : i < j => pos[j] < pos[i]
      /\ \A k \in 1 .. n : argv[k].o = "s" => \E j \in 1 .. m : pos[j] = k
  <2>1. (n + 1) - 1 = n
    OBVIOUS
  <2> QED BY <1>1, <2>1 DEF Listed
<1>3. /\ q[1] = n + 1 /\ \A j \in 1 .. m : j + 1 \in 1 .. (m + 1) /\ q[j + 1] = pos[j]
      /\ \A j \in 1 .. (m + 1) : j = 1 \/ j - 1 \in 1 .. m
      /\ 1 \in 1 .. (m + 1) /\ DOMAIN q = 1 .. (m + 1)
  BY <1>1
<1>4. q \in [1 .. (m + 1) -> 1 .. (n + 1)]
  <2>1. \A j \in 1 .. (m + 1) : (IF j = 1 THEN n + 1 ELSE pos[j - 1]) \in 1 .. (n + 1)
    BY <1>2, <1>3
  <2> QED BY <2>1
<1> HIDE DEF q
<1>5. ASSUME NEW j \in 1 .. (m + 1)
      PROVE  argv[q[j]].o = "s" /\ z[j] = ServerAt(q[j])
  <2>1. CASE j = 1
    BY <1>1, <1>3, <2>1 DEF y
  <2>2. CASE j # 1
    <3>1. PICK i \in 1 .. m : j = i + 1
      <4>1. j - 1 \in 1 .. m /\ j = (j - 1) + 1
        BY <1>3, <2>2
      <4> QED BY <4>1
    <3>2. q[i + 1] = pos[i] /\ z[i + 1] = seq[i]
      BY <1>1, <1>3
    <3>3. argv[pos[i]].o = "s" /\ seq[i] = ServerAt(pos[i])
      BY <1>2
    <3> QED BY <3>1, <3>2, <3>3, Zenon
  <2> QED BY <2>1, <2>2
<1>6. ASSUME NEW i \in 1 .. (m + 1), NEW j \in 1 .. (m + 1), i < j
      PROVE  q[j] < q[i]
  <2>1. j # 1 /\ j - 1 \in 1 .. m /\ q[j] = pos[j - 1]
    BY <1>1, <1>3, <1>6
  <2>2. CASE i = 1
    BY <1>2, <1>3, <2>1, <2>2
  <2>3. CASE i # 1
    <3>1. i - 1 \in 1 .. m /\ q[i] = pos[i - 1] /\ i - 1 < j - 1
      BY <1>1, <1>3, <1>6, <2>3
    <3> QED BY <1>2, <2>1, <3>1
  <2> QED BY <2>2, <2>3
<1>7. ASSUME NEW k \in 1 .. (n + 1), argv[k].o = "s"
      PROVE  \E j \in 1 .. (m + 1) : q[j] = k
  <2>1. CASE k = n + 1
    BY <1>3, <2>1
  <2>2. CASE k # n + 1
    <3>1. k \in 1 .. n
      BY <2>2
    <3> QED BY <1>2, <1>3, <1>7, <3>1
  <2> QED BY <2>1, <2>2
<1>8. (n + 2) - 1 = n + 1
  OBVIOUS
<1>9. Listed(z, n + 2, q)
  BY <1>1, <1>4, <1>5, <1>6, <1>7, <1>8 DEF Listed
<1> QED BY <1>9 DEF z, y

(* An option that names no server leaves the list. *)
LEMMA ListedSame ==
  ASSUME NEW n \in Nat, NEW seq, NEW pos, Listed(seq, n + 1, pos), argv[n + 1].o # "s"
  PROVE  Listed(seq, n + 2, pos)
<1>1. (n + 1) - 1 = n /\ (n + 2) - 1 = n + 1 /\ 1 .. n \subseteq 1 .. (n + 1)
      /\ \A k \in 1 .. (n + 1) : k = n + 1 \/ k \in 1 .. n
  OBVIOUS
<1> QED BY <1>1 DEF Listed

LEMMA ParseOptionStep ==
  ASSUME AppInv, ParseOption
  PROVE  AppInv'
<1> USE DEF AppInv
<1>1. /\ at = "parse" /\ optind \in 1 .. Len(argv) /\ optind' = optind + 1
      /\ p' = parse_opt /\ UNCHANGED <<argv, net, ctx, request, chain>>
  BY OptionsTyped DEF ParseOption, ParseInv
<1>2. PICK n \in Nat : optind = n + 1
  <2>1. optind - 1 \in Nat /\ optind = (optind - 1) + 1
    BY <1>1, OptionsTyped DEF ParseInv
  <2> QED BY <2>1
<1>3. p \in ParamRec /\ o.arg \in ArgTexts /\ o.val \in Int
  BY <1>1, OptionsTyped DEF o, ParseInv
<1>4. /\ p' \in ParamRec
      /\ p'.mappeer = (p.mappeer \/ o.o \in MapPeerOptions)
      /\ p'.sadscp = (p.sadscp \/ o.o = "J")
      /\ p'.version = IF o.o = "v" THEN o.val % 256 ELSE p.version
      /\ p'.servers =
           IF o.o = "s" THEN <<[name |-> o.arg, version |-> p.version]>> \o p.servers
           ELSE p.servers
  BY <1>1, <1>3, ParseOpt
<1>5. ParamRec' = ParamRec /\ ServerRec' = ServerRec
  BY <1>1 DEF ParamRec, ServerRec, ArgTexts
<1>6. o = argv[n + 1] /\ optind' = n + 2
  BY <1>1, <1>2 DEF o
<1>7. \A options : Given(options)' <=> Given(options) \/ o.o \in options
  <2>1. \A options : Given(options)' <=> \E k \in 1 .. (n + 2 - 1) : argv[k].o \in options
    BY <1>1, <1>6 DEF Given
  <2>2. \A options : Given(options) <=> \E k \in 1 .. (n + 1 - 1) : argv[k].o \in options
    BY <1>2 DEF Given
  <2> QED BY <1>6, <2>1, <2>2, GivenAfter
<1>8. \A k : VersionBefore(k)' = VersionBefore(k)
  BY <1>1 DEF VersionBefore
<1>9. p'.version = VersionBefore(optind)'
  <2>1. VersionBefore(optind)' = VersionBefore(n + 2)
    BY <1>1, <1>6 DEF VersionBefore
  <2>2. p.version = VersionBefore(n + 1)
    BY <1>2 DEF ParseInv
  <2> QED BY <1>4, <1>6, <2>1, <2>2, VersionAfter
<1>10. p'.version <= 255 /\ p'.version \in Nat /\ p.version \in Nat
  BY <1>3, <1>4 DEF ParseInv, ParamRec
<1>11. \A j \in DOMAIN p'.servers : p'.servers[j].version <= PCP_MAX_SUPPORTED_VERSION
  BY <1>1, <1>3, <1>4, SMTT(30) DEF ParseInv, MainInv, ParamRec
<1>12. \E pos : Listed(p.servers, optind, pos)'
  <2>1. PICK pos : Listed(p.servers, n + 1, pos)
    BY <1>2 DEF ParseInv
  <2>2. \E q : Listed(p'.servers, n + 2, q)
    <3>1. CASE o.o = "s"
      <4>1. p.servers \in Seq(ServerRec)
        BY <1>3 DEF ParamRec
      <4>2. p'.servers = <<ServerAt(n + 1)>> \o p.servers
        BY <1>2, <1>4, <1>6, <3>1 DEF ServerAt, ParseInv
      <4> QED BY <1>6, <2>1, <3>1, <4>1, <4>2, ListedMore
    <3>2. CASE o.o # "s"
      BY <1>4, <1>6, <2>1, <3>2, ListedSame
    <3> QED BY <3>1, <3>2
  <2>3. PICK q : Listed(p'.servers, n + 2, q)
    BY <2>2
  <2>4. \A k : ServerAt(k)' = ServerAt(k)
    BY <1>1, <1>8 DEF ServerAt
  <2>5. Listed(p.servers, optind, q)'
    BY <1>1, <1>6, <2>3, <2>4 DEF Listed
  <2> QED BY <2>5
<1>14. ParseInv'
  <2>1. p'.mappeer = Given(MapPeerOptions)' /\ p'.sadscp = Given({"J"})'
    BY <1>4, <1>7 DEF ParseInv
  <2>2. optind' \in 1 .. (Len(argv') + 1)
    BY <1>1, OptionsTyped DEF ParseInv
  <2> QED BY <1>1, <1>4, <1>5, <1>9, <1>10, <1>11, <1>12, <2>1, <2>2 DEF ParseInv
<1>15. /\ \/ at' = "end" /\ exit' = 0 /\ o.o = "h"
          \/ at' = "end" /\ exit' = 1
          \/ at' = at /\ exit' = exit /\ p'.version <= PCP_MAX_SUPPORTED_VERSION
  BY <1>10, AppAssumption DEF ParseOption, Leave
<1>16. MainInv'
  BY <1>1, <1>15 DEF MainInv, NoExit, Abort
<1>17. ContextInv'
  BY <1>1, <1>15 DEF ContextInv, Versions
<1>18. ExitIsAFlowsResult'
  <2>1. request' = "none"
    BY <1>1 DEF MainInv
  <2>2. exit' = 0 => Given({"h"})'
    BY <1>1, <1>7, <1>15 DEF MainInv, NoExit
  <2> QED BY <2>1, <2>2 DEF ExitIsAFlowsResult
<1> QED BY <1>14, <1>16, <1>17, <1>18

(* A request that was not made leaves with an error. *)
LEMMA LeaveStep ==
  ASSUME AppInv, UNCHANGED <<argv, optind, p, net, ctx, request, chain>>,
         request = "none", NEW c \in {1, Abort}, Leave(c)
  PROVE  AppInv'
<1> USE DEF AppInv
<1>1. ParseInv'
  BY ParseStays
<1>2. MainInv'
  BY DEF Leave, MainInv, Abort
<1>3. ContextInv'
  BY ContextStays DEF Leave
<1>4. ExitIsAFlowsResult'
  BY DEF Leave, ExitIsAFlowsResult, Abort
<1> QED BY <1>1, <1>2, <1>3, <1>4

(* main goes on. *)
LEMMA AdvanceStep ==
  ASSUME AppInv, UNCHANGED <<argv, optind, p, request, chain, exit>>,
         request = "none",
         \/ at = "parse" /\ at' = "check" /\ optind > Len(argv) /\ p.mappeer # p.sadscp
         \/ at = "check" /\ at' = "init"
         \/ at = "init" /\ at' = "flow",
         ContextInv'
  PROVE  AppInv'
<1> USE DEF AppInv
<1>1. ParseInv'
  BY ParseStays
<1>2. MainInv'
  <2>1. optind' = Len(argv') + 1
    BY OptionsTyped DEF ParseInv, MainInv
  <2>2. p.mappeer = ~p.sadscp
    BY DEF ParseInv, MainInv, ParamRec
  <2> QED BY <2>1, <2>2 DEF MainInv
<1>3. ExitIsAFlowsResult'
  BY DEF MainInv, ExitIsAFlowsResult
<1> QED BY <1>1, <1>2, <1>3

LEMMA StartContextStep ==
  ASSUME AppInv, StartContext
  PROVE  AppInv'
<1> USE DEF AppInv
<1>0. request = "none" /\ at = "init" /\ UNCHANGED <<argv, optind, p, request, chain>>
  BY DEF StartContext, MainInv
<1>1. CASE Leave(IF p.mappeer THEN 1 ELSE Abort) /\ UNCHANGED <<net, ctx>>
  BY <1>0, <1>1, LeaveStep
<1>2. ASSUME NEW gateways \in SUBSET (IF p.disc THEN Gateways ELSE {}),
             NEW routes \in SUBSET Named(p.servers),
             net' = [gateways |-> gateways, routes |-> routes],
             ctx' = AddServers(routes, Discovered(gateways), p.servers),
             at' = "flow", exit' = exit
      PROVE  AppInv'
  <2>1. PCP_MAX_SUPPORTED_VERSION \in Nat /\ IsFiniteSet(gateways)
    <3>1. gateways \in SUBSET Gateways
      OBVIOUS
    <3> QED BY <3>1, AppAssumption, FS_Subset
  <2>2. Discovered(gateways) \in [gateways -> Versions]
    BY <2>1 DEF Discovered, Versions
  <2>3. /\ p.servers \in Seq(ServerRec)
        /\ \A j \in 1 .. Len(p.servers) : p.servers[j].version \in Versions
    <3>1. p.servers \in Seq(ServerRec)
      BY DEF ParseInv, ParamRec
    <3>2. \A j \in 1 .. Len(p.servers) : p.servers[j].version \in Nat
      <4>1. \A x \in ServerRec : x.version \in Nat
        BY DEF ServerRec
      <4>2. \A j \in 1 .. Len(p.servers) : p.servers[j] \in ServerRec
        BY <3>1
      <4> QED BY <4>1, <4>2
    <3> QED BY <2>1, <3>1, <3>2 DEF ParseInv, Versions
  <2>4. Merged(ctx', routes, Discovered(gateways), p.servers, DOMAIN p.servers)
    BY <1>2, <2>2, <2>3, ServersAdded
  <2>5. IsFiniteSet(DOMAIN ctx')
    <3> DEFINE ok == {j \in DOMAIN p.servers : Readable(p.servers[j].name)}
               named == NamedIn(p.servers, DOMAIN p.servers)
    <3>1. IsFiniteSet(ok)
      <4>1. DOMAIN p.servers = 1 .. Len(p.servers) /\ Len(p.servers) \in Nat
        BY <2>3
      <4>2. IsFiniteSet(DOMAIN p.servers)
        BY <4>1, PositionsFinite
      <4> QED BY <4>2, FS_Subset
    <3>2. IsFiniteSet(named)
      <4> DEFINE im == [j \in ok |-> pcp_ip(p.servers[j].name)]
      <4>1. named = {im[j] : j \in ok}
        BY DEF NamedIn
      <4>2. im \in [ok -> named]
        BY DEF NamedIn
      <4>3. im \in Surjection(ok, named)
        BY <4>1, <4>2 DEF Surjection
      <4> HIDE DEF im, ok, named
      <4> QED BY <3>1, <4>3, FS_Surjection
    <3>3. IsFiniteSet(gateways \cup named)
      <4> HIDE DEF named
      <4> QED BY <2>1, <3>2, FS_Union
    <3>4. DOMAIN ctx' \subseteq gateways \cup named
      BY <2>4 DEF Merged, Discovered
    <3> QED BY <3>3, <3>4, FS_Subset
  <2>6. ContextInv'
    <3>1. net'.gateways = gateways /\ net'.routes = routes
      BY <1>2
    <3>2. ctx' \in [DOMAIN ctx' -> Versions]
      BY <2>4 DEF Merged
    <3>3. Merged(ctx', net'.routes, Discovered(net'.gateways), p'.servers,
                 DOMAIN p'.servers)
      BY <1>0, <2>4, <3>1
    <3> QED BY <2>5, <3>2, <3>3 DEF ContextInv
  <2> QED BY <1>0, <1>2, <2>6, AdvanceStep
<1> QED BY <1>1, <1>2 DEF StartContext

LEMMA CreateFlowStep ==
  ASSUME AppInv, CreateFlow
  PROVE  AppInv'
<1> USE DEF AppInv
<1>0. request = "none" /\ at = "flow" /\ UNCHANGED <<argv, optind, p, net, ctx>>
      /\ p.mappeer = ~p.sadscp /\ exit = NoExit
  BY DEF CreateFlow, MainInv
<1>1. CASE Leave(1) /\ UNCHANGED <<request, chain>>
  BY <1>0, <1>1, LeaveStep
<1>2. ASSUME NEW c \in UNION {[1 .. n -> Results] : n \in 0 .. Cardinality(DOMAIN ctx)},
             request' = IF p.sadscp THEN "sadscp"
                        ELSE IF ToPeer THEN "peer" ELSE "map",
             chain' = c, at' = "wait", exit' = exit
      PROVE  AppInv'
  <2>1. ParseInv'
    BY <1>0, ParseStays
  <2>2. c \in Seq(Results)
    <3>1. Cardinality(DOMAIN ctx) \in Nat
      BY FS_CardinalityType DEF ContextInv
    <3> QED BY <1>2, <3>1
  <2>3. MainInv'
    BY <1>0, <1>2, <2>2 DEF MainInv, ParseInv, ParamRec
  <2>4. ContextInv'
    BY <1>0, <1>2, ContextStays
  <2>5. ExitIsAFlowsResult'
    BY <1>0, <1>2 DEF ExitIsAFlowsResult
  <2> QED BY <2>1, <2>3, <2>4, <2>5
<1> QED BY <1>1, <1>2 DEF CreateFlow

(* The exit code that pcp_wait leads to is the result of a flow. *)
LEMMA WaitResult ==
  ASSUME chain \in Seq(Results), chain # <<>>, NEW r,
         r \in {State} \cup (IF Got("processing") THEN {"processing"} ELSE {})
  PROVE  \E k \in DOMAIN chain :
           Code[chain[k]] = IF r = "partial_result" THEN check_flow_info ELSE Code[r]
<1>0. Len(chain) \in Nat /\ DOMAIN chain = 1 .. Len(chain)
      /\ \A k \in DOMAIN chain : chain[k] \in Results
  OBVIOUS
<1>1. CASE r = "partial_result"
  <2> DEFINE done == {k \in DOMAIN chain : chain[k] # "processing"}
  <2>1. Got("succeeded")
    BY <1>1 DEF State
  <2>2. done # {} /\ done \in SUBSET (1 .. Len(chain))
    BY <1>0, <2>1 DEF Got
  <2>3. Least(done) \in done
    <3>1. ASSUME NEW s \in SUBSET (1 .. Len(chain)), s # {}
          PROVE  Least(s) \in s
      BY <1>0, <3>1, LeastOfPositions
    <3> HIDE DEF done
    <3> QED BY <2>2, <3>1, Zenon
  <2>4. check_flow_info = Code[chain[Least(done)]]
    BY <2>2, Zenon DEF check_flow_info
  <2> QED BY <1>1, <2>3, <2>4
<1>2. CASE r # "partial_result"
  <2>1. Got(r)
    <3>1. CASE r = "processing" /\ Got("processing")
      BY <3>1
    <3>2. CASE r = State
      <4>1. PICK k \in DOMAIN chain : TRUE
        <5>1. Len(chain) # 0
          OBVIOUS
        <5>2. 1 \in 1 .. Len(chain)
          BY <1>0, <5>1
        <5> QED BY <1>0, <5>2
      <4>2. \E x \in Results : Got(x)
        BY <1>0, <4>1 DEF Got
      <4> QED BY <1>2, <3>2, <4>2 DEF State, Results
    <3> QED BY <3>1, <3>2
  <2> QED BY <1>2, <2>1 DEF Got
<1> QED BY <1>1, <1>2

LEMMA WaitStep ==
  ASSUME AppInv, Wait
  PROVE  AppInv'
<1> USE DEF AppInv
<1>0. at = "wait" /\ UNCHANGED <<argv, optind, p, net, ctx, request, chain>>
      /\ request # "none" /\ chain \in Seq(Results) /\ at' = "end"
  BY DEF Wait, Leave, MainInv
<1>1. \/ chain = <<>> /\ exit' = 4
      \/ \E k \in DOMAIN chain : exit' = Code[chain[k]]
  <2>1. CASE chain = <<>>
    BY <2>1 DEF Wait, Leave, Code
  <2>2. CASE chain # <<>>
    <3>1. PICK r \in {State} \cup (IF Got("processing") THEN {"processing"} ELSE {}) :
            exit' = IF r = "partial_result" THEN check_flow_info ELSE Code[r]
      BY <2>2 DEF Wait, Leave
    <3> QED BY <1>0, <2>2, <3>1, WaitResult
  <2> QED BY <2>1, <2>2
<1>2. exit' \in {0, 2, 3, 4}
  <2>1. \A k \in DOMAIN chain : chain[k] \in Results
    BY <1>0
  <2> QED BY <1>1, <2>1 DEF Code, Results
<1>3. ParseInv'
  BY <1>0, ParseStays
<1>4. MainInv'
  BY <1>0, <1>2 DEF MainInv
<1>5. ContextInv'
  BY <1>0, ContextStays
<1>6. ExitIsAFlowsResult'
  BY <1>0, <1>1 DEF ExitIsAFlowsResult
<1> QED BY <1>3, <1>4, <1>5, <1>6

LEMMA NextAppInv == AppInv /\ [AppNext]_avars => AppInv'
<1> SUFFICES ASSUME AppInv, [AppNext]_avars
             PROVE  AppInv'
  OBVIOUS
<1>1. CASE ParseOption
  BY <1>1, ParseOptionStep
<1>2. CASE ParseEnd
  <2>1. request = "none"
    BY <1>2 DEF ParseEnd, AppInv, MainInv
  <2>2. CASE Leave(1)
    BY <1>2, <2>1, <2>2, LeaveStep DEF ParseEnd
  <2>3. CASE ~BadMix /\ at' = "check" /\ exit' = exit
    <3>1. ContextInv'
      BY <1>2, <2>3, ContextStays DEF ParseEnd, AppInv
    <3> QED BY <1>2, <2>1, <2>3, <3>1, AdvanceStep DEF ParseEnd, BadMix
  <2> QED BY <1>2, <2>2, <2>3 DEF ParseEnd
<1>3. CASE Check
  <2>1. request = "none"
    BY <1>3 DEF Check, AppInv, MainInv
  <2>2. CASE Leave(1)
    BY <1>3, <2>1, <2>2, LeaveStep DEF Check
  <2>3. CASE at' = "init" /\ exit' = exit
    <3>1. ContextInv'
      BY <1>3, <2>3, ContextStays DEF Check, AppInv
    <3> QED BY <1>3, <2>1, <2>3, <3>1, AdvanceStep DEF Check
  <2> QED BY <1>3, <2>2, <2>3 DEF Check
<1>4. CASE StartContext
  BY <1>4, StartContextStep
<1>5. CASE CreateFlow
  BY <1>5, CreateFlowStep
<1>6. CASE Wait
  BY <1>6, WaitStep
<1>7. CASE UNCHANGED avars
  <2>1. ParseInv'
    BY <1>7, ParseStays DEF AppInv, avars
  <2>2. ContextInv'
    BY <1>7, ContextStays DEF AppInv, avars
  <2> QED BY <1>7, <2>1, <2>2
    DEF AppInv, avars, MainInv, ExitIsAFlowsResult, Given
<1> QED BY <1>1, <1>2, <1>3, <1>4, <1>5, <1>6, <1>7 DEF AppNext

-----------------------------------------------------------------------------
(* The parameters of main, its servers and its request are at every step   *)
(* those that the options read so far ask for, for any command lines.      *)
THEOREM AppInductive == AppSpec => []AppInv
BY InitAppInv, NextAppInv, PTL DEF AppSpec

LEMMA AppInvTypeOK == AppInv => TypeOK
<1> SUFFICES ASSUME AppInv
             PROVE  TypeOK
  OBVIOUS
<1>1. p.version \in 0 .. 255
  <2>1. p.version \in Nat /\ p.version <= 255
    BY DEF AppInv, ParseInv, ParamRec
  <2> QED BY <2>1
<1>2. \A a \in DOMAIN ctx : ctx[a] \in 0 .. PCP_MAX_SUPPORTED_VERSION
  BY DEF AppInv, ContextInv, Versions
<1> QED BY <1>1, <1>2 DEF AppInv, ParseInv, MainInv, TypeOK

LEMMA AppInvOneKind == AppInv => OneKindOfRequest
BY DEF AppInv, ParseInv, MainInv, OneKindOfRequest, MapPeerOptions

(* The list from its end, where the options are in the order given. *)
LEMMA AppInvVersions == AppInv => ServersGetTheirVersion
<1> SUFFICES ASSUME AppInv, at \in {"flow", "wait"}
             PROVE  ServersGetTheirVersion
  BY DEF ServersGetTheirVersion
<1> DEFINE named == {pcp_ip(argv[k].arg) : k \in ServerOptions}
           servers == p.servers
           D == (net.gateways \ named) \cup (named \cap net.routes)
           v(a) == IF a \in named THEN VersionBefore(Least(NamedAt(a)))
                   ELSE PCP_MAX_SUPPORTED_VERSION
<1>1. /\ DOMAIN argv = 1 .. (optind - 1) /\ Len(argv) \in Nat
      /\ DOMAIN argv = 1 .. Len(argv)
  BY OptionsTyped DEF AppInv, ParseInv, MainInv
<1>2. PICK pos : Listed(servers, optind, pos)
  BY DEF AppInv, ParseInv
<1>3. /\ pos \in [DOMAIN servers -> DOMAIN argv]
      /\ \A j \in DOMAIN servers : argv[pos[j]].o = "s" /\ servers[j] = ServerAt(pos[j])
      /\ \A i, j \in DOMAIN servers : i < j => pos[j] < pos[i]
      /\ \A k \in DOMAIN argv : argv[k].o = "s" => \E j \in DOMAIN servers : pos[j] = k
  BY <1>1, <1>2 DEF Listed
<1>4. \A j \in DOMAIN servers : /\ servers[j].name = argv[pos[j]].arg
                                /\ servers[j].version = VersionBefore(pos[j])
  <2>1. \A k : ServerAt(k).name = argv[k].arg /\ ServerAt(k).version = VersionBefore(k)
    BY DEF ServerAt
  <2> QED BY <1>3, <2>1, Zenon
<1>5. Merged(ctx, net.routes, Discovered(net.gateways), servers, DOMAIN servers)
  BY DEF AppInv, ContextInv
<1>6. NamedIn(servers, DOMAIN servers) = named
  BY <1>3, <1>4 DEF NamedIn, ServerOptions
<1>7. DOMAIN ctx = D /\ ctx = [a \in D |-> ctx[a]]
  BY <1>5, <1>6 DEF Merged, Discovered
<1>8. ASSUME NEW a \in D
      PROVE  ctx[a] = v(a)
  <2>1. CASE a \notin named
    BY <1>5, <1>6, <1>7, <2>1 DEF Merged, Discovered
  <2>2. CASE a \in named
    <3>1. NamedAt(a) # {} /\ NamedAt(a) \in SUBSET (1 .. Len(argv))
      BY <1>1, <2>2 DEF NamedAt, ServerOptions
    <3>2. PICK k : k = Least(NamedAt(a))
      OBVIOUS
    <3>3. k \in NamedAt(a) /\ \A i \in NamedAt(a) : k <= i
      <4>1. \E x \in NamedAt(a) : \A y \in NamedAt(a) : x <= y
        BY <1>1, <3>1, LeastPosition
      <4> QED BY <3>2, <4>1 DEF Least
    <3>4. PICK j \in DOMAIN servers : pos[j] = k
      BY <1>3, <3>3 DEF NamedAt, ServerOptions
    <3>5. Readable(servers[j].name) /\ pcp_ip(servers[j].name) = a
      BY <1>4, <3>3, <3>4 DEF NamedAt, ServerOptions
    <3>6. ASSUME NEW i \in DOMAIN servers, Readable(servers[i].name),
                 pcp_ip(servers[i].name) = a
          PROVE  i <= j
      <4>1. pos[i] \in NamedAt(a)
        BY <1>3, <1>4, <3>6 DEF NamedAt, ServerOptions
      <4>2. k <= pos[i] /\ pos[i] \in Int /\ k \in Int
        BY <3>1, <3>3, <4>1
      <4>3. ~(j < i)
        BY <1>3, <3>4, <4>2
      <4>4. i \in Int /\ j \in Int
        <5>1. servers \in Seq(ServerRec)
          BY DEF AppInv, ParseInv, ParamRec
        <5> QED BY <5>1
      <4> QED BY <4>3, <4>4
    <3>7. LastIn(servers, DOMAIN servers, j)
      BY <3>5, <3>6 DEF LastIn
    <3>8. ctx[a] = servers[j].version
      BY <1>5, <1>7, <3>5, <3>7 DEF Merged
    <3> QED BY <1>4, <2>2, <3>2, <3>4, <3>8
  <2> QED BY <2>1, <2>2
<1>9. ctx = [a \in D |-> v(a)]
  <2> HIDE DEF D, v
  <2> QED BY <1>7, <1>8
<1> QED BY <1>9, Zenon DEF ServersGetTheirVersion

(* The version of the parameters is a uint8_t and main is never without a   *)
(* known exit code at its end.                                              *)
THEOREM AppTypeCorrect == AppSpec => []TypeOK
BY AppInductive, AppInvTypeOK, PTL

(* The exit code of a request is the result of one of its flows, for any    *)
(* number of flows with any mixture of results.                             *)
THEOREM ExitTellsAResult == AppSpec => []ExitIsAFlowsResult
<1>1. AppInv => ExitIsAFlowsResult
  BY DEF AppInv
<1> QED BY <1>1, AppInductive, PTL

(* The request that is made was asked for, and no option that asks for the  *)
(* other kind was given, in command lines of any length.                    *)
THEOREM RequestsNotMixed == AppSpec => []OneKindOfRequest
BY AppInductive, AppInvOneKind, PTL

(* Each address that is named and has a route is a server once, with the    *)
(* version given last before its first mention; each gateway that is not    *)
(* named has the greatest version: for any gateways and routes and command  *)
(* lines of any length.                                                     *)
THEOREM ServersVersioned == AppSpec => []ServersGetTheirVersion
BY AppInductive, AppInvVersions, PTL
-----------------------------------------------------------------------------
(* Texts: where the characters that sock_pton looks for are in what inet_ntop *)
(* writes between them.                                                     *)
LEMMA LeastIs ==
  ASSUME NEW S, S \subseteq Int, NEW k \in S, \A j \in S : k <= j
  PROVE  Least(S) = k
<1>1. Least(S) \in S /\ \A j \in S : Least(S) <= j
  BY Zenon DEF Least
<1>2. k \in Int /\ Least(S) \in Int
  BY <1>1
<1> QED BY <1>1, <1>2, SMT

LEMMA GreatestIs ==
  ASSUME NEW S, S \subseteq Int, NEW k \in S, \A j \in S : j <= k
  PROVE  Greatest(S) = k
<1>1. Greatest(S) \in S /\ \A j \in S : j <= Greatest(S)
  BY Zenon DEF Greatest
<1>2. k \in Int /\ Greatest(S) \in Int
  BY <1>1
<1> QED BY <1>1, <1>2, SMT

LEMMA SameText ==
  ASSUME NEW S, NEW T, NEW a \in Seq(S), NEW b \in Seq(T), Len(a) = Len(b),
         \A k \in 1 .. Len(a) : a[k] = b[k]
  PROVE  a = b
<1>1. /\ a = [k \in 1 .. Len(a) |-> a[k]]
      /\ b = [k \in 1 .. Len(b) |-> b[k]]
  BY SMT
<1> QED BY <1>1, Zenon

(* The separators and the tokens of the numbers. *)
Token == STRING \cup {"[", "]", "/", ":", "NULL"}

LEMMA AddressFacts ==
  /\ V4Texts \cup V6Texts \subseteq Seq(STRING)
  /\ \A h \in V4Texts : Places(h, ":") = {} /\ h # <<>> /\ h # NoText
  /\ \A h \in V6Texts : Cardinality(Places(h, ":")) > 1
  /\ \A h \in V4Texts \cup V6Texts : \A k \in DOMAIN h :
       h[k] \notin {"[", "]", "/"}
  /\ \A n \in DOMAIN Value : /\ n \in STRING /\ Value[n] \in Nat
                             /\ n \notin {"[", "]", "/", ":", "NULL"}
  /\ AnyAddr \in V6Texts
BY AddressAssumption

LEMMA HostFacts ==
  ASSUME NEW h \in Hosts
  PROVE  /\ h \in Seq(Token) /\ Len(h) >= 1 /\ h # NoText
         /\ \A k \in 1 .. Len(h) : h[k] \notin {"[", "]", "/"}
         /\ h \in V4Texts => \A k \in 1 .. Len(h) : h[k] # ":"
         /\ h \in V6Texts => h \notin V4Texts
<1>1. h \in Seq(STRING)
  BY AddressFacts, Zenon DEF Hosts
<1>2. h \in Seq(Token) /\ DOMAIN h = 1 .. Len(h) /\ Len(h) \in Nat
  BY <1>1, SMT DEF Token
<1>3. \A k \in 1 .. Len(h) : h[k] \notin {"[", "]", "/"}
  BY <1>2, AddressFacts, Zenon DEF Hosts
<1>4. h \in V4Texts => Places(h, ":") = {} /\ h # <<>> /\ h # NoText
  BY AddressFacts, Zenon
<1>5. h \in V6Texts => Cardinality(Places(h, ":")) > 1
  BY AddressFacts, Zenon
<1>6. Cardinality({}) = 0 /\ ~(0 > 1)
  BY FS_EmptySet, SMT
<1>7. h \in V6Texts => \E k \in 1 .. Len(h) : h[k] = ":"
  BY <1>2, <1>5, <1>6, Zenon DEF Places
<1>8. h \in V4Texts => \A k \in 1 .. Len(h) : h[k] # ":"
  BY <1>2, <1>4, Zenon DEF Places
<1>9. h # NoText
  <2>1. ASSUME h = NoText, h \in V6Texts PROVE FALSE
    <3>1. Len(h) = 1 /\ h[1] = "NULL"
      BY <2>1, SMT DEF NoText
    <3>2. PICK k \in 1 .. Len(h) : h[k] = ":"
      BY <2>1, <1>7
    <3>3. k = 1
      BY <3>1, <3>2, SMT
    <3> QED BY <3>1, <3>2, <3>3, SMT
  <2> QED BY <2>1, <1>4, Zenon DEF Hosts
<1>10. Len(h) >= 1
  BY <1>2, <1>4, <1>7, SMT DEF Hosts
<1> QED BY <1>2, <1>3, <1>7, <1>8, <1>9, <1>10, Zenon

LEMMA PortFacts ==
  ASSUME NEW n \in Ports
  PROVE  /\ Digits(n) \in DOMAIN Value /\ Value[Digits(n)] = n /\ n \in Nat
         /\ Digits(n) \in Token
         /\ Digits(n) \notin {"[", "]", "/", ":", "NULL"}
<1>1. \E d \in DOMAIN Value : Value[d] = n
  BY Zenon DEF Ports
<1>2. Digits(n) \in DOMAIN Value /\ Value[Digits(n)] = n
  BY <1>1, Zenon DEF Digits
<1>3. n \in Nat /\ Digits(n) \in STRING \ {"[", "]", "/", ":", "NULL"}
  BY <1>2, AddressFacts, Zenon
<1> QED BY <1>2, <1>3, Zenon DEF Token

(* The search for the port. *)
LEMMA PortOfColon ==
  ASSUME NEW d \in Token, d # ":", NEW b \in BOOLEAN
  PROVE  PortPart(<<":", d>>, b) = <<d>>
<1> DEFINE rest == <<":", d>>
<1>1. Places(rest, ":") = {1}
  BY SMT DEF Places
<1>2. Cardinality({1}) = 1
  BY FS_Singleton, Zenon
<1>3. Least({1}) = 1
  BY LeastIs, SMT
<1>4. SubSeq(rest, 2, Len(rest)) = <<d>>
  <2> DEFINE a == SubSeq(rest, 2, Len(rest))
             b1 == <<d>>
  <2>1. a \in Seq(Token) /\ Len(a) = 1 /\ a[1] = d
    BY SMT DEF Token
  <2>2. b1 \in Seq(Token) /\ Len(b1) = 1 /\ b1[1] = d
    BY SMT
  <2> HIDE DEF a, b1
  <2>3. \A k \in 1 .. Len(a) : a[k] = b1[k]
    BY <2>1, <2>2, SMT
  <2>4. a = b1
    BY <2>1, <2>2, <2>3, SameText, SMT
  <2> QED BY <2>4, Zenon DEF a, b1
<1>5. ~(1 > 1) /\ 1 + 1 = 2
  BY SMT
<1> HIDE DEF rest
<1>6. PortPart(rest, b) = SubSeq(rest, Least({1}) + 1, Len(rest))
  BY <1>1, <1>2, <1>5, Zenon DEF PortPart
<1> QED BY <1>3, <1>4, <1>5, <1>6, Zenon DEF rest

LEMMA NoPort ==
  ASSUME NEW text, NEW b \in BOOLEAN,
         \/ Places(text, ":") = {}
         \/ ~b /\ Cardinality(Places(text, ":")) > 1
  PROVE  PortPart(text, b) = NoText
BY Zenon DEF PortPart

(* A bracketed host is what is between the brackets. *)
SplitAs(text, h, rest) ==
  /\ text # <<>> /\ text[1] = "[" /\ Places(text, "]") # {}
  /\ SubSeq(text, 2, Least(Places(text, "]")) - 1) = h
  /\ SubSeq(text, Least(Places(text, "]")) + 1, Len(text)) = rest

LEMMA Bracketed ==
  ASSUME NEW h \in Seq(Token), \A k \in 1 .. Len(h) : h[k] # "]",
         NEW rest \in Seq(Token), NEW text,
         text = <<"[">> \o h \o <<"]">> \o rest
  PROVE  SplitAs(text, h, rest)
<1>1. /\ text \in Seq(Token) /\ Len(text) = Len(h) + 2 + Len(rest)
      /\ DOMAIN text = 1 .. Len(text)
      /\ Len(h) \in Nat /\ Len(rest) \in Nat
  BY SMT DEF Token
<1>2. text[1] = "["
  BY SMT
<1>3. \A k \in 1 .. Len(h) : text[k + 1] = h[k]
  BY SMT
<1>4. text[Len(h) + 2] = "]"
  BY SMT
<1>5. \A k \in 1 .. Len(rest) : text[Len(h) + 2 + k] = rest[k]
  BY SMT
<1> HIDE DEF Token
<1>6. /\ Places(text, "]") \subseteq Int /\ Len(h) + 2 \in Places(text, "]")
      /\ \A j \in Places(text, "]") : Len(h) + 2 <= j
  <2>1. Places(text, "]") \subseteq Int /\ Len(h) + 2 \in Places(text, "]")
    BY <1>1, <1>4, SMT DEF Places
  <2>2. ASSUME NEW j \in Places(text, "]"), ~(Len(h) + 2 <= j)
        PROVE  FALSE
    <3>1. j \in 1 .. Len(text) /\ text[j] = "]"
      BY <1>1, <2>2, SMT DEF Places
    <3>2. j # 1
      BY <3>1, <1>2, SMT
    <3>3. j - 1 \in 1 .. Len(h) /\ text[(j - 1) + 1] = "]"
      BY <3>1, <3>2, <2>2, <1>1, SMT
    <3>4. h[j - 1] = "]"
      BY <3>3, <1>3, SMT
    <3> QED BY <3>3, <3>4
  <2> QED BY <2>1, <2>2, SMT
<1>7. Least(Places(text, "]")) = Len(h) + 2
  BY <1>6, LeastIs, Zenon
<1>8. SubSeq(text, 2, (Len(h) + 2) - 1) = h
  <2>1. /\ SubSeq(text, 2, (Len(h) + 2) - 1) \in Seq(Token)
        /\ Len(SubSeq(text, 2, (Len(h) + 2) - 1)) = Len(h)
        /\ \A k \in 1 .. Len(h) :
             SubSeq(text, 2, (Len(h) + 2) - 1)[k] = text[k + 1]
    BY <1>1, SMT
  <2> QED BY <2>1, <1>3, SameText, SMT
<1>9. SubSeq(text, (Len(h) + 2) + 1, Len(text)) = rest
  <2>1. /\ SubSeq(text, (Len(h) + 2) + 1, Len(text)) \in Seq(Token)
        /\ Len(SubSeq(text, (Len(h) + 2) + 1, Len(text))) = Len(rest)
        /\ \A k \in 1 .. Len(rest) :
             SubSeq(text, (Len(h) + 2) + 1, Len(text))[k] = text[Len(h) + 2 + k]
    BY <1>1, SMT
  <2> QED BY <2>1, <1>5, SameText, SMT
<1>10. text # <<>>
  BY <1>1, SMT
<1> QED BY <1>2, <1>6, <1>7, <1>8, <1>9, <1>10, Zenon DEF SplitAs

(* A host and its port without brackets. *)
LEMMA Unbracketed ==
  ASSUME NEW h \in Seq(Token), NEW d \in Token, d \notin {":", "NULL"},
         Len(h) >= 1,
         \A k \in 1 .. Len(h) : h[k] \notin {":", "["},
         NEW text, text = h \o <<":", d>>
  PROVE  /\ text # <<>> /\ text[1] # "["
         /\ PortPart(text, FALSE) = <<d>> /\ HostPart(text) = h
<1>1. /\ text \in Seq(Token) /\ Len(text) = Len(h) + 2 /\ Len(h) \in Nat
      /\ DOMAIN text = 1 .. Len(text)
      /\ \A k \in 1 .. Len(h) : text[k] = h[k]
      /\ text[Len(h) + 1] = ":" /\ text[Len(h) + 2] = d
  BY SMT DEF Token
<1> HIDE DEF Token
<1>2. text # <<>> /\ text[1] \notin {"[", ":"}
  BY <1>1, SMT
<1>3. Places(text, ":") = {Len(h) + 1}
  BY <1>1, SMT DEF Places
<1>4. Cardinality({Len(h) + 1}) = 1
  BY FS_Singleton, Zenon
<1>5. Least({Len(h) + 1}) = Len(h) + 1
  <2>1. /\ {Len(h) + 1} \subseteq Int /\ Len(h) + 1 \in {Len(h) + 1}
        /\ \A j \in {Len(h) + 1} : Len(h) + 1 <= j
    BY <1>1, SMT
  <2> QED BY <2>1, LeastIs, Zenon
<1>6. PortPart(text, FALSE) = SubSeq(text, (Len(h) + 1) + 1, Len(text))
  <2>1. ~(1 > 1)
    BY SMT
  <2> QED BY <1>3, <1>4, <1>5, <2>1, Zenon DEF PortPart
<1>7. SubSeq(text, (Len(h) + 1) + 1, Len(text)) = <<d>>
  <2> DEFINE a == SubSeq(text, (Len(h) + 1) + 1, Len(text))
             b == <<d>>
  <2>1. a \in Seq(Token) /\ Len(a) = 1 /\ a[1] = d
    BY <1>1, SMT
  <2>2. b \in Seq(Token) /\ Len(b) = 1 /\ b[1] = d
    BY SMT
  <2> HIDE DEF a, b
  <2>3. \A k \in 1 .. Len(a) : a[k] = b[k]
    BY <2>1, <2>2, SMT
  <2>4. a = b
    BY <2>1, <2>2, <2>3, SameText, SMT
  <2> QED BY <2>4, Zenon DEF a, b
<1>8. SubSeq(text, 1, (Len(h) + 1) - 1) = h
  <2> DEFINE a == SubSeq(text, 1, (Len(h) + 1) - 1)
  <2>1. /\ a \in Seq(Token) /\ Len(a) = Len(h)
        /\ \A k \in 1 .. Len(a) : a[k] = text[k]
    BY <1>1, SMT
  <2> HIDE DEF a
  <2>2. \A k \in 1 .. Len(a) : a[k] = h[k]
    BY <2>1, <1>1, SMT
  <2>3. a = h
    BY <2>1, <2>2, SameText, SMT
  <2> QED BY <2>3, Zenon DEF a
<1>9. <<d>> # NoText
  BY SMT DEF NoText
<1>10. HostPart(text) = SubSeq(text, 1, Least(Places(text, ":")) - 1)
  BY <1>2, <1>6, <1>7, <1>9, Zenon DEF HostPart
<1> QED BY <1>2, <1>3, <1>5, <1>6, <1>7, <1>8, <1>10, Zenon

(* What getaddrinfo makes of a host and of a number. *)
LEMMA Resolved ==
  ASSUME NEW h \in Hosts
  PROVE  /\ getaddrinfo(h, NoText) = Address(h, 0, 0)
         /\ \A n \in Ports : /\ getaddrinfo(h, <<Digits(n)>>) = Address(h, n, 0)
                             /\ getaddrinfo(NoText, <<Digits(n)>>) =
                                  Address(AnyAddr, n, 0)
<1>1. h # NoText /\ h \in V4Texts \cup V6Texts
  BY HostFacts, Zenon DEF Hosts
<1>2. getaddrinfo(h, NoText) = Address(h, 0, 0)
  BY <1>1, Zenon DEF getaddrinfo
<1>3. ASSUME NEW n \in Ports
      PROVE  /\ getaddrinfo(h, <<Digits(n)>>) = Address(h, n, 0)
             /\ getaddrinfo(NoText, <<Digits(n)>>) = Address(AnyAddr, n, 0)
  <2> DEFINE b == <<Digits(n)>>
  <2>1. Digits(n) \in DOMAIN Value /\ Value[Digits(n)] = n /\ Digits(n) # "NULL"
    BY <1>3, PortFacts, Zenon
  <2>2. Len(b) = 1 /\ b[1] = Digits(n) /\ b # <<>> /\ b # NoText
    BY <2>1, SMT DEF NoText
  <2> HIDE DEF b
  <2>3. b \notin {NoText, <<>>}
    BY <2>2, Zenon
  <2>4. getaddrinfo(h, b) = Address(h, n, 0)
    BY <1>1, <2>1, <2>2, <2>3, Zenon DEF getaddrinfo
  <2>5. getaddrinfo(NoText, b) = Address(AnyAddr, n, 0)
    BY <2>1, <2>2, <2>3, Zenon DEF getaddrinfo
  <2> QED BY <2>4, <2>5, Zenon DEF b
<1> QED BY <1>2, <1>3, Zenon

(* The ways to write an address, each read. *)
LEMMA ReadHost ==
  ASSUME NEW h \in Hosts
  PROVE  sock_pton(h) = Address(h, 0, 0)
<1>1. h \in Seq(Token) /\ Len(h) >= 1 /\ h[1] # "["
  <2>1. h \in Seq(Token) /\ Len(h) >= 1
    BY HostFacts, Zenon
  <2>2. 1 \in 1 .. Len(h)
    BY <2>1, SMT
  <2> QED BY <2>1, <2>2, HostFacts, Zenon
<1>2. PortPart(h, FALSE) = NoText
  <2>1. \/ Places(h, ":") = {}
        \/ Cardinality(Places(h, ":")) > 1
    BY AddressFacts, Zenon DEF Hosts
  <2> QED BY <2>1, NoPort, Zenon
<1>3. HostPart(h) = h
  BY <1>2, Zenon DEF HostPart
<1> QED BY <1>1, <1>2, <1>3, Resolved, Zenon DEF sock_pton

LEMMA ReadBracketed ==
  ASSUME NEW h \in Hosts, NEW rest \in Seq(Token), NEW text,
         text = <<"[">> \o h \o <<"]">> \o rest
  PROVE  sock_pton(text) = getaddrinfo(h, PortPart(rest, TRUE))
<1>1. h \in Seq(Token) /\ \A k \in 1 .. Len(h) : h[k] # "]"
  BY HostFacts, Zenon
<1>2. SplitAs(text, h, rest)
  BY <1>1, Bracketed, Zenon
<1> QED BY <1>2, Zenon DEF sock_pton, SplitAs

LEMMA ReadBrackets ==
  ASSUME NEW h \in Hosts
  PROVE  sock_pton(<<"[">> \o h \o <<"]">>) = Address(h, 0, 0)
<1> DEFINE t == <<"[">> \o h \o <<"]">>
<1>1. h \in Seq(Token)
  BY HostFacts, Zenon
<1>2. t = t \o <<>> /\ <<>> \in Seq(Token)
  <2>1. t \in Seq(Token)
    BY <1>1, SMT DEF Token
  <2> HIDE DEF t
  <2>2. /\ t \o <<>> \in Seq(Token) /\ Len(t) = Len(t \o <<>>)
        /\ \A k \in 1 .. Len(t) : t[k] = (t \o <<>>)[k]
    BY <2>1, SMT
  <2>3. t = t \o <<>>
    BY <2>1, <2>2, SameText, Zenon
  <2> QED BY <2>3, SMT
<1>3. PortPart(<<>>, TRUE) = NoText
  <2>1. Places(<<>>, ":") = {}
    BY SMT DEF Places
  <2> QED BY <2>1, NoPort, Zenon
<1>4. sock_pton(t) = getaddrinfo(h, PortPart(<<>>, TRUE))
  BY <1>2, ReadBracketed, Zenon
<1> QED BY <1>3, <1>4, Resolved, Zenon

LEMMA ReadBracketsPort ==
  ASSUME NEW h \in Hosts, NEW n \in Ports
  PROVE  sock_pton(<<"[">> \o h \o <<"]">> \o <<":", Digits(n)>>) =
           Address(h, n, 0)
<1> DEFINE rest == <<":", Digits(n)>>
<1>1. Digits(n) \in Token /\ Digits(n) # ":"
  BY PortFacts, Zenon
<1>2. rest \in Seq(Token)
  BY <1>1, SMT DEF Token
<1>3. PortPart(rest, TRUE) = <<Digits(n)>>
  BY <1>1, PortOfColon, Zenon
<1> HIDE DEF rest
<1>4. sock_pton(<<"[">> \o h \o <<"]">> \o rest) = Address(h, n, 0)
  BY <1>2, <1>3, ReadBracketed, Resolved, Zenon
<1> QED BY <1>4, Zenon DEF rest

LEMMA ReadPlainPort ==
  ASSUME NEW h \in V4Texts, NEW n \in Ports
  PROVE  sock_pton(h \o <<":", Digits(n)>>) = Address(h, n, 0)
<1> DEFINE text == h \o <<":", Digits(n)>>
<1>1. h \in Hosts
  BY Zenon DEF Hosts
<1>2. /\ h \in Seq(Token) /\ Len(h) >= 1
      /\ \A k \in 1 .. Len(h) : h[k] \notin {":", "["}
  BY <1>1, HostFacts, Zenon
<1>3. Digits(n) \in Token /\ Digits(n) \notin {":", "NULL"}
  BY PortFacts, Zenon
<1>4. /\ text # <<>> /\ text[1] # "["
      /\ PortPart(text, FALSE) = <<Digits(n)>> /\ HostPart(text) = h
  BY <1>2, <1>3, Unbracketed, Zenon
<1> HIDE DEF text
<1>5. sock_pton(text) = Address(h, n, 0)
  BY <1>1, <1>4, Resolved, Zenon DEF sock_pton
<1> QED BY <1>5, Zenon DEF text

LEMMA ReadPortAlone ==
  ASSUME NEW n \in Ports
  PROVE  sock_pton(<<":", Digits(n)>>) = Address(AnyAddr, n, 0)
<1> DEFINE text == <<":", Digits(n)>>
<1>1. Digits(n) \in Token /\ Digits(n) \notin {":", "NULL"}
  BY PortFacts, Zenon
<1>2. PortPart(text, FALSE) = <<Digits(n)>>
  BY <1>1, PortOfColon, Zenon
<1>3. text[1] = ":" /\ text[1] # "[" /\ <<Digits(n)>> # NoText
  BY <1>1, SMT DEF NoText
<1>4. AnyAddr \in Hosts
  BY AddressFacts, Zenon DEF Hosts
<1> HIDE DEF text
<1>5. HostPart(text) = NoText
  BY <1>2, <1>3, Zenon DEF HostPart
<1>6. sock_pton(text) = Address(AnyAddr, n, 0)
  BY <1>2, <1>3, <1>4, <1>5, Resolved, Zenon DEF sock_pton
<1> QED BY <1>6, Zenon DEF text

(* Every way to write an address and a port. *)
LEMMA ReadWritten ==
  ASSUME NEW h \in Hosts, NEW n \in Ports, NEW text \in Written(h, n)
  PROVE  sock_pton(text) = Address(h, n, 0)
<1>1. CASE text = <<"[">> \o h \o <<"]">> \o <<":", Digits(n)>>
  BY <1>1, ReadBracketsPort, Zenon
<1>2. CASE n = 0 /\ text \in {h, <<"[">> \o h \o <<"]">>}
  BY <1>2, ReadHost, ReadBrackets, Zenon
<1>3. CASE h \in V4Texts /\ text = h \o <<":", Digits(n)>>
  BY <1>3, ReadPlainPort, Zenon
<1>4. CASE h = AnyAddr /\ text = <<":", Digits(n)>>
  BY <1>4, ReadPortAlone, Zenon
<1> QED BY <1>1, <1>2, <1>3, <1>4, Zenon DEF Written

(* What sock_ntop writes. *)
LEMMA ReadBack ==
  ASSUME NEW text, sock_pton(text).ok
  PROVE  sock_pton(sock_ntop(sock_pton(text).host, sock_pton(text).port)) =
           sock_pton(text)
<1>1. PICK host, port : sock_pton(text) = getaddrinfo(host, port)
  <2>1. ~Refused.ok
    BY SMT DEF Refused
  <2> QED BY <2>1, Zenon DEF sock_pton
<1>2. PICK h \in Hosts, n \in Ports \cup {0} :
        getaddrinfo(host, port) = Address(h, n, 0)
  <2>1. ~Refused.ok
    BY SMT DEF Refused
  <2>2. AnyAddr \in Hosts
    BY AddressFacts, Zenon DEF Hosts
  <2>3. \A d \in DOMAIN Value : Value[d] \in Ports
    BY Zenon DEF Ports
  <2>4. /\ host # NoText => host \in V4Texts \cup V6Texts
        /\ port \notin {NoText, <<>>} => Len(port) = 1 /\ port[1] \in DOMAIN Value
    BY <1>1, <2>1, Zenon DEF getaddrinfo
  <2> DEFINE h == IF host = NoText THEN AnyAddr ELSE host
             n == IF port \in {NoText, <<>>} THEN 0 ELSE Value[port[1]]
  <2>5. getaddrinfo(host, port) = Address(h, n, 0)
    BY <1>1, <2>1, Zenon DEF getaddrinfo
  <2>6. h \in Hosts /\ n \in Ports \cup {0}
    BY <2>2, <2>3, <2>4, Zenon DEF Hosts
  <2> HIDE DEF h, n
  <2> QED BY <2>5, <2>6, Zenon
<1>3. sock_pton(text).host = h /\ sock_pton(text).port = n
  BY <1>1, <1>2, SMT DEF Address
<1>4. sock_pton(sock_ntop(h, n)) = Address(h, n, 0)
  <2>1. CASE n = 0
    BY <2>1, ReadHost, Zenon DEF sock_ntop
  <2>2. CASE n # 0
    <3>1. n \in Ports
      BY <2>2, Zenon
    <3>2. CASE h \in V6Texts
      BY <2>2, <3>1, <3>2, ReadBracketsPort, Zenon DEF sock_ntop
    <3>3. CASE h \notin V6Texts
      BY <2>2, <3>1, <3>3, ReadPlainPort, Zenon DEF sock_ntop, Hosts
    <3> QED BY <3>2, <3>3
  <2> QED BY <2>1, <2>2
<1> QED BY <1>1, <1>2, <1>3, <1>4, Zenon

(* A filter: the prefix is behind the last "/" between the brackets. *)
CutAs(inside, h, d) ==
  /\ inside \in Seq(Token) /\ Places(inside, "/") # {}
  /\ \A k \in 1 .. Len(inside) : inside[k] # "]"
  /\ SubSeq(inside, 1, Greatest(Places(inside, "/")) - 1) = h
  /\ SubSeq(inside, Greatest(Places(inside, "/")) + 1, Len(inside)) = <<d>>

LEMMA Cut ==
  ASSUME NEW h \in Seq(Token), NEW d \in Token, d \notin {"/", "]"},
         \A k \in 1 .. Len(h) : h[k] \notin {"/", "]"},
         NEW inside, inside = h \o <<"/", d>>
  PROVE  CutAs(inside, h, d)
<1>1. /\ inside \in Seq(Token) /\ Len(inside) = Len(h) + 2 /\ Len(h) \in Nat
      /\ DOMAIN inside = 1 .. Len(inside)
      /\ \A k \in 1 .. Len(h) : inside[k] = h[k]
      /\ inside[Len(h) + 1] = "/" /\ inside[Len(h) + 2] = d
  BY SMT DEF Token
<1> HIDE DEF Token
<1>2. Places(inside, "/") = {Len(h) + 1}
  BY <1>1, SMT DEF Places
<1>3. \A k \in 1 .. Len(inside) : inside[k] # "]"
  BY <1>1, SMT
<1>4. Greatest({Len(h) + 1}) = Len(h) + 1
  <2>1. /\ {Len(h) + 1} \subseteq Int /\ Len(h) + 1 \in {Len(h) + 1}
        /\ \A j \in {Len(h) + 1} : j <= Len(h) + 1
    BY <1>1, SMT
  <2> QED BY <2>1, GreatestIs, Zenon
<1>5. SubSeq(inside, 1, (Len(h) + 1) - 1) = h
  <2> DEFINE a == SubSeq(inside, 1, (Len(h) + 1) - 1)
  <2>1. /\ a \in Seq(Token) /\ Len(a) = Len(h)
        /\ \A k \in 1 .. Len(a) : a[k] = inside[k]
    BY <1>1, SMT
  <2> HIDE DEF a
  <2>2. \A k \in 1 .. Len(a) : a[k] = h[k]
    BY <2>1, <1>1, SMT
  <2>3. a = h
    BY <2>1, <2>2, SameText, SMT
  <2> QED BY <2>3, Zenon DEF a
<1>6. SubSeq(inside, (Len(h) + 1) + 1, Len(inside)) = <<d>>
  <2> DEFINE a == SubSeq(inside, (Len(h) + 1) + 1, Len(inside))
             b == <<d>>
  <2>1. a \in Seq(Token) /\ Len(a) = 1 /\ a[1] = d
    BY <1>1, SMT
  <2>2. b \in Seq(Token) /\ Len(b) = 1 /\ b[1] = d
    BY SMT
  <2> HIDE DEF a, b
  <2>3. \A k \in 1 .. Len(a) : a[k] = b[k]
    BY <2>1, <2>2, SMT
  <2>4. a = b
    BY <2>1, <2>2, <2>3, SameText, SMT
  <2> QED BY <2>4, Zenon DEF a, b
<1> QED BY <1>1, <1>2, <1>3, <1>4, <1>5, <1>6, Zenon DEF CutAs

LEMMA FilterText ==
  ASSUME NEW h \in Seq(Token), NEW d \in Token, NEW e \in Token
  PROVE  <<"[">> \o h \o <<"/", d, "]", ":", e>> =
           <<"[">> \o (h \o <<"/", d>>) \o <<"]">> \o <<":", e>>
<1> DEFINE a == <<"[">> \o h \o <<"/", d, "]", ":", e>>
           b == <<"[">> \o (h \o <<"/", d>>) \o <<"]">> \o <<":", e>>
<1>1. a \in Seq(Token) /\ b \in Seq(Token)
  BY SMT DEF Token
<1>2. Len(a) = Len(h) + 6 /\ Len(b) = Len(h) + 6 /\ Len(h) \in Nat
  BY SMT
<1>3. /\ a[1] = "[" /\ \A k \in 1 .. Len(h) : a[k + 1] = h[k]
      /\ a[Len(h) + 2] = "/" /\ a[Len(h) + 3] = d /\ a[Len(h) + 4] = "]"
      /\ a[Len(h) + 5] = ":" /\ a[Len(h) + 6] = e
  BY SMT
<1>4. /\ b[1] = "[" /\ \A k \in 1 .. Len(h) : b[k + 1] = h[k]
      /\ b[Len(h) + 2] = "/" /\ b[Len(h) + 3] = d /\ b[Len(h) + 4] = "]"
      /\ b[Len(h) + 5] = ":" /\ b[Len(h) + 6] = e
  BY SMT
<1> HIDE DEF a, b
<1>5. ASSUME NEW k \in 1 .. Len(a) PROVE a[k] = b[k]
  <2>1. CASE k - 1 \in 1 .. Len(h)
    <3>1. a[(k - 1) + 1] = b[(k - 1) + 1]
      BY <2>1, <1>3, <1>4, Zenon
    <3>2. (k - 1) + 1 = k
      BY <1>2, <1>5, SMT
    <3> QED BY <3>1, <3>2, Zenon
  <2>2. CASE k - 1 \notin 1 .. Len(h)
    <3>1. \/ k = 1 \/ k = Len(h) + 2 \/ k = Len(h) + 3 \/ k = Len(h) + 4
          \/ k = Len(h) + 5 \/ k = Len(h) + 6
      BY <2>2, <1>2, <1>5, SMT
    <3> QED BY <3>1, <1>3, <1>4, Zenon
  <2> QED BY <2>1, <2>2
<1>6. a = b
  BY <1>1, <1>2, <1>5, SameText, SMT
<1> QED BY <1>6, Zenon DEF a, b

LEMMA ReadFilter ==
  ASSUME NEW h \in Hosts, NEW n \in Ports, NEW m \in Ports
  PROVE  sock_pton_with_prefix(
             <<"[">> \o h \o <<"/", Digits(n), "]", ":", Digits(m)>>) =
           IF n <= MaxPrefix(h) THEN Address(h, m, n) ELSE Refused
<1> DEFINE inside == h \o <<"/", Digits(n)>>
           rest == <<":", Digits(m)>>
           text == <<"[">> \o inside \o <<"]">> \o rest
<1>1. /\ h \in Seq(Token) /\ \A k \in 1 .. Len(h) : h[k] \notin {"/", "]"}
  BY HostFacts, Zenon
<1>2. /\ Digits(n) \in DOMAIN Value /\ Value[Digits(n)] = n /\ n \in Nat
      /\ Digits(n) \in Token /\ Digits(n) \notin {"/", "]", "NULL"}
      /\ Digits(m) \in Token /\ Digits(m) # ":"
  BY PortFacts, Zenon
<1>3. <<"[">> \o h \o <<"/", Digits(n), "]", ":", Digits(m)>> = text
  BY <1>1, <1>2, FilterText, Zenon
<1>4. CutAs(inside, h, Digits(n))
  BY <1>1, <1>2, Cut, Zenon
<1>5. rest \in Seq(Token)
  BY <1>2, SMT DEF Token
<1>6. PortPart(rest, TRUE) = <<Digits(m)>>
  BY <1>2, PortOfColon, Zenon
<1>7. PrefixOf(<<Digits(n)>>) = n
  <2>1. /\ <<Digits(n)>> # NoText /\ <<Digits(n)>> # <<>>
        /\ <<Digits(n)>>[1] = Digits(n)
    BY <1>2, SMT DEF NoText
  <2> QED BY <2>1, <1>2, Zenon DEF PrefixOf
<1>8. getaddrinfo(h, <<Digits(m)>>) = Address(h, m, 0)
  BY Resolved, Zenon
<1> HIDE DEF inside, rest
<1>9. SplitAs(text, inside, rest)
  BY <1>4, <1>5, Bracketed, Zenon DEF CutAs
<1>10. /\ Address(h, m, 0).ok
       /\ [Address(h, m, 0) EXCEPT !.prefix = n] = Address(h, m, n)
  <2>1. PICK t : t = TRUE
    BY Zenon
  <2>2. [[ok |-> t, host |-> h, port |-> m, prefix |-> 0] EXCEPT !.prefix = n] =
          [ok |-> t, host |-> h, port |-> m, prefix |-> n]
    BY SMT
  <2>3. [Address(h, m, 0) EXCEPT !.prefix = n] = Address(h, m, n)
    BY <2>1, <2>2, Zenon DEF Address
  <2>4. Address(h, m, 0).ok
    BY SMT DEF Address
  <2> QED BY <2>3, <2>4, Zenon
<1> HIDE DEF text
<1>11. sock_pton_with_prefix(text) =
         IF ~Address(h, m, 0).ok \/ n > MaxPrefix(h) THEN Refused
         ELSE [Address(h, m, 0) EXCEPT !.prefix = n]
  BY <1>4, <1>6, <1>7, <1>8, <1>9, Zenon
     DEF sock_pton_with_prefix, SplitAs, CutAs
<1>12. (n > MaxPrefix(h)) = ~(n <= MaxPrefix(h))
  BY <1>2, SMT DEF MaxPrefix
<1> QED BY <1>3, <1>10, <1>11, <1>12, Zenon

(* Whatever the command line: nothing that it asks to be read is misread.   *)
LEMMA TextsRead == WrittenIsRead /\ RoundTrip
<1>1. WrittenIsRead
  <2> SUFFICES ASSUME NEW k \in DOMAIN argv, NEW h \in Hosts, NEW n \in Ports
               PROVE  /\ argv[k].arg \in Written(h, n) =>
                           sock_pton(argv[k].arg) = Address(h, n, 0)
                      /\ \A m \in Ports :
                           argv[k].arg =
                               <<"[">> \o h \o
                               <<"/", Digits(n), "]", ":", Digits(m)>> =>
                             sock_pton_with_prefix(argv[k].arg) =
                               IF n <= MaxPrefix(h) THEN Address(h, m, n)
                               ELSE Refused
    BY Zenon DEF WrittenIsRead
  <2>1. PICK t : t = argv[k].arg
    BY Zenon
  <2>2. t \in Written(h, n) => sock_pton(t) = Address(h, n, 0)
    BY ReadWritten, Zenon
  <2>3. ASSUME NEW m \in Ports,
               t = <<"[">> \o h \o <<"/", Digits(n), "]", ":", Digits(m)>>
        PROVE  sock_pton_with_prefix(t) =
                 IF n <= MaxPrefix(h) THEN Address(h, m, n) ELSE Refused
    BY <2>3, ReadFilter, Zenon
  <2> QED BY <2>1, <2>2, <2>3, Zenon
<1>2. RoundTrip
  <2> SUFFICES ASSUME NEW k \in DOMAIN argv, sock_pton(argv[k].arg).ok
               PROVE  sock_pton(sock_ntop(sock_pton(argv[k].arg).host,
                                          sock_pton(argv[k].arg).port)) =
                        sock_pton(argv[k].arg)
    BY Zenon DEF RoundTrip
  <2>1. PICK t : t = argv[k].arg
    BY Zenon
  <2>2. sock_pton(t).ok =>
          sock_pton(sock_ntop(sock_pton(t).host, sock_pton(t).port)) =
            sock_pton(t)
    BY ReadBack, Zenon
  <2> QED BY <2>1, <2>2, Zenon
<1> QED BY <1>1, <1>2

(* An address on the command line is read as it is written, with its port   *)
(* and its prefix (sock_pton, sock_pton_with_prefix), for every text that   *)
(* inet_ntop may write and every number.                                    *)
THEOREM AddressesRead == AppSpec => []WrittenIsRead
<1>1. WrittenIsRead
  BY TextsRead
<1> QED BY <1>1, PTL

(* What sock_ntop writes of an address that was read is read as the same    *)
(* address and port.                                                        *)
THEOREM AddressesRoundTrip == AppSpec => []RoundTrip
<1>1. RoundTrip
  BY TextsRead
<1> QED BY <1>1, PTL
=============================================================================
