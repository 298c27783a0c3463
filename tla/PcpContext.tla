----------------------------- MODULE PcpContext -----------------------------
(***************************************************************************)
(* A whole pcp_ctx_t: the servers of PcpDiscovery and the hash table of    *)
(* the flows in pcp_client_db.c, whose chains pcp_db_foreach_flow walks    *)
(* while its callback changes them.                                        *)
(***************************************************************************)
EXTENDS PcpDiscovery, FiniteSets

CONSTANTS
  Named,     \* servers the application adds: address and interface
  V4,        \* the addresses that are IPv4, mapped
  Requests,  \* what the application asks for: source port, protocol
  Announce,  \* what the NAT-PMP ping asks for
  NFlows,    \* bound: there is no memory for more flows
  NBuckets,  \* FLOW_HASH_SIZE
  compute_flow_key(_),
  Sources    \* source addresses: any, or of a family and an interface

VARIABLES
  flows,     \* the flows that are allocated
  chain,     \* ctx->pcp_db.flows: the chain of every bucket
  flow_cnt,
  order,     \* history: the flows in the table, oldest first
  iter       \* pcp_db_foreach_flow

table == <<flows, chain, flow_cnt, order>>
cvars == <<nl, servers, flows, chain, flow_cnt, order, iter>>

FlowIds == 1..NFlows
Buckets == 0..(NBuckets - 1)

(* What of struct flow_key_data tells flows apart. *)
KeyRec == [ip : Ips, scope : Scopes, req : Requests \cup {Announce}]

ASSUME ContextAssumption ==
  /\ Named \subseteq (Ips \ {AnyIp}) \X Scopes
  /\ V4 \subseteq Ips \ LinkLocal /\ Announce \notin Requests
  /\ NFlows \in Nat /\ NBuckets \in Nat \ {0}
  /\ \A kd \in KeyRec : compute_flow_key(kd) \in Buckets

(* kd, pcp_server_indx and next_child. moved: history, the server was       *)
(* dropped from its slot while the flow was there.                          *)
FlowRec == [kd : KeyRec, indx : Nat, child : FlowIds \cup {NULL},
            moved : BOOLEAN]

(* The walk is in chain indx; the callback has the flow fdb, and fdb_next   *)
(* is next. all: the callback is delete_flow_iter; close: with close_flows. *)
(* left, seen: history, the flows that were in the table when it began and  *)
(* were not given to the callback yet, and those it was given and has left. *)
IterRec == [on : BOOLEAN, indx : 0..NBuckets, fdb : FlowIds \cup {NULL},
            next : FlowIds \cup {NULL}, all : BOOLEAN, close : BOOLEAN,
            left : SUBSET FlowIds, seen : SUBSET FlowIds]
NoIter == [on |-> FALSE, indx |-> 0, fdb |-> NULL, next |-> NULL,
           all |-> FALSE, close |-> FALSE, left |-> {}, seen |-> {}]

Init ==
  /\ nl = NoLookup /\ servers = <<>>
  /\ flows = <<>> /\ chain = [b \in Buckets |-> <<>>]
  /\ flow_cnt = 0 /\ order = <<>> /\ iter = NoIter

-----------------------------------------------------------------------------
(* The hash table. *)

(* pcp_db_add_flow, at the end of its chain. *)
pcp_db_add_flow(ch, f, kd) ==
  [ch EXCEPT ![compute_flow_key(kd)] = Append(@, f)]

AddAll(ids, kds) ==
  FoldLeftDomain(LAMBDA ch, k : pcp_db_add_flow(ch, ids[k], kds[k]),
                 chain, ids)

(* pcp_db_rem_flow: found by the bucket that key_bucket keeps. *)
Without(seq, gone) ==
  FoldLeft(LAMBDA rest, f : IF f \in gone THEN rest ELSE Append(rest, f),
           <<>>, seq)

Bucket_Last(f) == NBuckets - 1  \* mutant: key_bucket is not kept

Bucket(f) == compute_flow_key(flows[f].kd)

RemoveAll(gone) ==
  [b \in Buckets |-> Without(chain[b], {f \in gone : Bucket(f) = b})]

Removed_Twice(gone) == 2 * Cardinality(gone)  \* mutant: counted down twice

Removed(gone) == Cardinality({f \in gone : \E i \in DOMAIN chain[Bucket(f)] :
                                chain[Bucket(f)][i] = f})

(* The flow with this key and server, the first in its chain; or NULL.      *)
pcp_get_flow(kd, i) ==
  LET ch == chain[compute_flow_key(kd)]
      at == {k \in DOMAIN ch : flows[ch[k]].kd = kd /\ flows[ch[k]].indx = i}
  IN  IF at = {} THEN NULL ELSE ch[CHOOSE k \in at : \A j \in at : k <= j]

-----------------------------------------------------------------------------
(* chain_and_assign_src_ip: a server is passed over if it was given up or   *)
(* does not suit the source address. A gateway without a route has itself   *)
(* no source address, which is not an IPv4 one.                             *)
Source(any, v4, scope) == [any |-> any, v4 |-> v4, scope |-> scope]

Suits(i, src) ==
  /\ InUse(i) /\ servers[i].state # "pss_not_working"
  /\ src.any \/ /\ src.v4 <=> /\ servers[i].state # "pss_allocated"
                              /\ servers[i].ip \in V4
                /\ src.scope = servers[i].scope

Suitable(src) ==
  FoldLeftDomain(LAMBDA on, i : IF Suits(i, src) THEN Append(on, i) ELSE on,
                 <<>>, servers)

(* New flows in the table, linked by next_child: on[k] is the server of the *)
(* k-th and kds[k] its key.                                                 *)
AddFlows(on, kds) ==
  LET free == SetToSeq(FlowIds \ DOMAIN flows)
      ids  == [k \in DOMAIN on |-> free[k]]
      new(f) == LET k == CHOOSE j \in DOMAIN ids : ids[j] = f
                IN  [kd |-> kds[k], indx |-> on[k], moved |-> FALSE,
                     child |-> IF k < Len(ids) THEN ids[k + 1] ELSE NULL]
  IN  /\ Len(on) <= Len(free)
      /\ flows' = [f \in DOMAIN flows \cup ToSet(ids) |->
                     IF f \in DOMAIN flows THEN flows[f] ELSE new(f)]
      /\ chain' = AddAll(ids, kds)
      /\ flow_cnt' = flow_cnt + Len(ids)
      /\ order' = order \o ids

(* pcp_new_flow. If there is no memory for one of the flows, those that are *)
(* there already are deleted.                                               *)
pcp_new_flow(src, req) ==
  LET on == Suitable(src)
  IN  AddFlows(on, [k \in DOMAIN on |-> [ip |-> servers[on[k]].ip,
                                         scope |-> servers[on[k]].scope,
                                         req |-> req]])

(* create_natpmp_ann_msg, when pcp_pulse falls back to NAT-PMP. The key has *)
(* no interface.                                                            *)
create_natpmp_ann_msg(i) ==
  /\ servers[i].state = "pss_ping"
  /\ AddFlows(<<i>>, <<[ip |-> servers[i].ip, scope |-> 0, req |-> Announce]>>)

(* pcp_delete_flow_intern for every flow of gone. *)
Delete(gone) ==
  /\ chain' = RemoveAll(gone)
  /\ flow_cnt' = flow_cnt - Removed(gone)
  /\ flows' = [f \in DOMAIN flows \ gone |-> flows[f]]
  /\ order' = Without(order, gone)

(* The flows from f on in its next_child chain: the least set that has f    *)
(* and no child outside.                                                    *)
Closed(S) == \A g \in S : flows[g].child \in S \cup {NULL}

ChildrenFrom(f) ==
  {g \in DOMAIN flows :
     \A S \in SUBSET DOMAIN flows : f \in S /\ Closed(S) => g \in S}

(* The handle that the application has is the head of a chain. It has none  *)
(* of an ANNOUNCE.                                                          *)
pcp_delete_flow(f) ==
  /\ f \in DOMAIN flows /\ flows[f].kd.req # Announce
  /\ \A g \in DOMAIN flows : flows[g].child # f
  /\ Delete(ChildrenFrom(f))

-----------------------------------------------------------------------------
(* pcp_db_foreach_flow. *)

After(ch, f) ==
  LET behind == {k \in DOMAIN ch : k > 1 /\ ch[k - 1] = f}
  IN  IF behind = {} THEN NULL ELSE ch[CHOOSE k \in behind : TRUE]

IterStart_One(all, close) ==  \* mutant: the first chain is left out
  /\ ~iter.on
  /\ iter' = [NoIter EXCEPT !.on = TRUE, !.indx = 1, !.all = all,
                            !.close = close, !.left = DOMAIN flows]
  /\ UNCHANGED table

IterStart(all, close) ==
  /\ ~iter.on
  /\ iter' = [NoIter EXCEPT !.on = TRUE, !.all = all, !.close = close,
                            !.left = DOMAIN flows]
  /\ UNCHANGED table

(* The next chain is begun. The flow behind is read with the flow, before   *)
(* the callback is called.                                                  *)
IterStep ==
  /\ iter.on /\ iter.fdb = NULL /\ iter.indx < NBuckets
  /\ LET ch == chain[iter.indx]
     IN  iter' = IF ch = <<>> THEN [iter EXCEPT !.indx = @ + 1]
                 ELSE [iter EXCEPT !.fdb = Head(ch), !.next = After(ch, Head(ch))]
  /\ UNCHANGED table

fdb_next_Late(after) ==  \* mutant: read after the callback
  IF \E k \in DOMAIN after : after[k] = iter.fdb THEN After(after, iter.fdb)
  ELSE iter.fdb

fdb_next(after) == iter.next

(* The callback returns; delete_flow_iter has just freed the flow. What it  *)
(* does before is for the actions that InCallback enables.                  *)
IterVisit ==
  /\ iter.on /\ iter.fdb # NULL
  /\ IF iter.all THEN Delete({iter.fdb}) ELSE UNCHANGED table
  /\ LET fdb == fdb_next(chain'[iter.indx])
     IN  iter' = [iter EXCEPT
           !.fdb  = fdb, !.next = After(chain'[iter.indx], fdb),
           !.indx = IF fdb = NULL THEN @ + 1 ELSE @,
           !.left = @ \ {iter.fdb},
           !.seen = IF iter.all THEN {} ELSE @ \cup {iter.fdb}]

(* The callback has found what it was looking for. *)
IterStop ==
  /\ iter.on /\ iter.fdb # NULL /\ ~iter.all
  /\ iter' = NoIter /\ UNCHANGED table

IterEnd ==
  /\ iter.on /\ iter.fdb = NULL /\ iter.indx = NBuckets
  /\ ~iter.all
  /\ iter' = NoIter /\ UNCHANGED table

(* pcp_terminate: after the flows, pcp_db_free_pcp_servers; and pcp_init    *)
(* for a new context with an empty table. A flow that the walk has left is  *)
(* not freed any more.                                                      *)
pcp_terminate ==
  /\ iter.on /\ iter.fdb = NULL /\ iter.indx = NBuckets /\ iter.all
  /\ servers' = <<>> /\ nl' = NoLookup /\ iter' = NoIter
  /\ flows' = <<>> /\ chain' = [b \in Buckets |-> <<>>]
  /\ flow_cnt' = 0 /\ order' = <<>>

-----------------------------------------------------------------------------
(* The composition. *)
Idle == nl.at = "ready" /\ ~iter.on

(* In the callback of a walk the application, told of a change, may ask for *)
(* flows; delete_flow_iter with close_flows closes its flow and runs        *)
(* pcp_pulse, which besides moves the servers and pings them.               *)
InCallback == iter.fdb # NULL /\ (iter.all => iter.close)

Working == Idle \/ InCallback

Discover == (Lookup /\ UNCHANGED servers) \/ psd_add_gw \/ pcp_init

(* A server that is dropped leaves its flows behind. *)
AddServer ==
  /\ \E s \in Named : psd_add_pcp_server(s[1], s[2])
  /\ flows' = [f \in DOMAIN flows |->
       IF servers'[flows[f].indx].state = "pss_unitialized"
       THEN [flows[f] EXCEPT !.moved = TRUE] ELSE flows[f]]
  /\ UNCHANGED <<chain, flow_cnt, order>>

Next ==
  \/ Discover /\ UNCHANGED <<table, iter>>
  \/ Idle /\ AddServer /\ UNCHANGED iter
  \/ Working /\ ServerMoves /\ UNCHANGED <<table, iter>>
  \/ Working /\ UNCHANGED <<nl, servers, iter>>
       /\ \/ \E src \in Sources, req \in Requests : pcp_new_flow(src, req)
          \/ \E i \in DOMAIN servers : create_natpmp_ann_msg(i)
  \/ Idle /\ UNCHANGED <<nl, servers, iter>>
       /\ \E f \in FlowIds : pcp_delete_flow(f)
  \/ nl.at = "ready" /\ UNCHANGED <<nl, servers>>
       /\ \/ \E all, close \in BOOLEAN : (close => all) /\ IterStart(all, close)
          \/ IterStep \/ IterVisit \/ IterStop \/ IterEnd
  \/ pcp_terminate

Spec == Init /\ [][Next]_cvars

-----------------------------------------------------------------------------
(* Properties. *)

TypeOK ==
  /\ servers \in Seq(SlotRec) /\ Len(servers) <= MaxServers
  /\ DOMAIN flows \subseteq FlowIds
  /\ \A f \in DOMAIN flows : flows[f] \in FlowRec
  /\ \A b \in Buckets : chain[b] \in Seq(FlowIds)
  /\ flow_cnt \in 0..NFlows /\ iter \in IterRec

(* Every allocated flow is in the chain of its hash, once and nowhere else, *)
(* no chain holds a freed one, and flow_cnt counts them, whatever was added *)
(* and removed, and in which order.                                         *)
TableWellFormed ==
  /\ \A b \in Buckets, f \in FlowIds :
       Cardinality({k \in DOMAIN chain[b] : chain[b][k] = f}) =
         IF f \in DOMAIN flows /\ compute_flow_key(flows[f].kd) = b
         THEN 1 ELSE 0
  /\ flow_cnt = Cardinality(DOMAIN flows)

(* The flow that pcp_db_foreach_flow holds is in the chain it walks, even   *)
(* when the callback has just freed the one before it; and so is, through   *)
(* all that happens in the callback, the one it will go on with.            *)
IterationHoldsLive ==
  \A f \in {iter.fdb, iter.next} \ {NULL} :
    f \in DOMAIN flows /\ Bucket(f) = iter.indx

(* A flow is given to the callback once, and one that was in the table when *)
(* the walk began is not passed over, whatever is added meanwhile. So       *)
(* pcp_terminate frees every flow it finds, and without close_flows leaves  *)
(* none; with close_flows pcp_pulse may add some behind the walk.           *)
IterationIsComplete ==
  /\ iter.fdb \notin iter.seen
  /\ iter.on /\ iter.indx = NBuckets =>
       /\ iter.left = {}
       /\ iter.all /\ ~iter.close => flow_cnt = 0

(* An answer that a server sends to a flow reaches this flow, or the oldest *)
(* one with the same key: the address of the sender leads pcp_pulse to the  *)
(* server at the index the flow has, and the key in the answer to the flow, *)
(* also when the array has grown, two interfaces have a gateway with the    *)
(* same address, or a server was added again. Only flows of a server that   *)
(* was dropped are out of reach. (The answer to a NAT-PMP ANNOUNCE is not    *)
(* looked up, it is for ping_flow_msg.)                                     *)
AnswerReachesFlow ==
  \A f \in DOMAIN flows :
    ~flows[f].moved /\ flows[f].kd.req # Announce =>
      LET kd == flows[f].kd
          i  == get_pcp_server_by_ip(kd.ip, kd.scope)
          k  == CHOOSE j \in DOMAIN order :
                  /\ flows[order[j]].kd = kd /\ flows[order[j]].indx = i
                  /\ \A l \in 1..(j - 1) : \/ flows[order[l]].kd # kd
                                           \/ flows[order[l]].indx # i
      IN  i = flows[f].indx /\ pcp_get_flow(kd, i) = order[k]
=============================================================================
