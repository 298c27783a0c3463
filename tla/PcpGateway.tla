----------------------------- MODULE PcpGateway -----------------------------
(***************************************************************************)
(* The gateway lookup of gateway.c on Linux: getgateways asks the kernel   *)
(* for its routes over a netlink socket, readNlSock collects the datagrams *)
(* of the dump in one buffer of BUFSIZE bytes, and the gateways of the     *)
(* main routing table become the candidates of psd_add_gws.                *)
(*                                                                         *)
(* A datagram is a sequence of netlink messages; of a message only its     *)
(* size, its type, the NLM_F_MULTI flag and the two attributes that        *)
(* getgateways reads are kept.                                             *)
(***************************************************************************)
EXTENDS Integers, Sequences, SequencesExt

CONSTANTS
  BUFSIZE,  \* room for the answer of the kernel
  Dumps     \* the answers the kernel may give, each a sequence of datagrams

ASSUME GatewayAssumption == BUFSIZE \in Nat \ {0}

VARIABLE nl  \* the lookup: how far it is, the dump, the buffer, what it found

NoGateway == "none"

(* One message. main: an IPv4 or IPv6 route of RT_TABLE_MAIN. oif and gw    *)
(* are the attributes RTA_OIF (0 if absent) and RTA_GATEWAY.                *)
NlMsg(type, size, multi, main, oif, gw) ==
  [type |-> type, size |-> size, multi |-> multi, main |-> main,
   oif |-> oif, gw |-> gw]

SizeOf(msgs) == FoldLeft(LAMBDA n, m : n + m.size, 0, msgs)

(* The messages of a datagram that are whole after its first n bytes.       *)
Whole(msgs, n) ==
  LET fit == {k \in 0..Len(msgs) : SizeOf(SubSeq(msgs, 1, k)) <= n}
  IN  SubSeq(msgs, 1, CHOOSE k \in fit : \A j \in fit : j <= k)

(* getgateways: the parsing loop over the messages in the buffer.           *)
Gateways(msgs) ==
  FoldLeft(LAMBDA gws, m : IF m.main /\ m.gw # NoGateway
                           THEN Append(gws, [ip |-> m.gw, scope |-> m.oif])
                           ELSE gws,
           <<>>, msgs)

NoLookup == [at |-> "idle", dump |-> <<>>, unread |-> <<>>, len |-> 0,
             buf |-> <<>>, gws |-> <<>>, used |-> 0]

(* socket and send; both may fail. *)
getgateways ==
  /\ nl.at = "idle"
  /\ \/ \E d \in Dumps : nl' = [NoLookup EXCEPT !.at = "recv", !.dump = d,
                                                !.unread = d]
     \/ nl' = [nl EXCEPT !.at = "failed"]

(* readNlSock: recv fails, or takes what is left of the buffer from the     *)
(* next datagram and drops the rest of it. Only the first header of the     *)
(* datagram is looked at. The sequence number it is compared with is one    *)
(* ahead of that of the request, so NLMSG_DONE, an error or a message that  *)
(* is not NLM_F_MULTI ends the loop.                                        *)
Accepted_Truncated(d, read) ==  \* mutant: NLMSG_OK is not checked
  d[1].type # "error"

Accepted(d, read) == d[1].size <= read /\ d[1].type # "error"

readNlSock ==
  /\ nl.at = "recv"
  /\ \/ nl' = [nl EXCEPT !.at = "failed"]
     \/ /\ nl.unread # <<>>
        /\ LET d    == Head(nl.unread)
               room == BUFSIZE - nl.len
               read == IF SizeOf(d) < room THEN SizeOf(d) ELSE room
               n    == [nl EXCEPT !.unread = Tail(@)]
           IN  nl' = IF ~Accepted(d, read) THEN [n EXCEPT !.at = "failed"]
                     ELSE IF d[1].type = "done" THEN [n EXCEPT !.at = "parse"]
                     ELSE [n EXCEPT !.buf = @ \o Whole(d, read),
                                    !.len = @ + read,
                                    !.at = IF d[1].multi THEN "recv"
                                           ELSE "parse"]

parse_gateways ==
  /\ nl.at = "parse"
  /\ nl' = [nl EXCEPT !.at = "found", !.gws = Gateways(nl.buf)]

Lookup == getgateways \/ readNlSock \/ parse_gateways

-----------------------------------------------------------------------------
(* All or nothing: a lookup that succeeds has the gateways of the whole     *)
(* dump. One that does not fit into the buffer, in whatever datagrams it    *)
(* comes, makes readNlSock fail and never yields some of the routes.        *)
GatewaysAllOrNone ==
  nl.at = "found" => nl.gws = Gateways(FlattenSeq(nl.dump))
=============================================================================
