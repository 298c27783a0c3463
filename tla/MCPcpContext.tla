---------------------------- MODULE MCPcpContext ----------------------------
(***************************************************************************)
(* An instance of PcpContext for TLC: an IPv4 server and a link-local      *)
(* gateway that is there on two interfaces.                                *)
(***************************************************************************)
EXTENDS PcpContext

Hash(kd) == (kd.req + kd.scope) % 2

(* The gateway is named with one of its interfaces, or without. *)
SomeServers == {<<"v4", 0>>, <<"fe", 1>>, <<"fe", 0>>}

AnySource  == Source(TRUE, FALSE, 0)
SomeSources == {AnySource, Source(FALSE, TRUE, 0), Source(FALSE, FALSE, 1)}

Route(oif, gw)  == NlMsg("route", 2, TRUE, TRUE, oif, gw)
Other(oif, gw)  == NlMsg("route", 2, TRUE, FALSE, oif, gw)  \* another table
Done            == <<NlMsg("done", 1, TRUE, FALSE, 0, NoGateway)>>

(* With room for 5 units: the same gateway on two interfaces; routes that   *)
(* are not of use; routes that fill the buffer, that are cut off, and that  *)
(* find it full; a single answer, and an error.                             *)
KernelDumps ==
  { <<<<Route(1, "fe"), Route(2, "fe")>>, Done>>,
    <<<<Route(1, "v4"), Other(2, "fe")>>, Done>>,
    <<<<Route(1, "any")>>, <<Route(2, NoGateway)>>, Done>>,
    <<<<Route(1, "v4")>>, <<Route(1, "v4")>>, Done>>,
    <<<<Route(1, "fe")>>, <<Route(2, "fe"), Route(1, "v4")>>, Done>>,
    <<<<Route(1, "fe"), Route(2, "fe")>>, <<Route(1, "v4")>>, Done>>,
    <<<<Route(1, "v4"), NlMsg("route", 3, TRUE, TRUE, 1, "fe")>>, Done>>,
    <<<<NlMsg("route", 2, FALSE, TRUE, 1, "v4")>>>>,
    <<<<NlMsg("error", 2, FALSE, FALSE, 0, NoGateway)>>>> }
=============================================================================
