------------------------------ MODULE MCPcpApp ------------------------------
(***************************************************************************)
(* An instance of PcpApp for TLC: command lines of up to three options,    *)
(* single ones with every short text for an address, and one with up to    *)
(* four options about servers, two of which name the same one.             *)
(***************************************************************************)
EXTENDS PcpApp

Opt(name, arg, val) == [o |-> name, arg |-> arg, val |-> val]
Flag(name)          == Opt(name, <<>>, 0)

V4s == {<<"v4">>, AnyAddr4}
V4in6 == <<":", ":", "ffff", ":", "v4">>
V6s == {<<":", ":">>, <<"x", ":", ":", "x">>, <<":", ":", "80">>, V4in6}
Numbers == [n \in {"0", "80", "33"} |->
              CASE n = "0" -> 0 [] n = "80" -> 80 [] n = "33" -> 33]

V4Port   == <<"v4", ":", "80">>
PortOnly == <<":", "80">>
V6Addr   == <<"[", "x", ":", ":", "x", "]">>
Broken   == <<"[", "v4">>

Options ==
  {Opt("i", a, 0) : a \in {PortOnly, V4Port, V6Addr, Broken}} \cup
  {Opt("p", a, 0) : a \in {PortOnly, V4Port, AnyAddr4}} \cup
  {Opt("e", <<"v4">>, 0), Opt("3", <<"v4">>, 0)} \cup
  {Opt("F", <<"[", "v4", "/", "0", "]">>, 0), Opt("F", <<"[", "v4", "]">>, 0)} \cup
  {Opt("s", <<"v4">>, 0), Opt("s", Broken, 0)} \cup
  {Opt("v", <<>>, n) : n \in {1, 3, 258}} \cup
  {Flag(n) : n \in {"P", "t", "J", "d", "f", "l", "h", "?"}}

Texts == SeqOf({"[", "]", ":", "/", "v4", "x", "80"}, 5)
Wordy == UNION {Written(h, n) : h \in V4s \cup V6s, n \in {0, 33, 80}} \cup
         {<<"[">> \o h \o <<"/", n, "]", ":", "80">> :
            h \in V4s \cup V6s, n \in {"0", "33", "80"}}

ServerLines ==
  {<<Opt("i", PortOnly, 0)>> \o s : s \in
     SeqOf({Opt("s", <<"v4">>, 0), Opt("s", V4in6, 0), Opt("s", V6Addr, 0),
            Opt("v", <<>>, 1)}, 4)}

CommandLines ==
  SeqOf(Options, 3) \cup {<<Opt("i", t, 0)>> : t \in Texts \cup Wordy} \cup
  ServerLines

OneGateway == {V4in6}
=============================================================================
