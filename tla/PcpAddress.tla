----------------------------- MODULE PcpAddress -----------------------------
(***************************************************************************)
(* sock_ntop.c: addresses with ports as text and back. A text is a         *)
(* sequence of tokens: the characters that the code looks at ("[", "]",    *)
(* ":", "/"), numbers, and everything else. An address is named by the     *)
(* tokens that inet_ntop writes for it.                                    *)
(***************************************************************************)
EXTENDS Integers, Sequences, SequencesExt, FiniteSets

CONSTANTS
  V4Texts, V6Texts,  \* what inet_ntop writes for IPv4 and IPv6 addresses
  Value              \* the numbers: what atoi reads of such a token

AnyAddr == <<":", ":">>
NoText  == <<"NULL">>  \* a null pointer

Places(text, token) == {k \in DOMAIN text : text[k] = token}
Least(S)    == CHOOSE k \in S : \A j \in S : k <= j
Greatest(S) == CHOOSE k \in S : \A j \in S : j <= k

(* What inet_ntop writes has none of the characters that separate it from   *)
(* what is around it; there is no ":" in an IPv4 address and more than one  *)
(* in an IPv6 address. A number is one token.                               *)
ASSUME AddressAssumption ==
  /\ V4Texts \cup V6Texts \subseteq Seq(STRING)
  /\ {<<>>, NoText} \cap V4Texts = {} /\ AnyAddr \in V6Texts
  /\ \A h \in V4Texts : Places(h, ":") = {}
  /\ \A h \in V6Texts : Cardinality(Places(h, ":")) > 1
  /\ \A h \in V4Texts \cup V6Texts : \A k \in DOMAIN h :
       h[k] \notin {"[", "]", "/"}
  /\ \A n \in DOMAIN Value : /\ n \in STRING \ {"[", "]", "/", ":", "NULL"}
                             /\ Value[n] \in Nat /\ Value[n] < 65536

Address(host, port, prefix) ==
  [ok |-> TRUE, host |-> host, port |-> port, prefix |-> prefix]
Refused == [ok |-> FALSE, host |-> <<>>, port |-> 0, prefix |-> 0]

(* The system function, for what sock_pton asks of it: numeric hosts only,  *)
(* and the first answer for a null host, set to the any address.            *)
getaddrinfo(host, port) ==
  IF /\ host = NoText => port # NoText
     /\ host # NoText => host \in V4Texts \cup V6Texts
     /\ port \notin {NoText, <<>>} => Len(port) = 1 /\ port[1] \in DOMAIN Value
  THEN Address(IF host = NoText THEN AnyAddr ELSE host,
               IF port \in {NoText, <<>>} THEN 0 ELSE Value[port[1]], 0)
  ELSE Refused

(* The search for the port: it begins behind the first ":" of rest. Without *)
(* brackets around the host a second ":" means that all of it is an IPv6    *)
(* address.                                                                 *)
PortPart_Last(rest, bracketed) ==  \* mutant: the last ":" begins the port
  LET colons == Places(rest, ":")
  IN  IF colons = {} THEN NoText ELSE SubSeq(rest, Greatest(colons) + 1,
                                             Len(rest))

PortPart(rest, bracketed) ==
  LET colons == Places(rest, ":")
  IN  IF colons = {} \/ (~bracketed /\ Cardinality(colons) > 1) THEN NoText
      ELSE SubSeq(rest, Least(colons) + 1, Len(rest))

HostPart(text) ==
  IF PortPart(text, FALSE) = NoText THEN text
  ELSE IF text[1] = ":" THEN NoText
  ELSE SubSeq(text, 1, Least(Places(text, ":")) - 1)

sock_pton(text) ==
  IF text = <<>> \/ text[1] # "["
  THEN getaddrinfo(HostPart(text), PortPart(text, FALSE))
  ELSE IF Places(text, "]") = {} THEN Refused
  ELSE LET close == Least(Places(text, "]"))
       IN  getaddrinfo(SubSeq(text, 2, close - 1),
                       PortPart(SubSeq(text, close + 1, Len(text)), TRUE))

(* Brackets are needed here, and a host without a prefix has that of IPv6.  *)
MaxPrefix(host) == IF host \in V4Texts THEN 32 ELSE 128

PrefixOf(text) ==
  IF text = NoText THEN 128
  ELSE IF text # <<>> /\ text[1] \in DOMAIN Value THEN Value[text[1]] ELSE 0

sock_pton_with_prefix(text) ==
  IF text = <<>> \/ text[1] # "[" \/ Places(text, "]") = {} THEN Refused
  ELSE LET close  == Least(Places(text, "]"))
           inside == SubSeq(text, 2, close - 1)
           cut    == Places(inside, "/")
           host   == IF cut = {} THEN inside
                     ELSE SubSeq(inside, 1, Greatest(cut) - 1)
           prefix == PrefixOf(IF cut = {} THEN NoText
                              ELSE SubSeq(inside, Greatest(cut) + 1,
                                          Len(inside)))
           got    == getaddrinfo(host, PortPart(SubSeq(text, close + 1,
                                                       Len(text)), TRUE))
       IN  IF ~got.ok \/ prefix > MaxPrefix(host) THEN Refused
           ELSE [got EXCEPT !.prefix = prefix]

(* The number that stands for a port in a text. *)
Digits(port) == CHOOSE n \in DOMAIN Value : Value[n] = port

sock_ntop_Bare(host, port) ==  \* mutant: no brackets around an IPv6 address
  IF port = 0 THEN host ELSE host \o <<":", Digits(port)>>

sock_ntop(host, port) ==
  IF port = 0 THEN host
  ELSE (IF host \in V6Texts THEN <<"[">> \o host \o <<"]">> ELSE host)
         \o <<":", Digits(port)>>

-----------------------------------------------------------------------------
(* The ways to write an address and a port, for comparison. *)
Written(host, port) ==
  LET p == <<":", Digits(port)>>
      bracketed == <<"[">> \o host \o <<"]">>
  IN  {bracketed \o p} \cup
      (IF port = 0 THEN {host, bracketed} ELSE {}) \cup
      (IF host \in V4Texts THEN {host \o p} ELSE {}) \cup
      (IF host = AnyAddr THEN {p} ELSE {})
=============================================================================
