------------------------------ MODULE PcpLink ------------------------------
(***************************************************************************)
(* What the client promises of its relation to one PCP server after        *)
(* another, without flows, timers, retries or handlers: when it may take a *)
(* server for working, when it may give it up, and which protocol version  *)
(* it may change to. PcpClient implements it (PcpClientLink).              *)
(***************************************************************************)
EXTENDS Integers

CONSTANTS
  Peers,        \* the servers
  MaxVersion,   \* the version a fresh start begins with
  Start         \* [Peers -> {"unrouted", "idle"}]

VARIABLES
  outside,   \* the application has control: no call that sends is under way
  link,      \* what the client takes the server for
  version,   \* the version it speaks to it
  reached,   \* servers that got a request in a version they speak
  refused    \* servers that got one in a version above theirs

LinkStates ==
  {"absent",     \* not a server any more
   "unrouted",   \* known, but there is no way to it
   "idle",       \* nothing is known and nothing is under way
   "probing",    \* an answer is waited for
   "working",    \* it has answered
   "down"}       \* given up for a while

LInit ==
  /\ outside = TRUE
  /\ link = Start
  /\ version = [s \in Peers |-> MaxVersion]
  /\ reached = {} /\ refused = {}

To(s, l, v) ==
  /\ link' = [link EXCEPT ![s] = l]
  /\ version' = [version EXCEPT ![s] = v]

(* Requests reach servers, which understand them or refuse their version;   *)
(* neither is ever undone.                                                  *)
Contact ==
  /\ reached \subseteq reached'
  /\ refused \subseteq refused'

(* The application names the server again: it starts over, or is dropped.   *)
(* Only this changes anything behind the client's back.                     *)
Reset(s, v) ==
  /\ link[s] # "absent"
  /\ To(s, "idle", v) \/ To(s, "absent", v)

(* Only a server that was reached can answer; an answer to an old request   *)
(* of a server that was given up counts.                                    *)
Probe(s)    == link[s] = "idle" /\ To(s, "probing", version[s])
Answer(s)   == /\ link[s] \in {"probing", "down"} /\ s \in reached
               /\ To(s, "working", version[s])

(* The server refuses the version: negotiation starts and ends with a lower *)
(* one, whatever comes of the next probe, or with giving up.                *)
Refuse(s)   == /\ link[s] \in {"probing", "working"} /\ s \in refused
               /\ To(s, "probing", version[s])
Lower(s)    == /\ link[s] = "probing" /\ s \in refused
               /\ \E l \in {"probing", "idle", "down"}, v \in 0 .. version[s]-1 :
                    To(s, l, v)

(* A probe without an answer ends; a working server is given up only for an *)
(* answer it has sent.                                                      *)
Abandon(s)  == link[s] = "probing" /\ To(s, "idle", version[s])
GiveUp(s)   == /\ link[s] = "probing" \/ (link[s] = "working" /\ s \in reached)
               /\ To(s, "down", version[s])

(* A server that was given up is tried again from the highest version. *)
Retry(s)    == link[s] = "down" /\ To(s, "idle", MaxVersion)

LinkStep(s) ==
  \/ Probe(s) \/ Answer(s) \/ Refuse(s) \/ Lower(s)
  \/ Abandon(s) \/ GiveUp(s) \/ Retry(s)

lvars == <<outside, link, version, reached, refused>>

LNext ==
  /\ Contact
  /\ outside' \in BOOLEAN
  /\ \/ UNCHANGED <<link, version>>
     \/ outside /\ outside' /\ \E s \in Peers, v \in 0 .. MaxVersion : Reset(s, v)
     \/ ~(outside /\ outside') /\ \E s \in Peers : LinkStep(s)

LSpec == LInit /\ [][LNext]_lvars
=============================================================================
