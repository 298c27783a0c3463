# libpcp: a TLA+ model of the PCP client

libpcp is a client library for the Port Control Protocol (RFC 6887) and for
NAT-PMP (RFC 6886). An application opens *flows*: mappings or peer mappings
that it wants a NAT or firewall to keep. The library finds the PCP servers,
sends the requests, repeats them, renews the leases before they run out, and
follows servers that change their version, fail or restart. It has no threads:
all of this happens inside the calls of the application, above all in
`pcp_pulse`, which reads one datagram, runs the state machines and says when it
wants to be called next. What is hard about it is not computation but order:
which call, answer, timer or failure meets which state.

This directory holds modules that model that control, TLC runs that check them
on small instances, and TLAPS proofs of the safety properties for all values of
the parameters. Paths are relative to the root of the repository.

## 1. The system

| component | state | operations | code |
|---|---|---|---|
| flow state machine | of a flow: `state`, `timeout`, `resend_timeout`, `retry_count`, `recv_lifetime`, `recv_result`, requested `lifetime` | `handle_flow_event`, the `fhndl_*` handlers, `check_flow_timeout` | `libpcp/src/pcp_event_handler.c` |
| server state machine | of a server: `server_state`, `next_timeout`, `pcp_version`, `next_version`, `ping_count`, `ping_flow_msg`, `restart_flow_msg`, `epoch`, `cepoch` | the handlers of `server_sm`, `run_server_state_machine` | same |
| event loop | none of its own | `pcp_pulse`, `hserver_iter` | same |
| client API | the handles the application holds; chains of flows (`next_child`) | `pcp_init`, `pcp_add_server`, `pcp_new_flow`, `pcp_flow_set_*`, `pcp_close_flow`, `pcp_delete_flow`, `pcp_eval_flow_state`, `pcp_flow_get_info`, `pcp_wait`, `pcp_terminate` | `libpcp/src/pcp_api.c` |
| server discovery | none of its own | `psd_add_gws`, `psd_add_pcp_server` | `libpcp/src/pcp_server_discovery.c` |
| client database | hash table of flows, array of servers | add, find, delete, iterate | `libpcp/src/pcp_client_db.c` |
| epoch check | `epoch`, `cepoch` of a server | `compare_epochs` | `libpcp/src/pcp_utils.h` |
| message builder and parser | none | `build_pcp_msg`, `parse_response`, `validate_pcp_msg` | `libpcp/src/pcp_msg.c` |
| gateway lookup | the buffer with the kernel's routes | `getgateways`, `readNlSock` | `libpcp/src/net/gateway.c` |
| source address | none | `findsaddr`, `findsaddr6` | `libpcp/src/net/findsaddr-udp.c` |
| address conversion | none | `sock_ntop`, `sock_pton`, `sock_pton_with_prefix` | `libpcp/src/net/sock_ntop.c` |
| socket layer, logger | sockets | I/O | `libpcp/src/net/pcp_socket.c`, `pcp_logger.c` |
| command line client | `struct pcp_params` | `parse_params`, `main` | `pcp_app/` |
| example | none | `main` | `pcp_example/` |
| `pcp_server` | the time of its start, its command line | `execPCPServer`: read, check and answer a request | `pcp_server/` |
| Windows code | none | replacements of system functions | `win_utils/`, `libpcp/src/windows/` |

How they meet:

* **Calls.** `pcp_pulse` reads a datagram, finds the server by its address and
  runs that server's machine until its `next_timeout` is no longer due; then it
  does the same for every server in index order. A server handler drives flows
  through `handle_flow_event`: all flows of the server, one flow, or (in
  `handle_wait_io_timeout`) all flows of *all* servers.
* **Shared state.** `next_timeout` is the one wake-up signal: handlers set it to
  "now" to go on with the next state, API calls set it to have a flow sent, and
  the clock makes it due. `ping_flow_msg` and `restart_flow_msg` are raw pointers
  from a server to a flow that the application may delete. `pcp_flow_updated`
  changes flow states and server timeouts from outside the machines.
* **Messages.** UDP: a request or an answer may be lost, duplicated, delayed or
  reordered. The key that connects an answer with a flow has the server's nonce
  in it, not one of the flow, so late answers match flows created again.
* **Loops over shared structures.** `pcp_db_foreach_flow` walks a hash table
  whose flows its callback frees or adds to; the array of servers moves when it
  grows, and flows name their server by its place in it.
* **Calls in calls.** `pcp_wait`, `pcp_close_flow` and `pcp_terminate` run
  `pcp_pulse` themselves, with flows half closed and chains half freed.
* **Callbacks.** `handle_flow_event` ends with the application's change
  callback, while the library is in the middle of a step.

Behaviours that are hard to test, each listed under `hazards` in
`PROJECT.json` with its line: stale and duplicate answers; a timer value of 0
that means both "due" and "none"; the ping flow closed, deleted or replaced
during a ping; the sweep of one server that retransmits flows of another; sends
that fail halfway through an iteration; an 8-bit version number that wraps;
a `while (1)` loop that ends only if every chain of handlers moves its timeout;
application calls that arrive in the middle of a ping or of a retry delay; an
answer made for one version and read when another is in use; epochs that are
compared as unsigned numbers across delays and restarts; a request that fills
its buffer to the last byte; a wait for several servers of which one fails; a
walk over a table that changes; a slot that changes its server; two gateways
with one address; a route dump that does not fit; colons that may begin a port.

What makes the parts correct:

* a flow that has something to send, or waits for something, has a timer;
* a server is never left in a state that only its next handler can leave;
* a ping always has a deadline and comes to an end; flows that wait for its
  outcome are told;
* the server's pointers name flows of that server that exist;
* a request asked for by an API call is sent by the next pulse;
* the version in use is one the library speaks;
* `pcp_pulse`, `pcp_wait` and `pcp_terminate` return, and `pcp_wait` sleeps
  exactly when there is something to wait for;
* a server counts as working only after it has answered, is given up only for a
  reason, and its version only goes down until it is tried afresh;
* the flow table is whole after any sequence of calls, a walk over it misses
  nothing and holds nothing freed, and an answer leads to its server and flow;
* a lookup of the gateways has all routes or fails;
* an address is read as it was written; the command line client asks for one
  kind of thing, of the servers and in the versions given, and its exit code is
  the result of a flow;
* a request fits its buffer and is well formed, its answer is understood and
  finds the flow that asked, whatever happened to the version in between;
* the epoch check reports a restart when, and only when, there was one, within
  its tolerance.

## 2. Modules

| module | models | extends |
|---|---|---|
| `PcpFlow` | one flow: event table, handlers, the loop of `handle_flow_event`; pure operators on a flow record | |
| `PcpEventHandler` | the handlers of the server state machine as actions on the flow table and one server; `OnTimeout`, `OnMessage` | `PcpFlow` |
| `PcpClient` | the whole client: API calls, `pcp_pulse`, the clock, the network; specification and properties | `PcpEventHandler` |
| `PcpExpectations` | statements of the header, logs and tests that the code does not keep | `PcpClient` |
| `PcpClosing` | the same, with a history of closed flows | `PcpExpectations` |
| `PcpEpoch` | `compare_epochs`, on unsigned numbers | |
| `PcpMsg` | `build_pcp_msg` and `parse_response`: sizes, options, and which fields of the flow key are in which message | |
| `PcpServer` | the answer of `pcp_server`, and of a NAT-PMP gateway, to a request | `PcpMsg` |
| `PcpExchange` | a client and a server over UDP: what is on the wire, what the client reads in it, versions, epochs and restarts | `PcpServer`, `PcpEpoch` |
| `PcpLink` | what the client promises of a server: an abstract specification | |
| `PcpClientLink` | `PcpClient` as an implementation of `PcpLink`: the refinement mapping | `PcpClient`, instance of `PcpLink` |
| `PcpWait` | `pcp_wait`, `pcp_terminate` and a new context after it, on top of the client | `PcpClient` |
| `PcpGateway` | `getgateways` and `readNlSock` | |
| `PcpDiscovery` | the array of servers, `psd_add_gws`, `psd_add_pcp_server` | `PcpGateway` |
| `PcpContext` | a context: these servers, the hash table of flows, the walk over it | `PcpDiscovery` |
| `PcpAddress` | `sock_ntop.c`, on texts of tokens | |
| `PcpApp` | the command line client | `PcpAddress` |
| `MCPcpClient`, `MCPcpExpectations`, `MCPcpClosing`, `MCPcpExchange`, `MCPcpWait`, `MCPcpContext`, `MCPcpApp` | flow tables, servers, dumps, command lines for TLC | |
| `PcpFlowProofs` | lemmas on the operators of `PcpFlow`, with proofs | `PcpFlow` |
| `PcpClientProofs` | inductive invariant and theorems about `PcpClient`, with proofs | `PcpClient`, `PcpFlowProofs` |
| `PcpLinkProofs` | that `PcpClient` implements `PcpLink` | `PcpClientLink`, `PcpClientProofs` |
| `PcpWaitProofs` | inductive invariant and theorems about `PcpWait` | `PcpWait`, `PcpClientProofs` |
| `PcpInduction` | induction over finite sets and numbers, and what folds compute | |
| `PcpExchangeProofs` | inductive invariants and theorems about messages and epochs in `PcpExchange` | `PcpExchange`, `PcpInduction` |
| `PcpContextProofs` | inductive invariant and theorems about `PcpContext`, its servers and its gateway lookup | `PcpContext`, `PcpInduction` |
| `PcpAppProofs` | inductive invariant and theorems about `PcpApp`; that addresses are read as written | `PcpApp`, `PcpInduction` |

`PcpClient` and `PcpExchange` look at the same client from two sides. `PcpClient`
has all of the control and takes a message for granted: an answer is its flow,
result, lifetime, version, and whether its epoch is out of step. `PcpExchange`
has what is taken for granted there, and takes the control for granted: a flow
may send at any time. `PcpContext` looks at the same calls from a third side:
there the state machines of flows and servers are left out, and the table, the
array and the addresses, which are a fixed set of slots in `PcpClient`, are all
there. The next three subsections are about `PcpClient`, the others about the
rest.

### State

**Time** is counted in ticks and every timer is relative: the ticks that are
left, 0 when it is due or overdue, `NoTime` (-1) when its `timeval` is `{0, 0}`.
The order of the integers is then the order of the code's comparisons, and a
cleared timer counts as past where the code compares it with "now"
(`fhndl_waitresp`, `handle_server_not_working`). `recv_lifetime` is the rest of
the lease. Time does not pass inside a call.

**Flows.** The flow table is a fixed set of slots `1..NFlows`, numbered in the
order of `pcp_db_foreach_flow`. A slot is a flow key: `Key[f]` has the server,
the request (the chain that `pcp_new_flow` returns a handle of) and the opcode.
A slot whose state is `"free"` is a flow that is not in the table. A slot may be
used again after `pcp_delete_flow`, and late answers then match the new flow, as
they do in the code.

**Servers.** A record per server with the fields of `struct pcp_server` that
control depends on. `ping_count` and `retry_count` stop at their limit: the code
only tests whether the limit is reached. `epoch_known` is `epoch != ~0`.
`pcp_version` and `next_version` keep their 8 bits, with the wrap of
`--next_version`.

**`pulse`** says who runs: the application, or a `pcp_pulse` call and the server
it is at. `pulse.odd` flips with each turn of the loop of `hserver_iter`, so that
a turn that leaves everything as it is counts as a step; without it, a loop that
spins forever would look like a call that is simply not scheduled.

**`asked`, `refused`** remember what the servers have seen: for each flow
whether a request for a mapping, or for its removal, was ever on the wire, and
which servers saw a version above their own.

### Actions

| action | code |
|---|---|
| `pcp_new_flow` | `pcp_new_flow`, `chain_and_assign_src_ip`, `init_flow` |
| `pcp_flow_set_lifetime` | `pcp_flow_set_lifetime`, and with an unchanged lifetime the option setters, which all end in `pcp_flow_updated` |
| `pcp_close_flow` | `pcp_close_flow`; goes on to a pulse, as the code does |
| `pcp_delete_flow` | `pcp_delete_flow` for a handle |
| `pcp_add_server` | `pcp_add_server` for a known server, with or without a route |
| `PulseReadNothing`, `PulseReadMsg` | `pcp_pulse` up to the end of its read; the state machine's step for the message |
| `PulseRun` | one turn of the loop of `hserver_iter`: one handler of `server_sm` |
| `PulseNext` | the end of that loop; the next server, or the end of the call |
| `Tick` | the clock |

A handler is one atomic step, with everything it calls: the library has one
thread and a handler neither blocks nor returns to the application. What the
model splits is what the code splits, the turns of the loop; a step for each turn
is what `PulseReturns` is about. `handle_flow_event` is a loop in the code; in
`PcpFlow` it is four rounds of `FlowStep`, and `PcpFlowProofs` proves that no
event needs more (theorem `HandleFlowEvent`).

`NextState` is the event table read first row first, with the rows for
`pfs_any` in their place; `Transition` is the table of handlers, where a pair
without a row changes the state only.

Every `pcp_flow_send_msg` has an outcome from `SendOutcomes`, chosen for each
flow in each step (`IoChoices`). A PEER request over NAT-PMP "succeeds" without
any bytes on the wire (`quiet`): `build_pcp_msg` leaves the length at 0.

**The network** (`Answers`, external). An answer can arrive at any time, any
number of times, once a request that could have drawn it has been sent: loss,
duplication, delay and reordering are all there, and no message ever expires.
The result is any of `Results`; a granted lifetime, or the lifetime of a short
error, any of `Granted`; a removal is confirmed with lifetime 0. `unsupp_version`
comes from a server that saw a version above its own. The version of an answer
matters for ANNOUNCE only (`server_process_rcvd_pcp_msg` matches version 0 by
`ping_flow_msg`, version 1 by the key, and version 2 not at all): it is any up to
that of the server. Whether the epoch of an
answer looks like a restart (`compare_epochs`) is the choice `jump`, which covers
both real restarts and answers that were delayed.

### What is abstracted

* The jitter of `PCP_RT` is below a tick.
* Addresses, ports, options and the nonce are in the slot; message layout and
  lengths are in `PcpMsg`.
* `AnnounceSlots` bounds the ANNOUNCE flows: each fall back to NAT-PMP adds one
  that nothing deletes, so a table of fixed size must refuse further ones.
* The application's callback is taken not to call the library (in `PcpContext`
  it may add flows).
* The application does not use a handle after it has deleted it.

### Messages, servers and epochs (`PcpExchange`)

A datagram is a record: version, opcode, result, epoch, length, the layout of
the structure behind the header, and the values of the key fields that this
structure carries (`Carried`). Sizes are those of `pcp_msg_structs.h`. Options
are a sequence of codes and sizes, appended in the order of
`build_pcp_options`, with the padding and the room check of `add_md_option`;
their contents are left out. Reading a field from a structure of another layout
gives `Garbage`. The model is of a build with all optional features
(`PCP_SADSCP`, `PCP_EXPERIMENTAL`, `PCP_FLOW_PRIORITY`).

| action | code |
|---|---|
| `Send` | `build_pcp_msg` and `pcp_flow_send_msg`, from whatever handler |
| `Serve` | one turn of the loop of `execPCPServer`; or the NAT-PMP gateway (external) |
| `Restart` | `main` of the server, which sets `epoch_time_start` |
| `Drop` | `pcp_pulse` with a datagram that `validate_pcp_msg` or `parse_response` refuses |
| `Negotiate`, `GiveUp`, `Process` | `handle_wait_io_receive_msg` and what follows from it: the change of version, the server set aside, the epoch check |
| `Return`, `Ignore` | `handle_server_not_working` with a message |
| `PingTimeout`, `Reping` | the server is given up; and tried again with the highest version |
| `Lose`, `Tick` | the network and the clock |

`requests` and `answers` are sets of datagrams; one that is delivered may stay
(duplication), any of them may be delivered next (reordering) or be lost, and an
answer is at most `MaxDelay` seconds on its way: older ones vanish with `Tick`.
`ref` is the pair `epoch`, `cepoch` of the server's record, `ref_start` a history
variable, the start of the server the pair comes from. An answer on the wire
remembers its request, its flow, its birth and the start of its server; no
action of client or server looks at these (`RcvdTo` takes the address the answer
was sent to from its flow: that of the request).

`printPCPreq` takes the size of a MAP off for a PEER of version 1 and so walks
over bytes that an earlier request left in its buffer: its result is then any
of the three that the walk can give.

### The relation to a server (`PcpLink`)

`PcpLink` has neither flows nor timers. It says of each server whether the
client takes it for absent, unrouted, idle, probing, working or down, which
version it speaks to it, and which servers were reached or have refused a
version. A server gets to *working* only after it was reached, to *down* only
from a probe or after an answer, its version changes only to a lower one after a
refusal, or to the highest when a server that is down is tried afresh; anything
else takes a call of the application (`outside`). `LinkOf` maps the twelve
states of `server_sm` to the six; `asked` and `pulse` give the other variables.

### Waiting and terminating (`PcpWait`)

`call` is where the application is in `pcp_wait` or `pcp_terminate`; while it is
in one, it makes no other call, and time passes in `select` only. The steps of
`pcp_wait` are its loop: `WaitCheck` (the deadline), `pcp_pulse` (`InPulse`),
`WaitEval` (the count of flows with a result, against the count at the start),
`SelectTick` and `SelectReturn`. `pcp_terminate` visits the flows in the order of
the table: `TermVisit` closes one and goes into `pcp_pulse`, `TermDelete` frees
it, `TermServers` ends. `pcp_init` then begins a new context.

### The context (`PcpGateway`, `PcpDiscovery`, `PcpContext`)

A datagram of the route dump is a sequence of messages with sizes; `recv` takes
what fits and drops the rest, and only the first header is looked at. A server is
a slot with an address, a scope and a state: at work (`pss_ping` stands for all
such states), given up, without a route, or unused. The hash is a parameter.
`pcp_db_foreach_flow` is a walk in steps: `IterStart`, then `IterStep` reads the
next flow (`next`) and begins the callback, `IterVisit` ends it, until `IterEnd`.
`delete_flow_iter` deletes the flow in `IterVisit`; with `close_flows` it has
called `pcp_pulse` before. So while such a callback or one of the application
runs (`InCallback`) servers are given up or taken up again, flows are added, and
`create_natpmp_ann_msg` adds an ANNOUNCE flow. `order`, `moved`, `left` (what was
in the table at the start and is still to come) and `seen` are history. `Named`
are the servers that the application adds. On Linux a link-local address without an interface has no route; on a
system with a default interface `psd_fill_pcp_server_src` would set the scope
afterwards and the server could be there twice.

### The command line (`PcpAddress`, `PcpApp`)

A text is a sequence of tokens: the characters that `sock_ntop.c` looks at,
numbers, and everything else. `getaddrinfo` (external) knows the texts of a few
addresses. `PcpApp` takes one option after the other, as `getopt_long` gives
them; options that only set a value to be sent are one each. `net` is what the
host is connected to: the gateways that discovery finds, if it finds them, and
the addresses that have a route, both chosen in `StartContext`. `ctx` is what the
library keeps of the servers: a version for each address, an IPv4 address and
its mapped IPv6 form being the same (`In6`, `pcp_ip`). `pcp_add_server` overwrites
the version of an address that is there and drops one without a route. `main`
goes through its list of servers from the option that came last to the first
(`AddServers`) and looks at no result. `CreateFlow` and `Wait` use the library by
what it can return.

## 3. Runs

Passing runs:

| run | module | instance | distinct states | properties |
|---|---|---|---|---|
| `one_flow` | `MCPcpClient` | 1 server, 1 flow; all kinds of results, restarts, failing sends, all calls on flows | 388,729 | `TransientIsDriven`, `RestartMarkIsMomentary`, `PingHasDeadline`, `RequestHasTimer`, `NoOrphanFlow` |
| `fallback` | `MCPcpClient` | 1 NAT-PMP server that has no route at first, a PEER flow, an ANNOUNCE slot, failing sends, apparent restarts, `pcp_add_server` at any time | 337,774 | `TypeOK`, `TransientIsDriven`, `PingFlowValid`, `PingHasDeadline`, `RequestHasTimer`, `NoOrphanFlow`, `UnsentIsScheduled`, `VersionSupported`, `ImplementsLink` |
| `wait` | `MCPcpWait` | 1 request to 2 servers; waits of 2 ticks, with and without partial results; termination with and without closing; fairness | 161,737 | `WTypeOK`, `DoneIsNotWaitedFor`, `SelectMaySleep`, `CallReturns`, `PulseReturns`, `PingResolves` |
| `exchange` | `MCPcpExchange` | flows of every opcode, without options and with all of them, one of 5 servers: NAT-PMP, `pcp_server` of version 1 or 2, one that always answers `address_mismatch`, one that always refuses the version | 893,142 | `TypeOK`, `RequestFits`, `AnswerUnderstood`, `AnswerFindsFlow`, `NoFalseRestart`, `RestartNoticed` |
| `context` | `MCPcpContext` | an IPv4 server and a link-local one on two interfaces, an array that grows from 1 to 2, 3 flows in 2 buckets, ANNOUNCE flows and flows added in callbacks, 9 route dumps | 1,972,869 | `TypeOK`, `TableWellFormed`, `IterationHoldsLive`, `IterationIsComplete`, `AnswerReachesFlow`, `GatewaysAllOrNone`, `ServersStay` |
| `command` | `MCPcpApp` | all command lines of up to 3 of 24 options; `-i` with up to 4 of `-v` and `-s`, which name one server in two notations and a second one, for every choice of routes; with and without a gateway; all texts of up to 5 tokens as an address | 232,770 | `TypeOK`, `ExitIsAFlowsResult`, `OneKindOfRequest`, `ServersGetTheirVersion`, `WrittenIsRead`, `RoundTrip` |

What the properties say:

* `TransientIsDriven`: a server is in one of the six states that no message is
  handled in only inside the loop that is about to leave it.
* `RestartMarkIsMomentary`: `restart_flow_msg` is set only between the message
  that reveals a restart and the handler of the restart. So it never suppresses
  another send, and no freed flow stays in it although `pcp_delete_flow_intern`
  does not look at it.
* `PingFlowValid`: `ping_flow_msg` is `NULL` or a flow of that server in the
  table, in every state with a handler that dereferences it.
* `PingHasDeadline`: a server that waits for the answer to a ping has a timeout,
  and its ping flow is in a state in which a timeout makes progress.
* `RequestHasTimer`: flows that send or wait have a timer; none is left in
  `pfs_idle` or `pfs_send_renew`.
* `NoOrphanFlow`: no flow of a working server waits for its initialization.
* `UnsentIsScheduled`: while a flow of a working server is unsent, the server is
  due.
* `VersionSupported`: the wrap of `next_version` to 255 never reaches
  `pcp_version`.
* `ImplementsLink`: every behaviour of `PcpClient` is one of `PcpLink`.
* `PulseReturns`: every `pcp_pulse` returns. `PingResolves`: every ping ends.
  `CallReturns`: every `pcp_wait` and `pcp_terminate` returns.
* `DoneIsNotWaitedFor`: `pcp_wait` does not sleep when all flows have a result,
  whatever they had when it began. `SelectMaySleep`: when it gets to `select`, no
  timer is due, so it does not spin.
* `TableWellFormed`: every flow is in its bucket exactly once, nothing else is,
  and `flow_cnt` is right.
* `IterationHoldsLive`, `IterationIsComplete`: a walk holds no freed flow, gives
  no flow to the callback twice, and passes over none that was there when it
  began, while flows are freed and added under it. `pcp_terminate` without
  `close_flows` so leaves none; with it, see section 4.
* `AnswerReachesFlow`: sender and key of an answer lead to the flow that asked,
  or to the oldest with the same key, unless its server was dropped.
* `ServersStay`: a server keeps its place and its address until it is dropped.
* `GatewaysAllOrNone`: a dump that does not fit makes the lookup fail. It never
  yields some of the routes, because a datagram that was cut off leaves no room
  for the `NLMSG_DONE` after it.
* `ExitIsAFlowsResult`: the exit code is the result of a flow of the request.
* `OneKindOfRequest`: the request that is made was asked for, and no option that
  was given asks for the other kind (MAP/PEER or SADSCP).
* `ServersGetTheirVersion`: the library gets the servers that were named and have
  a route, and the gateways, each once, with the version that was set before a
  server was first named.
* `WrittenIsRead`, `RoundTrip`: `sock_pton` reads every way
  of writing an address, and what `sock_ntop` has written.
* `RequestFits`: a request is at most `PCP_MAX_LEN` long and a multiple of four
  bytes, except the two bytes of the NAT-PMP ANNOUNCE.
* `AnswerUnderstood`: an answer to a request of the client passes
  `validate_pcp_msg` and `parse_response`, whatever version is in use by then;
  `Unreadable` names the four exceptions (section 4).
* `AnswerFindsFlow`: the key that `pcp_pulse` completes from an answer is the key
  of the flow that asked, across changes of version.
* `NoFalseRestart`: with delays of at most two seconds and no overtaking,
  `compare_epochs` is false for answers of the server the reference is from.
* `RestartNoticed`: a restart that cost more uptime than two seconds, the
  longest delay and a sixteenth of the time since the reference is noticed,
  although the difference of the epochs wraps.

**Bounds.** Retransmission and ping limits are small, but each is large enough
for a first try, a repetition and the last one (`PCP_RETX_MRC` 2 or 3,
`PCP_MAX_PING_COUNT` 2 to 4; with `MRC` below the ping limit the flow fails
first, with `MRC` equal to it the server's counter may). `MRT` above `IRT` in
`one_flow` lets the delay double and meet its maximum. A lease of 4 ticks passes
through half lives of 2 and 1 and through 0; a lease of 2 through 1 and 0. Two
flows are enough for "the ping flow and another" (`fallback`), two servers for
"the one being swept and another" (`wait`). The invariants of `PcpClient` are
also proved for any number of flows and servers (section 5), so that the two runs
need not try every table. A wait of 2 ticks can end by its time, by an answer
before and after a timer, and by nothing. In `context` the array grows once, which
is where places and addresses could be lost; three flows are two in one bucket and
one in the other, or two with the same key; the 9 dumps are those that fill the
buffer exactly, are cut off in a message and between two, find no room, have
routes of another table, without a gateway or with the any address, end without
`NLMSG_DONE`, or are an error. `command` stops when `main` has returned and so does
not check for deadlock. In `exchange` the clock
reads 0, 2 or 20 seconds: 2 is the longest delay and the constant of the
comparison, and with 20 the term `x >> 4` is not 0. Two answers on the wire
overtake each other; one request is enough, since each flow may send again once
it is gone. The epoch is 96 wide instead of 2^32, far enough from the clock that
a wrap only comes from a difference, as in the code. The options and metadata of
one flow fill its version 2 request to exactly `PCP_MAX_LEN`, with an empty
value, one that is cut off, one that replaces another and one that no longer
fits. Deadlock is checked in every other run. There is no symmetry: the
order of the slots matters to the code.

**Fairness** (`FairSpec`, and `WFairSpec` of `PcpWait`). A call of `pcp_pulse` runs to its end; the
application calls it again and again, as the loop with `select` in `pcp.h` asks
it to; and time passes between calls however often it calls. The first two are
weak fairness of `PulseStart` and `PulseStep`, written without `ENABLED` because
exactly one of the two is enabled in each state, depending on `pulse.at`; the
third is strong fairness of `Tick`, which is disabled during a call. Nothing is
assumed of the network: all answers may be lost. Nothing is assumed of the
application's other calls. With `PulseReturns` it matters that `PulseStep` is
fair as a whole and not turn by turn: the property then says that the *code's*
loop ends. `CallFairness` adds that a call that was made goes on, since the
library has one thread, and that `select` does not return forever before any time
has passed; the latter is the clock, and without it a stream of datagrams that
takes no time could hold `pcp_wait` forever.

Each property has a mutant in `PROJECT.json`: an operator next to the original
(named `..._<what is wrong>`) with a plausible slip, for example a missing
reset or a missing check, under which the run finds the property violated.

## 4. Where the code and its documentation disagree

Each of these is a run that TLC ends with a counterexample.

| run | property | what happens |
|---|---|---|
| `lost_wakeup` | `NearestTimeoutKept` | `check_flow_timeout` takes a remaining time of 0 for "nothing collected yet". A flow whose timer is still due after its event wipes out the nearest timeout of the flows before it; `pcp_pulse` then asks to be called too late. |
| `closed_flow` | `ClosedFlowAsksForNothing` | A flow closed while it waits for its server is only marked as failed and keeps its lifetime. The `pfs_any` row of a server restart sends it again as a request for the mapping. |
| `version_drop` | `OfferedVersionKept` | A second copy of "use version 1" arrives when version 1 is in use, is taken for a refusal of it, and the client falls back to NAT-PMP. |
| `false_success` | `SuccessIsNoError` | An error answer with an epoch out of step fails its flow, marks it as the one that revealed the restart, and the restart moves it, unsent, to the state that is reported as success. |
| `early_return` | `WaitsForAll` | One server fails the request while another is still asked. The count of results has grown and the state is "processing", not "partial result": `pcp_wait` returns at once, although it was to wait for all, with the value that also means that its time is over. |
| `terminated_chain` | `FreedIsNotRead` | `pcp_terminate` frees the flows in the order of the hash table. If a later flow of a chain comes first, `handle_flow_event` for an earlier one follows `next_child` to it, in the `pcp_pulse` that sends the close. |

More observations. They have no run of their own, most of them because no text
of the repository promises otherwise:

* `pcp_flow_updated` changes the state of a flow, and with it the result of
  `pcp_eval_flow_state`, without the callback that `pcp.h` says is "called when
  flow state has changed".
* `handle_server_set_not_working` logs "Disabling sending of PCP messages to this
  server" and sends `fev_failed` to all flows; for a flow with a mapping the event
  table answers with a new request to that server.
* An API call on a flow of a server that is being pinged makes `next_timeout`
  due, and the next pulse counts that as a ping that timed out, so a few calls in
  a row use up the pings.
* Such a request waits in `pfs_wait_resp`, while no handler
  of `pss_not_working` looks at flow timers: on a single server it is neither
  repeated nor failed until the server is pinged again.
* A request of exactly `PCP_MAX_LEN` bytes loses its last byte in `pcp_server`,
  which answers with 1099 bytes that the client drops.
* A SADSCP request of version 2 that a server of version 1 refuses is answered
  with version 1, for which `parse_v1_resp` has no SADSCP: the refusal is dropped
  and no negotiation takes place.
* A request of version 1 that a server of version 2 refuses with `unsupp_version`
  (`pcp_server -r 1` refuses everything) is answered in the length of the
  request and with version 2, whose structures are longer: `parse_v2_resp` drops
  it.
* A NAT-PMP request to a PCP server, which a duplicate refusal leads to, is
  answered in a length the client does not read.
* An ANNOUNCE answer of version 2 carries no nonce and gets none from
  `pcp_pulse`, so it does not match its flow.
* `compare_epochs` has a tolerance: a restart soon after the reference answer
  goes unnoticed, and an answer overtaken by the one that became the reference
  looks like a restart. The properties state exactly how far it can be relied on.
* `pcp_wait` compares counts: a flow that leaves its exit state while another one
  reaches one does not end a wait for a partial result.
* `pcp.h:134` says that `pcp_terminate` "frees all library buffers". With
  `close_flows`, `delete_flow_iter` calls `pcp_pulse`, which may fall back to
  NAT-PMP and add an ANNOUNCE flow (`pcp_event_handler.c:776`). If its chain is
  behind the walk, nothing frees it. The run `context` reaches this;
  `IterationIsComplete` claims an empty table for `close_flows` = 0 only.
* The kernel may put `NLMSG_DONE` behind the last routes in one datagram.
  `readNlSock` looks at the first header only and compares the sequence number
  with one that is ahead by one, so it would call `recv` again and block. The
  dumps of the model have `NLMSG_DONE` on its own.
* `pcp_app -v` applies to the servers named after it, not to those before it or
  to gateways that are found, although the help text says "Maximal PCP version to
  be used". A server named several times gets the version set before it was
  *first* named, since the list is gone through from its end. Servers with a name
  that cannot be read or without a route are left out without a message.
  `-l`, `--device-id`, `--location` and `--user-id` are MAP/PEER options in the
  help text (`pcp_app.c:177-191`, `223-230`), but ask for no request: with `-J` they
  are accepted and have no effect. `-p` with a port alone asks for a MAP; without `-i` or `-e` it fails,
  because a source that is not given has no address family. A filter
  `[1.2.3.4]` without a prefix is refused, its prefix being taken for 128. With
  `-f` the first flow with a result decides the exit code, also when a later one
  has succeeded. `--sadscp` options without memory for a context end in an
  assertion of `pcp_db_foreach_server`.
* `pcp_wait` and `pcp_app -T` multiply the timeout by 1000 in an `int`.

## 5. Proofs

TLC's instances are small; the theorems hold for every number of servers and
flows, every flow table, all limits and delays, all lifetimes and all result
codes, under the assumptions that the modules name:

* `RetxAssumption` (`PcpFlow`): `PCP_RETX_IRT` and `PCP_RETX_MRC` are positive,
  `PCP_RETX_MRT` is at least `PCP_RETX_IRT`;
* `ClientAssumption` (`PcpEventHandler`): at least one server, a ping limit and a
  retry delay above 0, versions below 255 (they are bytes);
* `EnvironmentAssumption` (`PcpClient`): the types of what the environment may
  do; granted lifetimes are positive;
* `EpochAssumption` (`PcpEpoch`): an epoch is more than 64 wide;
* `ExchangeAssumption` (`PcpExchange`): the clock stays in the first quarter of
  the epoch's width (34 years from the start of time in the model); the types of
  the other parameters;
* `VersionAssumption` (`PcpClientLink`) and `MsgAssumption` (`PcpMsg`): the
  highest version is at most 2, as `PCP_MAX_SUPPORTED_VERSION` is, and the buffer
  has 936 bytes (the code's has 1100), which is what the longest request has
  without metadata: `add_md_option` looks for room, the other options do not;
* `FlowAssumption` (`PcpExchange`): flows are such as `pcp_new_flow`,
  `pcp_learn_dscp` and the ping make them (`IsFlow`): `memset` leaves the fields
  of the key at 0 that are not set, a source that is not given is replaced by that
  of the server, `pcp_db_add_md` cuts off metadata;
* `WaitAssumption` (`PcpWait`): the times of a wait are not negative;
* `DiscoveryAssumption`, `DumpAssumption` (`PcpDiscovery`): the types of addresses
  and interfaces; the array begins with at least one slot; and how the kernel
  answers a dump (external): no datagram is empty, `NLMSG_DONE` and an answer that
  is not `NLM_F_MULTI` end it, and neither shares its datagram with routes that
  would be lost (section 4 says what the code does otherwise);
* `ContextAssumption` (`PcpContext`): the hash of a key is a bucket. Nothing else
  is assumed of the hash. ANNOUNCE is none of the application's requests, and it
  adds no server by the any address;
* `AddressAssumption` (`PcpAddress`): what `inet_ntop` writes (external) has no
  brackets and no slash, no colon for IPv4 and more than one for IPv6; a number
  is at most 65535 and one token;
* `AppAssumption` (`PcpApp`): what `getopt_long` hands over is a sequence of
  options with an argument; there are finitely many gateways.

The values in `libpcp/default_config.h` and `pcp_event_handler.c` meet them. TLC
evaluates the assumptions in every run. `MaxServers`, `NFlows`, `MaxRequests` and
`MaxAnswers` bound the models; the theorems hold for every value of them.

`PcpFlowProofs` proves what `handle_flow_event` does to one flow, whatever its
state, event and environment (theorem `HandleFlowEvent`). There is a lemma per
handler, one for each kind of round of the loop (a first round, one that sends,
one that renews), and from them: four rounds suffice (the event left over is
`fev_none`), types are kept, the state a flow is left in, and its timer.

`PcpClientProofs` proves `Spec => []IndInv` (theorem `Inductive`). None of the
invariants above is inductive alone: the deadline of a ping is copied from the
timer of its flow, so it needs `RequestHasTimer`; that the ping flow is in the
table needs to know when a server still uses it; a due transient state is what
lets the handler of that state assume nothing happened in between. `IndInv` is

* `FlowOk` for every flow: its type and `RequestHasTimer` for it;
* `ServerOk` for every server: its type, and `RestartMarkIsMomentary`,
  `PingFlowValid`, `PingHasDeadline`, `NoOrphanFlow`, `UnsentIsScheduled` and
  `VersionSupported` for it. `VersionSupported` speaks of `next_version` during a
  negotiation, since that is where the version in use comes from;
* `TypeOK` and `TransientIsDriven`, which relates servers to the running pulse.

`ServerOk` takes the record of the server and the flow table as arguments, so
that a handler's outcome can be judged before it is committed.

The argument for a step of server `s` (`StepOk`, `CommitPreserves`) has two
parts. `s` itself: one lemma per handler, from the lemmas on flows, gives
`ServerOk` for its new record. The other servers: their records do not change,
but `handle_wait_io_timeout` also runs the timers of their flows. `Mild` says
what such a step may do to a flow of another server (it stays in the table, one
that is sent or waiting for its answer goes on or fails, none starts to wait for
the server or becomes unsent), and `OtherServer` shows that `ServerOk` survives
that. `Running` says that no other server is in a transient state meanwhile.
Then there is one lemma per action (`NewFlowStep`, `CloseStep`, `TickStep`, ...),
and the theorem. The nearest timeout and the first flow of the table need that a
nonempty set of naturals has a least element (`NatMin`), which comes from the
library's facts on well-founded relations.

`PcpLinkProofs` proves the refinement, `Spec => ImplementsLink`: initial states
map to initial states, and each step to a step of `LNext` or to a stutter
(`LinkRefinement`). `IndInv` is not enough. In a negotiation the version that the
client goes on with must be one that the server has named in a refusal, or the
step to a lower version has no counterpart in `PcpLink`. That is `RefusalOk`,
proved first (`RefusalsAreReal`). `Moved` says how a handler may change the record
of its server, seen from `PcpLink`; there is one lemma per handler that shows it,
and one that turns it into a step of the abstract specification.

`PcpWaitProofs` proves that the invariants of `PcpClient` survive inside
`pcp_wait` and `pcp_terminate`, and `WInv` (`WaitInductive`), which adds four
things. `CallOk`: where a call stands and who has control there. `WaitOk`: the
flows that were in an exit state when the wait began are not all of the chain,
which is why `DoneIsNotWaitedFor` can hold although `pcp_wait` compares two
numbers of flows; it needs that only ANNOUNCE flows join the table inside
`pcp_pulse` and none leaves it (`KeepsTable`). `SweepOk` and `SweptOk`: the servers
that the sweep has passed are not due any more, so that none is when `pcp_wait`
goes on; from this `SelectMaySleep` follows.

**Induction over data.** The library's induction theorems are about a predicate,
which the provers cannot be given; `PcpInduction` states them for the *set* of the
values with the property (`SubsetInduction`, `SetNatInduction`). The folds of the
community modules are functions that are defined by recursion over the subsets of
the positions; `FoldsExists` and `IteratesUnique` show that there is exactly one,
and `FoldPrefixes` that its value at `1..i` comes from the one at `1..(i - 1)`. What
`build_pcp_options`, `Without`, `AddAll`, `Suitable`, `SizeOf`, `Gateways` and the loop
over the servers of the command line compute is proved with these, for sequences
of any length.

`PcpExchangeProofs` proves `NoFalseRestart` and `RestartNoticed` from `EpochInv`,
which says where the numbers come from: an answer on the wire
carries the uptime of its server when it was made and is at most `MaxDelay` old;
the reference, once there is one, was made at `ref_start + epoch`, at most
`MaxDelay` before `cepoch`. `ResponseEpoch` shows that every server's answer
carries the epoch it was given, whatever its result. From `EpochInv` both
differences are known up to `MaxDelay`, and two lemmas on the arithmetic finish
it: `InStep` (differences at most two apart are never reported) and `Behind` (a
difference of the epochs that is too small is reported, whether it wraps or
not). The theorems hold for every width of the epoch, in particular 2^32, every
set of clock readings, every delay and any flows and servers.

The theorems about messages rest on `WireInv`: every request on the wire was made
of its flow in some version, every answer is one that the server makes of its
request. `BuildRequest` shows what `build_pcp_msg` makes of a flow, with any
metadata: by induction over the list, `add_md_option` keeps the length within the
buffer and a multiple of four. From there each layout is read back field by field,
whatever version the client has changed to meanwhile.

`PcpContextProofs` proves `ContextInv` (`ContextInductive`), four invariants that
need each other:

* `ServersInv`: no two slots in use have the same address and scope, and the scope
  of a slot is one that its address may have. Without the second, looking up a
  server could miss the slot and add it again;
* `FlowsInv`: a flow that was not moved names a slot in use with its address; the
  flows of a chain of children are there or gone together, except during
  `pcp_terminate`, and no flow has two parents (or deleting one chain would take
  flows of another);
* `TableInv`: each chain is the flows of its bucket in the order in which they were
  added. `TableWellFormed` does not say in which order, but `AnswerReachesFlow`
  (the *oldest* flow with the key) and the walk need it;
* `IterInv`: what the walk must still come to (`left`) is the flow it holds, or in
  its chain at `next` or behind it, or in a later chain; what it has seen is before
  the flow it holds. Flows added meanwhile go to the end of their chain, and only
  `IterVisit` frees flows, the one it holds. Hence `IterationHoldsLive` and
  `IterationIsComplete`. Without `close_flows`, `pcp_terminate` has all of the table
  in `left`, which is why nothing is there at its end.

`GatewaysAllOrNone` comes from `LookupInv`: while the buffer has room, the dump is
what was read followed by what was not; a buffer without room refuses the next
datagram, `NLMSG_DONE` included. `ServersStay` is an action property, from
`ServersInv` and the lemmas on the slot that a new server gets.

`PcpAppProofs` proves `AppInv` (`AppInductive`): the parameters are those that the
options before `optind` leave, whatever came before them; the list of servers is
the `-s` options, last first, each with the version given last before it
(`Listed`); and how far `main` is says which of its
checks were passed. `Merged` says, by induction over the list, what adding it
leaves: for each address with a route the version of its last entry, that is of
its first mention (`ServersAdded`, `ListedMore`). The two statements about addresses need no invariant. For each
way to write an address it is shown where `sock_pton` finds its brackets, slash
and first colon (`Bracketed`, `Unbracketed`, `Cut`), and so which host, port and
prefix it hands to `getaddrinfo`; `RoundTrip` follows, since what `sock_ntop` writes
is one of these ways.

| theorem | states |
|---|---|
| `HandleFlowEvent` | the outcome of an event for one flow |
| `Inductive` | `Spec => []IndInv` |
| `TypeCorrect` | `TypeOK` |
| `TransientDriven` | `TransientIsDriven` |
| `RestartMarkMomentary` | `RestartMarkIsMomentary` |
| `PingFlowIsValid` | `PingFlowValid` |
| `PingDeadline` | `PingHasDeadline` |
| `RequestTimer` | `RequestHasTimer` |
| `NoOrphan` | `NoOrphanFlow` |
| `UnsentScheduled` | `UnsentIsScheduled` |
| `VersionInRange` | `VersionSupported` |
| `RefusalsAreReal` | `RefusalOk`: versions are lowered only as the server said |
| `LinkRefinement` | `ImplementsLink` |
| `WaitInductive` | `WSpec => []WInv` |
| `WaitTypeCorrect` | `WTypeOK` |
| `DoneNotWaitedFor` | `DoneIsNotWaitedFor` |
| `SelectSleeps` | `SelectMaySleep` |
| `ExchangeTypeCorrect` | `TypeOK` of `PcpExchange` |
| `RequestsFit` | `RequestFits` |
| `AnswersUnderstood` | `AnswerUnderstood` |
| `AnswersFindFlow` | `AnswerFindsFlow` |
| `NoFalseRestartHolds` | `NoFalseRestart` |
| `RestartNoticedHolds` | `RestartNoticed` |
| `ContextInductive` | `Spec => []ContextInv` |
| `ContextTypeCorrect` | `TypeOK` of `PcpContext` |
| `TableSound` | `TableWellFormed` |
| `WalkHoldsLive` | `IterationHoldsLive` |
| `WalkIsComplete` | `IterationIsComplete` |
| `AnswersReach` | `AnswerReachesFlow` |
| `ServersKeepIndex` | `ServersStay` |
| `GatewaysComplete` | `GatewaysAllOrNone` |
| `AppInductive` | `AppSpec => []AppInv` |
| `AppTypeCorrect` | `TypeOK` of `PcpApp` |
| `ExitTellsAResult` | `ExitIsAFlowsResult` |
| `RequestsNotMixed` | `OneKindOfRequest` |
| `ServersVersioned` | `ServersGetTheirVersion` |
| `AddressesRead` | `WrittenIsRead` |
| `AddressesRoundTrip` | `RoundTrip` |

So every safety property of a passing run is proved. Only model-checked:
`PulseReturns`, `PingResolves` and `CallReturns`, since liveness under fairness is
out of the prover's reach, and the counterexamples of section 4.

## 6. Not modelled

* **Callbacks that delete or change flows** in the middle of `handle_flow_event`;
  those that add flows are in `PcpContext`.
* **A `ping_flow_msg` left over in a slot that another server gets**: the modules
  with slots that change hands have no pings. `handle_server_ping` sets the
  pointer before it is used.
* **Byte order and option contents** of messages; only sizes, option codes and key
  fields are kept.
* **The route lookup of Windows and of the BSDs**, about half of `gateway.c`: code
  that is not in a Linux build.
* **Sockets, logging, Windows code, the example**: input and output, or fixed
  sequences of calls; the results of system calls are choices of the model.
* The printing, command line and socket setup of `pcp_server`, and the printing of
  `pcp_app`.

## 7. Plan

1. Done: `PcpFlow`, `PcpEventHandler`, `PcpClient`, their runs, the disagreements
   with the documentation, and the proofs of all safety invariants of
   `PcpClient`.
2. Done: `PcpEpoch`, `PcpMsg`, `PcpServer` and their composition `PcpExchange`,
   its run, and the proofs about the epoch check.
3. Done: `PcpLink` and the refinement; `PcpWait`; `PcpGateway`, `PcpDiscovery` and
   `PcpContext`; `PcpAddress` and `PcpApp`.
4. Done: the proofs of all safety properties of the passing runs, with the
   refinement and the induction over data that they need.
5. Next: what the liveness properties rest on can be stated as safety and proved.
   For `PulseReturns` that is a rank that every turn of the loop of `hserver_iter`
   lowers; for `PingResolves`, that with each tick or turn a ping is nearer to its
   end.
