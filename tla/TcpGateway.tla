----------------------------- MODULE TcpGateway -----------------------------
(* The way of an allowed TCP connection out of the sandbox: the native      *)
(* gateway forks a relay per connection (tcp_gateway.rs), the relay         *)
(* announces its flow to the broker, the broker claims the approval of that *)
(* flow, looks at the first bytes and either relays them or hands the       *)
(* connection to the HTTP broker, which authorises one request at a time    *)
(* (TcpGatewayBroker.ts, HttpRequestBroker.ts).                             *)
(*                                                                          *)
(* A flow is the five-tuple of flowKey.  The clock is abstract: approvals   *)
(* of a flow expire in the order they were given, so two counters hold what *)
(* the array of PendingApproval holds.  Parsing of headers, certificates    *)
(* and URLs are choices between the outcomes that matter here.              *)
EXTENDS Naturals, Sequences, FiniteSets, FiniteSetsExt

CONSTANTS
    Flows,          \* five-tuples
    Conns,          \* connections that reach the gateway
    MaxApprovals,   \* MAX_PENDING_APPROVALS
    MaxRelays,      \* MAX_ACTIVE_RELAYS
    MaxRequests     \* bound on the requests of one connection

ASSUME GatewayAssumption == MaxApprovals \in Nat /\ MaxRelays \in Nat /\ MaxRequests \in Nat

VARIABLES
    aware,          \* options.authorizeHttpRequest is given
    broker,         \* "up" or "stopping"
    fresh, stale,   \* approvals of a flow before and after their expiry
    pendingApprovalCount,
    activeRelays,   \* ACTIVE_RELAYS
    forking,        \* SIGCHLD is blocked: a fork is not yet counted
    flow,           \* flow of each connection that was accepted
    relay,          \* the relay process of a connection
    stage,          \* the connection at the broker
    requests        \* HTTP requests of a connection, in order of arrival

approvalVars == <<fresh, stale, pendingApprovalCount>>
relayVars == <<activeRelays, forking, flow, relay>>
gatewayVars == <<aware, broker, approvalVars, relayVars, stage, requests>>

NoFlow == "no flow"
ASSUME FlowsAssumption == IsFiniteSet(Flows) /\ NoFlow \notin Flows
Final == {"answered", "denied", "failed"}
\* Stages in which the connection has claimed an approval.
Claimed == {"sniff", "tls", "connect", "relay", "http"}

GatewayInit ==
    /\ aware \in BOOLEAN /\ broker = "up"
    /\ fresh = [f \in Flows |-> 0] /\ stale = [f \in Flows |-> 0] /\ pendingApprovalCount = 0
    /\ activeRelays = 0 /\ forking = FALSE
    /\ flow = [c \in Conns |-> NoFlow] /\ relay = [c \in Conns |-> "none"]
    /\ stage = [c \in Conns |-> "none"] /\ requests = [c \in Conns |-> <<>>]

-----------------------------------------------------------------------------
(* Approvals.                                                              *)

Total(count) == MapThenSumSet(LAMBDA f : count[f], Flows)

\* Pruning counts what it removes.
Pruned == pendingApprovalCount - Total(stale)

CanApprove == broker = "up" /\ Pruned < MaxApprovals

\* approve(): prunes, then records one more approval or throws at the limit.
Approve(f) ==
    /\ CanApprove
    /\ fresh' = [fresh EXCEPT ![f] = @ + 1]
    /\ stale' = [g \in Flows |-> 0]
    /\ pendingApprovalCount' = Pruned + 1

\* A call of approve() that throws has pruned, unless the broker is closed.
ApproveThrows ==
    /\ ~CanApprove
    /\ IF broker = "up"
       THEN /\ stale' = [g \in Flows |-> 0] /\ pendingApprovalCount' = Pruned
            /\ UNCHANGED fresh
       ELSE UNCHANGED approvalVars

\* The oldest approval of a flow passes its expiresAt.
Expire(f) ==
    /\ fresh[f] > 0
    /\ fresh' = [fresh EXCEPT ![f] = @ - 1]
    /\ stale' = [stale EXCEPT ![f] = @ + 1]
    /\ UNCHANGED <<aware, broker, pendingApprovalCount, relayVars, stage, requests>>

\* consumeApproval(): prunes and takes the oldest approval that is left.
Consume(f) ==
    /\ fresh[f] > 0
    /\ fresh' = [fresh EXCEPT ![f] = @ - 1]
    /\ stale' = [g \in Flows |-> 0]
    /\ pendingApprovalCount' = Pruned - 1

ConsumeNothing(f) ==
    /\ fresh[f] = 0
    /\ stale' = [g \in Flows |-> 0] /\ pendingApprovalCount' = Pruned
    /\ UNCHANGED fresh

-----------------------------------------------------------------------------
(* The native gateway.                                                     *)

\* serve_listeners accepts one connection after another.
Accepting == ~forking

\* accept_client: the connection is dropped, at the limit or because it cannot be
\* set up, or a relay is forked with SIGCHLD blocked.
AcceptClient(c, f) ==
    /\ flow[c] = NoFlow /\ Accepting
    /\ flow' = [flow EXCEPT ![c] = f]
    /\ \/ stage' = [stage EXCEPT ![c] = "closed"] /\ UNCHANGED <<forking, relay>>
       \/ /\ activeRelays < MaxRelays
          /\ relay' = [relay EXCEPT ![c] = "forked"] /\ forking' = TRUE
          /\ UNCHANGED stage
    /\ UNCHANGED <<aware, broker, approvalVars, activeRelays, requests>>

\* The parent counts the relay and unblocks SIGCHLD.
CountRelay ==
    /\ forking
    /\ activeRelays' = activeRelays + 1 /\ forking' = FALSE
    /\ UNCHANGED <<aware, broker, approvalVars, flow, relay, stage, requests>>

\* accept(): a broker that stops destroys the socket.
Accepted == IF broker = "up" THEN "header" ELSE "closed"

\* handle_client: connects to the broker and sends the flow header.
RelayConnects(c) ==
    /\ relay[c] = "forked" /\ stage[c] = "none"
    /\ stage' = [stage EXCEPT ![c] = Accepted]
    /\ UNCHANGED <<aware, broker, approvalVars, relayVars, requests>>

\* The relay ends when its streams are done, or on any socket error.  What it
\* sent before is still read: the broker notices at its next step.
RelayExits(c) ==
    /\ relay[c] = "forked"
    /\ relay' = [relay EXCEPT ![c] = "exited"]
    /\ stage' = [stage EXCEPT ![c] = IF @ \in {"none", "relay", "http"} THEN "closed" ELSE @]
    /\ UNCHANGED <<aware, broker, approvalVars, activeRelays, forking, flow, requests>>

\* Mutant: SIGCHLD is not blocked around the fork.
MayReapAlways == TRUE
\* reap_children runs on SIGCHLD, which is not delivered while it is blocked.
MayReap == ~forking

Exited == {c \in Conns : relay[c] = "exited"}
ReapChildren ==
    /\ MayReap /\ Exited # {}
    /\ relay' = [c \in Conns |-> IF c \in Exited THEN "reaped" ELSE relay[c]]
    /\ activeRelays' = IF activeRelays > Cardinality(Exited) THEN activeRelays - Cardinality(Exited) ELSE 0
    /\ UNCHANGED <<aware, broker, approvalVars, forking, flow, stage, requests>>

-----------------------------------------------------------------------------
(* The broker.  A step of handle() that follows an await also runs when     *)
(* close() has destroyed the socket meanwhile: destroying emits neither end *)
(* nor error, so the wait ends with its timer.                              *)

Drop(c) == stage' = [stage EXCEPT ![c] = "closed"]

\* readHeaderLine rejects: no line in time, or one that is too long.
HeaderFails(c) == Drop(c) /\ UNCHANGED approvalVars

\* The header line is read and the approval of its flow consumed, or handle()
\* throws.
ClaimFlow(c) ==
    /\ stage[c] = "header"
    /\ \/ Consume(flow[c]) /\ stage' = [stage EXCEPT ![c] = "sniff"]
       \/ ConsumeNothing(flow[c]) /\ Drop(c)
       \/ HeaderFails(c)
    /\ UNCHANGED <<aware, broker, relayVars, requests>>

\* sniffClientProtocol: what the first bytes look like, "opaque" when they do not
\* come in time.
Protocols == {"http1", "tls", "opaque", "error"}

\* Without an HTTP authoriser everything is relayed; with one, HTTP and TLS go
\* on and other protocols are refused.
Sniff(c, protocol) ==
    /\ stage[c] = "sniff"
    /\ stage' = [stage EXCEPT ![c] =
          CASE protocol = "error"                -> "closed"
            [] protocol # "error" /\ ~aware      -> "connect"
            [] protocol = "http1" /\ aware       -> IF broker = "up" THEN "http" ELSE "closed"
            [] protocol = "tls" /\ aware         -> "tls"
            [] protocol = "opaque" /\ aware      -> "closed"]
    /\ UNCHANGED <<aware, broker, approvalVars, relayVars, requests>>

\* The TLS handshake ends with the approved server name, or it fails.
Handshake(c) ==
    /\ stage[c] = "tls"
    /\ \/ stage' = [stage EXCEPT ![c] = IF broker = "up" THEN "http" ELSE "closed"]
       \/ Drop(c)
    /\ UNCHANGED <<aware, broker, approvalVars, relayVars, requests>>

\* relayUnmodified: the upstream connection is made or refused.
ConnectUpstream(c) ==
    /\ stage[c] = "connect"
    /\ \/ stage' = [stage EXCEPT ![c] = "relay"]
       \/ Drop(c)
    /\ UNCHANGED <<aware, broker, approvalVars, relayVars, requests>>

\* close(): approvals are cleared and the tracked sockets destroyed.
CloseBroker ==
    /\ broker' = "stopping"
    /\ fresh' = [f \in Flows |-> 0] /\ stale' = [f \in Flows |-> 0] /\ pendingApprovalCount' = 0
    /\ stage' = [c \in Conns |-> IF stage[c] \in {"relay", "http"} THEN "closed" ELSE stage[c]]
    /\ UNCHANGED <<aware, relayVars, requests>>

-----------------------------------------------------------------------------
(* The HTTP broker.                                                        *)

Request(c) ==
    /\ stage[c] = "http" /\ Len(requests[c]) < MaxRequests
    /\ requests' = [requests EXCEPT ![c] = Append(@, "queued")]
    /\ UNCHANGED <<aware, broker, approvalVars, relayVars, stage>>

\* The tail promise: a request waits until the ones before it are settled,
\* whether they were answered or failed.
TailSettled(c, i) == \A k \in 1..(i - 1) : requests[c][k] \in Final

Settle(c, i, result) == requests' = [requests EXCEPT ![c][i] = result]

\* createHttpRequestEvent: the target and the authority of a request fit the
\* approval of its connection, or it throws and 502 is the answer.
Examined == {"authorizing", "failed"}

HandleRequest(c, i) ==
    /\ requests[c][i] = "queued" /\ TailSettled(c, i)
    /\ \E result \in Examined : Settle(c, i, result)
    /\ UNCHANGED <<aware, broker, approvalVars, relayVars, stage>>

\* The authoriser allows, denies or throws; close() aborts it.
Authorized(c, i) ==
    /\ requests[c][i] = "authorizing"
    /\ \/ broker = "up" /\ Settle(c, i, "forwarding")
       \/ Settle(c, i, "denied")
    /\ UNCHANGED <<aware, broker, approvalVars, relayVars, stage>>

\* forwardRequest ends with the response of the upstream or with an error.
Forwarded(c, i) ==
    /\ requests[c][i] = "forwarding"
    /\ \E result \in {"answered", "failed"} : Settle(c, i, result)
    /\ UNCHANGED <<aware, broker, approvalVars, relayVars, stage>>

HttpStep(c) == \E i \in DOMAIN requests[c] : HandleRequest(c, i) \/ Authorized(c, i) \/ Forwarded(c, i)

BrokerStep(c) ==
    \/ ClaimFlow(c) \/ Handshake(c) \/ ConnectUpstream(c)
    \/ \E p \in Protocols : Sniff(c, p)

\* What the gateway and the brokers do on their own.
GatewayStep ==
    \/ CountRelay \/ ReapChildren
    \/ \E f \in Flows : Expire(f)
    \/ \E c \in Conns : RelayConnects(c) \/ RelayExits(c) \/ BrokerStep(c) \/ Request(c) \/ HttpStep(c)

-----------------------------------------------------------------------------
(* Properties.                                                             *)

\* The two limits are kept over what really exists: the pending count of
\* TcpGatewayBroker is the number of approvals it holds, and ACTIVE_RELAYS is the
\* number of relay processes that are not reaped, however fast a relay exits.
LimitsExact ==
    /\ pendingApprovalCount = Total(fresh) + Total(stale)
    /\ pendingApprovalCount <= MaxApprovals
    /\ activeRelays + (IF forking THEN 1 ELSE 0) = Cardinality({c \in Conns : relay[c] \in {"forked", "exited"}})
    /\ activeRelays <= MaxRelays

\* Requests that a client pipelines on one connection are decided and forwarded
\* one after another: no request is before the authoriser or upstream while an
\* earlier one is (the tail of enqueueRequest).
OneRequestAtATime ==
    \A c \in Conns : \A i, k \in DOMAIN requests[c] :
        i < k /\ requests[c][k] # "queued" => requests[c][i] \in Final

\* Every request is settled, also when the one before it failed or its
\* connection was closed, as long as the authoriser and the upstream answer.
RequestsSettle == \A c \in Conns : \A i \in 1..MaxRequests :
    (i \in DOMAIN requests[c]) ~> (i \in DOMAIN requests[c] /\ requests[c][i] \in Final)

\* Connections, approvals and requests are counted and taken in turn.
GatewayOrderly == LimitsExact /\ OneRequestAtATime
=============================================================================
