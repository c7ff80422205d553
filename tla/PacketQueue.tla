---------------------------- MODULE PacketQueue ----------------------------
(* The verdict on a packet of the sandboxed worker: the rules of            *)
(* baseRuleset queue the first packet of a connection, the native helper    *)
(* (network_queue.rs) sends one event at a time and blocks on the verdict,  *)
(* NetworkSandboxRunner attributes the event, asks for a decision, gives    *)
(* the TCP gateway an approval and writes the verdict.  Composed with       *)
(* TcpGateway, which an allowed connection reaches.                         *)
(*                                                                          *)
(* A flow stands for its five-tuple, its operation and its policy scope.    *)
(* The packet filter of the kernel and the pipes are modelled from how the  *)
(* rules and the two processes use them.                                    *)
EXTENDS TcpGateway, SequencesExt

CONSTANTS
    Operation,      \* flow -> "tcp", "loopback", "udp", "dns" or "malformed"
    Synthetic,      \* flows to an address of the synthetic range
    Scope,          \* flow -> scope of its decision (NetworkPolicyProjector.project)
    ScopeCovers,    \* pairs <<rule, candidate>> of NetworkPolicyProjector.covers
    QueueLength,    \* nfq_set_queue_maxlen
    MaxPackets      \* bound on the packets the worker sends

\* A scope covers itself (NetworkPolicyProjector.covers); a malformed packet has none.
ASSUME ScopeAssumption == \A f \in Flows : Operation[f] # "malformed" => <<Scope[f], Scope[f]>> \in ScopeCovers

VARIABLES
    sent,           \* packets sent so far
    mark,           \* conntrack mark of a flow
    nfq,            \* packets that wait for a verdict in the kernel
    passed,         \* flows of which a queued packet was let through
    helper,         \* the helper: sequence, whether it waits, how it ended
    events,         \* pipe of EVENT records
    verdicts,       \* pipe of VERDICT records
    node,           \* NetworkSandboxRunner: lastSequence, pendingEvent, the attempt, why it failed
    decisions       \* records of NetworkDecisionCoordinator, oldest first

kernelVars == <<sent, mark, nfq, passed>>
queueVars == <<kernelVars, helper, events, verdicts, node, decisions>>
trafficVars == <<queueVars, gatewayVars>>

Marked == {"tcp", "loopback", "udp"}   \* operations whose connection carries a mark

QueueInit ==
    /\ GatewayInit
    /\ sent = 0 /\ mark = [f \in Flows |-> "new"] /\ nfq = <<>> /\ passed = {}
    /\ helper = [sequence |-> 0, waiting |-> FALSE, ended |-> "no"]
    /\ events = <<>> /\ verdicts = <<>>
    /\ node = [lastSequence |-> 0, pendingEvent |-> FALSE, stage |-> "idle", flow |-> NoFlow,
               decision |-> "DENY", failed |-> "no"]
    /\ decisions = <<>>

-----------------------------------------------------------------------------
(* The packet filter.                                                      *)

\* A packet of f meets the output chain.  Only a connection without a mark is
\* queued; a DNS query always is.  A packet that finds the queue full or without
\* a reader is dropped, since the helper turned fail-open off.
SendPacket(f) ==
    /\ sent < MaxPackets /\ sent' = sent + 1
    /\ IF mark[f] = "new" /\ helper.ended = "no" /\ Len(nfq) < QueueLength
       THEN /\ nfq' = Append(nfq, f)
            /\ mark' = [mark EXCEPT ![f] = IF Operation[f] \in Marked THEN "pending" ELSE @]
       ELSE UNCHANGED <<nfq, mark>>
    /\ UNCHANGED <<passed, helper, events, verdicts, node, decisions, gatewayVars>>

\* Conntrack forgets a connection: one whose first packet did not get through is
\* not confirmed, any other times out.  A retransmission is then queued again.
Forget(f) ==
    /\ mark[f] # "new" /\ mark' = [mark EXCEPT ![f] = "new"]
    /\ UNCHANGED <<sent, nfq, passed, helper, events, verdicts, node, decisions, gatewayVars>>

\* NF_REPEAT with the mark of the verdict: the chain sees the packet once more.
Repeat(decision) ==
    LET f == Head(nfq) IN
    /\ nfq' = Tail(nfq)
    /\ passed' = IF decision = "ALLOW" THEN passed \cup {f} ELSE passed
    /\ mark' = [mark EXCEPT ![f] = IF Operation[f] \notin Marked THEN @
                                   ELSE IF decision = "ALLOW" THEN "allow" ELSE "deny"]
    /\ UNCHANGED sent

DropPacket == nfq' = Tail(nfq) /\ UNCHANGED <<sent, mark, passed>>

\* The helper ends; the kernel drops what was queued for it.
EndHelper(why) ==
    /\ helper' = [helper EXCEPT !.ended = why, !.waiting = FALSE]
    /\ nfq' = <<>> /\ events' = <<>> /\ verdicts' = <<>>
    /\ UNCHANGED <<sent, mark, passed>>

-----------------------------------------------------------------------------
(* The helper.                                                             *)

\* parse_packet and parse_dns_query understand a packet or reject it.
Malformed(f) == Operation[f] = "malformed"

\* A packet that is rejected is dropped without an event.
ParsedSequence(f) == helper.sequence + (IF Malformed(f) THEN 0 ELSE 1)

\* Packet::event, and what parseNetworkQueueMessage reads from it.
Event(f) == [sequence |-> ParsedSequence(f), flow |-> f]

\* process_packet up to the write of the event (request_verdict).
ProcessPacket ==
    /\ helper.ended = "no" /\ ~helper.waiting /\ nfq # <<>>
    /\ LET f == Head(nfq) IN
       IF Malformed(f)
       THEN /\ DropPacket /\ helper' = [helper EXCEPT !.sequence = ParsedSequence(f)]
            /\ UNCHANGED events
       ELSE /\ helper' = [helper EXCEPT !.sequence = ParsedSequence(f), !.waiting = TRUE]
            /\ events' = Append(events, Event(f))
            /\ UNCHANGED kernelVars
    /\ UNCHANGED <<verdicts, node, decisions, gatewayVars>>

\* read_verdict and parse_verdict.
ExpectedVerdict(v) == v.sequence = helper.sequence

\* nfq_set_verdict2: a verdict with another sequence is a
\* protocol failure, which drops the packet and ends the helper.
ReadVerdict ==
    /\ helper.waiting /\ verdicts # <<>>
    /\ LET v == Head(verdicts) IN
       IF ExpectedVerdict(v)
       THEN /\ Repeat(v.decision) /\ helper' = [helper EXCEPT !.waiting = FALSE]
            /\ verdicts' = Tail(verdicts) /\ UNCHANGED events
       ELSE EndHelper("verdict")
    /\ UNCHANGED <<node, decisions, gatewayVars>>

-----------------------------------------------------------------------------
(* NetworkSandboxRunner.  A line of the helper is handled when it arrives;  *)
(* the write of a verdict completes before the next line is read, because   *)
(* the helper answers only what it has read.                                *)

\* The first record that covers the scope decides (decisions.find).
CoveredBy(f) == SelectInSeq(decisions, LAMBDA r : <<r.scope, Scope[f]>> \in ScopeCovers)

\* fail() and terminate() kill the helper.
Failing(why) == node' = [node EXCEPT !.failed = why] /\ EndHelper("killed")

\* attributePolicyEvent throws for an address of the synthetic range without a
\* live lease and for a resolver that is not the sandbox's.
Attributions(f) == IF f \in Synthetic \/ Operation[f] = "dns" THEN BOOLEAN ELSE {TRUE}

\* onQueueEvent and the look-up of an earlier decision.  What cannot be attributed
\* is denied without asking.
OnQueueEvent ==
    /\ events # <<>> /\ node.failed = "no"
    /\ LET e == Head(events) IN
       IF node.pendingEvent THEN Failing("concurrent") /\ UNCHANGED <<decisions, gatewayVars>>
       ELSE IF e.sequence # node.lastSequence + 1 THEN Failing("sequence") /\ UNCHANGED <<decisions, gatewayVars>>
       ELSE /\ \E attributed \in Attributions(e.flow) :
                  node' = [node EXCEPT !.lastSequence = e.sequence, !.pendingEvent = TRUE, !.flow = e.flow,
                              !.decision = IF attributed /\ CoveredBy(e.flow) # 0
                                           THEN decisions[CoveredBy(e.flow)].decision ELSE "DENY",
                              !.stage = CASE ~attributed -> "verdict"
                                          [] attributed /\ CoveredBy(e.flow) # 0 -> "decided"
                                          [] attributed /\ CoveredBy(e.flow) = 0 -> "asking"]
            /\ events' = Tail(events)
            /\ UNCHANGED <<kernelVars, helper, verdicts, decisions, gatewayVars>>

\* Mutant: only a refusal denies.
AnsweredLax(answer) == IF answer = "DENY" THEN "DENY" ELSE "ALLOW"
Answered(answer) == IF answer = "ALLOW" THEN "ALLOW" ELSE "DENY"

\* options.decide answers and the coordinator keeps the answer; a rejection is
\* reported and denies this packet only.
Decide(answer) ==
    /\ node.stage = "asking"
    /\ node' = [node EXCEPT !.decision = Answered(answer), !.stage = "decided"]
    /\ decisions' = IF answer = "error" THEN decisions
                    ELSE Append(decisions, [scope |-> Scope[node.flow], decision |-> answer])
    /\ UNCHANGED <<kernelVars, helper, events, verdicts, gatewayVars>>

\* An allowed connection that leaves the host needs an approval of the gateway,
\* given before the verdict is written; approve() that throws denies.
NeedsApproval == node.decision = "ALLOW" /\ Operation[node.flow] = "tcp"
Resolve ==
    /\ node.stage = "decided"
    /\ IF NeedsApproval
       THEN \/ /\ Approve(node.flow) /\ node' = [node EXCEPT !.stage = "verdict"]
            \/ /\ ApproveThrows /\ node' = [node EXCEPT !.stage = "verdict", !.decision = "DENY"]
       ELSE node' = [node EXCEPT !.stage = "verdict"] /\ UNCHANGED approvalVars
    /\ UNCHANGED <<kernelVars, helper, events, verdicts, decisions, aware, broker, relayVars, stage, requests>>
\* Mutant: a packet nobody decided about gets no verdict.
WritesVerdictIfAsked == node.failed = "no" /\ CoveredBy(node.flow) # 0
\* The end of resolveAttempt: nothing is written once the run stops.
WritesVerdict == node.failed = "no"

WriteVerdict ==
    /\ node.stage = "verdict"
    /\ verdicts' = IF WritesVerdict
                   THEN Append(verdicts, [sequence |-> node.lastSequence, decision |-> node.decision])
                   ELSE verdicts
    /\ node' = [node EXCEPT !.stage = "idle", !.pendingEvent = FALSE]
    /\ UNCHANGED <<kernelVars, helper, events, decisions, gatewayVars>>

\* An abort, a timeout, another failure or the end of the worker: decisionAbort
\* is aborted and the helper is killed.  Later cleanup() closes the broker.
StopRun ==
    /\ node.failed = "no" /\ Failing("stopped")
    /\ UNCHANGED <<decisions, gatewayVars>>

CleanupBroker ==
    /\ node.failed # "no" /\ broker = "up" /\ CloseBroker
    /\ UNCHANGED queueVars

-----------------------------------------------------------------------------
\* A connection that the rules let through reaches the gateway; one to the
\* loopback stays inside.
ConnectionArrives(c, f) ==
    /\ Operation[f] = "tcp" /\ mark[f] = "allow" /\ AcceptClient(c, f)
    /\ UNCHANGED queueVars

NodeStep == OnQueueEvent \/ Resolve \/ WriteVerdict \/ \E a \in {"ALLOW", "DENY", "error"} : Decide(a)

QueueNext ==
    \/ \E f \in Flows : SendPacket(f) \/ Forget(f)
    \/ ProcessPacket \/ ReadVerdict \/ NodeStep \/ StopRun \/ CleanupBroker
    \/ \E c \in Conns, f \in Flows : ConnectionArrives(c, f)
    \/ GatewayStep /\ UNCHANGED queueVars

QueueSpec == QueueInit /\ [][QueueNext]_trafficVars

-----------------------------------------------------------------------------
(* Properties.                                                             *)

\* What gets out was allowed: a queued packet passes only for a flow whose
\* deciding record says ALLOW, and a connection that is relayed or served claimed
\* an approval of such a flow; decisions, errors, failed approvals, retransmitted
\* and malformed packets come in any order (resolveAttempt, consumeApproval).
OnlyAllowedPasses ==
    /\ \A f \in passed : CoveredBy(f) # 0 /\ decisions[CoveredBy(f)].decision = "ALLOW"
    /\ \A c \in Conns : stage[c] \in Claimed => flow[c] \in passed

\* The two ends never lose step: neither the runner nor the helper ever meets a
\* sequence number or an event it does not expect, so the only end of a run is
\* one that was asked for.
ProtocolInSync ==
    /\ node.failed \in {"no", "stopped"} /\ helper.ended \in {"no", "killed"}
    /\ helper.waiting => nfq # <<>>
    /\ Len(events) + Len(verdicts) <= 1

\* No packet waits for ever: the head of the queue gets its verdict or is
\* dropped, also when attribution or the decision fails.
QueueDrains == nfq # <<>> ~> nfq = <<>>

\* Verdicts belong to their packets, and only allowed ones let them pass.
VerdictsSound == OnlyAllowedPasses /\ ProtocolInSync
=============================================================================
