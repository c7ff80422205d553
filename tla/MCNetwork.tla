----------------------------- MODULE MCNetwork -----------------------------
(* Small instances of the parts of a sandboxed command that share no state: *)
(* the run itself, the packet queue with the gateway behind it, the gateway *)
(* and the HTTP broker on their own with more connections, the byte relay,  *)
(* the DNS proxy, the close of a FUSE session; and a web search.  `focus'   *)
(* chooses the part that moves; the others stay in their initial states.    *)
EXTENDS PacketQueue, NetworkSandbox, SyntheticDns, TcpRelay, FuseSession, WebSearch

VARIABLE focus

Focuses == {"queue", "gateway", "http", "sandbox", "dns", "relay", "fuse", "search"}

\* A DNS query, an HTTPS connection to a leased address, a packet nobody can parse.
MCOperation == [q |-> "dns", t |-> "tcp", x |-> "malformed"]
MCScope == [q |-> "host", t |-> "port", x |-> "none"]
MCScopeCovers == {<<"host", "host">>, <<"host", "port">>, <<"port", "port">>}
MCAsked == [d1 |-> <<"a", "b">>, d2 |-> <<"a">>, d3 |-> <<"b", "a">>]

\* Pages of links: a repeated one, one with tracking parameters, one without a
\* usable URL, one behind the redirector of a native backend; and what a stream
\* reports of them.
Link(site, page, tracked) == [site |-> site, page |-> page, tracked |-> tracked]
MCPages == {<<>>,
            <<Link("a", 1, FALSE), Link("b", 1, FALSE), Link("a", 1, TRUE)>>,
            <<Link("none", 1, FALSE), Link("redirector", 2, FALSE)>>,
            <<Link("b", 2, FALSE), Link("a", 2, FALSE), Link("a", 1, FALSE)>>}
Reported(kind, link) == [kind |-> kind, link |-> link]
MCEvents == {Reported("source", Link("a", 1, FALSE)), Reported("citation", Link("a", 2, FALSE)),
             Reported("source", Link("b", 1, FALSE)), Reported("text", Link("a", 3, FALSE)),
             Reported("error", Link("none", 1, FALSE))}
MCStreams == {<<>>} \cup [1..3 -> MCEvents]

\* The third order names a backend twice, which no configuration may.
MCOrders == {<<"brave", "native", "duckduckgo">>, <<"serper", "native">>, <<"brave", "brave">>}
MCPlans == [order : MCOrders, configured : {{"native", "brave", "serper"}, {"native"}}, filtered : BOOLEAN]

mcVars == <<focus, trafficVars, sandboxVars, dnsVars, byteVars, vars, searchVars>>

\* The gateway alone begins with one flow that was allowed.
Alone == {"gateway", "http"}
MCInit ==
    /\ focus \in Focuses
    /\ SandboxInit /\ DnsInit /\ RelayInit /\ Init /\ SearchInit
    /\ GatewayInit /\ aware = (focus = "http")
    /\ sent = 0 /\ nfq = <<>> /\ helper = [sequence |-> 0, waiting |-> FALSE, ended |-> "no"]
    /\ events = <<>> /\ verdicts = <<>>
    /\ node = [lastSequence |-> 0, pendingEvent |-> FALSE, stage |-> "idle", flow |-> NoFlow,
               decision |-> "DENY", failed |-> "no"]
    /\ mark = [f \in Flows |-> IF focus \in Alone /\ f = "t" THEN "allow" ELSE "new"]
    /\ passed = IF focus \in Alone THEN {"t"} ELSE {}
    /\ decisions = IF focus \in Alone THEN <<[scope |-> Scope["t"], decision |-> "ALLOW"]>> ELSE <<>>

\* What the packet queue does to the gateway.
Approvals ==
    \/ (Approve("t") \/ ApproveThrows) /\ UNCHANGED <<aware, broker, relayVars, stage, requests>>
    \/ broker = "up" /\ CloseBroker
Arrivals(conns) == \E c \in conns : AcceptClient(c, "t")

QueueFocus == QueueNext /\ flow'["c2"] = NoFlow
GatewayFocus == (Approvals \/ GatewayStep \/ Arrivals(Conns)) /\ UNCHANGED queueVars
HttpFocus == (Approvals \/ GatewayStep \/ Arrivals({"c1"})) /\ UNCHANGED queueVars

Moves(f, A) == focus = f /\ A /\ UNCHANGED focus
InTraffic(A) == A /\ UNCHANGED <<sandboxVars, dnsVars, byteVars, vars, searchVars>>
InSandbox(A) == A /\ UNCHANGED <<trafficVars, dnsVars, byteVars, vars, searchVars>>
InDns(A) == A /\ UNCHANGED <<trafficVars, sandboxVars, byteVars, vars, searchVars>>
InRelay(A) == A /\ UNCHANGED <<trafficVars, sandboxVars, dnsVars, vars, searchVars>>
InFuse(A) == A /\ UNCHANGED <<trafficVars, sandboxVars, dnsVars, byteVars, searchVars>>
InSearch(A) == A /\ UNCHANGED <<trafficVars, sandboxVars, dnsVars, byteVars, vars>>

MCNext ==
    \/ Moves("queue", InTraffic(QueueFocus))
    \/ Moves("gateway", InTraffic(GatewayFocus))
    \/ Moves("http", InTraffic(HttpFocus))
    \/ Moves("sandbox", InSandbox(SandboxNext))
    \/ Moves("dns", InDns(DnsNext))
    \/ Moves("relay", InRelay(RelayNext))
    \/ Moves("fuse", InFuse(Next))
    \/ Moves("search", InSearch(SearchNext))

\* The event loop of Node and the native processes go on, decisions, upstreams
\* and namespace commands come to an end, a killed process dies.
MCFairness ==
    /\ WF_queueVars(focus = "queue" /\ ProcessPacket) /\ WF_queueVars(focus = "queue" /\ ReadVerdict)
    /\ WF_queueVars(focus = "queue" /\ NodeStep)
    /\ WF_requests(focus = "http" /\ HttpStep("c1"))
    /\ WF_sandboxVars(focus = "sandbox" /\ RunnerStep)
    /\ \A k \in Children : /\ WF_sandboxVars(focus = "sandbox" /\ HelperClosed(k))
                           /\ WF_sandboxVars(focus = "sandbox" /\ proc[k] = "killed" /\ ProcessEnds(k))
    /\ WF_vars(focus = "fuse" /\ \E ok \in BOOLEAN : Initialize(ok))
    /\ \A m \in Mounts : WF_vars(focus = "fuse" /\ CleanupStep(m))
    /\ \A i \in StateIds : WF_vars(focus = "fuse" /\ Retire(i))
    /\ WF_vars(focus = "fuse" /\ ExitSeen) /\ WF_vars(focus = "fuse" /\ HandleBrokerOutput)
    /\ WF_vars(focus = "fuse" /\ CloseStep)
    /\ SearchFairness

MCSpec == MCInit /\ [][MCNext]_mcVars /\ MCFairness

\* Packets, requests, runs, searches and the close of a session come to an end.
TrafficSettles == QueueDrains /\ RequestsSettle /\ RunSettles /\ CloseTerminates /\ SearchEnds
=============================================================================
