# A TLA+ model of pi.lot

pi.lot is an extension of the Pi coding agent. It guards what an agent may do
(policies and approvals for files, commands and network access, enforced by a FUSE
mount and a network namespace), runs child agents, searches the web for them, and
keeps session files and configuration on a server. This directory models the parts
of it that are concurrent or must survive failure, checks them with TLC on small
instances and proves most of the safety results with TLAPS for every instance.

Paths below are relative to `src/src/` of the repository unless they say otherwise.

## The system

| Component | State | Operations | Hard because | Modelled in |
|---|---|---|---|---|
| Subagent coordinator `subagents/SubagentCoordinator.ts` | jobs, queue, active count, turns, pending messages, released principals | spawn, message, stop, close, turn timeout, eviction | everything interleaves across awaits: turns end while stop(), message(), close() and the timeout are in flight | SubagentCoordinator |
| Policy review, subagent sessions `subagents/SubagentPolicyDecisionFlow.ts`, `SdkSubagentSession.ts` | one review: its session, deadline, decision | ask, create, prompt, submit, expire, close | creation outlives its caller; a continuation may run after the deadline and before the timer | SubagentPolicyReview |
| Models `subagents/SubagentModelResolver.ts` | a catalogue | resolve by complexity | prices, tiers, benchmarks and thinking levels interact | SubagentModels |
| Policy runtime `policy/PolicyRuntime.ts` | principals and their engines, defaults, revisions, once-only policies, pending approvals | evaluate, register, remove, context and default changes, shutdown | authority is captured before a reviewer is awaited and used after | PolicyRuntime |
| Prompts `tui/UiDecisionFlow*.ts`, `UiDecisionPrompt.ts`, `policy/PolicyDecisionFlow.ts` | a queue of decision flows, a dialog | enqueue, show, key, next decision, abort, complete | one prompt at a time; aborts between two decisions; a dialog on any terminal | DecisionPrompt; the queue as the runtime sees it in PolicyRuntime |
| Approval waits `runtime/ApprovalWaitScope.ts`, `PausableTimeout.ts` | a forest of scopes, tokens, timers | beginWait, release, setTimeout, close, expiry | budgets stand still while an approval is pending, in any nesting and order | ApprovalWaitScope |
| Archive handoff `server/ArchiveInbox.ts`, `ArchiveLock.ts`, `ArchiveWorker.ts`, `ArchiveBackground.ts` | inbox files, a control event, two kernel locks, the journal | publish, configuration transition, election, import, acknowledge, exit | processes come, go and die; the elected worker must not leave work behind | ArchiveHandoff |
| Archive sources `server/ArchiveDiscovery.ts`, `ArchiveSessions.ts`, `ArchiveWorkerState.ts` | cursors, retry rows, sources, families of sessions | page, retry, stable read, observe, review, complete | directories and files change while they are read in pages and chunks | ArchiveDiscovery, ArchiveStableRead, ArchiveAncestry |
| Archive worker `server/ArchiveWorkerEngine.ts`, `ArchiveWorkerState.ts`, `ArchiveReconciler.ts` | candidates, operations, coverage, binding | capture, bind, reconcile, execute, receipt, replay, fence | lost replies, retries, other machines, restored servers | ArchiveReconciler, ArchiveUpload; ArchiveStore is what it promises |
| Foreground journal `server/ArchiveJournal.ts` | captures, one pending publication | capture, publish, receipt, prune | two uploaders on one database lose replies | ArchiveJournal |
| Configuration sync `server/config-sync/` | a journal entry per item, a base and a pending change | pull, push, merge, apply, recover, mask | three-way merges against a moving server, over a file that is edited | ConfigSync |
| Native filesystem policy `policy/path/native/`, `src/native/rust/src/fuse.rs`, `fuse/control.rs` | snapshots with revisions, decisions in flight, threads behind a mutex | publish, evaluate, drain, resolve, close | a decision must not be answered before its snapshot is published | NativeFilesystemPolicy |
| FUSE callbacks `src/native/rust/src/fuse/callbacks.rs`, `path.rs` | handles, descriptors, two mutexes | open, read, write, list, release | a name is resolved, authorised and used in three steps while others rename | FuseCallbacks |
| FUSE sessions `policy/path/native/NativeFuseSessionBroker.ts`, `src/native/rust/src/fuse/broker.rs` | contexts, shared policy states, a daemon and its workers, mounts and directories | start, mount, clean up, close | daemon and workers die or hang, stops time out, setups outlive a close | FuseSession |
| FUSE runner `policy/path/native/native-fuse-runner.ts` | one mount and one command | set up, run, unmount, remove | a recursive removal below a mount that shows the host | FuseRunner |
| Network sandbox `policy/network/NetworkSandbox.ts` | helpers, listeners, a directory, the worker | prepare, protect, unblock, cancel, clean up | any helper may die at any step | NetworkSandbox |
| Packet queue `policy/network/network-queue-protocol.ts`, `src/native/rust/src/network_queue*` | held packets, sequence numbers, connection marks, decisions of a run | event, attribute, decide, verdict | two processes keep in step over a pipe; a decision takes as long as a user does | PacketQueue |
| Gateway and brokers `policy/network/TcpGatewayBroker.ts`, `HttpRequestBroker.ts`, `src/native/rust/src/tcp_gateway.rs` | approvals with an expiry, relays, request chains, two byte streams | accept, match, sniff, dial, relay, reap, forward | approvals expire before the connection; half-closed streams; pipelined requests | TcpGateway, TcpRelay |
| Synthetic DNS `policy/network/SyntheticDnsProxy.ts` | leases, installations in flight | resolve, install, join, expire, close | an address must stand for one name for as long as a client may hold it | SyntheticDns |
| Web search `web-search/` | backends, a request with its redirects, links | search, request, redirect, collect, rank, abort | redirects carry credentials elsewhere; each backend fails in its own way | WebSearch |
| Child processes `runtime/ManagedChildProcess.ts` | one process | run, terminate, settle | escalation against exit | in FuseSession and NetworkSandbox |
| User interface, commands, tools, MCP, audit log, compaction | rendering, dialogs, texts | | sequential or pure I/O | not modelled |

`PROJECT.json` has the full list with what is left out of each part and why, the hazards
of the code at their lines, and for every definition the lines it models.

### How the parts interact

A tool call asks `PolicyRuntime.evaluate`. What no policy settles becomes an approval:
by a review agent on behalf of an ancestor, by the model, or by the user through the
prompt queue. While it waits, `ApprovalWaitScope` pauses the budgets of the tool call
and of the turns around it. A subagent is a policy principal for as long as the
coordinator keeps its conversation; the coordinator releases principals children
first. A session that ends publishes a descriptor of its files into the archive inbox
and launches a worker, which finds, reads and groups the files and uploads them.
Sessions also run synchronisation passes over the saved configuration.

A command of an agent runs inside a FUSE mount. `NativeFuseSessionBroker` has one daemon
fork a worker per mount and gives it the agent's base snapshot as a file; a worker that
finds no answer there asks over its control socket, and `NativeFilesystemPolicyBridge`
evaluates with `PolicyRuntime`, publishes what was granted once and then resolves. A command
without a session gets a mount of its own from `native-fuse-runner.ts`.

A command with network access runs in a namespace whose names resolve to synthetic
addresses. The first packet of a flow is held in a kernel queue; the helper reports it,
`NetworkSandbox` asks the policy and the verdict goes back. An allowed connection to a leased
address is redirected to the native gateway, which forks a relay that hands the
connection to `TcpGatewayBroker`; that matches it to the approval, sniffs HTTP and TLS, and lets
`HttpRequestBroker` ask about every request.

## Modules

A module is one component. JavaScript is one thread, so an action is the code between
two awaits; in native code it is the code between two system calls others can see.

- **SubagentCoordinator** - variables carry the names of the fields of a job. `Pump` is
  `pump()`, part of every action whose code calls it; `TurnFinally` is the `.finally` of a turn,
  which runs later than the turn's own last step. Sessions and the principal registry
  answer nondeterministically.
- **SubagentPolicyReview** - one review is `askForPolicy()` (`phase`), the factory's `create()`
  (`stage`) and the clock (`late`, `timer`). Whether a factory notices an abort is a constant
  (`Heedless`): the SDK factory disposes what it makes too late itself, so only a heedless
  one reaches the late cleanup of the flow.
- **SubagentModels** - scores, the frontier of cost and score, `Select` and `Resolve` as operators
  over a catalogue, checked against what an undominated, monotone choice is.
- **PolicyRuntime** - `Evaluate` runs up to the first await; `AncestorDecides`, `LlmDecides`,
  `UserCompletes` run when the reply lands, with what `Capture` recorded before. One
  access type; scopes are an abstract covering relation.
- **DecisionPrompt** - the queue, the decisions of one flow and the dialog with its keys and
  its layout on a screen. `said` is a history variable: what the user really chose.
- **ApprovalWaitScope** - whole synchronous calls; time is a counter and callbacks may be
  late. `ran` is a history variable: the ticks a timer was really running.
- **ArchiveHandoff** - one action per file system step. A producer (departing session or
  configuration change) and the worker it launches share a name. `owed` is a history
  variable: what was on disk at a launch that no crash undid.
- **ArchiveDiscovery** - a page walks with a stack of frames, each a verified prefix of a
  directory; directories change between any two reads. `lasting` is a history variable:
  the files that were there all the time.
- **ArchiveStableRead** - a capture in chunks beside a writer who appends, rewrites,
  replaces or removes the file.
- **ArchiveAncestry** - sources as they are observed and reviewed in pages, and the family
  (root, parent) each is given.
- **ArchiveReconciler** - `reconcileArchive()` as operators over an abstract prefix relation
  and weights.
- **ArchiveStore** - the abstract archive of one session: preserve, publish, recognise,
  restore.
- **ArchiveUpload** - the operations of the worker against a server that is modelled from
  the requests and receipts the client relies on. It implements ArchiveStore
  (`Store == INSTANCE ArchiveStore WITH archived <- ...`): the versions the worker counts
  as covered in the present history generation are the archived ones.
- **ArchiveJournal** - two foreground uploaders, one database: each transaction is an action.
- **ConfigSync** - one pass over one item, step by step, in three modes; the server, other
  devices and the user act between any two steps.
- **NativeFilesystemPolicy** - one mount: the base file, the two directions of the control
  channel, the FUSE threads behind their mutex, and the bridge's handlers between awaits.
  The policy itself is what NativeFilesystemPolicy needs of PolicyRuntime: per target, a
  rule that may be changed, an answer once or for good, a refusal.
- **FuseCallbacks** - callbacks of two threads as enter, resolve, authorise, use; `tree` and
  `target` are the host's names and a link in it. `witness` is history: what the
  policy allowed at some moment of the callback.
- **FuseSession** - the mounts of one agent in one session. `pc` is where `withFilesystem` is,
  `cleanup` where `performContextCleanup` is, `closer` where `performClose` is; `commands` and
  `outputs` are the daemon's pipes. The daemon and the workers take steps of their own
  and may stop taking them. A mount in `kernel` appears during the life of its worker;
  `fusermount3 -u` and the auto-unmount helper may fail.
- **FuseRunner** - `withNativeFuseFilesystem` await by await; the daemon, the helper that
  unmounts for it and the mount table are external.
- **NetworkSandbox** - `phase` is the step of `run()`; `proc` its processes, `done` what already
  protects the worker, `cause` why the run ends.
- **PacketQueue** - the kernel's queue, the helper, the two pipes and the handler in Node;
  EXTENDS TcpGateway: an allowed flow becomes an approval there.
- **TcpGateway** - approvals, native relays and the broker's side of each connection, and the
  requests on a connection that speaks HTTP.
- **TcpRelay** - the two byte streams of one relay through bounded buffers.
- **SyntheticDns** - queries, leases, installations that others join, expiry, close.
- **WebSearch** - the loop over backends, one HTTP call with its redirects, and the links as
  they are collected, ranked and filtered.

`MC*` modules instantiate them for TLC; `*Proofs` modules hold the theorems,
SumTheorems what they need of sums. Several MC modules
bundle components that share no state: a variable `focus`, chosen in the initial state and
never changed, picks the component that moves, the others keep their initial states. A
bundle checks each of its components exactly as a run of its own would. PacketQueue with
TcpGateway is a real composition: they share approvals and connections. A definition
marked `mutant` is a plausible bug in a definition below it; no specification uses it.

## Runs

A property of a run is often a conjunction of named parts; each part has its own
comment in its module.

| Run | Instance | Shows |
|---|---|---|
| subagent_tree | 3 jobs, depth 2, with and without the capability to delegate, 1 slot, 2 retained jobs, 1 stop(), close(), a principal whose removal throws; 3 nested scopes, 2 waits, budgets 1 to 3, chunk 2 | `TreeConsistent` (queue, slots, order of stop(), nothing left by close()), `NoSessionLeak`, `PrincipalTree`, `StopRequestHonoured`: a stopped turn is never a success; `WaitsAccounted`: budgets lose and gain no time, and a timer is paused exactly while its scope holds a token |
| subagents | 2 jobs, 1 slot, 1 message, 1 stop(), close(); 2 reviews of at most 1, one factory that ignores aborts; every catalogue of 3 models out of 5 priced or 6 scored kinds; 2 requests for a prompt, 10 screens, 3 hosts; fairness | `FollowUpsHeld`, `TerminalFinal`, `Progress`: no follow-up stranded, finished stays finished, stop() and close() return; `ReviewsInTime`: a decision was submitted and returned in time, every review settles and disposes its session; `SelectionOrdered`; `PromptFaithful`, `PromptCompletes`: what is installed was chosen, the dialog fits the screen, a request completes once and an aborted one at all |
| subagent_stop_race | 3 jobs, 2 slots, 1 stop() | **violation**: a descendant spawned while stop() awaits another is missed |
| policy_approvals | root and 1 agent, 1 tool call, 2 requests, a context and a default change, fairness | `LateReplyInert`: replies after the deadline, an abort, shutdown or removal change nothing; `EveryRequestAnswered` |
| policy_ancestry | root and 2 agents, 2 tool calls, 2 requests, with and without a stored allow | `AuthorityBounded`: principals form a tree and an approval never exceeds its authority; `PoliciesHeeded`: it is never overtaken by a denial, and no prompt opens for what an earlier answer settled |
| background | a file or the GLOBAL rules, 2 saves, 2 revisions by other devices, 1 interruption; 2 directories, pages of 2, 1 change, 2 faults; one command on its own mount; fairness | `ExchangeSafe`: what a pass replaces can be recovered, and a retry sends what was frozen first; `MaskNeverDeletes`: a local rule that masks a global one is not exported as its deletion; `DiscoveryComplete`; `RemovalIsSafe`: nothing is removed below a live mount; `WorkEnds`: devices converge, walks and aborted runs end |
| archive_handoff | 2 departures, 1 configuration change, a journal and an inbox of one place, 1 crash; 3 session files, 1 rewrite; 4 writes to a file read in 3 attempts; 2 uploaders, 5 snapshots, 3 publications | `HandoffConsistent`: one writer, no descriptor and no wakeup lost; `EventCoversCommit`; `FamiliesCurrent`: a completed scope names the families its files have; `CaptureIsCoherent`: a capture is a state the file had; `EvidenceKept`: no captured snapshot is forgotten before the server holds it |
| archive_left_behind | the handoff without crashes | **violation**: a descriptor is left although the journal has room again |
| archive_upload | 2 captures, 2 foreign versions, 2 faults of six kinds, server with or without preservation, fairness | `StoreKept`: ArchiveStore is implemented; `OperationsFenced`: operations of a session never race and what was given up never commits; `EveryCandidateArchived`, or visibly held back |
| native_policy | 1 target, 2 threads, 2 requests, 1 base change, 1 pending callback, fairness | `PolicyInForce`: what is let through is allowed by rules in force while it was pending, the two sides never fail each other undisturbed, a grant arrives before its resolution; `AbortUnblocks` every thread |
| fuse | 2 mounts of one agent, 2 policy states; 2 callback threads, 1 visible and 1 hidden path and a link, 2 renames, 1 change of policy | `SessionSafe`: no directory is removed under a mount, no worker outlives its cleanup, lost contexts are aborted, no late mkdir undoes a close; `HandlesSound`: data and listings were allowed during the callback, and no descriptor is lost |
| network | 3 packets of a DNS, a TCP and a malformed flow, queue of 2; 2 connections, 1 approval, 1 relay, 2 requests; every helper may die at every step; 3 queries for 2 names, 3 leases; 3 bytes each way, buffer 2; 1 mount that closes; searches over 3 orders of backends, 2 redirects, 2 results; fairness | `VerdictsSound`: only allowed flows pass and the pipe stays in step; `GatewayOrderly`: limits are exact, requests take turns; `RunContained`: the worker runs only protected and a run ends clean; `LeasesSound`: an address stands for one name; `RelayFaithful`: streams arrive complete and in order; `SearchSound`: credentials and requests go only where they may, results are ranked and filtered; `TrafficSettles`: packets, requests, runs, closes and searches end |

### Bounds

Every bound is a CONSTANT. The limits of the code (concurrency, retained jobs, inbox,
journal, backlog, approvals, relays, leases, buffers) are set to one to three so that they are
reached. Two requests, two departures or two captures are what it takes for one to
overtake another; a third job is what it takes for an eviction to happen beside a parent
and its child. With two mounts one can kill the daemon under the other, and with two
policy states a state can fail and be replaced while a setup still holds it. Two faults
allow a fault during the recovery of another. `MaxOps` bounds the operations of the
upload: six suffice for every pair of faults except two restores of the server. Three
packets in a queue of two reach the kernel's own drop. TLC checks no deadlock because
all systems may come to rest.

Four MC modules restrict their part further, each in one commented definition:
MCBackground allows two saves, or one on top of what other devices did; in MCSubagents a
terminal serves one request and the second request is not answered by name; in MCFuse
only one of the two handles is open; in MCNetwork the composed queue uses one connection.

### Fairness

Weak fairness, and only of what the event loop, the kernel or a timer does: timers
fire, continuations run, an aborted session or flow settles, the worker keeps
stepping and the server answers a request that reached it. In the native policy the
FUSE threads and the bridge keep running. In FuseSession cleanups, timers, output and exit
events and the steps of `performClose` go on, the start and the retirement of a state end,
and a killed daemon is reaped; commands, setups, the daemon and the workers may hang for
ever. A sandbox run assumes that namespace commands end and killed processes die; a
queued packet, that decisions come (the policy answers every request). A synchronisation
converges if sessions keep starting passes and the user logs in again. The walk over
directories is strongly fair in beginning pages: scan and retries share the worker, which
takes them in turn. Nothing is assumed of users, reviewers, models, other machines or of a
prompt beyond its timeout.

## Findings

- `subagent_stop_race`: `stop()` lists the descendants once and then awaits them one by
  one (`SubagentCoordinator.ts:260`); `docs/subagents.md:12` says it stops the job and its
  descendants.
- `archive_left_behind`: the worker compares the inbox with what it retained when the
  journal was full (`ArchiveWorker.ts:77`); if the same iteration then finished the last
  eligible scope, it leaves although there is room again. `docs/background-archive-plan.md:232`
  says it may exit only when no eligible unfinished work remains. The descriptor is not
  lost: the next wakeup imports it.

Observed, with no run of their own:

- When both a mount setup and a policy state are still unfinished at a close, the callback
  that later removes the session directory (`NativeFuseSessionBroker.ts:231`) does not look for
  the unfinished setup, whose recursive mkdir can make the directory again.
  `RemovedForGood` leaves that case out.
- A retry of a directory whose order changed under an unchanged stamp fails for good,
  because a source failure keeps its cursor. `DiscoveryEnds` leaves such directories out.
- When `TcpGatewayBroker.close()` comes during a sniff, the sniff timer still resolves, and
  without inspection an upstream socket may be opened that nobody destroys.
- A sync pass checks the file for the last time before the rename that replaces it; a save
  between the two is lost. The model has that moment; `SavesSurvive` leaves out what it loses
  (`blind`).
- `PolicyDao.deletePolicy` has no caller. If it had one, masking a global rule and removing the
  mask between two passes would export a deletion.

## Proofs

Every theorem holds for all values of the constants that satisfy the named ASSUMEs of the
modules; TLC evaluates those in the runs. A theorem about an invariant has the same
shape everywhere: an inductive invariant that the initial states satisfy, that every
action preserves (one lemma per action, or per group of actions with the same effect), and
that implies the property. TLC checked each inductive invariant on a small instance
before it was proved.

| Module | Theorems | The property is not inductive because |
|---|---|---|
| SubagentCoordinatorProofs | `TypeCorrect`, `SessionsDisposed`, `FinishedStaysFinished`, `StopRequestsHonoured`, `PrincipalsClosedUpwards`, `TreeConsistentTheorem`, `FollowUpsHeldTheorem`, `PromptFaithfulTheorem`, `CompletedOnceTheorem` | see below |
| ApprovalProofs | `WaitsAccountedTheorem`, `PoliciesHeededTheorem`, `LateReplyInertTheorem`, `AuthorityBoundedTheorem` | a token counts in every scope above the one that took it: `WaitInv` keeps the tokens of a scope equal to the waits that reach it through open scopes, and adds that a timer that is not set holds no time (`UnsetTimers`). The policy runtime: see below |
| ArchiveSourcesProofs | `HandoffConsistentTheorem`, `EventCoversCommitTheorem`, `CaptureIsCoherentTheorem`, `EvidenceKeptTheorem` | see below |
| ArchiveUploadProofs | `OperationsFencedTheorem`, `UploadImplementsStore`, `ArchiveLosesNothing`, `ExchangeSafeTheorem`, `MaskNeverDeletesTheorem` | see below |
| FuseProofs | `SessionSafeTheorem`, `HandlesSoundTheorem` | sessions: see below; `CallbackInv` says who holds which mutex, that the path a callback was let through with stays allowed until it gives up the policy mutex, and that the descriptor it uses meanwhile is one that was allowed. Proved without the restriction of MCFuse to one open handle |
| NativeProofs | `PolicyInForceTheorem`, `RemovalIsSafeTheorem` | the policy of a mount: see below; `RunnerInv` relates the step of the runner to the daemon and the mount table |
| NetworkProofs | `RunContainedTheorem`, `LeasesSoundTheorem`, `RelayFaithfulTheorem`, `VerdictsSoundTheorem`, `GatewayOrderlyTheorem` | see below |
| SumTheorems | | a library: the sum of a function over a finite set as a number of units, when one value changes and when it is zero or positive |

**The coordinator.** `TurnInv` adds that a job runs exactly while its turn is suspended
somewhere (`PcStatus`), that a message being steered has a target (`TargetKnown`) and that a
stop request or a timeout has aborted the turn's controller (`AbortFlags`). `NextJobStep` sums up
what any action may do to one job, so that invariants and action properties follow from
one case analysis. `TreeInv` adds that a released job has ended and a job not yet spawned has
no parent; `TreeStep` says that the released set grows only by jobs whose children are
released. `BookInv` is for `TreeConsistent`: it adds what each stop() and close() has already
visited (`StopsOK`, `CloseOK`) and the books of `pump()` - a job is queued exactly while it waits
(`QueueOK`), and the active count is the number of turns whose `.finally` has not run
(`SlotsOK`). That number is a sum over the jobs, which is what SumTheorems is for. `InboxInv` is for
`FollowUpsHeld`: a message is in at most one inbox and there only once.

**Prompts.** `PromptInv` follows a decision from the key that made it to what is installed. `FlowHolds`
relates each flow to what the user confirmed on its dialogs: the decisions before the one under
way were said (`TakenSaid`), the result of a finishing turn and a pending completion are supported
by what was said, and what a stopped flow returns refuses and lasts once. `DialogHolds` ties the one open
dialog to the decision under way of its owner and its value to an option of that decision, or to
a shortcut. `CompletedOnce` is the half of `PromptCompletes` that is no liveness.

**The policy runtime.** `PolicyInv` is one invariant for the three action properties. `Lineage`: the
ancestors of a principal are registered and in line, each the parent of the next. `Captures`: what a
waiting request captured is of the past, and its path is the one to the authority it asked. `StillOpen`:
while neither the path nor the fallback moved since the capture, no ancestor denies the target; this is
why comparing revisions is enough before an answer is used. `OnePrompt`: the open prompt is the first of
the queue. `AuthorityBounded` also needs that an engine gives one answer to a target and to a scope around it
that its deciding pattern covers (`EvalCovered`), which takes the longest pattern of a finite set
(`LongestExists`) and the transitivity of covering.

**The archive sources.** `HandoffInv`: that one process writes the archive's journal rests on who may hold
which of the two locks at which step, and on what a producer that has not launched yet can
have left on disk; that nothing is overlooked, on a worker that will still look whenever
something is owed. `StableInv` is for a capture: while the inode has the time of the first `fstat()`, the
bytes read so far are a prefix of its body (`ReadingFaithful`), and what any inode holds was named by
the path (`InodesSeen`). `JournalInv` is for the legacy journal: an identifier names one publication
(`IdsUnique`), and a process holds the pending publication, a committed one or its receipt
(`HandsKnown`), so that a late reply settles only what it was about. The backlog is a sum over the
captures.

**The upload.** `UploadInv` says that nothing belongs to a later history generation than the
binding and an unresolved operation belongs to the binding itself (`Generations`); that an
operation never sent is unknown to network and server, and that an unresolved one has a
candidate that is not covered (`Shaped`); what the reply that is awaited implies (`Awaited`);
that bases and receipts are revisions of the past (`Revisions`); and, of operations of the
present generation (`Present`), that a publication whose base is still the server's revision
may replace the canonical version, that a receipt means the version is stored, and that
one given up has an out-of-date base if it was ever sent. The last is why a copy that is still
in the network can do no harm. The refinement maps the versions counted as covered in the
present generation to `archived`: captures, bindings, dispatches and lost replies are
stutters; a commit is `Publish` or `Preserve`; a receipt or a covering download is `Recognise`, or a
stutter when the server has been restored and the worker has not noticed. `ArchiveLosesNothing` rests
on the transitivity of `Covering`: on prefixes being transitive, and on a version that keeps all
assertions of another keeping those that one kept.

**Configuration sync.** `ConfigInv` says which stages of a pass need pending work and of which kind
(`PassPending`), that what a rewrite may replace was put into recovery before it does (`CapturedKept`,
`ServerModeKept`, `RewriteKept`, `ReplacedKept`; what `blind` excuses is the save named under Findings), that
a request once sent is the one pending under its identity (`SentIsPending`), that a revision of the server
names one content (`RevisionsKnown`), and that a materialised rule leaves the local table only into the
masks (`RulesKept`). The last is what `MaskNeverDeletes` follows from.

**The network.** A run: what protects the worker is in place at the step that unblocks it and
stays there until it is killed. Leases: an installation in flight keeps its address reserved.
Relay: what is delivered, buffered and still to come is the stream. Packet queue: `QueueInv` says for
each way the helper and the runner can be in step (idle, event under way, being considered,
verdict under way, helper killed) what the pipe holds and which flow is meant, that every
decision goes back to an answer of the policy, and that what passed, connections included,
was allowed. Gateway: `GatewayInv` counts approvals and relays (again with sums) and says where each
request of a connection is.

**The native policy.** `NativeInv` says, in this order: nobody is ahead of the revisions that exist
(`NativeBehind` to `OpsKnown`); before the process serves nothing was asked (`NotSynchronized` to
`ReadyFirst`); misses and answers keep their order through socket, queue, bridge and back
(`UpInLine` to `AnswersInLine`), and one evaluation is under way (`OneActive`); publications go forward and the
ONCE snapshot an answer needs is ahead of it in the socket (`QueueForward` to `AnswersCovered`); an
answer that allows says what the evaluation said (`CurrentSays`, `AnswersSay`), which is as new as what the
miss saw (`LookupFresh` to `AnswersLater`); without a fault everything under way concerns the
miss that a thread awaits (`CalmMount` to `QuietDenied`), which is why the two sides never fail each
other; and a grant stays (`LogStays` to `GrantsBacked`).

**FUSE sessions.** `SessionInv`: a context is registered from `createContext` to the end of its
verification, and only one that is not being cleaned up has a socket (`ContextsHold`); the daemon runs from a
successful start on, and each step of `performClose` leaves nothing behind it (`SessionHolds`); no
STOP precedes its START in the pipe, a worker that was stopped or verified is dead and has no START left,
and without a daemon there are neither commands nor workers (`PipesHold`); what is mounted has its
directory (`MountsHold`); contexts of a failed state, a dead daemon or a closing session are aborted
(`StatesHold`); and the setups `performClose` saw the end of are over (`SetupsHold`).

The assumptions are weak: for the upload that prefixes are a strict order and `Version` gives
every candidate a version; that `"config"` is not the name of a departing session
(ArchiveHandoff); that `"none"` is no principal, and that covering is a reflexive and transitive relation
in which patterns of one length that cover the same target are equal (PolicyRuntime, from
`PolicyScope.ts`); that the value for undefined is neither a request nor a choice, some lifetime is
on offer and a dialog is given at least four rows (DecisionPrompt); that there is a target, and finitely
many threads (NativeFilesystemPolicy); that a session may publish a state at all (FuseSession); that snapshots are records whose bodies are sequences, and the absent value is
neither a publication nor a receipt (ArchiveJournal); that a scope covers itself unless it is
malformed (PacketQueue); that the flows, names and decisions the models enumerate are finite or of
the kinds the code knows.

Only model-checked: `SelectionOrdered`, `DiscoveryComplete`, `FamiliesCurrent` and `SearchSound`, and all
liveness: `Progress`, `ReviewsInTime`, `PromptCompletes` beyond `CompletedOnce`, `EveryRequestAnswered`, `WorkEnds`,
`EveryCandidateArchived`, `AbortUnblocks` and `TrafficSettles`. The four say what a sort, a filter, a walk or a
closure computes, for which one needs induction over data: the induction theorems of the library take an
operator as a parameter, which the provers cannot instantiate, and RECURSIVE operators are out of their
reach, as are liveness under fairness and ENABLED. Facts about finite sums
and about the latest of several operations are proved by a smallest counterexample instead.

## Plan

1. Done: subagents with their reviews, models and prompts; policy approvals and approval waits;
   archive handoff, sources, uploads and journal; configuration sync; native filesystem policy,
   FUSE callbacks, sessions and runner; network sandbox, packet queue, gateway, relay, DNS; web
   search. Theorems about the coordinator and the prompts, the policy runtime and the wait scopes,
   the archive handoff, captures and journal, the upload and the store, configuration sync, the
   native policy, the FUSE sessions, runner and callbacks, and the whole path of a packet.
2. Theorems still missing: `FamiliesCurrent`, `DiscoveryComplete`, `SearchSound` and `SelectionOrdered`, once
   induction over sequences and sets can be used.
3. Models still missing: callbacks on paths alone (create, unlink, rename, attributes), the
   second address family of the DNS proxy, HTTP upgrades, saving and resetting defaults.

## Not modelled

Rendering, texts, SQL, file formats, wire encodings, timing beyond order, third-party
processes and the kernel. The experiments and scripts of the repository are not part of
the program. Per module:

- PolicyRuntime: one access type stands for all; the reviewers of an approval are a
  nondeterministic reply there (SubagentPolicyReview and DecisionPrompt model them).
- DecisionPrompt: texts and colours. An abort between the last accepted choice and the end of
  the turn may still complete with the user's choice: the first completion wins.
- ArchiveUpload: one session and destination. ArchiveDiscovery: removal of directories.
  ArchiveStableRead: special and oversized files. ArchiveJournal: opening and upgrading the database.
- ConfigSync: one item; items share nothing but the pass.
- FuseCallbacks: callbacks on paths resolve the name again after authorisation and have no
  handle to compare with, so nothing is claimed of them; creation of missing paths.
- NetworkSandbox: `settle(1 s)` may give up on a killed helper, so a run may end just before it
  dies; namespace commands are not tracked; a failing `rm` of the directory.
- SyntheticDns: bytes of messages, IPv6. TcpGateway: certificates, header rewriting, upgrades.
- WebSearch: titles, snippets, freshness. The body of a request (the query) may follow a 307 or
  308 to another origin, after the policy allowed that origin.
- ApprovalWaitScope: `startedAt` of a timer that is not armed has no reader.
