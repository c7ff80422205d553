---------------------------- MODULE SyntheticDns ----------------------------
(* The DNS proxy of the sandbox and its table of leases                     *)
(* (SyntheticDnsProxy.ts): every address in an answer is replaced by a      *)
(* synthetic one, so that a later connection to it can be attributed to the *)
(* name that was asked for.  A lease expires; the address translation rule  *)
(* installed for it in the worker's namespace stays.                        *)
(*                                                                          *)
(* An answer is a host name, a family and a real address.  An address is    *)
(* the number of its lease: one counter stands for the two of the code.     *)
(* Messages are answers to choose from; parsing is one of their outcomes.   *)
EXTENDS Naturals, FiniteSets, Sequences, SequencesExt

CONSTANTS
    Queries,        \* datagrams of the worker
    Answers,        \* answers a resolver may give
    Asked,          \* query -> the sequence of address answers it gets
    MaxLeases       \* MAX_DNS_LEASES

ASSUME LeaseAssumption == MaxLeases \in Nat
ASSUME AskedAssumption == Asked \in [Queries -> Seq(Answers)]

VARIABLES
    proxy,                      \* "new", "up", "closing" or "closed"
    query,                      \* query -> its stage, what it still asks, the answers it was given
    leasesBySyntheticAddress,   \* set of live leases [address, answer]
    leasesByAnswer,             \* the same, found by their answer
    pendingByAnswer,            \* answer -> address being installed, 0 for none
    installedLeaseCount,
    nextLease,                  \* next address to allocate
    rules,                      \* translation rules [address, answer] in the kernel
    expiredAt                   \* addresses whose expiresAt has passed

leaseVars == <<leasesBySyntheticAddress, leasesByAnswer, pendingByAnswer, installedLeaseCount, nextLease, rules, expiredAt>>
dnsVars == <<proxy, query, leaseVars>>

DnsInit ==
    /\ proxy = "new"
    /\ query = [q \in Queries |-> [stage |-> "none", asks |-> <<>>, given |-> {}]]
    /\ leasesBySyntheticAddress = {} /\ leasesByAnswer = {}
    /\ pendingByAnswer = [a \in Answers |-> 0]
    /\ installedLeaseCount = 0 /\ nextLease = 1 /\ rules = {} /\ expiredAt = {}

Pending == {q \in Queries : query[q].stage \in {"forwarding", "leasing", "installing", "joined"}}
Settled(q, result) == [query[q] EXCEPT !.stage = result]

-----------------------------------------------------------------------------
(* The proxy.                                                              *)

\* start() binds both families or closes the first again.
StartDns ==
    /\ proxy = "new" /\ proxy' \in {"up", "closed"}
    /\ UNCHANGED <<query, leaseVars>>

HandleQuery(q) ==
    /\ proxy = "up" /\ query[q].stage = "none"
    /\ query' = [query EXCEPT ![q].stage = "forwarding"]
    /\ UNCHANGED <<proxy, leaseVars>>

\* parseDnsResponse: the answers that carry an address of the name that was asked;
\* a response without one is passed on without a lease.
Parsed(q) == {Asked[q], <<>>}

\* forwardDnsQuery ends with a response, with a timeout or an error, or because
\* close() aborts it.
Respond(q) ==
    /\ query[q].stage = "forwarding"
    /\ \E asks \in Parsed(q) : query' = [query EXCEPT ![q] =
          IF proxy = "up" THEN [@ EXCEPT !.stage = "leasing", !.asks = asks] ELSE Settled(q, "failed")]
    /\ UNCHANGED <<proxy, leaseVars>>
RespondFailed(q) ==
    /\ query[q].stage = "forwarding"
    /\ query' = [query EXCEPT ![q].stage = "failed"]
    /\ UNCHANGED <<proxy, leaseVars>>

\* rewriteAddressAnswers has no more answers to replace.
SendResponse(q) ==
    /\ query[q].stage = "leasing" /\ query[q].asks = <<>>
    /\ query' = [query EXCEPT ![q].stage = "answered"]
    /\ UNCHANGED <<proxy, leaseVars>>

CloseDns ==
    /\ proxy = "up" /\ proxy' = "closing"
    /\ UNCHANGED <<query, leaseVars>>

\* close() waits for the queries that are under way.
DnsClosed ==
    /\ proxy = "closing" /\ Pending = {} /\ proxy' = "closed"
    /\ UNCHANGED <<query, leaseVars>>

-----------------------------------------------------------------------------
(* Leases.                                                                 *)

Expired(l) == l.address \in expiredAt
Existing(a) == {l \in leasesByAnswer : l.answer = a}
LiveLease(a) == {l \in Existing(a) : ~Expired(l)}
Given(q, l) == [query[q] EXCEPT !.stage = "leasing", !.asks = Tail(@), !.given = @ \cup {l}]

\* lease() finds a live lease of the answer.
LeaseExisting(q) ==
    /\ query[q].stage = "leasing" /\ query[q].asks # <<>>
    /\ \E l \in LiveLease(Head(query[q].asks)) : query' = [query EXCEPT ![q] = Given(q, l)]
    /\ UNCHANGED <<proxy, leaseVars>>

\* A call for an answer that is being installed joins that installation.
Joins(a) == pendingByAnswer[a] # 0

LeaseJoins(q) ==
    LET a == Head(query[q].asks) IN
    /\ query[q].stage = "leasing" /\ query[q].asks # <<>> /\ LiveLease(a) = {} /\ Joins(a)
    /\ query' = [query EXCEPT ![q].stage = "joined"]
    /\ leasesByAnswer' = leasesByAnswer \ Existing(a)
    /\ leasesBySyntheticAddress' = leasesBySyntheticAddress \ Existing(a)
    /\ UNCHANGED <<proxy, pendingByAnswer, installedLeaseCount, nextLease, rules, expiredAt>>

\* pruneExpiredLeases: what is expired by its address is deleted by both keys.
Outdated == {l \in leasesBySyntheticAddress : Expired(l)}

\* Mutant: the lowest address without a lease.
AllocatedFree == CHOOSE n \in 1..nextLease : n \notin {l.address : l \in leasesBySyntheticAddress \ Outdated}
                                                       \cup {pendingByAnswer[a] : a \in Answers}
\* An address is never used twice: its rule stays when its lease is gone.
Allocated == nextLease

\* createLease up to the await of install; at the limit it throws.
CreateLease(q) ==
    LET a == Head(query[q].asks) IN
    /\ query[q].stage = "leasing" /\ query[q].asks # <<>> /\ LiveLease(a) = {} /\ ~Joins(a)
    /\ leasesBySyntheticAddress' = leasesBySyntheticAddress \ (Existing(a) \cup Outdated)
    /\ leasesByAnswer' = {l \in leasesByAnswer \ Existing(a) : \A m \in Outdated : m.answer # l.answer}
    /\ IF installedLeaseCount >= MaxLeases
       THEN /\ query' = [query EXCEPT ![q].stage = "failed"]
            /\ UNCHANGED <<pendingByAnswer, installedLeaseCount, nextLease>>
       ELSE /\ query' = [query EXCEPT ![q].stage = "installing"]
            /\ pendingByAnswer' = [pendingByAnswer EXCEPT ![a] = Allocated]
            /\ installedLeaseCount' = installedLeaseCount + 1 /\ nextLease' = nextLease + 1
    /\ UNCHANGED <<proxy, rules, expiredAt>>

Waiters(a) == {q \in Queries : query[q].stage \in {"installing", "joined"} /\ Head(query[q].asks) = a}

\* install() resolves: the lease is entered in both maps and all who wait get it.
Installed(a) ==
    /\ pendingByAnswer[a] # 0
    /\ LET lease == [address |-> pendingByAnswer[a], answer |-> a] IN
       /\ rules' = rules \cup {lease}
       /\ leasesBySyntheticAddress' = leasesBySyntheticAddress \cup {lease}
       /\ leasesByAnswer' = {l \in leasesByAnswer : l.answer # a} \cup {lease}
       /\ query' = [q \in Queries |-> IF q \in Waiters(a) THEN Given(q, lease) ELSE query[q]]
    /\ pendingByAnswer' = [pendingByAnswer EXCEPT ![a] = 0]
    /\ UNCHANGED <<proxy, installedLeaseCount, nextLease, expiredAt>>

\* install() rejects: the count is taken back and all who wait fail.
InstallFails(a) ==
    /\ pendingByAnswer[a] # 0
    /\ query' = [q \in Queries |-> IF q \in Waiters(a) THEN Settled(q, "failed") ELSE query[q]]
    /\ pendingByAnswer' = [pendingByAnswer EXCEPT ![a] = 0]
    /\ installedLeaseCount' = installedLeaseCount - 1
    /\ UNCHANGED <<proxy, leasesBySyntheticAddress, leasesByAnswer, nextLease, rules, expiredAt>>

\* lookup(), called when a connection to the address is attributed: an expired
\* lease is deleted from both maps.
Lookup(address) ==
    /\ \E l \in leasesBySyntheticAddress :
          /\ l.address = address /\ Expired(l)
          /\ leasesBySyntheticAddress' = leasesBySyntheticAddress \ {l}
          /\ leasesByAnswer' = {m \in leasesByAnswer : m.answer # l.answer}
    /\ UNCHANGED <<proxy, query, pendingByAnswer, installedLeaseCount, nextLease, rules, expiredAt>>

\* Time passes expiresAt, which was set before the rule was installed.
LeaseExpires(address) ==
    /\ address \notin expiredAt
    /\ expiredAt' = expiredAt \cup {address}
    /\ UNCHANGED <<proxy, query, leasesBySyntheticAddress, leasesByAnswer, pendingByAnswer,
                   installedLeaseCount, nextLease, rules>>

QueryStep(q) ==
    \/ Respond(q) \/ RespondFailed(q) \/ SendResponse(q)
    \/ LeaseExisting(q) \/ LeaseJoins(q) \/ CreateLease(q)

InstallStep == \E a \in Answers : Installed(a) \/ InstallFails(a)

DnsNext ==
    \/ StartDns \/ CloseDns \/ DnsClosed
    \/ \E q \in Queries : HandleQuery(q) \/ QueryStep(q)
    \/ InstallStep
    \/ \E n \in 1..(nextLease - 1) : Lookup(n) \/ LeaseExpires(n)

-----------------------------------------------------------------------------
(* Properties.                                                             *)

\* A connection is never attributed to a wrong name: an address that was given to
\* the worker has one translation rule, to the answer it stands for, and a lookup
\* of it finds that answer or nothing, through expiries, failed installations
\* and queries for one name at a time (SyntheticDnsLeaseTable, installSyntheticLease).
NeverMisattributed ==
    /\ \A q \in Queries : query[q].given \subseteq rules
    /\ \A l, m \in rules : l.address = m.address => l = m
    /\ leasesBySyntheticAddress \subseteq rules

\* The two maps of the table hold the same leases, one per answer, and the count
\* that is held against MAX_DNS_LEASES is the number of rules, those being
\* installed included.
TableConsistent ==
    /\ leasesBySyntheticAddress = leasesByAnswer
    /\ \A l, m \in leasesByAnswer : l.answer = m.answer => l = m
    /\ installedLeaseCount = Cardinality(rules) + Cardinality({a \in Answers : pendingByAnswer[a] # 0})

\* Addresses stand for one name, and the table agrees with the rules.
LeasesSound == NeverMisattributed /\ TableConsistent
=============================================================================
