----------------------------- MODULE ConfigSync -----------------------------
(* One item of the saved configuration and its synchronisation passes       *)
(* (server/config-sync): the local source, the journal in pilot.sqlite, and *)
(* the exchange with the server.  A pass freezes what it will send before   *)
(* it asks, records what it is about to replace before it replaces it, and  *)
(* may be cut off by a crash, an error or a logout at every await and file  *)
(* operation.                                                               *)
(*                                                                          *)
(* The content of an item is a set of settings.  A "file" is replaced as a  *)
(* whole; "global" policies are rules that a LOCAL rule of the same         *)
(* identity may mask.  The server and the user are modelled from how the    *)
(* client uses them.  config-sync.lock admits one pass at a time.           *)
EXTENDS Integers, FiniteSets

CONSTANTS
    Settings,       \* what a content consists of
    Items,          \* kinds of item to check: "file", "global"
    MaxSaves,       \* bound on the saves of the user
    MaxRevisions,   \* bound on the revisions other devices make
    MaxInterruptions       \* bound on crashes, lost answers and logouts

VARIABLES
    item,           \* kind of the item
    local,          \* content of the file, or the GLOBAL rows of policy_rules
    masks,          \* identities that have a LOCAL row
    saves,          \* saves so far
    server,         \* current state: revision, content
    changes,       \* change identities the server has seen
    entry,          \* row of config_sync_items: baseline, materialized, pending
    recovery,       \* contents in config_sync_recovery
    pass,           \* the pass under way
    connected,      \* the authorisation of the pass is the current one
    interruptions,
    sent,           \* history: requests that reached the server under a pending identity
    replaced,       \* history: contents that a pass replaced in the file
    blind           \* history: saves between the last check of the file and its rename

userVars == <<local, masks, saves>>
remoteVars == <<server, changes, sent>>
historyVars == <<replaced, blind>>
configVars == <<item, userVars, remoteVars, entry, recovery, pass, connected, interruptions, historyVars>>

Unbound == -1
NoPending == [state |-> "none", id |-> 0, revision |-> Unbound, content |-> {}, materialized |-> {}, captured |-> {}]
Idle == [stage |-> "idle", mode |-> "sync", attempt |-> 0, selected |-> {},
         response |-> [revision |-> 0, content |-> {}], materialized |-> {}]

ConfigInit ==
    /\ item \in Items /\ local \in SUBSET Settings /\ masks = {} /\ saves = 0
    /\ server \in {[revision |-> 0, content |-> {}]} \cup {[revision |-> 1, content |-> c] : c \in SUBSET Settings}
    /\ changes = {} /\ entry = [base |-> [revision |-> Unbound, content |-> {}], materialized |-> {}, pending |-> NoPending]
    /\ recovery = {} /\ pass = Idle /\ connected = TRUE /\ interruptions = 0
    /\ sent = {} /\ replaced = {} /\ blind = {}

-----------------------------------------------------------------------------
(* The user and the other devices.                                         *)

Save(content) ==
    /\ item = "file" /\ saves < MaxSaves /\ saves' = saves + 1
    /\ content # local /\ local' = content
    /\ blind' = IF pass.stage = "rename" THEN blind \cup {content} ELSE blind
    /\ UNCHANGED <<item, masks, remoteVars, entry, recovery, pass, connected, interruptions, replaced>>

\* upsertPolicies: a decision takes the row of its identity, whatever lifetime
\* the row had.  No code deletes a row.
Decide(rule, lifetime) ==
    /\ item = "global" /\ saves < MaxSaves /\ saves' = saves + 1
    /\ local' = IF lifetime = "GLOBAL" THEN local \cup {rule} ELSE local \ {rule}
    /\ masks' = IF lifetime = "GLOBAL" THEN masks \ {rule} ELSE masks \cup {rule}
    /\ <<local, masks>>' # <<local, masks>>
    /\ UNCHANGED <<item, remoteVars, entry, recovery, pass, connected, interruptions, historyVars>>

OtherDevice(content) ==
    /\ server.revision < MaxRevisions /\ content # server.content
    /\ server' = [revision |-> server.revision + 1, content |-> content]
    /\ UNCHANGED <<item, userVars, changes, sent, entry, recovery, pass, connected, interruptions, historyVars>>

-----------------------------------------------------------------------------
(* A pass.                                                                 *)

\* Mutant: a masked rule counts as deleted.
ExportedPlain(current) == current
\* capture(): a file as it is; for GLOBAL rules the canonical bundle with the
\* changes since it was last written out, a masked rule being no deletion.
Exported(current) ==
    IF item = "file" \/ entry.base.revision = Unbound THEN current
    ELSE (entry.base.content \ (entry.materialized \ (current \cup masks))) \cup (current \ entry.materialized)

\* randomUUID: an identity that is no longer pending may stand for a new one, of
\* which the server has not heard.
FreshId == IF entry.pending.id = 1 THEN 2 ELSE 1
UseFreshId ==
    /\ changes' = changes \ {FreshId} /\ sent' = {r \in sent : r.id # FreshId}
    /\ UNCHANGED server

Frozen(content, revision) ==
    [state |-> "frozen", id |-> FreshId, revision |-> revision,
     content |-> content, materialized |-> local, captured |-> {}]

\* run() up to the first request: what is sent is captured and journalled, unless
\* an earlier pass left it pending; a recovery needs an interrupted application.
StartPass(mode) ==
    /\ pass.stage = "idle" /\ connected
    /\ mode # "sync" => item = "file" /\ entry.pending.state = "applying"
    /\ pass' = [Idle EXCEPT !.stage = "check", !.mode = mode, !.selected = IF mode = "sync" THEN {} ELSE local]
    /\ IF entry.pending.state = "none"
       THEN /\ entry' = [entry EXCEPT !.pending = Frozen(Exported(local), entry.base.revision)]
            /\ UseFreshId
       ELSE UNCHANGED <<entry, remoteVars>>
    /\ UNCHANGED <<item, userVars, recovery, connected, interruptions, historyVars>>

\* An import of GLOBAL rules runs in the transaction of its acknowledgement: it
\* is deferred when the rows were changed since the capture.
ImportedPage(content) == IF local = entry.pending.materialized THEN content \ masks ELSE local

\* Mutant: the acknowledgement leaves the exchange pending.
AcknowledgedKept(state, materialized) == [base |-> state, materialized |-> materialized, pending |-> entry.pending]
Acknowledged(state, materialized) == [base |-> state, materialized |-> materialized, pending |-> NoPending]
AcknowledgedGlobal(state) ==
    Acknowledged(state, IF local = entry.pending.materialized THEN state.content \ masks ELSE entry.pending.materialized)

\* The check says that the server has this content at this revision.
SyncNeeded == server.revision # entry.pending.revision \/ server.content # entry.pending.content
SkipsExchange == ~SyncNeeded /\ entry.pending.state = "frozen" /\ (pass.mode = "sync" \/ pass.attempt = 1)

Check ==
    /\ pass.stage = "check" /\ connected
    /\ IF SkipsExchange
       THEN /\ pass' = Idle
            /\ IF item = "global" /\ entry.base.content # entry.pending.materialized
               THEN local' = ImportedPage(entry.base.content) /\ entry' = AcknowledgedGlobal(entry.base)
               ELSE entry' = Acknowledged(entry.base, entry.pending.materialized) /\ UNCHANGED local
       ELSE pass' = [pass EXCEPT !.stage = "exchange"] /\ UNCHANGED <<local, entry>>
    /\ UNCHANGED <<item, masks, saves, remoteVars, recovery, connected, interruptions, historyVars>>

\* The server: a change it has seen changes nothing; a change of the current
\* revision wins, a stale file loses, stale rules are merged; an unbound client
\* accepts what is there.
ServerAccepts(request, next) ==
    IF request.id \in changes \/ request.content = server.content THEN next = server
    ELSE CASE request.revision = server.revision \/ (request.revision = Unbound /\ server.revision = 0) ->
                next = [revision |-> server.revision + 1, content |-> request.content]
           [] request.revision = Unbound /\ server.revision # 0 -> next = server
           [] request.revision \in 0..(server.revision - 1) ->
                \/ next = server
                \/ /\ item = "global"
                   /\ next = [revision |-> server.revision + 1, content |-> server.content \cup request.content]

\* What is sent is the pending request of the journal.
Request == entry.pending

Exchange ==
    /\ pass.stage = "exchange" /\ connected
    /\ \E next \in [revision : 0..(server.revision + 1), content : SUBSET Settings] :
          ServerAccepts(Request, next) /\ server' = next
    /\ changes' = changes \cup {Request.id}
    /\ sent' = sent \cup {[id |-> Request.id, revision |-> Request.revision, content |-> Request.content]}
    /\ \/ pass' = [pass EXCEPT !.stage = "apply", !.response = server'] /\ UNCHANGED interruptions
       \/ interruptions < MaxInterruptions /\ interruptions' = interruptions + 1 /\ pass' = Idle     \* the answer is lost
    /\ UNCHANGED <<item, userVars, entry, recovery, connected, historyVars>>

Losing(content) == IF content # pass.response.content THEN {content} ELSE {}

\* Keep-local recovery: the old operation is acknowledged and a new one frozen
\* from the selected file.
Rebase ==
    /\ pass.stage = "apply" /\ connected /\ pass.mode = "local" /\ pass.attempt = 0
    /\ recovery' = recovery \cup {entry.pending.content}
    /\ entry' = [base |-> pass.response, materialized |-> pass.selected,
                 pending |-> [Frozen(pass.selected, pass.response.revision) EXCEPT !.materialized = pass.selected]]
    /\ UseFreshId /\ pass' = [pass EXCEPT !.stage = "check", !.attempt = 1]
    /\ UNCHANGED <<item, userVars, connected, interruptions, historyVars>>

\* GLOBAL rules: import and acknowledgement in one transaction.
ApplyGlobal ==
    /\ pass.stage = "apply" /\ connected /\ item = "global"
    /\ local' = ImportedPage(pass.response.content) /\ entry' = AcknowledgedGlobal(pass.response)
    /\ recovery' = recovery \cup Losing(entry.pending.content) /\ pass' = Idle
    /\ UNCHANGED <<item, masks, saves, remoteVars, connected, interruptions, historyVars>>

\* The snapshot that may be overwritten.
WriteBack ==
    CASE pass.mode = "server" -> pass.selected
      [] pass.mode # "server" /\ entry.pending.state = "applying" -> entry.pending.captured
      [] pass.mode # "server" /\ entry.pending.state = "frozen" -> entry.pending.materialized

\* A file is looked at before anything is written: an interrupted application of
\* a file that was saved since needs a choice of the user; a file that has the
\* winner already is acknowledged; a newer save defers the application.
ApplyFile ==
    /\ pass.stage = "apply" /\ connected /\ item = "file" /\ (pass.mode = "local" => pass.attempt = 1)
    /\ LET winner == pass.response.content IN
       IF entry.pending.state = "applying" /\ pass.mode # "server" /\ local \notin {WriteBack, winner}
       THEN pass' = Idle /\ UNCHANGED recovery
       ELSE /\ recovery' = IF pass.mode = "server" THEN recovery \cup Losing(WriteBack) ELSE recovery
            /\ pass' = CASE local = winner -> [pass EXCEPT !.stage = "ack", !.materialized = winner]
                         [] local # winner /\ local = WriteBack -> [pass EXCEPT !.stage = "prepare"]
                         [] local # winner /\ local # WriteBack -> [pass EXCEPT !.stage = "ack", !.materialized = WriteBack]
    /\ UNCHANGED <<item, userVars, remoteVars, entry, connected, interruptions, historyVars>>

\* prepareApplication: the checkpoint is durable before the file is touched.
PrepareApplication ==
    /\ pass.stage = "prepare" /\ connected
    /\ recovery' = recovery \cup {entry.pending.content}
    /\ entry' = [entry EXCEPT !.pending.state = "applying", !.pending.captured = WriteBack]
    /\ pass' = [pass EXCEPT !.stage = "recheck", !.materialized = WriteBack]
    /\ UNCHANGED <<item, userVars, remoteVars, connected, interruptions, historyVars>>

\* Mutant: no second look after the checkpoint.
StillCapturedAssumed == TRUE
\* The checkpoint may have waited: the file is read once more.
StillCaptured == local = pass.materialized
RecheckPass ==
    /\ pass.stage = "recheck"
    /\ pass' = IF local = pass.response.content THEN [pass EXCEPT !.stage = "ack", !.materialized = pass.response.content]
               ELSE IF StillCaptured THEN [pass EXCEPT !.stage = "rename"] ELSE [pass EXCEPT !.stage = "ack"]
    /\ UNCHANGED <<item, userVars, remoteVars, entry, recovery, connected, interruptions, historyVars>>

\* renameSync or unlinkSync.
Rename ==
    /\ pass.stage = "rename"
    /\ replaced' = replaced \cup {local} /\ local' = pass.response.content
    /\ pass' = [pass EXCEPT !.stage = "ack", !.materialized = pass.response.content]
    /\ UNCHANGED <<item, masks, saves, remoteVars, entry, recovery, connected, interruptions, blind>>

\* complete(): the new base; a losing candidate is kept.
AcknowledgeExchange ==
    /\ pass.stage = "ack" /\ connected
    /\ recovery' = recovery \cup Losing(entry.pending.content)
    /\ entry' = Acknowledged(pass.response, pass.materialized) /\ pass' = Idle
    /\ UNCHANGED <<item, userVars, remoteVars, connected, interruptions, historyVars>>

\* An error, an abort, the death of the process, or an assertConnection that fails.
AbandonPass ==
    /\ pass.stage # "idle"
    /\ connected => interruptions < MaxInterruptions
    /\ interruptions' = IF connected THEN interruptions + 1 ELSE interruptions
    /\ pass' = Idle
    /\ UNCHANGED <<item, userVars, remoteVars, entry, recovery, connected, historyVars>>

\* Logout or a withdrawn consent, and a later login.
Disconnect ==
    /\ connected /\ interruptions < MaxInterruptions /\ interruptions' = interruptions + 1 /\ connected' = FALSE
    /\ UNCHANGED <<item, userVars, remoteVars, entry, recovery, pass, historyVars>>
Reconnect ==
    /\ ~connected /\ pass.stage = "idle" /\ connected' = TRUE
    /\ UNCHANGED <<item, userVars, remoteVars, entry, recovery, pass, interruptions, historyVars>>

-----------------------------------------------------------------------------
PassStep ==
    \/ Check \/ Exchange \/ Rebase \/ ApplyGlobal \/ ApplyFile \/ PrepareApplication
    \/ RecheckPass \/ Rename \/ AcknowledgeExchange

ConfigNext ==
    \/ PassStep \/ AbandonPass \/ Disconnect \/ Reconnect
    \/ \E mode \in {"sync", "local", "server"} : StartPass(mode)
    \/ \E c \in SUBSET Settings : Save(c) \/ OtherDevice(c)
    \/ \E r \in Settings, lifetime \in {"GLOBAL", "LOCAL"} : Decide(r, lifetime)

-----------------------------------------------------------------------------
(* Properties.                                                             *)

\* What a pass replaces in a file can be recovered: it is in the recovery table,
\* or in the pending work, or the server took it.  The exception is a save in the
\* moment between the last look at the file and its rename (applyFile).
SavesSurvive ==
    \A c \in replaced \ blind :
        \/ c \in recovery \cup {local, server.content, entry.base.content}
        \/ entry.pending.state # "none" /\ c \in {entry.pending.content, entry.pending.captured}

\* A change identity stands for one request: a retry after a lost answer, a crash
\* or a restart sends the base and the content that were frozen first.
FrozenExchange == \A r, s \in sent : r.id = s.id => r = s

\* A LOCAL decision never takes a rule from the other devices: it masks the GLOBAL
\* rule here, and no exchange, retry or deferred import turns that into a deletion.
MaskNeverDeletes ==
    [][item = "global" /\ Exchange => server.content \subseteq server'.content]_configVars

\* When the saves, the other devices and the interruptions come to an end, passes make
\* the two sides agree, except for what waits for a recovery choice.
Agrees == local = IF item = "file" THEN server.content ELSE server.content \ masks
AwaitsChoice == entry.pending.state = "applying"
Converges == <>[](Agrees \/ AwaitsChoice)

\* Neither side of an exchange loses or changes what it stands for.
ExchangeSafe == SavesSurvive /\ FrozenExchange
=============================================================================
