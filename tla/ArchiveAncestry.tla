-------------------------- MODULE ArchiveAncestry --------------------------
(***************************************************************************)
(* To which root session an archived session file belongs:                 *)
(* ArchiveSessions.captureSource() and resolveSourceFamily(), and the      *)
(* bookkeeping of ArchiveWorkerState that keeps the answer current         *)
(* (observeSource, dependencyKey, reviewSources, completeScopes).          *)
(*                                                                         *)
(* A file names its parent by path or by session id.  It is resolved with  *)
(* the evidence of the files observed so far, so a later observation may   *)
(* change the answer; the files and ids a resolution looked at are kept    *)
(* with it, and a paged review re-reads the sources whose dependencies     *)
(* have changed since.                                                     *)
(***************************************************************************)
EXTENDS Integers, Sequences, FiniteSets, SequencesExt

CONSTANTS
    SourceFiles,     \* the source files, in the order of their row ids
    Ids,             \* native session ids
    Contents,        \* what the files may say: sets of functions file -> identity
    Nobody,          \* absent value
    ActiveSession,   \* scope.sessionFile and scope.activeSession
    Memberships,     \* source.scope: "current", "all"
    ReviewPage,      \* rows one reviewSources() looks at (64)
    MaxReady,        \* bound on sources in state ready (10000)
    MaxRewrites      \* bound: files whose content changes

VARIABLES
    content,         \* file -> the identity it holds
    evidence,        \* file -> archive_worker_sources.evidence
    source,          \* file -> state, dependencies, dependency_key, verdict of its row
    scopeRow,        \* state, source.scope, catalog_revision, review_target, review_cursor
    rewrites

ancestryVars == <<content, evidence, source, scopeRow, rewrites>>

Files  == ToSet(SourceFiles)
NoDeps == [files |-> {}, ids |-> {}]
NewSource == [state |-> "none", unresolved |-> FALSE, deps |-> NoDeps, key |-> Nobody,
           verdict |-> Nobody]

AncestryInit ==
    /\ content \in Contents
    /\ evidence = [f \in Files |-> Nobody]
    /\ source = [f \in Files |-> NewSource]
    /\ scopeRow \in [state : {"ready"}, members : Memberships, revision : {0},
                     target : {Nobody}, cursor : {0}]
    /\ rewrites = 0

-----------------------------------------------------------------------------
\* knownRoot() of the active session.
KnownRoot ==
    CASE ActiveSession.identity.conflict      -> Nobody
      [] ActiveSession.identity.root # Nobody -> ActiveSession.identity.root
      [] ActiveSession.identity.child         -> Nobody
      [] OTHER                                -> ActiveSession.identity.id

WithId(cat, id) == {f \in Files : cat[f] # Nobody /\ cat[f].id = id /\ id # Nobody}

Found(root) == [next |-> Nobody, root |-> root, files |-> {}, ids |-> {}]
GoOn(file)  == [next |-> file, root |-> Nobody, files |-> {}, ids |-> {}]

\* Mutant: a parent path that is not observed yet is no dependency.
ByPathUnrecorded(e, cat, activeRoot) ==
    LET p == cat[e.header] IN
    IF p = Nobody /\ e.header = ActiveSession.file /\ e.parent \in {Nobody, ActiveSession.identity.id}
       /\ activeRoot # Nobody THEN Found(activeRoot)
    ELSE IF p = Nobody \/ (e.parent # Nobody /\ p.id # e.parent) THEN Found(Nobody)
    ELSE [GoOn(e.header) EXCEPT !.files = {e.header}]

\* The parent named by an owned path: the observed file, or for the active
\* session's own path the root known without it; never another file of that id.
ByPath(e, cat, activeRoot) ==
    LET p == cat[e.header]
        l == IF p = Nobody /\ e.header = ActiveSession.file /\ e.parent \in {Nobody, ActiveSession.identity.id}
                /\ activeRoot # Nobody THEN Found(activeRoot)
             ELSE IF p = Nobody \/ (e.parent # Nobody /\ p.id # e.parent) THEN Found(Nobody)
             ELSE GoOn(e.header)
    IN  [l EXCEPT !.files = {e.header}]

\* The parent named by session id: the only file with the recorded parent id,
\* else the only one with the id in the header, else the active session.
ById(e, cat, activeRoot) ==
    LET named  == WithId(cat, e.parent)
        header == WithId(cat, e.header)
        l == IF Cardinality(named) = 1 THEN GoOn(CHOOSE f \in named : TRUE)
             ELSE IF Cardinality(named) > 1 THEN Found(Nobody)
             ELSE IF Cardinality(header) = 1 /\ e.parent \in {Nobody, e.header}
             THEN GoOn(CHOOSE f \in header : TRUE)
             ELSE IF e.parent = ActiveSession.identity.id /\ Cardinality(header) <= 1 /\ activeRoot # Nobody
             THEN Found(activeRoot) ELSE Found(Nobody)
    IN  [l EXCEPT !.ids = ({e.parent} \cup IF named = {} THEN {e.header} ELSE {}) \cap Ids]

\* One turn of the loop of resolveSourceFamily(), at file f with identity e.
Link(f, e, cat, activeRoot) ==
    CASE e.conflict                    -> Found(Nobody)
      [] e.main                        -> Found(e.id)
      [] e.child /\ e.root # Nobody    -> Found(e.root)
      [] ~e.child                      -> Found(IF f = ActiveSession.file /\ e.id = ActiveSession.identity.id
                                                   /\ activeRoot = e.id THEN e.id ELSE Nobody)
      [] e.child /\ e.header \in Files -> ByPath(e, cat, activeRoot)
      [] OTHER                         -> ById(e, cat, activeRoot)

\* resolveSourceFamily(): the walk to the root, with what it looked at.  A file
\* is visited once.
Family(f, identity, cat, activeRoot) ==
    LET start == [at |-> f, seen |-> {}, root |-> Nobody, files |-> {}, ids |-> {}]
        walk[k \in 0..(Cardinality(Files) + 1)] ==
            IF k = 0 THEN start
            ELSE LET w == walk[k-1]
                     l == Link(w.at, IF k = 1 THEN identity ELSE cat[w.at], cat, activeRoot)
                 IN  IF w.at = Nobody THEN w
                     ELSE IF w.at \in w.seen
                     THEN [w EXCEPT !.at = Nobody, !.files = @ \cup {w.at}]
                     ELSE [at |-> l.next, seen |-> w.seen \cup {w.at}, root |-> l.root,
                           files |-> w.files \cup {w.at} \cup l.files, ids |-> w.ids \cup l.ids]
    IN  walk[Cardinality(Files) + 1]

\* captureSource(): the scope's root (known, or that of the active session), the
\* file's own, and whether the file belongs to the scope.
Verdict(f, cat) ==
    LET e == cat[f]
        observed == cat[ActiveSession.file] # Nobody /\ cat[ActiveSession.file].id = ActiveSession.identity.id
        active == Family(ActiveSession.file, IF observed THEN cat[ActiveSession.file] ELSE ActiveSession.identity,
                         cat, KnownRoot)
        root   == IF KnownRoot # Nobody THEN KnownRoot ELSE active.root
        own    == Family(f, e, cat, root)
        plain  == /\ e.id \notin {ActiveSession.identity.id, root}
                  /\ ~e.main /\ ~e.child /\ ~e.conflict /\ e.header = Nobody
        looked(part) == own[part] \cup IF KnownRoot # Nobody THEN {} ELSE active[part]
    IN  [root   |-> own.root,
         member |-> IF scopeRow.members = "all" THEN "included"
                    ELSE IF plain THEN "excluded"
                    ELSE IF root = Nobody \/ own.root = Nobody THEN "unresolved"
                    ELSE IF root = own.root THEN "included" ELSE "excluded",
         deps   |-> [files |-> looked("files") \ {f}, ids |-> looked("ids")]]

\* dependencyKey(): the evidence a resolution looked at.
DependencyKey(cat, deps) ==
    {<<f, cat[f]>> : f \in {g \in Files : cat[g] # Nobody /\ (g \in deps.files \/ cat[g].id \in deps.ids)}}

-----------------------------------------------------------------------------
\* completeScopes()
Completed(scope, src) ==
    IF /\ scope.state = "scanned" /\ scope.target = Nobody
       /\ \A f \in Files : src[f].state # "ready"
    THEN [scope EXCEPT !.state = "complete"] ELSE scope

\* addSources(): discovery reports a file; the last page ends the scan.
AddSource(f) ==
    /\ scopeRow.state = "ready" /\ source[f].state = "none"
    /\ source' = [source EXCEPT ![f].state = "ready"]
    /\ UNCHANGED <<content, evidence, scopeRow, rewrites>>

ScanEnds ==
    /\ scopeRow.state = "ready"
    /\ scopeRow' = Completed([scopeRow EXCEPT !.state = "scanned"], source)
    /\ UNCHANGED <<content, evidence, source, rewrites>>

\* observeSource(): new evidence asks for a review of the scope; one under way
\* keeps its target and is followed by another.
Observed(scope, changed) ==
    IF ~changed THEN scope
    ELSE [scope EXCEPT !.revision = @ + 1,
                       !.target = IF @ = Nobody THEN scope.revision + 1 ELSE @,
                       !.cursor = IF scope.target = Nobody THEN 0 ELSE @,
                       !.state  = IF @ = "complete" THEN "scanned" ELSE @]

\* The worker's captureSource() of a file: read, resolve, observe, and end the
\* row, or leave it ready while its ancestry is unresolved.
CaptureSource(f) ==
    /\ source[f].state = "ready"
    /\ evidence' = [evidence EXCEPT ![f] = content[f]]
    /\ \E v \in {Verdict(f, evidence')} :
           LET row == [state |-> CASE v.member = "included"   -> "captured"
                                   [] v.member = "excluded"   -> "excluded"
                                   [] v.member = "unresolved" -> "ready",
                       unresolved |-> v.member = "unresolved",
                       deps |-> v.deps, key |-> DependencyKey(evidence', v.deps),
                       verdict |-> [root |-> v.root, member |-> v.member]]
               scope == Observed(scopeRow, evidence[f] # content[f])
           IN  /\ source' = [source EXCEPT ![f] = row]
               /\ scopeRow' = IF row.state = "ready" THEN scope ELSE Completed(scope, source')
    /\ UNCHANGED <<content, rewrites>>

\* reviewSources(): a page of rows after the cursor; those whose dependencies
\* changed become ready again, as far as there is room.  After the last page a
\* catalogue that moved on meanwhile is reviewed once more.
Reviewable(i) ==
    LET row == source[SourceFiles[i]]
    IN  i > scopeRow.cursor /\ row.key # Nobody
        /\ (row.state \in {"captured", "excluded"} \/ (row.state = "ready" /\ row.unresolved))

ReviewRows ==
    LET due == SetToSortSeq({i \in DOMAIN SourceFiles : Reviewable(i)}, <)
    IN  SubSeq(due, 1, IF Len(due) < ReviewPage THEN Len(due) ELSE ReviewPage)

NextReview(scope) ==
    IF scope.revision > scope.target
    THEN [scope EXCEPT !.target = scope.revision, !.cursor = 0]
    ELSE [scope EXCEPT !.target = Nobody, !.cursor = 0]

ReviewSources ==
    /\ scopeRow.target # Nobody
    /\ LET rowsNow == ReviewRows
           stale   == {i \in ToSet(rowsNow) : LET row == source[SourceFiles[i]]
                                              IN  DependencyKey(evidence, row.deps) # row.key}
           ended   == {i \in stale : source[SourceFiles[i]].state # "ready"}
           room    == MaxReady - Cardinality({f \in Files : source[f].state = "ready"})
           blocked == {i \in ended : Cardinality({k \in ended : k < i}) >= room}
           reached == IF blocked = {} THEN ToSet(rowsNow)
                      ELSE {i \in ToSet(rowsNow) : \A b \in blocked : i < b}
           src     == [f \in Files |->
                         IF \E i \in stale \cap reached : SourceFiles[i] = f
                         THEN [source[f] EXCEPT !.state = "ready"] ELSE source[f]]
           cursor  == IF reached = {} THEN scopeRow.cursor ELSE CHOOSE i \in reached : \A k \in reached : k <= i
       IN  /\ source' = src
           /\ scopeRow' = IF blocked # {} \/ Len(rowsNow) = ReviewPage
                          THEN [scopeRow EXCEPT !.cursor = cursor]
                          ELSE Completed(NextReview(scopeRow), src)
    /\ UNCHANGED <<content, evidence, rewrites>>

\* A session records its identity, or a file is replaced.
Rewrite(f) ==
    /\ rewrites < MaxRewrites /\ rewrites' = rewrites + 1
    /\ \E e \in {c[f] : c \in Contents} \ {content[f]} : content' = [content EXCEPT ![f] = e]
    /\ UNCHANGED <<evidence, source, scopeRow>>

\* sourceFailure(): the file has gone, or is no session file any more; what was
\* observed of it stays in the catalogue.
SourceFails(f) ==
    /\ source[f].state = "ready"
    /\ rewrites < MaxRewrites /\ rewrites' = rewrites + 1
    /\ LET src == [source EXCEPT ![f].state = "lost"]
       IN  source' = src /\ scopeRow' = Completed(scopeRow, src)
    /\ UNCHANGED <<content, evidence>>

AncestryNext ==
    \/ ScanEnds \/ ReviewSources
    \/ \E f \in Files : AddSource(f) \/ CaptureSource(f) \/ Rewrite(f) \/ SourceFails(f)

\* Once a scope is complete, the root and the membership recorded for each of
\* its sources are what the evidence of all of them says, in whatever order the
\* files were observed and however the review was cut into pages.
FamiliesCurrent ==
    scopeRow.state = "complete" =>
        \A f \in Files : source[f].state \in {"captured", "excluded"} =>
            LET v == Verdict(f, evidence)
            IN  source[f].verdict = [root |-> v.root, member |-> v.member]
=============================================================================
