-------------------------- MODULE ArchiveDiscovery -------------------------
(***************************************************************************)
(* The resumable walk over the session directories of one archive scope:   *)
(* server/ArchiveDiscovery.discoverPage(), the pages that                  *)
(* ArchiveWorkerEngine.captureOpportunity() asks it for, and their commit, *)
(* ArchiveWorkerState.addSources().                                        *)
(*                                                                         *)
(* A page walks with a bounded budget and closes its directory handles; a  *)
(* cursor is what survives: per directory a position, the hash of the      *)
(* entries up to it and the stamp (inode, mtime, ctime) they were read     *)
(* under.  Directories change while the walk runs and between pages, the   *)
(* order of entries may change without the stamp, and a page may be lost   *)
(* before its commit.  A handle lists what opendir() found.                *)
(*                                                                         *)
(* A stamp changes with every change of its directory; the hash of a       *)
(* prefix is the prefix.                                                   *)
(***************************************************************************)
EXTENDS Integers, Sequences, FiniteSets, SequencesExt

CONSTANTS
    Dirs,           \* every directory in scope
    Collections,    \* those whose entries are directories; the others hold files
    Seeds,          \* this.seeds, a sequence of directories
    ActiveFile,     \* source.sessionFile, reported before any directory is read
    Initially,      \* the entries of each directory when the walk starts
    Fresh,          \* files that may be added meanwhile
    EntryBudget,    \* ENTRY_BUDGET
    PageLimit,      \* the capacity the worker asks for
    MaxChanges,     \* bound: changes of directories
    MaxDiscoveryFaults       \* bound: filesystem errors, lost pages

VARIABLES
    entries,        \* directory -> its entries in readdir() order
    stamp,          \* directory -> its stamp
    walk,           \* the decoded cursor of the current page: seed, retry, frames
    page,           \* the page under way: for (the main scan or a directory row), files, issues, budget, handles
    scan,           \* the scope row: cursor and whether it is scanned
    rows,           \* directory -> state and retry_cursor of its archive_worker_sources row
    found,          \* files with an archive_worker_sources row
    trouble,        \* faults so far
    lasting,        \* history: files there from the start and never removed
    shuffled        \* history: the order of a directory changed, its stamp did not

diskVars == <<entries, stamp, lasting, shuffled>>
discoveryVars == <<diskVars, walk, page, scan, rows, found, trouble>>

NoPage  == [for |-> "none", files |-> {}, issues |-> <<>>, budget |-> 0, handles |-> <<>>,
            step |-> "stamp"]
NoRow   == [state |-> "none", cursor |-> <<>>]
NewFrame(d) == [dir |-> d, position |-> 0, stamp |-> -1, prefix |-> <<>>]

\* decodeCursor(null): the walk from the first seed.
Start == [seed |-> 0, activeEmitted |-> FALSE, retry |-> FALSE, frames |-> <<>>]
RetryOf(d, seed) ==
    [seed |-> seed, activeEmitted |-> TRUE, retry |-> TRUE, frames |-> <<NewFrame(d)>>]

\* A new scope, or one that an earlier process has scanned.
DiscoveryStart(scanned) ==
    /\ entries = Initially
    /\ stamp = [d \in Dirs |-> 0]
    /\ lasting = UNION {ToSet(Initially[d]) : d \in Dirs \ Collections} \cup {ActiveFile}
    /\ shuffled = FALSE
    /\ walk = Start /\ page = NoPage
    /\ scan = [cursor |-> Start, scanned |-> scanned]
    /\ rows = [d \in Dirs |-> NoRow]
    /\ found = IF scanned THEN lasting ELSE {}
    /\ trouble = 0
DiscoveryInit == DiscoveryStart(FALSE)

-----------------------------------------------------------------------------
\* captureOpportunity() and captureSource(): a page of the scan, or of the
\* retry of a directory that failed before.
BeginPage(for) ==
    /\ page = NoPage
    /\ IF for = "scan" THEN ~scan.scanned ELSE rows[for].state = "ready"
    /\ LET cursor == IF for = "scan" THEN scan.cursor ELSE rows[for].cursor IN
       /\ walk' = [cursor EXCEPT !.activeEmitted = TRUE]
       /\ page' = [NoPage EXCEPT !.for = for, !.budget = EntryBudget,
                                 !.files = IF cursor.activeEmitted THEN {} ELSE {ActiveFile}]
    /\ UNCHANGED <<diskVars, scan, rows, found, trouble>>

Top(w) == w.frames[Len(w.frames)]
Pop(w) == [w EXCEPT !.frames = Front(@)]
SetTop(w, frame) == [w EXCEPT !.frames[Len(w.frames)] = frame]

BudgetSpent == walk.frames = <<>> /\ (walk.retry \/ walk.seed = Len(Seeds))
Ended == page.budget <= 0 \/ Cardinality(page.files) + Len(page.issues) >= PageLimit \/ BudgetSpent
Closed(handles, d) == [x \in (DOMAIN handles) \ {d} |-> handles[x]]

\* The catch of the loop: the directory is left to a row of its own, unless
\* this page is the retry of that very directory, which then fails.
Fail(w, d) ==
    IF w.retry /\ Len(w.frames) = 1
    THEN page' = NoPage /\ walk' = Start
    ELSE /\ page' = [page EXCEPT !.handles = Closed(@, d), !.step = "stamp",
                                 !.issues = Append(@, RetryOf(d, w.seed))]
         /\ walk' = Pop(w)

\* The frame to go on with: the deepest one, or the next seed.
Descended ==
    IF walk.frames # <<>> THEN walk
    ELSE [walk EXCEPT !.seed = @ + 1, !.frames = <<NewFrame(Seeds[walk.seed + 1])>>]

\* A directory that changed since the frame's stamp is read from the start.
Restamped(frame, now) ==
    IF frame.stamp = now THEN frame
    ELSE [frame EXCEPT !.stamp = now, !.position = 0, !.prefix = <<>>]

\* One turn of the loop up to the stamp of the directory.
Stamp ==
    /\ page # NoPage /\ page.step = "stamp" /\ ~Ended
    /\ LET w == Descended
           f == Top(w)
       IN  /\ walk' = SetTop(w, Restamped(f, stamp[f.dir]))
           /\ page' = [page EXCEPT !.budget = @ - 1, !.step = "read",
                          !.handles = IF f.stamp = stamp[f.dir] THEN @ ELSE Closed(@, f.dir)]
    /\ UNCHANGED <<diskVars, scan, rows, found, trouble>>

\* stat() or opendir() of a directory fails.
StampFails ==
    /\ page # NoPage /\ page.step = "stamp" /\ ~Ended
    /\ trouble < MaxDiscoveryFaults /\ trouble' = trouble + 1
    /\ LET w == Descended IN Fail(w, Top(w).dir)
    /\ UNCHANGED <<diskVars, scan, rows, found>>

\* The entry after the prefix goes to the page, or is the next directory to walk.
Entered(w, f, name) ==
    LET g == [f EXCEPT !.position = @ + 1, !.prefix = Append(@, name)]
        v == SetTop(w, g)
    IN  IF f.dir \in Collections THEN [v EXCEPT !.frames = Append(@, NewFrame(name))] ELSE v

\* Mutant: only the number of entries is compared.
ReplayedByCount(f, listing) == f.position <= Len(listing)

\* The directory still starts with the entries the frame was read through.
Replayed(f, listing) == IsPrefix(f.prefix, listing)

\* The rest of the turn: open the directory if no handle is left of this page,
\* replay the prefix, read one entry; at the end look at the stamp once more.
Read ==
    /\ page # NoPage /\ page.step = "read"
    /\ LET f == Top(walk)
           listing == IF f.dir \in DOMAIN page.handles THEN page.handles[f.dir] ELSE entries[f.dir]
           opened == [x \in (DOMAIN page.handles) \cup {f.dir} |->
                         IF x = f.dir THEN listing ELSE page.handles[x]]
           end    == f.position = Len(listing)
       IN    IF ~Replayed(f, listing)
             THEN Fail(walk, f.dir)
             ELSE IF page.budget <= 0
             THEN page' = [page EXCEPT !.step = "stamp", !.handles = opened] /\ UNCHANGED walk
             ELSE IF end /\ stamp[f.dir] # f.stamp
             THEN Fail(walk, f.dir)
             ELSE IF end
             THEN /\ walk' = Pop(walk)
                  /\ page' = [page EXCEPT !.step = "stamp", !.budget = @ - 1,
                                          !.handles = Closed(@, f.dir)]
             ELSE /\ walk' = Entered(walk, f, listing[f.position + 1])
                  /\ page' = [page EXCEPT !.step = "stamp", !.budget = @ - 1, !.handles = opened,
                        !.files = @ \cup IF f.dir \in Collections THEN {}
                                          ELSE {listing[f.position + 1]}]
    /\ UNCHANGED <<diskVars, scan, rows, found, trouble>>

\* addSources(): files and failed directories become rows together with the new
\* cursor; a directory that has a row keeps it.
CommitPage ==
    /\ page # NoPage /\ page.step = "stamp" /\ Ended
    /\ found' = found \cup page.files
    /\ LET issue(d) == SelectSeq(page.issues, LAMBDA i : i.frames[1].dir = d)
           added == [d \in Dirs |-> IF rows[d].state = "none" /\ issue(d) # <<>>
                                    THEN [state |-> "ready", cursor |-> Last(issue(d))] ELSE rows[d]]
       IN  rows' = IF page.for = "scan" THEN added
                   ELSE [added EXCEPT ![page.for] =
                            IF BudgetSpent THEN [state |-> "done", cursor |-> <<>>]
                            ELSE [state |-> "ready", cursor |-> walk]]
    /\ scan' = IF page.for = "scan" THEN [cursor |-> walk, scanned |-> BudgetSpent] ELSE scan
    /\ page' = NoPage /\ walk' = Start
    /\ UNCHANGED <<diskVars, trouble>>

\* The worker dies, or addSources() finds no capacity: nothing is committed.
LosePage ==
    /\ page # NoPage /\ trouble < MaxDiscoveryFaults /\ trouble' = trouble + 1
    /\ page' = NoPage /\ walk' = Start
    /\ UNCHANGED <<diskVars, scan, rows, found>>

-----------------------------------------------------------------------------
\* Other sessions add and remove files; readdir() order follows no rule.
Shuffles(s) == SetToSeqs(ToSet(s))
Changes(d) == stamp[d] < MaxChanges /\ stamp' = [stamp EXCEPT ![d] = @ + 1]

AddFile(d, f) ==
    /\ d \notin Collections /\ f \in Fresh /\ (\A x \in Dirs : f \notin ToSet(entries[x]))
    /\ Changes(d)
    /\ \E order \in Shuffles(Append(entries[d], f)) : entries' = [entries EXCEPT ![d] = order]
    /\ UNCHANGED <<lasting, shuffled, walk, page, scan, rows, found, trouble>>

RemoveFile(d, f) ==
    /\ d \notin Collections /\ f \in ToSet(entries[d]) /\ Changes(d)
    /\ entries' = [entries EXCEPT ![d] = SelectSeq(@, LAMBDA x : x # f)]
    /\ lasting' = lasting \ {f}
    /\ UNCHANGED <<shuffled, walk, page, scan, rows, found, trouble>>

Shuffle(d) ==
    /\ trouble < MaxDiscoveryFaults /\ trouble' = trouble + 1
    /\ \E order \in Shuffles(entries[d]) \ {entries[d]} : entries' = [entries EXCEPT ![d] = order]
    /\ shuffled' = TRUE
    /\ UNCHANGED <<stamp, lasting, walk, page, scan, rows, found>>

PageStep ==
    \/ \E for \in Dirs \cup {"scan"} : BeginPage(for)
    \/ Stamp \/ Read \/ CommitPage

DiscoveryNext ==
    \/ PageStep \/ StampFails \/ LosePage
    \/ \E d \in Dirs : Shuffle(d) \/ \E f \in Fresh \cup lasting : AddFile(d, f) \/ RemoveFile(d, f)

\* The worker runs while there is work; turns alternate between the scan and
\* the directory rows.
DiscoveryFairness ==
    /\ WF_discoveryVars(Stamp \/ Read \/ CommitPage)
    /\ \A for \in Dirs \cup {"scan"} : SF_discoveryVars(BeginPage(for))

\* Whatever changed while the walk ran, and however it was cut into pages: when
\* the scope is scanned and no directory is left to retry, every file that was
\* there all the time has been found.
DiscoveryComplete ==
    (scan.scanned /\ \A d \in Dirs : rows[d].state # "ready") => lasting \subseteq found

\* The walk comes to an end once directories stop changing, unless the order of
\* a directory changes under an unchanged stamp: sourceFailure() keeps the cursor
\* of a retry whose prefix no longer matches.
DiscoveryEnds ==
    []~shuffled => <>[](scan.scanned /\ \A d \in Dirs : rows[d].state # "ready")
=============================================================================
