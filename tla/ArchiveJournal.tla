--------------------------- MODULE ArchiveJournal --------------------------
(***************************************************************************)
(* The upload journal of server/ArchiveJournal.ts: immutable captures of a *)
(* session, at most one pending publication, and the receipt last accepted *)
(* for it.  Several processes share the SQLite file; an operation of the   *)
(* journal is one immediate transaction.  Between two of them a process    *)
(* publishes over HTTP, where replies are lost and repeated.               *)
(*                                                                         *)
(* One profile and one session; a body is the sequence of its records, and *)
(* its hash is the body.  The server is external: it commits a publication *)
(* whose condition holds and repeats the receipt of an operation it knows. *)
(***************************************************************************)
EXTENDS Integers, Sequences, FiniteSets, SequencesExt

CONSTANTS
    Uploaders,      \* processes that share the journal
    Snapshots,      \* [file, body, title]: what a process may find on disk
    Backlog,        \* backlogByteLimit
    Nothing,        \* absent value
    MaxOperations   \* bound: publications prepared

Snapshot(s) == [file : {s.file}, body : Seq(Range(s.body)), title : {s.title}]

CapturedFiles  == {s.file : s \in Snapshots}
CapturedBodies == {s.body : s \in Snapshots}
CapturedTitles == {s.title : s \in Snapshots}
Publications ==
    [file : CapturedFiles, body : CapturedBodies, title : CapturedTitles, id : Nat, base : Nat]
Receipts ==
    [file : CapturedFiles, body : CapturedBodies, title : CapturedTitles, id : Nat, base : Nat, seq : Nat]

ASSUME JournalAssumption ==
    /\ \A s \in Snapshots : s \in Snapshot(s)
    /\ Nothing \notin Publications /\ Nothing \notin Receipts
    /\ Backlog \in Nat /\ MaxOperations \in Nat

VARIABLES
    row,            \* the archive_uploads row: source, accepted, pending
    captures,       \* archive_captures
    remote,         \* external: committed publications, oldest first
    hand,           \* uploader -> the publication or receipt it holds
    operations,     \* publications prepared so far, the source of operation ids
    kept            \* history: snapshots a process was told are captured or pending

journalVars == <<row, captures, remote, hand, operations, kept>>

JournalInit ==
    /\ row = [source |-> Nothing, accepted |-> Nothing, pending |-> Nothing]
    /\ captures = {} /\ remote = <<>>
    /\ hand = [u \in Uploaders |-> Nothing]
    /\ operations = 0 /\ kept = {}

-----------------------------------------------------------------------------
\* matches(): same bytes and metadata.
Matches(request, s) == request.body = s.body /\ request.title = s.title
SourceFits(s) == row.source \in {Nothing, s.file}

\* storeCapture(): idempotent, and refused over the backlog limit.
Bytes == LET bodies == captures \cup IF row.pending = Nothing THEN {} ELSE {row.pending}
         IN  MapThenSumSet(LAMBDA s : Len(s.body), bodies)
Stores(s) == s \in captures \/ Bytes + Len(s.body) <= Backlog

\* The local history must extend the accepted one.
Extends(s) == row.accepted = Nothing \/ IsPrefix(row.accepted.body, s.body)

Publication(s) ==
    [file |-> s.file, body |-> s.body, title |-> s.title, id |-> operations + 1,
     base |-> IF row.accepted = Nothing THEN 0 ELSE row.accepted.seq]

\* prepareCaptured(), with `held` the captures of the enclosing transaction: an
\* unresolved predecessor is returned in its place, an accepted capture is
\* dropped, and a new one becomes the pending publication.
PrepareCaptured(u, s, held) ==
    /\ IF ~SourceFits(s) \/ (row.pending = Nothing /\ row.accepted # Nothing
                             /\ ~Matches(row.accepted, s) /\ ~Extends(s))
       THEN /\ captures' = held
            /\ UNCHANGED <<row, hand, operations>>
       ELSE IF row.pending # Nothing
       THEN /\ captures' = held /\ hand' = [hand EXCEPT ![u] = row.pending]
            /\ UNCHANGED <<row, operations>>
       ELSE IF row.accepted # Nothing /\ Matches(row.accepted, s)
       THEN captures' = held \ {s} /\ UNCHANGED <<row, hand, operations>>
       ELSE /\ operations < MaxOperations
            /\ operations' = operations + 1
            /\ row' = [row EXCEPT !.source = s.file, !.pending = Publication(s)]
            /\ hand' = [hand EXCEPT ![u] = Publication(s)]
            /\ captures' = held \ {s}
    /\ UNCHANGED remote

\* capture(): evidence that authorizes nothing.
JournalCapture(s) ==
    /\ Stores(s)
    /\ captures' = captures \cup {s} /\ kept' = kept \cup {s}
    /\ UNCHANGED <<row, remote, hand, operations>>

PrepareCapture(u, s) ==
    /\ hand[u] = Nothing /\ s \in captures
    /\ PrepareCaptured(u, s, captures)
    /\ UNCHANGED kept

\* prepare(): the snapshot is pending or accepted already, or it is captured and
\* promoted in one transaction; a failed promotion keeps the capture.
JournalPrepare(u, s) ==
    /\ hand[u] = Nothing /\ SourceFits(s)
    /\ IF row.pending # Nothing /\ Matches(row.pending, s)
       THEN /\ hand' = [hand EXCEPT ![u] = row.pending]
            /\ UNCHANGED <<row, captures, remote, operations, kept>>
       ELSE IF row.pending = Nothing /\ row.accepted # Nothing /\ Matches(row.accepted, s)
       THEN UNCHANGED journalVars
       ELSE /\ Stores(s)
            /\ PrepareCaptured(u, s, captures \cup {s})
            /\ kept' = kept \cup {s}

\* pendingOperations(), pending(): another process takes up what is pending.
Adopt(u) ==
    /\ hand[u] = Nothing /\ row.pending # Nothing
    /\ hand' = [hand EXCEPT ![u] = row.pending]
    /\ UNCHANGED <<row, captures, remote, operations, kept>>

-----------------------------------------------------------------------------
\* The server: a known operation is answered with its receipt, a new one is
\* committed when its base is the current revision, else it is refused.
Publishing(u) == hand[u] # Nothing /\ "seq" \notin DOMAIN hand[u]
Receipt(request, seq) ==
    [file |-> request.file, body |-> request.body, title |-> request.title,
     id |-> request.id, base |-> request.base, seq |-> seq]

JournalPublish(u) ==
    /\ Publishing(u)
    /\ LET known == {i \in DOMAIN remote : remote[i].id = hand[u].id} IN
       \/ /\ known # {}
          /\ hand' = [hand EXCEPT ![u] = Receipt(hand[u], CHOOSE i \in known : TRUE)]
          /\ UNCHANGED remote
       \/ /\ known = {} /\ hand[u].base = Len(remote)
          /\ remote' = Append(remote, hand[u])
          /\ hand' \in {[hand EXCEPT ![u] = Receipt(hand[u], Len(remote) + 1)],
                        [hand EXCEPT ![u] = Nothing]}
       \/ /\ known = {} /\ hand[u].base # Len(remote)
          /\ hand' = [hand EXCEPT ![u] = Nothing]
          /\ UNCHANGED remote
    /\ UNCHANGED <<row, captures, operations, kept>>

\* Mutant: any receipt settles whatever is pending.
SettlesAny(receipt) == row.pending # Nothing

\* accept(): the receipt is that of the pending publication.
Settles(receipt) == row.pending # Nothing /\ Receipt(row.pending, receipt.seq) = receipt

\* accept(): settles the pending publication; one that a sibling settled before
\* is left alone.
JournalAccept(u) ==
    /\ hand[u] # Nothing /\ ~Publishing(u)
    /\ row' = IF Settles(hand[u]) THEN [row EXCEPT !.accepted = hand[u], !.pending = Nothing]
              ELSE row
    /\ hand' = [hand EXCEPT ![u] = Nothing]
    /\ UNCHANGED <<captures, remote, operations, kept>>

\* The process dies, or the reply is lost: only the journal remains.
Forget(u) ==
    /\ hand[u] # Nothing
    /\ hand' = [hand EXCEPT ![u] = Nothing]
    /\ UNCHANGED <<row, captures, remote, operations, kept>>

JournalNext ==
    \/ \E s \in Snapshots : JournalCapture(s)
    \/ \E u \in Uploaders : Adopt(u) \/ JournalPublish(u) \/ JournalAccept(u) \/ Forget(u)
    \/ \E u \in Uploaders, s \in Snapshots : PrepareCapture(u, s) \/ JournalPrepare(u, s)

\* Bytes that the journal took over are in a capture, in the pending publication
\* or on the server, whichever process prepared, published or accepted what, and
\* whichever replies were lost; the backlog stays within its limit; and the
\* accepted receipt is that of a committed publication which every later one
\* builds on.
EvidenceKept ==
    /\ \A s \in kept : \/ s \in captures
                       \/ row.pending # Nothing /\ Matches(row.pending, s)
                       \/ \E i \in DOMAIN remote : Matches(remote[i], s)
    /\ Bytes <= Backlog
    /\ row.accepted # Nothing =>
         /\ row.accepted.seq \in DOMAIN remote
         /\ Receipt(remote[row.accepted.seq], row.accepted.seq) = row.accepted
         /\ row.pending # Nothing => row.pending.base = row.accepted.seq
                                     /\ IsPrefix(row.accepted.body, row.pending.body)
    /\ \A i \in DOMAIN remote : i > 1 => IsPrefix(remote[i-1].body, remote[i].body)
=============================================================================
