------------------------- MODULE ArchiveStableRead -------------------------
(***************************************************************************)
(* How one session file is captured while its session may still write it:  *)
(* ArchiveSessions.readStable() and parse(), with the classification       *)
(* ArchiveWorkerEngine.sourceFailure() makes of their errors.              *)
(*                                                                         *)
(* readStable() opens, stats, reads in chunks and stats again; every one   *)
(* of these is an await at which the writer may run.  A body is a sequence *)
(* of records, one per chunk; the last may be "torn", a record (or a UTF-8 *)
(* sequence) whose end is not written yet.  Every write gives the inode a  *)
(* new mtime.                                                              *)
(***************************************************************************)
EXTENDS Integers, Sequences, SequencesExt

CONSTANTS
    MaxRecords,     \* bound: records of a body
    MaxWrites,      \* bound: writes of the session
    Attempts        \* attempts of readStable() (3)

VARIABLES
    inodes,         \* inode -> [time, body]
    name,           \* the inode the path names; 0: no such file
    writes,         \* writes so far
    reader,         \* the state of readStable()
    outcome,        \* what the worker makes of the capture
    versions        \* history: bodies the path has named since the capture began

stableVars == <<inodes, name, writes, reader, outcome, versions>>

Idle == [step |-> "lstat", attempt |-> 1, saw |-> FALSE, observed |-> FALSE,
         original |-> 0, before |-> [time |-> 0, size |-> 0], body |-> <<>>]

StableInit ==
    /\ inodes = <<[time |-> 0, body |-> <<"rec">>]>> /\ name = 1 /\ writes = 0
    /\ reader = Idle /\ outcome = "none" /\ versions = {<<"rec">>}

-----------------------------------------------------------------------------
\* The session: records are appended whole or in two writes; a migration
\* rewrites the file in place; the file is replaced, or removed.
Writing == outcome = "none" /\ writes < MaxWrites /\ writes' = writes + 1 /\ name # 0
Seen(body) == versions' = versions \cup {body}

Write(body) ==
    /\ Writing
    /\ inodes' = [inodes EXCEPT ![name] = [time |-> writes + 1, body |-> body]]
    /\ Seen(body)
    /\ UNCHANGED <<name, reader, outcome>>

IsTorn(body) == body # <<>> /\ Last(body) = "torn"
Complete(body) == IF IsTorn(body) THEN Front(body) ELSE body

AppendRecord ==
    /\ name # 0
    /\ LET now == inodes[name].body IN
       \E part \in {"rec", "torn"} :
        /\ Len(now) < MaxRecords \/ IsTorn(now)
        /\ Write(IF IsTorn(now) THEN Append(Front(now), "rec") ELSE Append(now, part))

RewriteFile == name # 0 /\ Write([i \in DOMAIN Complete(inodes[name].body) |-> "new"])

ReplaceFile ==
    /\ Writing
    /\ inodes' = Append(inodes, [time |-> writes + 1, body |-> <<"new">>])
    /\ name' = Len(inodes) + 1 /\ Seen(<<"new">>)
    /\ UNCHANGED <<reader, outcome>>

RemoveIt ==
    /\ Writing /\ name' = 0
    /\ UNCHANGED <<inodes, reader, outcome, versions>>

-----------------------------------------------------------------------------
\* An attempt that saw a change is followed by another, the last by "changing".
Unstable ==
    IF reader.attempt < Attempts
    THEN /\ reader' = [Idle EXCEPT !.attempt = reader.attempt + 1, !.saw = TRUE]
         /\ UNCHANGED outcome
    ELSE outcome' = "changing" /\ UNCHANGED reader

\* A file that is gone is missing, unless this call saw it before.
Missing ==
    IF reader.observed \/ reader.saw THEN Unstable
    ELSE outcome' = "missing" /\ UNCHANGED reader

At(step) == outcome = "none" /\ reader.step = step
Still == UNCHANGED <<inodes, name, writes, versions>>

Lstat ==
    /\ At("lstat") /\ Still
    /\ IF name = 0 THEN Missing
       ELSE /\ reader' = [reader EXCEPT !.step = "open", !.observed = TRUE, !.original = name]
            /\ UNCHANGED outcome

\* open() and the first fstat(); another inode than the one observed is a change.
Open ==
    /\ At("open") /\ Still
    /\ IF name = 0 THEN Missing
       ELSE IF name # reader.original THEN Unstable
       ELSE /\ reader' = [reader EXCEPT !.step = "read", !.body = <<>>,
                            !.before = [time |-> inodes[name].time, size |-> Len(inodes[name].body)]]
            /\ UNCHANGED outcome

Inode == inodes[reader.original]

\* The next chunk, or the probe after the last; a short read is a change.
ReadChunk ==
    /\ At("read") /\ Still
    /\ LET offset == Len(reader.body) IN
       IF offset < reader.before.size
       THEN IF offset < Len(Inode.body)
            THEN reader' = [reader EXCEPT !.body = Append(@, Inode.body[offset + 1])] /\ UNCHANGED outcome
            ELSE Unstable
       ELSE IF Len(Inode.body) > offset THEN Unstable
       ELSE reader' = [reader EXCEPT !.step = "after"] /\ UNCHANGED outcome

\* Mutant: only the sizes are compared.
UnchangedSize(before) == before.size = Len(Inode.body)

\* The second fstat() equals the first.
UnchangedInode(before) == before.size = Len(Inode.body) /\ before.time = Inode.time

After ==
    /\ At("after") /\ Still
    /\ IF UnchangedInode(reader.before)
       THEN reader' = [reader EXCEPT !.step = "named"] /\ UNCHANGED outcome
       ELSE Unstable

\* parse(): an incomplete end is due later, any other record must be whole.
Parsed(body) ==
    IF body = <<>> \/ IsTorn(body) THEN "changing"
    ELSE IF \E i \in DOMAIN body : body[i] = "torn" THEN "invalid"
    ELSE "captured"

\* The path still names the inode that was read, with the same times.
Named ==
    /\ At("named") /\ Still
    /\ IF name = 0 THEN Missing
       ELSE IF name # reader.original \/ ~UnchangedInode(reader.before) THEN Unstable
       ELSE outcome' = Parsed(reader.body) /\ UNCHANGED reader

StableNext ==
    \/ AppendRecord \/ RewriteFile \/ ReplaceFile \/ RemoveIt
    \/ Lstat \/ Open \/ ReadChunk \/ After \/ Named

\* A captured body is one that the path really named at some moment, never a
\* mix of two; it ends with a whole record; and a session that is only being
\* written is never given up as invalid, nor as missing once it was seen.
CaptureIsCoherent ==
    /\ outcome = "captured" => reader.body \in versions /\ ~IsTorn(reader.body)
    /\ outcome # "invalid"
    /\ outcome = "missing" => ~reader.observed /\ ~reader.saw
=============================================================================
