------------------------ MODULE ArchiveSourcesProofs ------------------------
(***************************************************************************)
(* What lies before an upload, for any number of sessions, of processes    *)
(* and of records in a file: the handoff from sessions to archive workers  *)
(* (one writer, no descriptor lost, no wake-up missed), a capture that     *)
(* reads a file while it is written, and the journal of the foreground     *)
(* uploader.                                                               *)
(***************************************************************************)
EXTENDS ArchiveHandoff, ArchiveStableRead, ArchiveJournal, SumTheorems,
        FiniteSetTheorems, SequenceTheorems, TLAPS

-----------------------------------------------------------------------------
(* The handoff                                                             *)

\* A producer that has not launched has no worker; the one that commits holds
\* inbox.lock; what is not published is in neither the inbox nor the journal.
ProducersOK ==
    /\ \A p \in Producers : prod[p] # "gone" => pc[p] = "none"
    /\ \A p \in Producers : prod[p] = "committing" => inboxLock = p
    /\ \A d \in Descriptors : prod[d] \in {"idle", "departing"} =>
          d \notin inbox /\ d \notin owed /\ scopes[d] = "absent"

\* The elected worker is the one that holds the lock, it imports only what was
\* published and acknowledges only what the journal has.
WorkersOK ==
    /\ \A w \in Producers : pc[w] \in Elected <=> lock = w
    /\ \A w \in Producers : \A d \in seen[w].todo : prod[d] \in {"published", "gone"}
    /\ \A w \in Producers : pc[w] = "acknowledge" => seen[w].at \in Imported

\* A worker in one of these steps looks at the inbox and at the event once more
\* before it leaves, or has seen that they changed.
Looks(w) == pc[w] \in Elected \cup {"start", "recheck"} \/ (pc[w] = "remaining" /\ seen[w].retry)
\* A worker in one of these steps looks at the journal once more.
LooksAtWork(w) == pc[w] \in Elected \cup {"start", "recheck", "remaining"}

\* Whatever is owed is retained by a worker, or a worker will still look.
DescriptorsCovered ==
    \A d \in owed \cap inbox : \E w \in Producers : Looks(w) \/ d \in seen[w].retained
EventCovered == "config" \in owed /\ control # None => \E w \in Producers : Looks(w)
WorkCovered == "config" \in owed /\ Eligible # {} => \E w \in Producers : LooksAtWork(w)
\* No transition is between its event and its commit while the configuration is owed.
ConfigOK == "config" \in owed => inboxLock = None

HandoffInv ==
    /\ TypeOK /\ ProducersOK /\ WorkersOK /\ NoDescriptorLost /\ ConfigOK
    /\ DescriptorsCovered /\ EventCovered /\ WorkCovered

-----------------------------------------------------------------------------
(* Types.                                                                  *)

WorkerStates == {"none", "start", "top", "control", "ids", "import", "acknowledge",
                 "worked", "ackControl", "decide", "recheck", "remaining", "done"}

\* The journal admits a scope only while it has room.
LEMMA ImportWithinLimit ==
    ASSUME TypeOK, NEW d \in Descriptors, Admits(d), Import(d)
    PROVE  /\ scopes' \in [Descriptors -> {"absent", "ready", "captured", "done"}]
           /\ Cardinality(Active') <= MaxActive
<1>1. scopes' \in [Descriptors -> {"absent", "ready", "captured", "done"}]
  BY DEF TypeOK, Import
<1>2. IsFiniteSet(Active) /\ Active \subseteq Descriptors
  <2>1. IsFiniteSet(Descriptors)
    BY ProducersAssumption, FS_Subset DEF Producers
  <2> QED BY <2>1, FS_Subset DEF Active
<1>3. Cardinality(Active) \in Nat /\ Cardinality(Active) <= MaxActive /\ MaxActive \in Nat
  BY <1>2, FS_CardinalityType, BoundsAssumption DEF TypeOK
<1>4. CASE d \in Imported
  <2>1. Active' = Active
    BY <1>4 DEF Imported, Import, Active, TypeOK
  <2> QED BY <1>1, <1>3, <2>1
<1>5. CASE d \notin Imported
  <2>1. Active' = Active \cup {d} /\ d \notin Active
    BY <1>5 DEF Imported, Import, Active, TypeOK
  <2>2. Cardinality(Active \cup {d}) = Cardinality(Active) + 1
    BY <1>2, <2>1, FS_AddElement
  <2>3. Cardinality(Active) < MaxActive
    BY <1>3, <1>5 DEF Admits, Full
  <2> QED BY <1>1, <1>3, <2>1, <2>2, <2>3
<1> QED BY <1>4, <1>5

\* A scope that is captured or done frees its place.
LEMMA WorkWithinLimit ==
    ASSUME TypeOK, NEW d \in Descriptors, NEW s \in {"captured", "done"},
           scopes' = [scopes EXCEPT ![d] = s]
    PROVE  /\ scopes' \in [Descriptors -> {"absent", "ready", "captured", "done"}]
           /\ Cardinality(Active') <= MaxActive
<1>1. scopes' \in [Descriptors -> {"absent", "ready", "captured", "done"}]
  BY DEF TypeOK
<1>2. IsFiniteSet(Active)
  <2>1. IsFiniteSet(Descriptors)
    BY ProducersAssumption, FS_Subset DEF Producers
  <2> QED BY <2>1, FS_Subset DEF Active
<1>3. Active' \subseteq Active
  BY DEF Active, TypeOK
<1>4. /\ IsFiniteSet(Active') /\ Cardinality(Active') <= Cardinality(Active)
      /\ Cardinality(Active) \in Nat /\ Cardinality(Active') \in Nat
  BY <1>2, <1>3, FS_Subset, FS_CardinalityType
<1> QED BY <1>1, <1>4, BoundsAssumption DEF TypeOK

\* A step that leaves the journal's scopes alone leaves what is active alone.
LEMMA SameScopes ==
    ASSUME TypeOK, UNCHANGED scopes
    PROVE  /\ scopes' \in [Descriptors -> {"absent", "ready", "captured", "done"}]
           /\ Cardinality(Active') <= MaxActive
BY DEF TypeOK, Active

\* The producers' steps keep the types.
LEMMA ProducerTypes ==
    ASSUME HandoffInv, NEW p \in Producers, ProducerStep(p)
    PROVE  TypeOK'
<1> USE DEF TypeOK
<1>0. TypeOK
  BY DEF HandoffInv
<1>1. /\ UNCHANGED <<scopes, bound, lock, seen>>
  BY DEF ProducerStep, Depart, Publish, Announce, Commit, Launch, Abandon, workVars, diskVars
<1>2. /\ scopes' \in [Descriptors -> {"absent", "ready", "captured", "done"}]
      /\ Cardinality(Active') <= MaxActive
  BY <1>0, <1>1, SameScopes
<1>3. CASE Depart(p)
  BY <1>0, <1>1, <1>2, <1>3 DEF Depart
<1>4. CASE Publish(p)
  BY <1>0, <1>1, <1>2, <1>4 DEF Publish
<1>5. CASE Announce(p)
  BY <1>0, <1>1, <1>2, <1>5 DEF Announce
<1>6. CASE Commit(p)
  <2>1. inboxLock = p /\ p \in Admins
    BY <1>6, ProducersAssumption DEF Commit, HandoffInv, ProducersOK
  <2> QED BY <1>0, <1>1, <1>2, <1>6, <2>1 DEF Commit
<1>7. CASE Launch(p)
  BY <1>0, <1>1, <1>2, <1>7 DEF Launch, diskVars
<1>8. CASE Abandon(p)
  BY <1>0, <1>1, <1>2, <1>8, BoundsAssumption DEF Abandon
<1> QED BY <1>3, <1>4, <1>5, <1>6, <1>7, <1>8 DEF ProducerStep

\* A worker that notes something of the right type keeps the notes' types.
LEMMA NotesType ==
    ASSUME TypeOK, NEW w \in Producers, NEW n \in Notes, Note(w, n)
    PROVE  seen' \in [Producers -> Notes]
BY DEF TypeOK, Note

\* The worker's notes have their types after each step.
LEMMA WorkerNotes ==
    ASSUME TypeOK, NEW w \in Producers, WorkerStep(w)
    PROVE  seen' \in [Producers -> Notes]
<1>1. seen[w] \in Notes /\ seen \in [Producers -> Notes]
  BY DEF TypeOK
<1>2. CASE \/ Start(w) \/ Work(w) \/ Continue(w) \/ Release(w) \/ Remaining(w)
  BY <1>1, <1>2 DEF Start, Work, Continue, Release, Remaining
<1>3. CASE ReadGeneration(w)
  <2>1. [Unread EXCEPT !.gen = gen] \in Notes
    BY DEF Unread, Notes, TypeOK
  <2> QED BY <1>3, <2>1, NotesType DEF ReadGeneration
<1>4. CASE ReadControl(w)
  <2>1. [seen[w] EXCEPT !.control = control] \in Notes
    BY <1>1 DEF Notes, TypeOK
  <2> QED BY <1>4, <2>1, NotesType DEF ReadControl
<1>5. CASE ReadIds(w)
  <2>1. [seen[w] EXCEPT !.todo = inbox] \in Notes
    BY <1>1 DEF Notes, TypeOK
  <2> QED BY <1>5, <2>1, NotesType DEF ReadIds
<1>6. ASSUME NEW d \in Descriptors, ImportOne(w, d) PROVE seen' \in [Producers -> Notes]
  <2> DEFINE rest == [seen[w] EXCEPT !.todo = @ \ {d}]
  <2>1. rest \in Notes
    BY <1>1 DEF Notes
  <2> HIDE DEF rest
  <2>2. [rest EXCEPT !.at = d] \in Notes /\ [rest EXCEPT !.retained = @ \cup {d}] \in Notes
    BY <2>1 DEF Notes
  <2>3. Note(w, [rest EXCEPT !.at = d]) \/ Note(w, [rest EXCEPT !.retained = @ \cup {d}])
    BY <1>6 DEF ImportOne, rest
  <2> QED BY <2>2, <2>3, NotesType
<1>7. CASE Acknowledge(w)
  <2>1. [seen[w] EXCEPT !.at = None] \in Notes
    BY <1>1 DEF Notes
  <2> QED BY <1>7, <2>1, NotesType DEF Acknowledge
<1>8. CASE AcknowledgeBusy(w)
  <2>1. [seen[w] EXCEPT !.at = None, !.retry = TRUE] \in Notes
    BY <1>1 DEF Notes
  <2> QED BY <1>8, <2>1, NotesType DEF AcknowledgeBusy
<1>9. CASE InspectStep(w)
  <2>1. [seen[w] EXCEPT !.eligible = (Eligible # {})] \in Notes
    BY <1>1 DEF Notes
  <2> QED BY <1>9, <2>1, NotesType DEF InspectStep
<1>10. CASE AcknowledgeControl(w)
  <2>1. [seen[w] EXCEPT !.retry = TRUE] \in Notes
    BY <1>1 DEF Notes
  <2> QED BY <1>1, <1>10, <2>1, NotesType DEF AcknowledgeControl
<1>11. CASE Recheck(w)
  <2>1. Changed(w) \in BOOLEAN
    BY DEF Changed
  <2>2. [seen[w] EXCEPT !.retry = Changed(w)] \in Notes
    BY <1>1, <2>1 DEF Notes
  <2> QED BY <1>11, <2>2, NotesType DEF Recheck
<1> QED BY <1>2, <1>3, <1>4, <1>5, <1>6, <1>7, <1>8, <1>9, <1>10, <1>11 DEF WorkerStep

\* The workers' steps keep the types.
LEMMA WorkerTypes ==
    ASSUME TypeOK, NEW w \in Producers, WorkerStep(w)
    PROVE  TypeOK'
<1>1. seen' \in [Producers -> Notes]
  BY WorkerNotes
<1>2. pc' \in [Producers -> WorkerStates]
  <2>1. pc \in [Producers -> WorkerStates]
    BY DEF TypeOK, WorkerStates
  <2>2. pc' = pc \/ \E l \in WorkerStates : Goto(w, l)
    BY DEF WorkerStep, Start, ReadGeneration, ReadControl, ReadIds, ImportOne, Acknowledge, AcknowledgeBusy,
           Work, InspectStep, AcknowledgeControl, Continue, Release, Released, AfterRelease, Recheck,
           Remaining, WorkerStates
  <2> QED BY <2>1, <2>2 DEF Goto
<1>3. /\ UNCHANGED <<inboxLock, gen, pinned, prod, owed, crashes>>
      /\ inbox' \subseteq inbox /\ (control' = control \/ control' = None)
      /\ lock' \in {lock, None, w}
  BY DEF WorkerStep, Start, ReadGeneration, ReadControl, ReadIds, ImportOne, Acknowledge, AcknowledgeBusy,
         Work, InspectStep, AcknowledgeControl, Continue, Release, Recheck, Remaining, diskVars
<1>4. /\ scopes' \in [Descriptors -> {"absent", "ready", "captured", "done"}]
      /\ Cardinality(Active') <= MaxActive
  <2>1. \/ UNCHANGED scopes
        \/ \E d \in Descriptors : Admits(d) /\ Import(d)
        \/ \E d \in Descriptors, s \in {"captured", "done"} : scopes' = [scopes EXCEPT ![d] = s]
    BY DEF WorkerStep, Start, ReadGeneration, ReadControl, ReadIds, ImportOne, Acknowledge, AcknowledgeBusy,
           Work, InspectStep, AcknowledgeControl, Continue, Release, Recheck, Remaining, workVars,
           Eligible, Unfinished
  <2> QED BY <2>1, SameScopes, ImportWithinLimit, WorkWithinLimit
<1>5. bound' \subseteq Descriptors
  BY DEF WorkerStep, Start, ReadGeneration, ReadControl, ReadIds, ImportOne, Acknowledge, AcknowledgeBusy,
         Work, InspectStep, AcknowledgeControl, Continue, Release, Recheck, Remaining, workVars,
         Eligible, Unfinished, TypeOK
<1> QED BY <1>1, <1>2, <1>3, <1>4, <1>5 DEF TypeOK, WorkerStates

-----------------------------------------------------------------------------
(* The producers' steps.                                                   *)

\* Reading the connection before the publication changes no work: the scope is
\* not in the journal yet.
LEMMA DepartKeepsInv ==
    ASSUME HandoffInv, NEW p \in Producers, Depart(p)
    PROVE  HandoffInv'
<1>1. TypeOK'
  BY ProducerTypes DEF ProducerStep
<1>2. /\ p \in Descriptors /\ prod[p] = "idle" /\ prod' = [prod EXCEPT ![p] = "departing"]
      /\ pinned' = [pinned EXCEPT ![p] = gen]
      /\ UNCHANGED <<inbox, control, inboxLock, gen, scopes, bound, lock, pc, seen, owed, crashes>>
  BY DEF Depart, workVars
<1>3. Eligible' = Eligible /\ Imported' = Imported
  BY <1>2 DEF Eligible, Unfinished, Imported, HandoffInv, ProducersOK, TypeOK
<1>4. ProducersOK'
  BY <1>2 DEF HandoffInv, ProducersOK, TypeOK
<1>5. WorkersOK' /\ NoDescriptorLost' /\ ConfigOK'
  BY <1>2, <1>3 DEF HandoffInv, WorkersOK, NoDescriptorLost, ConfigOK, TypeOK, Notes
<1>6. DescriptorsCovered' /\ EventCovered' /\ WorkCovered'
  BY <1>2, <1>3 DEF HandoffInv, DescriptorsCovered, EventCovered, WorkCovered, Looks, LooksAtWork
<1> QED BY <1>1, <1>4, <1>5, <1>6 DEF HandoffInv

\* A descriptor that is published was owed by nobody.
LEMMA PublishKeepsInv ==
    ASSUME HandoffInv, NEW p \in Producers, Publish(p)
    PROVE  HandoffInv'
<1>1. TypeOK'
  BY ProducerTypes DEF ProducerStep
<1>2. /\ p \in Descriptors /\ prod[p] = "departing"
      /\ \/ inbox' = inbox \cup {p} /\ prod' = [prod EXCEPT ![p] = "published"]
         \/ inbox' = inbox /\ prod' = [prod EXCEPT ![p] = "gone"]
      /\ UNCHANGED <<control, inboxLock, gen, pinned, scopes, bound, lock, pc, seen, owed, crashes>>
  BY DEF Publish, workVars
<1>3. Eligible' = Eligible /\ Imported' = Imported /\ p \notin owed
  BY <1>2 DEF Eligible, Unfinished, Imported, HandoffInv, ProducersOK
<1>4. /\ \A q \in Producers : q # p => prod'[q] = prod[q]
      /\ prod'[p] \in {"published", "gone"} /\ pc[p] = "none"
      /\ inbox \subseteq inbox' /\ inbox' \subseteq inbox \cup {p} /\ (prod'[p] = "published" => p \in inbox')
  BY <1>2 DEF HandoffInv, ProducersOK, TypeOK
<1>5. Descriptors \subseteq Producers
  BY DEF Producers
<1>6. ProducersOK'
  BY <1>2, <1>4, <1>5 DEF HandoffInv, ProducersOK
<1>7. WorkersOK' /\ ConfigOK'
  <2>1. \A w \in Producers : seen[w].todo \subseteq Descriptors
    BY DEF HandoffInv, TypeOK, Notes
  <2> QED BY <1>2, <1>3, <1>4, <1>5, <2>1 DEF HandoffInv, WorkersOK, ConfigOK
<1>8. NoDescriptorLost'
  BY <1>2, <1>3, <1>4, <1>5 DEF HandoffInv, NoDescriptorLost
<1>9. DescriptorsCovered' /\ EventCovered' /\ WorkCovered'
  BY <1>2, <1>3 DEF HandoffInv, DescriptorsCovered, EventCovered, WorkCovered, Looks, LooksAtWork
<1> QED BY <1>1, <1>6, <1>7, <1>8, <1>9 DEF HandoffInv

\* An event takes back what is owed of the configuration: it has its own worker.
LEMMA AnnounceKeepsInv ==
    ASSUME HandoffInv, NEW p \in Producers, Announce(p)
    PROVE  HandoffInv'
<1>1. TypeOK'
  BY ProducerTypes DEF ProducerStep
<1>2. /\ p \in Admins /\ p \notin Descriptors /\ prod[p] = "idle" /\ inboxLock = None
      /\ prod' = [prod EXCEPT ![p] = "committing"]
      /\ control' = p /\ inboxLock' = p /\ owed' = owed \ {"config"}
      /\ UNCHANGED <<inbox, gen, pinned, scopes, bound, lock, pc, seen, crashes>>
  BY ProducersAssumption DEF Announce, workVars, InboxFree
<1>3. Eligible' = Eligible /\ Imported' = Imported /\ \A q \in Producers : prod[q] # "committing"
  BY <1>2, ProducersAssumption DEF Eligible, Unfinished, Imported, HandoffInv, ProducersOK
<1>4. ProducersOK'
  BY <1>2, <1>3 DEF HandoffInv, ProducersOK, TypeOK
<1>5. WorkersOK' /\ ConfigOK'
  BY <1>2, <1>3 DEF HandoffInv, WorkersOK, ConfigOK, TypeOK, Notes
<1>6. NoDescriptorLost'
  BY <1>2, <1>3 DEF HandoffInv, NoDescriptorLost, TypeOK
<1>7. DescriptorsCovered' /\ EventCovered' /\ WorkCovered'
  BY <1>2, <1>3 DEF HandoffInv, DescriptorsCovered, EventCovered, WorkCovered, Looks, LooksAtWork
<1> QED BY <1>1, <1>4, <1>5, <1>6, <1>7 DEF HandoffInv

\* The commit happens under inbox.lock, so the configuration is not owed.
LEMMA CommitKeepsInv ==
    ASSUME HandoffInv, NEW p \in Producers, Commit(p)
    PROVE  HandoffInv'
<1>1. TypeOK'
  BY ProducerTypes DEF ProducerStep
<1>2. /\ prod[p] = "committing" /\ inboxLock = p /\ inboxLock' = None /\ p \in Admins /\ p \notin Descriptors
      /\ prod' = [prod EXCEPT ![p] = "published"]
      /\ UNCHANGED <<inbox, control, pinned, scopes, bound, lock, pc, seen, owed, crashes>>
  BY ProducersAssumption DEF Commit, workVars, HandoffInv, ProducersOK, TypeOK
<1>3. Imported' = Imported /\ "config" \notin owed
  BY <1>2, ProducersAssumption DEF Imported, HandoffInv, ConfigOK
<1>4. \A q \in Producers : q # p => prod[q] # "committing"
  BY <1>2 DEF HandoffInv, ProducersOK
<1>5. ProducersOK'
  BY <1>2, <1>4 DEF HandoffInv, ProducersOK, TypeOK
<1>6. WorkersOK' /\ ConfigOK'
  BY <1>2, <1>3 DEF HandoffInv, WorkersOK, ConfigOK, TypeOK, Notes
<1>7. NoDescriptorLost'
  BY <1>2, <1>3 DEF HandoffInv, NoDescriptorLost, TypeOK
<1>8. DescriptorsCovered' /\ EventCovered' /\ WorkCovered'
  BY <1>2, <1>3 DEF HandoffInv, DescriptorsCovered, EventCovered, WorkCovered, Looks
<1> QED BY <1>1, <1>5, <1>6, <1>7, <1>8 DEF HandoffInv

\* The worker that is launched looks at everything.
LEMMA LaunchKeepsInv ==
    ASSUME HandoffInv, NEW p \in Producers, Launch(p)
    PROVE  HandoffInv'
<1>1. TypeOK'
  BY ProducerTypes DEF ProducerStep
<1>2. /\ prod[p] = "published" /\ prod' = [prod EXCEPT ![p] = "gone"] /\ pc' = [pc EXCEPT ![p] = "start"]
      /\ owed' = owed \cup inbox \cup {x \in {"config"} : inboxLock = None}
      /\ UNCHANGED <<inbox, control, inboxLock, gen, pinned, scopes, bound, lock, seen, crashes>>
  BY DEF Launch, workVars, diskVars
<1>3. Imported' = Imported /\ pc[p] = "none" /\ pc'[p] = "start"
  BY <1>2 DEF Imported, HandoffInv, ProducersOK, TypeOK
<1>4. ProducersOK'
  <2>1. "config" \notin Descriptors
    BY ProducersAssumption DEF Producers
  <2> QED BY <1>2, <2>1 DEF HandoffInv, ProducersOK, TypeOK
<1>5. WorkersOK'
  BY <1>2, <1>3 DEF HandoffInv, WorkersOK, TypeOK, Notes, Elected
<1>6. NoDescriptorLost' /\ ConfigOK'
  <2>1. \A q \in Producers : q # p => prod'[q] = prod[q] /\ pc'[q] = pc[q]
    BY <1>2 DEF HandoffInv, TypeOK
  <2>2. prod'[p] = "gone" /\ Descriptors \subseteq Producers
    BY <1>2 DEF HandoffInv, TypeOK, Producers
  <2>3. NoDescriptorLost'
    BY <1>2, <1>3, <2>1, <2>2 DEF HandoffInv, NoDescriptorLost
  <2>4. ConfigOK'
    BY <1>2, ProducersAssumption DEF HandoffInv, ConfigOK, TypeOK, Producers
  <2> QED BY <2>3, <2>4
<1>7. Looks(p)' /\ LooksAtWork(p)'
  BY <1>3 DEF Looks, LooksAtWork
<1>8. DescriptorsCovered' /\ EventCovered' /\ WorkCovered'
  BY <1>7 DEF DescriptorsCovered, EventCovered, WorkCovered
<1> QED BY <1>1, <1>4, <1>5, <1>6, <1>8 DEF HandoffInv

\* A producer that dies releases its lock and owes nothing.
LEMMA AbandonKeepsInv ==
    ASSUME HandoffInv, NEW p \in Producers, Abandon(p)
    PROVE  HandoffInv'
<1>1. TypeOK'
  BY ProducerTypes DEF ProducerStep
<1>2. /\ prod[p] \in {"departing", "committing", "published"} /\ prod' = [prod EXCEPT ![p] = "gone"]
      /\ inboxLock' = IF inboxLock = p THEN None ELSE inboxLock
      /\ UNCHANGED <<inbox, control, gen, pinned, scopes, bound, lock, pc, seen, owed>>
  BY DEF Abandon, workVars
<1>3. Eligible' = Eligible /\ Imported' = Imported
  BY <1>2 DEF Eligible, Unfinished, Imported
<1>4. ProducersOK'
  BY <1>2 DEF HandoffInv, ProducersOK, TypeOK
<1>5. WorkersOK' /\ ConfigOK'
  BY <1>2, <1>3 DEF HandoffInv, WorkersOK, ConfigOK, TypeOK, Notes
<1>6. NoDescriptorLost'
  BY <1>2, <1>3 DEF HandoffInv, NoDescriptorLost, TypeOK
<1>7. DescriptorsCovered' /\ EventCovered' /\ WorkCovered'
  BY <1>2, <1>3 DEF HandoffInv, DescriptorsCovered, EventCovered, WorkCovered, Looks, LooksAtWork
<1> QED BY <1>1, <1>4, <1>5, <1>6, <1>7 DEF HandoffInv

-----------------------------------------------------------------------------
(* The workers' steps.                                                     *)

\* A step of the elected worker that keeps the lock keeps the invariant: it will
\* look once more at all that is owed.  It takes from the inbox what the journal
\* has, and adds to the journal what it found in the inbox.
LEMMA ElectedStep ==
    ASSUME HandoffInv, TypeOK', NEW w \in Producers, pc[w] \in Elected,
           NEW l \in Elected, pc' = [pc EXCEPT ![w] = l],
           UNCHANGED <<prod, owed, inboxLock, lock>>,
           inbox' \subseteq inbox, inbox \ inbox' \subseteq Imported,
           \A v \in Producers : v # w => seen'[v] = seen[v],
           seen'[w].todo \subseteq seen[w].todo \cup inbox,
           l = "acknowledge" => seen'[w].at \in Imported',
           Imported \subseteq Imported', Imported' \ Imported \subseteq seen[w].todo
    PROVE  HandoffInv'
<1>1. /\ pc'[w] = l /\ \A v \in Producers : v # w => pc'[v] = pc[v]
      /\ Descriptors \subseteq Producers /\ inbox \subseteq Descriptors /\ pc[w] # "none"
  BY DEF HandoffInv, TypeOK, Producers, Elected
<1>2. \A d \in Descriptors : d \in Imported <=> scopes[d] # "absent"
  BY DEF Imported
<1>3. \A d \in Descriptors : d \in Imported' <=> scopes'[d] # "absent"
  BY DEF Imported
<1>4. ProducersOK'
  <2>1. prod[w] = "gone"
    BY <1>1 DEF HandoffInv, ProducersOK
  <2>2. \A d \in seen[w].todo : prod[d] \in {"published", "gone"}
    BY DEF HandoffInv, WorkersOK
  <2>3. \A p \in Producers : prod'[p] # "gone" => pc'[p] = "none"
    BY <1>1, <2>1 DEF HandoffInv, ProducersOK
  <2>4. \A d \in Descriptors : prod'[d] \in {"idle", "departing"} =>
             d \notin inbox' /\ d \notin owed' /\ scopes'[d] = "absent"
    <3> SUFFICES ASSUME NEW d \in Descriptors, prod[d] \in {"idle", "departing"}
                 PROVE  d \notin inbox' /\ d \notin owed' /\ scopes'[d] = "absent"
      OBVIOUS
    <3>1. d \notin inbox /\ d \notin owed /\ scopes[d] = "absent"
      BY DEF HandoffInv, ProducersOK
    <3>2. d \notin seen[w].todo
      BY <2>2
    <3> QED BY <3>1, <3>2, <1>2, <1>3
  <2> QED BY <2>3, <2>4 DEF HandoffInv, ProducersOK
<1>5. WorkersOK'
  <2>1. \A v \in Producers : pc'[v] \in Elected <=> lock' = v
    BY <1>1 DEF HandoffInv, WorkersOK
  <2>2. \A v \in Producers : \A d \in seen'[v].todo : prod'[d] \in {"published", "gone"}
    <3>1. \A d \in inbox : prod[d] \in {"published", "gone"}
      <4> TAKE d \in inbox
      <4>1. d \in Descriptors /\ d \in Producers
        BY <1>1
      <4>2. prod[d] \notin {"idle", "departing"}
        BY <4>1 DEF HandoffInv, ProducersOK
      <4>3. prod[d] # "committing"
        BY <4>1, ProducersAssumption DEF HandoffInv, ProducersOK, TypeOK
      <4> QED BY <4>1, <4>2, <4>3 DEF HandoffInv, TypeOK
    <3> QED BY <3>1 DEF HandoffInv, WorkersOK
  <2>3. \A v \in Producers : pc'[v] = "acknowledge" => seen'[v].at \in Imported'
    BY <1>1 DEF HandoffInv, WorkersOK
  <2> QED BY <2>1, <2>2, <2>3 DEF WorkersOK
<1>6. NoDescriptorLost'
  BY <1>1 DEF HandoffInv, NoDescriptorLost
<1>7. ConfigOK'
  BY DEF HandoffInv, ConfigOK
<1>8. Looks(w)' /\ LooksAtWork(w)'
  BY <1>1 DEF Looks, LooksAtWork
<1>9. DescriptorsCovered' /\ EventCovered' /\ WorkCovered'
  BY <1>8 DEF DescriptorsCovered, EventCovered, WorkCovered
<1> QED BY <1>4, <1>5, <1>6, <1>7, <1>9 DEF HandoffInv

\* The steps of the elected worker that only note what they read.
LEMMA ReadingKeepsInv ==
    ASSUME HandoffInv, NEW w \in Producers,
           \/ ReadGeneration(w) \/ ReadControl(w) \/ ReadIds(w) \/ AcknowledgeBusy(w)
           \/ InspectStep(w) \/ Continue(w)
    PROVE  HandoffInv'
<1>1. TypeOK' /\ TypeOK
  BY WorkerTypes DEF HandoffInv, WorkerStep
<1>2. /\ pc[w] \in Elected /\ UNCHANGED <<inbox, scopes, prod, owed, inboxLock, lock>>
  BY DEF ReadGeneration, ReadControl, ReadIds, AcknowledgeBusy, InspectStep, Continue, diskVars, workVars,
         Elected
<1>3. Imported' = Imported
  BY <1>2 DEF Imported
<1>4. \E l \in Elected \ {"acknowledge"} : pc' = [pc EXCEPT ![w] = l]
  BY DEF ReadGeneration, ReadControl, ReadIds, AcknowledgeBusy, InspectStep, Continue, Goto, Elected
<1>5. /\ \A v \in Producers : v # w => seen'[v] = seen[v]
      /\ seen'[w].todo \subseteq seen[w].todo \cup inbox
  <2>1. seen \in [Producers -> Notes] /\ seen[w] \in Notes
    BY <1>1 DEF TypeOK
  <2>2. CASE ReadGeneration(w)
    BY <2>1, <2>2 DEF ReadGeneration, Note, Unread
  <2>3. CASE ReadControl(w)
    BY <2>1, <2>3 DEF ReadControl, Note, Notes
  <2>4. CASE ReadIds(w)
    BY <2>1, <2>4 DEF ReadIds, Note, Notes
  <2>5. CASE AcknowledgeBusy(w)
    BY <2>1, <2>5 DEF AcknowledgeBusy, Note, Notes
  <2>6. CASE InspectStep(w)
    BY <2>1, <2>6 DEF InspectStep, Note, Notes
  <2>7. CASE Continue(w)
    BY <2>1, <2>7 DEF Continue
  <2> QED BY <2>2, <2>3, <2>4, <2>5, <2>6, <2>7
<1> QED BY <1>1, <1>2, <1>3, <1>4, <1>5, ElectedStep

\* An import adds what was in the inbox; a descriptor that is refused is retained.
LEMMA ImportKeepsInv ==
    ASSUME HandoffInv, NEW w \in Producers, NEW d \in Descriptors, ImportOne(w, d)
    PROVE  HandoffInv'
<1>1. TypeOK' /\ TypeOK
  BY WorkerTypes DEF HandoffInv, WorkerStep
<1>2. /\ pc[w] = "import" /\ pc[w] \in Elected /\ d \in seen[w].todo
      /\ UNCHANGED <<inbox, prod, owed, inboxLock, lock>>
  BY DEF ImportOne, diskVars, Elected
<1>3. seen \in [Producers -> Notes] /\ seen[w] \in Notes
  BY <1>1 DEF TypeOK
<1> DEFINE rest == [seen[w] EXCEPT !.todo = @ \ {d}]
<1>4. rest \in Notes /\ rest.todo = seen[w].todo \ {d}
  BY <1>3 DEF Notes
<1>5. CASE /\ Import(d) /\ Note(w, [rest EXCEPT !.at = d]) /\ Goto(w, "acknowledge")
  <2> HIDE DEF rest
  <2>1. /\ seen'[w].at = d /\ seen'[w].todo = seen[w].todo \ {d}
        /\ \A v \in Producers : v # w => seen'[v] = seen[v]
    BY <1>3, <1>4, <1>5 DEF Note, Notes
  <2>2. Imported' = Imported \cup {d}
    BY <1>1, <1>5 DEF Imported, Import, TypeOK
  <2>3. pc' = [pc EXCEPT ![w] = "acknowledge"] /\ "acknowledge" \in Elected
    BY <1>5 DEF Goto, Elected
  <2> QED BY <1>1, <1>2, <2>1, <2>2, <2>3, ElectedStep
<1>6. CASE /\ Note(w, [rest EXCEPT !.retained = @ \cup {d}]) /\ UNCHANGED <<scopes, pc>>
  <2> HIDE DEF rest
  <2>1. /\ seen'[w].todo = seen[w].todo \ {d}
        /\ \A v \in Producers : v # w => seen'[v] = seen[v]
    BY <1>3, <1>4, <1>6 DEF Note, Notes
  <2>2. Imported' = Imported
    BY <1>6 DEF Imported
  <2>3. pc' = [pc EXCEPT ![w] = "import"] /\ "import" \in Elected
    BY <1>1, <1>2, <1>6 DEF Elected, TypeOK
  <2> QED BY <1>1, <1>2, <2>1, <2>2, <2>3, ElectedStep
<1> QED BY <1>5, <1>6 DEF ImportOne

\* What is acknowledged is in the journal.
LEMMA AcknowledgeKeepsInv ==
    ASSUME HandoffInv, NEW w \in Producers, Acknowledge(w)
    PROVE  HandoffInv'
<1>1. TypeOK' /\ TypeOK
  BY WorkerTypes DEF HandoffInv, WorkerStep
<1>2. /\ pc[w] = "acknowledge" /\ pc[w] \in Elected /\ inbox' = inbox \ {seen[w].at}
      /\ UNCHANGED <<scopes, prod, owed, inboxLock, lock>>
      /\ pc' = [pc EXCEPT ![w] = "import"] /\ "import" \in Elected
  BY DEF Acknowledge, workVars, Elected, Goto
<1>3. seen[w].at \in Imported
  BY <1>2 DEF HandoffInv, WorkersOK
<1>4. /\ seen'[w].todo = seen[w].todo /\ \A v \in Producers : v # w => seen'[v] = seen[v]
  BY <1>1 DEF Acknowledge, Note, Notes, TypeOK
<1>5. Imported' = Imported
  BY <1>2 DEF Imported
<1> QED BY <1>1, <1>2, <1>3, <1>4, <1>5, ElectedStep

\* Work is done on what the journal has.
LEMMA WorkKeepsInv ==
    ASSUME HandoffInv, NEW w \in Producers, Work(w)
    PROVE  HandoffInv'
<1>1. TypeOK' /\ TypeOK
  BY WorkerTypes DEF HandoffInv, WorkerStep
<1>2. /\ pc[w] \in Elected /\ pc' = [pc EXCEPT ![w] = "worked"] /\ "worked" \in Elected
      /\ UNCHANGED <<inbox, prod, owed, inboxLock, lock, seen>>
  BY DEF Work, diskVars, Elected, Goto
<1>3. Imported' = Imported
  <2>1. CASE UNCHANGED scopes
    BY <2>1 DEF Imported
  <2>2. CASE \E d \in Eligible, s \in {"captured", "done"} : scopes' = [scopes EXCEPT ![d] = s]
    BY <2>2, <1>1 DEF Imported, Eligible, Unfinished, TypeOK
  <2> QED BY <2>1, <2>2 DEF Work, workVars
<1> QED BY <1>1, <1>2, <1>3, ElectedStep

\* The event that was read is removed, no other.
LEMMA AcknowledgeControlKeepsInv ==
    ASSUME HandoffInv, NEW w \in Producers, AcknowledgeControl(w)
    PROVE  HandoffInv'
<1>1. TypeOK' /\ TypeOK
  BY WorkerTypes DEF HandoffInv, WorkerStep
<1>2. /\ pc[w] \in Elected /\ pc' = [pc EXCEPT ![w] = "decide"] /\ "decide" \in Elected
      /\ UNCHANGED <<inbox, scopes, prod, owed, inboxLock, lock>>
  BY DEF AcknowledgeControl, workVars, Elected, Goto
<1>3. /\ seen'[w].todo = seen[w].todo /\ \A v \in Producers : v # w => seen'[v] = seen[v]
  BY <1>1 DEF AcknowledgeControl, Note, Notes, TypeOK
<1>4. Imported' = Imported
  BY <1>2 DEF Imported
<1> QED BY <1>1, <1>2, <1>3, <1>4, ElectedStep

\* A worker that moves between steps outside the election keeps what does not
\* depend on who still looks.
LEMMA MoveKeepsRest ==
    ASSUME HandoffInv, NEW w \in Producers, pc[w] # "none",
           NEW l \in WorkerStates \ {"none", "acknowledge"}, pc' = [pc EXCEPT ![w] = l],
           \A v \in Producers : pc'[v] \in Elected <=> lock' = v,
           UNCHANGED <<inbox, inboxLock, scopes, prod>>, owed' = owed \/ owed' = {},
           \A v \in Producers : seen'[v].todo = seen[v].todo /\ seen'[v].at = seen[v].at
    PROVE  ProducersOK' /\ WorkersOK' /\ NoDescriptorLost' /\ ConfigOK'
<1>1. /\ pc'[w] = l /\ \A v \in Producers : v # w => pc'[v] = pc[v]
      /\ Imported' = Imported /\ prod[w] = "gone"
  BY DEF HandoffInv, TypeOK, Imported, ProducersOK
<1>2. ProducersOK'
  BY <1>1 DEF HandoffInv, ProducersOK
<1>3. WorkersOK'
  BY <1>1 DEF HandoffInv, WorkersOK
<1>4. NoDescriptorLost'
  <2>1. Descriptors \subseteq Producers
    BY DEF Producers
  <2> QED BY <1>1, <2>1 DEF HandoffInv, NoDescriptorLost
<1>5. ConfigOK'
  BY DEF HandoffInv, ConfigOK
<1> QED BY <1>2, <1>3, <1>4, <1>5

\* The winner of the election looks at everything; a loser leaves it to the
\* holder of the lock, who is elected.
LEMMA StartKeepsInv ==
    ASSUME HandoffInv, NEW w \in Producers, Start(w)
    PROVE  HandoffInv'
<1>1. TypeOK' /\ TypeOK
  BY WorkerTypes DEF HandoffInv, WorkerStep
<1>2. /\ pc[w] = "start" /\ UNCHANGED <<inbox, inboxLock, control, gen, pinned, scopes, bound, prod, seen, owed>>
  BY DEF Start, diskVars, workVars
<1>3. \A v \in Producers : pc[v] \in Elected <=> lock = v
  BY DEF HandoffInv, WorkersOK
<1>4. Elected \subseteq WorkerStates /\ "start" \notin Elected /\ "done" \notin Elected /\ "top" \in Elected
      /\ "done" \in WorkerStates \ {"none", "acknowledge"} /\ "top" \in WorkerStates \ {"none", "acknowledge"}
  BY DEF Elected, WorkerStates
<1>5. CASE Wins /\ lock' = w /\ Goto(w, "top")
  <2>1. pc' = [pc EXCEPT ![w] = "top"] /\ pc'[w] = "top" /\ \A v \in Producers : v # w => pc'[v] = pc[v]
    BY <1>1, <1>5 DEF Goto, TypeOK
  <2>2. \A v \in Producers : pc'[v] \in Elected <=> lock' = v
    BY <1>3, <1>4, <1>5, <2>1, ProducersAssumption DEF Wins
  <2>3. ProducersOK' /\ WorkersOK' /\ NoDescriptorLost' /\ ConfigOK'
    BY <1>2, <1>4, <2>1, <2>2, MoveKeepsRest
  <2>4. Looks(w)' /\ LooksAtWork(w)'
    BY <1>4, <2>1 DEF Looks, LooksAtWork
  <2>5. DescriptorsCovered' /\ EventCovered' /\ WorkCovered'
    BY <2>4 DEF DescriptorsCovered, EventCovered, WorkCovered
  <2> QED BY <1>1, <2>3, <2>5 DEF HandoffInv
<1>6. CASE ~Wins /\ lock' = lock /\ Goto(w, "done")
  <2>1. pc' = [pc EXCEPT ![w] = "done"] /\ pc'[w] = "done" /\ \A v \in Producers : v # w => pc'[v] = pc[v]
    BY <1>1, <1>6 DEF Goto, TypeOK
  <2>2. \A v \in Producers : pc'[v] \in Elected <=> lock' = v
    BY <1>2, <1>3, <1>4, <1>6, <2>1
  <2>3. ProducersOK' /\ WorkersOK' /\ NoDescriptorLost' /\ ConfigOK'
    BY <1>2, <1>4, <2>1, <2>2, MoveKeepsRest
  <2>4. lock \in Producers
    BY <1>1, <1>6 DEF Wins, TypeOK
  <2>5. Looks(lock)' /\ LooksAtWork(lock)'
    BY <1>6, <2>2, <2>4 DEF Looks, LooksAtWork
  <2>6. DescriptorsCovered' /\ EventCovered' /\ WorkCovered'
    <3>1. \E v \in Producers : Looks(v)' /\ LooksAtWork(v)'
      BY <2>4, <2>5, <1>6
    <3> QED BY <3>1 DEF DescriptorsCovered, EventCovered, WorkCovered
  <2> QED BY <1>1, <2>3, <2>6 DEF HandoffInv
<1> QED BY <1>5, <1>6 DEF Start

\* The lock is released before the last look.
LEMMA ReleaseKeepsInv ==
    ASSUME HandoffInv, NEW w \in Producers, Release(w)
    PROVE  HandoffInv'
<1>1. TypeOK' /\ TypeOK
  BY WorkerTypes DEF HandoffInv, WorkerStep
<1>2. /\ pc[w] = "decide" /\ pc' = [pc EXCEPT ![w] = "recheck"] /\ lock' = None
      /\ UNCHANGED <<inbox, inboxLock, control, gen, pinned, scopes, bound, prod, seen, owed>>
  BY DEF Release, Released, AfterRelease, Goto, diskVars, workVars
<1>3. pc'[w] = "recheck" /\ \A v \in Producers : v # w => pc'[v] = pc[v]
  BY <1>1, <1>2 DEF TypeOK
<1>4. \A v \in Producers : pc'[v] \in Elected <=> lock' = v
  <2>1. \A v \in Producers : v # w => pc[v] \notin Elected
    BY <1>2 DEF HandoffInv, WorkersOK, Elected
  <2>2. \A v \in Producers : lock' # v
    BY <1>2, ProducersAssumption
  <2> QED BY <1>3, <2>1, <2>2 DEF Elected
<1>5. ProducersOK' /\ WorkersOK' /\ NoDescriptorLost' /\ ConfigOK'
  BY <1>2, <1>4, MoveKeepsRest DEF WorkerStates
<1>6. Looks(w)' /\ LooksAtWork(w)'
  BY <1>3 DEF Looks, LooksAtWork
<1>7. DescriptorsCovered' /\ EventCovered' /\ WorkCovered'
  BY <1>6 DEF DescriptorsCovered, EventCovered, WorkCovered
<1> QED BY <1>1, <1>5, <1>7 DEF HandoffInv

\* The last look finds the inbox as it was retained, or goes round again.
LEMMA RecheckKeepsInv ==
    ASSUME HandoffInv, NEW w \in Producers, Recheck(w)
    PROVE  HandoffInv'
<1>1. TypeOK' /\ TypeOK
  BY WorkerTypes DEF HandoffInv, WorkerStep
<1>2. /\ pc[w] = "recheck" /\ pc' = [pc EXCEPT ![w] = "remaining"]
      /\ UNCHANGED <<inbox, inboxLock, control, gen, pinned, scopes, bound, prod, lock, owed>>
      /\ seen' = [seen EXCEPT ![w] = [seen[w] EXCEPT !.retry = Changed(w)]]
  BY DEF Recheck, Goto, Note, diskVars, workVars
<1>3. pc'[w] = "remaining" /\ \A v \in Producers : v # w => pc'[v] = pc[v]
  BY <1>1, <1>2 DEF TypeOK
<1>4. /\ \A v \in Producers : v # w => seen'[v] = seen[v]
      /\ seen'[w].todo = seen[w].todo /\ seen'[w].at = seen[w].at /\ seen'[w].retained = seen[w].retained
      /\ seen'[w].retry = Changed(w)
  BY <1>1, <1>2 DEF TypeOK, Notes
<1>5. \A v \in Producers : pc'[v] \in Elected <=> lock' = v
  BY <1>2, <1>3 DEF HandoffInv, WorkersOK, Elected
<1>6. ProducersOK' /\ WorkersOK' /\ NoDescriptorLost' /\ ConfigOK'
  <2>1. \A v \in Producers : seen'[v].todo = seen[v].todo /\ seen'[v].at = seen[v].at
    BY <1>4
  <2> QED BY <1>2, <1>5, <2>1, MoveKeepsRest DEF WorkerStates
<1>7. LooksAtWork(w)' /\ (Changed(w) => Looks(w)')
  BY <1>3, <1>4 DEF Looks, LooksAtWork
<1>8. DescriptorsCovered' /\ EventCovered'
  <2>1. CASE Changed(w)
    BY <1>7, <2>1 DEF DescriptorsCovered, EventCovered
  <2>2. CASE ~Changed(w)
    <3>1. inbox = seen[w].retained /\ control = None
      BY <2>2 DEF Changed
    <3>2. \A d \in inbox' : d \in seen'[w].retained
      BY <3>1, <1>2, <1>4
    <3>3. control' = None
      BY <3>1, <1>2
    <3> QED BY <3>2, <3>3 DEF DescriptorsCovered, EventCovered
  <2> QED BY <2>1, <2>2
<1>9. WorkCovered'
  BY <1>7 DEF WorkCovered
<1> QED BY <1>1, <1>6, <1>8, <1>9 DEF HandoffInv

\* A worker leaves only when nothing changed and no work of the connection is left.
LEMMA RemainingKeepsInv ==
    ASSUME HandoffInv, NEW w \in Producers, Remaining(w)
    PROVE  HandoffInv'
<1>1. TypeOK' /\ TypeOK
  BY WorkerTypes DEF HandoffInv, WorkerStep
<1>2. /\ pc[w] = "remaining"
      /\ UNCHANGED <<inbox, inboxLock, control, gen, pinned, scopes, bound, prod, lock, seen, owed>>
      /\ pc' = [pc EXCEPT ![w] = IF seen[w].retry \/ Eligible # {} THEN "start" ELSE "done"]
  BY DEF Remaining, Goto, diskVars, workVars
<1>3. PICK l \in {"start", "done"} :
        /\ pc' = [pc EXCEPT ![w] = l] /\ (l = "done" => ~seen[w].retry /\ Eligible = {})
  BY <1>2
<1>4. pc'[w] = l /\ \A v \in Producers : v # w => pc'[v] = pc[v]
  BY <1>1, <1>3 DEF TypeOK
<1>5. \A v \in Producers : pc'[v] \in Elected <=> lock' = v
  BY <1>2, <1>4 DEF HandoffInv, WorkersOK, Elected
<1>6. ProducersOK' /\ WorkersOK' /\ NoDescriptorLost' /\ ConfigOK'
  BY <1>2, <1>3, <1>5, MoveKeepsRest DEF WorkerStates
<1>7. CASE l = "start"
  <2>1. Looks(w)' /\ LooksAtWork(w)'
    BY <1>4, <1>7 DEF Looks, LooksAtWork
  <2>2. DescriptorsCovered' /\ EventCovered' /\ WorkCovered'
    BY <2>1 DEF DescriptorsCovered, EventCovered, WorkCovered
  <2> QED BY <1>1, <1>6, <2>2 DEF HandoffInv
<1>8. CASE l = "done"
  <2>1. ~Looks(w)
    BY <1>2, <1>3, <1>8 DEF Looks, Elected
  <2>2. \A v \in Producers : Looks(v) => Looks(v)'
    BY <1>2, <1>4, <2>1 DEF Looks
  <2>3. DescriptorsCovered' /\ EventCovered'
    BY <1>2, <2>2 DEF HandoffInv, DescriptorsCovered, EventCovered
  <2>4. Eligible' = {}
    BY <1>2, <1>3, <1>8 DEF Eligible, Unfinished
  <2>5. WorkCovered'
    BY <2>4 DEF WorkCovered
  <2> QED BY <1>1, <1>6, <2>3, <2>5 DEF HandoffInv
<1> QED BY <1>7, <1>8

\* A worker that dies takes with it what it was launched for.
LEMMA CrashKeepsInv ==
    ASSUME HandoffInv, NEW w \in Producers, Crash(w)
    PROVE  HandoffInv'
<1>1. /\ pc[w] \notin {"none", "done"} /\ pc' = [pc EXCEPT ![w] = "done"] /\ owed' = {}
      /\ lock' = IF lock = w THEN None ELSE lock
      /\ crashes < MaxCrashes /\ crashes' = crashes + 1
      /\ UNCHANGED <<inbox, inboxLock, control, gen, pinned, scopes, bound, prod, seen>>
  BY DEF Crash, Goto, diskVars, workVars
<1>2. TypeOK'
  <2>1. /\ scopes' \in [Descriptors -> {"absent", "ready", "captured", "done"}]
        /\ Cardinality(Active') <= MaxActive
    BY <1>1, SameScopes DEF HandoffInv
  <2> QED BY <1>1, <2>1, BoundsAssumption DEF HandoffInv, TypeOK
<1>3. pc'[w] = "done" /\ \A v \in Producers : v # w => pc'[v] = pc[v]
  BY <1>1 DEF HandoffInv, TypeOK
<1>4. \A v \in Producers : pc'[v] \in Elected <=> lock' = v
  BY <1>1, <1>3, ProducersAssumption DEF HandoffInv, WorkersOK, Elected
<1>5. ProducersOK' /\ WorkersOK' /\ NoDescriptorLost' /\ ConfigOK'
  BY <1>1, <1>4, MoveKeepsRest DEF WorkerStates
<1>6. DescriptorsCovered' /\ EventCovered' /\ WorkCovered'
  BY <1>1 DEF DescriptorsCovered, EventCovered, WorkCovered
<1> QED BY <1>2, <1>5, <1>6 DEF HandoffInv

-----------------------------------------------------------------------------
\* Nothing is published, owed or elected at first.
LEMMA HandoffInitInv == Init => HandoffInv
<1> SUFFICES ASSUME Init PROVE HandoffInv
  OBVIOUS
<1>1. Active = {} /\ Imported = {} /\ Eligible = {}
  BY DEF Init, Active, Imported, Eligible, Unfinished
<1>2. Cardinality(Active) <= MaxActive
  BY <1>1, FS_EmptySet, BoundsAssumption
<1>3. Unread \in Notes
  BY DEF Unread, Notes
<1>4. TypeOK
  BY <1>2, <1>3, BoundsAssumption DEF Init, TypeOK
<1>5. ProducersOK /\ WorkersOK /\ NoDescriptorLost /\ ConfigOK
  <2>1. Descriptors \subseteq Producers /\ None \notin Producers
    BY ProducersAssumption DEF Producers
  <2> QED BY <2>1 DEF Init, ProducersOK, WorkersOK, NoDescriptorLost, ConfigOK, Elected, Unread
<1>6. DescriptorsCovered /\ EventCovered /\ WorkCovered
  BY DEF Init, DescriptorsCovered, EventCovered, WorkCovered
<1> QED BY <1>4, <1>5, <1>6 DEF HandoffInv

\* Every step keeps the invariant.
LEMMA HandoffStepInv == HandoffInv /\ [Next]_vars => HandoffInv'
<1> SUFFICES ASSUME HandoffInv, [Next]_vars PROVE HandoffInv'
  OBVIOUS
<1>1. ASSUME NEW p \in Producers, ProducerStep(p) PROVE HandoffInv'
  BY <1>1, DepartKeepsInv, PublishKeepsInv, AnnounceKeepsInv, CommitKeepsInv, LaunchKeepsInv,
     AbandonKeepsInv DEF ProducerStep
<1>2. ASSUME NEW w \in Producers, WorkerStep(w) PROVE HandoffInv'
  BY <1>2, StartKeepsInv, ReadingKeepsInv, ImportKeepsInv, AcknowledgeKeepsInv, WorkKeepsInv,
     AcknowledgeControlKeepsInv, ReleaseKeepsInv, RecheckKeepsInv, RemainingKeepsInv DEF WorkerStep
<1>3. CASE UNCHANGED vars
  <2>1. UNCHANGED <<inbox, control, inboxLock, gen, pinned, scopes, bound, prod, lock, pc, seen, owed, crashes>>
    BY <1>3 DEF vars, diskVars, workVars
  <2>2. Active' = Active /\ Imported' = Imported /\ Eligible' = Eligible
    BY <2>1 DEF Active, Imported, Eligible, Unfinished
  <2>3. TypeOK'
    BY <2>1, <2>2 DEF HandoffInv, TypeOK
  <2>4. ProducersOK' /\ WorkersOK' /\ NoDescriptorLost' /\ ConfigOK'
    BY <2>1, <2>2 DEF HandoffInv, ProducersOK, WorkersOK, NoDescriptorLost, ConfigOK
  <2>5. DescriptorsCovered' /\ EventCovered' /\ WorkCovered'
    BY <2>1, <2>2 DEF HandoffInv, DescriptorsCovered, EventCovered, WorkCovered, Looks, LooksAtWork
  <2> QED BY <2>3, <2>4, <2>5 DEF HandoffInv
<1> QED BY <1>1, <1>2, <1>3, CrashKeepsInv DEF Next

\* At most one worker writes, a published descriptor is in the inbox until the
\* journal has it, and when the last worker leaves, nothing that was on disk at a
\* launch is overlooked (ArchiveWorker.ts run, ArchiveInbox.ts, ArchiveLock.ts),
\* for any number of sessions, transitions and crashes.
THEOREM HandoffConsistentTheorem == Spec => []HandoffConsistent
<1>1. HandoffInv => HandoffConsistent
  <2> SUFFICES ASSUME HandoffInv PROVE HandoffConsistent
    OBVIOUS
  <2>1. TypeOK /\ OneWriter /\ NoDescriptorLost
    BY DEF HandoffInv, WorkersOK, OneWriter
  <2>2. NoLostWakeup
    <3> SUFFICES ASSUME AllLeft
                 PROVE  /\ \A d \in owed \cap inbox : \E w \in Producers : d \in seen[w].retained
                        /\ "config" \in owed => control = None /\ Eligible = {}
      BY DEF NoLostWakeup
    <3>1. \A w \in Producers : ~Looks(w) /\ ~LooksAtWork(w)
      BY DEF AllLeft, Looks, LooksAtWork, Elected
    <3> QED BY <3>1 DEF HandoffInv, DescriptorsCovered, EventCovered, WorkCovered
  <2> QED BY <2>1, <2>2 DEF HandoffConsistent
<1> QED BY <1>1, HandoffInitInv, HandoffStepInv, PTL DEF Spec

\* A worker removes the event of a transition only once the transition has
\* committed (ArchiveInbox.acknowledgeControl under inbox.lock).
THEOREM EventCoversCommitTheorem == Spec => EventCoversCommit
<1>1. HandoffInv /\ [Next]_vars =>
        [(control # None /\ control' = None) => prod[control] # "committing"]_vars
  <2> SUFFICES ASSUME HandoffInv, Next, control # None, control' = None
               PROVE  prod[control] # "committing"
    OBVIOUS
  <2>1. control \in Producers
    BY DEF HandoffInv, TypeOK, Producers
  <2>2. PICK w \in Producers : AcknowledgeControl(w) /\ InboxFree
    <3>1. ASSUME NEW p \in Producers, ProducerStep(p) PROVE FALSE
      BY <3>1, ProducersAssumption
         DEF ProducerStep, Depart, Publish, Announce, Commit, Launch, Abandon, diskVars
    <3>2. ASSUME NEW w \in Producers, WorkerStep(w) PROVE AcknowledgeControl(w) /\ InboxFree
      BY <3>2 DEF WorkerStep, Start, ReadGeneration, ReadControl, ReadIds, ImportOne, Acknowledge,
                  AcknowledgeBusy, Work, InspectStep, AcknowledgeControl, Continue, Release, Recheck,
                  Remaining, diskVars
    <3>3. ASSUME NEW w \in Producers, Crash(w) PROVE FALSE
      BY <3>3 DEF Crash, diskVars
    <3> QED BY <3>1, <3>2, <3>3 DEF Next
  <2> QED BY <2>1, <2>2, ProducersAssumption DEF InboxFree, HandoffInv, ProducersOK
<1> QED BY <1>1, HandoffInitInv, HandoffStepInv, PTL DEF Spec, EventCoversCommit

-----------------------------------------------------------------------------
(***************************************************************************)
(* A capture: the body read so far is a prefix of the file unless the file *)
(* has another time than at the first fstat().                             *)
(***************************************************************************)
StableSpec == StableInit /\ [][StableNext]_stableVars

FileRecords == {"rec", "torn", "new"}
FileBodies  == Seq(FileRecords)
InodeStates == [time : Nat, body : FileBodies]
ReaderStates ==
    [step : {"lstat", "open", "read", "after", "named"}, attempt : Nat, saw : BOOLEAN, observed : BOOLEAN,
     original : Nat, before : [time : Nat, size : Nat], body : FileBodies]

StableTypeOK ==
    /\ inodes \in Seq(InodeStates) /\ name \in 0 .. Len(inodes) /\ writes \in Nat
    /\ reader \in ReaderStates /\ outcome \in {"none", "captured", "changing", "missing", "invalid"}
    /\ versions \subseteq FileBodies

\* Only the last record of a body may be torn.
EndsTorn(body) == \A i \in 1 .. Len(body) - 1 : body[i] # "torn"

\* What an inode holds was named by the path, and was written before now.
InodesSeen ==
    /\ \A i \in 1 .. Len(inodes) : inodes[i].time <= writes /\ inodes[i].body \in versions
    /\ \A body \in versions : EndsTorn(body)

\* While the time of the inode is the one of the first fstat(), so are its bytes.
ReadingFaithful ==
    /\ reader.step # "lstat" => reader.original \in 1 .. Len(inodes)
    /\ reader.step \in {"read", "after", "named"} =>
         /\ reader.before.time <= writes
         /\ Inode.time = reader.before.time =>
              /\ reader.before.size = Len(Inode.body) /\ Len(reader.body) <= Len(Inode.body)
              /\ \A i \in 1 .. Len(reader.body) : reader.body[i] = Inode.body[i]
              /\ reader.step # "read" => Len(reader.body) = Len(Inode.body)

StableInv == StableTypeOK /\ InodesSeen /\ ReadingFaithful /\ CaptureIsCoherent

LEMMA InodeFacts ==
    ASSUME StableTypeOK, NEW i \in 1 .. Len(inodes)
    PROVE  inodes[i] \in InodeStates /\ inodes[i].time \in Nat /\ inodes[i].body \in FileBodies
<1>1. inodes[i] \in InodeStates
  BY ElementOfSeq DEF StableTypeOK
<1> QED BY <1>1 DEF InodeStates

LEMMA StableInitInv ==
    ASSUME StableInit
    PROVE  StableInv
<1>1. <<"rec">> \in FileBodies /\ Len(<<"rec">>) = 1 /\ <<>> \in FileBodies
  BY DEF FileBodies, FileRecords
<1>2. Len(inodes) = 1 /\ inodes[1] = [time |-> 0, body |-> <<"rec">>] /\ inodes \in Seq(InodeStates)
  BY <1>1 DEF StableInit, InodeStates
<1>3. reader \in ReaderStates /\ reader.step = "lstat"
  BY <1>1 DEF StableInit, Idle, ReaderStates
<1>4. StableTypeOK
  BY <1>1, <1>2, <1>3 DEF StableInit, StableTypeOK
<1>5. InodesSeen
  BY <1>1, <1>2 DEF StableInit, InodesSeen, EndsTorn
<1> QED BY <1>3, <1>4, <1>5 DEF StableInv, StableInit, ReadingFaithful, CaptureIsCoherent

-----------------------------------------------------------------------------
(* The session writes                                                      *)

\* A write gives the inode a time that no reader has seen.
LEMMA WriteKeeps ==
    ASSUME StableInv, NEW body \in FileBodies, EndsTorn(body), Write(body)
    PROVE  StableInv'
<1>0. StableTypeOK /\ InodesSeen /\ ReadingFaithful
  BY DEF StableInv
<1> DEFINE n == [time |-> writes + 1, body |-> body]
<1>1. /\ name \in 1 .. Len(inodes) /\ outcome = "none" /\ writes' = writes + 1 /\ inodes' = [inodes EXCEPT ![name] = n]
      /\ versions' = versions \cup {body} /\ UNCHANGED <<name, reader, outcome>> /\ writes \in Nat
  BY <1>0 DEF Write, Writing, Seen, StableTypeOK
<1>2. n \in InodeStates /\ n.time = writes + 1 /\ n.body = body
  BY <1>1 DEF InodeStates
<1> HIDE DEF n
<1>3. /\ inodes' \in Seq(InodeStates) /\ Len(inodes') = Len(inodes) /\ inodes'[name] = n
      /\ \A i \in 1 .. Len(inodes) : i # name => inodes'[i] = inodes[i]
  BY <1>0, <1>1, <1>2, ExceptSeq DEF StableTypeOK
<1>4. StableTypeOK'
  BY <1>0, <1>1, <1>3 DEF StableTypeOK
<1>5. \A i \in 1 .. Len(inodes) : inodes[i].time \in Nat
  BY <1>0, InodeFacts
<1>6. InodesSeen'
  BY <1>0, <1>1, <1>2, <1>3, <1>5 DEF InodesSeen
<1>7. ReadingFaithful'
  <2>1. reader.before.time \in Nat
    BY <1>0 DEF StableTypeOK, ReaderStates
  <2>2. CASE reader.original = name
    BY <1>0, <1>1, <1>2, <1>3, <2>1, <2>2 DEF ReadingFaithful, Inode
  <2>3. CASE reader.original # name
    BY <1>0, <1>1, <1>3, <2>1, <2>3 DEF ReadingFaithful, Inode
  <2> QED BY <2>2, <2>3
<1> QED BY <1>1, <1>4, <1>6, <1>7 DEF StableInv, CaptureIsCoherent

\* Appending and rewriting keep torn records at the end.
LEMMA BodiesWritten ==
    ASSUME NEW body \in FileBodies, EndsTorn(body)
    PROVE  /\ \A r \in {"rec", "torn"} : ~IsTorn(body) => Append(body, r) \in FileBodies /\ EndsTorn(Append(body, r))
           /\ IsTorn(body) => Append(Front(body), "rec") \in FileBodies /\ EndsTorn(Append(Front(body), "rec"))
           /\ Complete(body) \in FileBodies
<1>1. body = <<>> \/ (Len(body) \in Nat /\ Len(body) > 0)
  BY EmptySeq DEF FileBodies
<1>2. ASSUME NEW r \in {"rec", "torn"}, ~IsTorn(body)
      PROVE  Append(body, r) \in FileBodies /\ EndsTorn(Append(body, r))
  <2>1. Append(body, r) \in FileBodies /\ Len(Append(body, r)) = Len(body) + 1
        /\ \A i \in 1 .. Len(body) : Append(body, r)[i] = body[i]
    BY AppendProperties DEF FileBodies, FileRecords
  <2>2. \A i \in 1 .. Len(body) : body[i] # "torn"
    <3>1. body # <<>> => body[Len(body)] # "torn"
      BY <1>2 DEF IsTorn, Last
    <3> QED BY <1>1, <3>1 DEF EndsTorn, FileBodies
  <2> QED BY <2>1, <2>2 DEF EndsTorn, FileBodies
<1>3. ASSUME IsTorn(body)
      PROVE  Front(body) \in FileBodies /\ Append(Front(body), "rec") \in FileBodies /\ EndsTorn(Append(Front(body), "rec"))
  <2>1. Len(body) \in Nat /\ Len(body) > 0
    BY <1>1, <1>3 DEF IsTorn
  <2>2. Front(body) \in FileBodies /\ Len(Front(body)) = Len(body) - 1
        /\ \A i \in 1 .. Len(body) - 1 : Front(body)[i] = body[i]
    <3>1. Len(body) - 1 \in Int /\ \A i \in 1 .. Len(body) - 1 : body[i] \in FileRecords
      BY <2>1, ElementOfSeq DEF FileBodies
    <3>2. /\ Front(body) \in Seq(FileRecords)
          /\ Len(Front(body)) = IF 1 <= Len(body) - 1 THEN Len(body) - 1 - 1 + 1 ELSE 0
          /\ \A i \in 1 .. Len(body) - 1 - 1 + 1 : Front(body)[i] = body[1 + i - 1]
      BY <3>1, SubSeqProperties DEF Front
    <3>3. Len(Front(body)) = Len(body) - 1
      <4>1. Len(Front(body)) = IF 1 <= Len(body) - 1 THEN Len(body) - 1 - 1 + 1 ELSE 0
        BY <3>2
      <4>2. PICK n \in Nat : n = Len(body) /\ n > 0
        BY <2>1
      <4>3. (IF 1 <= n - 1 THEN n - 1 - 1 + 1 ELSE 0) = n - 1
        BY <4>2
      <4> QED BY <4>1, <4>2, <4>3
    <3>4. ASSUME NEW i \in 1 .. Len(body) - 1 PROVE Front(body)[i] = body[i]
      <4>1. i \in 1 .. Len(body) - 1 - 1 + 1 /\ 1 + i - 1 = i
        BY <2>1
      <4>2. Front(body)[i] = body[1 + i - 1]
        BY <3>2, <4>1
      <4> QED BY <4>1, <4>2
    <3> QED BY <3>2, <3>3, <3>4 DEF FileBodies
  <2>3. "rec" \in FileRecords
    BY DEF FileRecords
  <2>4. /\ Append(Front(body), "rec") \in FileBodies /\ Len(Append(Front(body), "rec")) = Len(body)
        /\ \A i \in 1 .. Len(body) - 1 : Append(Front(body), "rec")[i] = body[i]
    BY <2>1, <2>2, <2>3, AppendProperties DEF FileBodies
  <2> QED BY <2>2, <2>4 DEF EndsTorn
<1> QED BY <1>2, <1>3 DEF Complete

LEMMA SessionKeeps ==
    ASSUME StableInv, AppendRecord \/ RewriteFile
    PROVE  StableInv'
<1>0. StableTypeOK /\ InodesSeen /\ name # 0
  BY DEF StableInv, AppendRecord, RewriteFile
<1>1. PICK now \in FileBodies : now = inodes[name].body /\ EndsTorn(now)
  <2>1. name \in 1 .. Len(inodes)
    BY <1>0 DEF StableTypeOK
  <2>2. inodes[name].body \in FileBodies
    BY <1>0, <2>1, InodeFacts
  <2> QED BY <1>0, <2>1, <2>2 DEF InodesSeen
<1>2. CASE AppendRecord
  <2>1. PICK part \in {"rec", "torn"} : Write(IF IsTorn(now) THEN Append(Front(now), "rec") ELSE Append(now, part))
    BY <1>1, <1>2 DEF AppendRecord
  <2> QED BY <1>1, <2>1, BodiesWritten, WriteKeeps
<1>3. CASE RewriteFile
  <2> DEFINE b == [i \in DOMAIN Complete(now) |-> "new"]
  <2>1. Complete(now) \in FileBodies
    BY <1>1, BodiesWritten
  <2>2. DOMAIN Complete(now) = 1 .. Len(Complete(now)) /\ Len(Complete(now)) \in Nat
    BY <2>1 DEF FileBodies
  <2>3. b \in FileBodies /\ Len(b) = Len(Complete(now)) /\ \A i \in 1 .. Len(b) : b[i] = "new"
    BY <2>2 DEF FileBodies, FileRecords
  <2>4. EndsTorn(b) /\ Write(b)
    <3>1. Len(b) \in Nat
      BY <2>2, <2>3
    <3>2. Write(b)
      BY <1>1, <1>3 DEF RewriteFile
    <3> HIDE DEF b
    <3> QED BY <2>3, <3>1, <3>2 DEF EndsTorn
  <2> HIDE DEF b
  <2> QED BY <2>3, <2>4, WriteKeeps
<1> QED BY <1>2, <1>3

LEMMA NameKeeps ==
    ASSUME StableInv, ReplaceFile \/ RemoveIt
    PROVE  StableInv'
<1>0. StableTypeOK /\ InodesSeen /\ ReadingFaithful
  BY DEF StableInv
<1>1. /\ outcome = "none" /\ writes' = writes + 1 /\ UNCHANGED <<reader, outcome>> /\ writes \in Nat
  BY <1>0 DEF ReplaceFile, RemoveIt, Writing, StableTypeOK
<1>2. \A i \in 1 .. Len(inodes) : inodes[i].time \in Nat
  BY <1>0, InodeFacts
<1>3. /\ Len(inodes') \in Nat /\ Len(inodes) <= Len(inodes') /\ inodes' \in Seq(InodeStates) /\ Len(inodes) \in Nat
      /\ \A i \in 1 .. Len(inodes) : inodes'[i] = inodes[i]
      /\ name' \in 0 .. Len(inodes') /\ versions' \subseteq FileBodies /\ InodesSeen'
  <2>1. CASE RemoveIt
    <3>1. UNCHANGED <<inodes, versions>> /\ name' = 0 /\ Len(inodes) \in Nat
      BY <1>0, <2>1 DEF RemoveIt, StableTypeOK
    <3>2. InodesSeen'
      BY <1>0, <1>1, <1>2, <3>1 DEF InodesSeen
    <3> QED BY <1>0, <3>1, <3>2 DEF StableTypeOK
  <2>2. CASE ReplaceFile
    <3> DEFINE n == [time |-> writes + 1, body |-> <<"new">>]
    <3>1. <<"new">> \in FileBodies /\ EndsTorn(<<"new">>)
      BY DEF FileBodies, FileRecords, EndsTorn
    <3>2. n \in InodeStates /\ n.time = writes + 1 /\ n.body = <<"new">>
      BY <1>1, <3>1 DEF InodeStates
    <3>3. inodes' = Append(inodes, n) /\ name' = Len(inodes) + 1 /\ versions' = versions \cup {<<"new">>}
      BY <2>2 DEF ReplaceFile, Seen
    <3> HIDE DEF n
    <3>4. /\ inodes' \in Seq(InodeStates) /\ Len(inodes') = Len(inodes) + 1 /\ inodes'[Len(inodes) + 1] = n
          /\ \A i \in 1 .. Len(inodes) : inodes'[i] = inodes[i]
      BY <1>0, <3>2, <3>3, AppendProperties DEF StableTypeOK
    <3>5. Len(inodes) \in Nat
      BY <1>0 DEF StableTypeOK
    <3>6. InodesSeen'
      BY <1>0, <1>1, <1>2, <3>1, <3>2, <3>3, <3>4, <3>5 DEF InodesSeen
    <3> QED BY <1>0, <3>1, <3>3, <3>4, <3>5, <3>6 DEF StableTypeOK
  <2> QED BY <2>1, <2>2
<1>4. StableTypeOK'
  BY <1>0, <1>1, <1>3 DEF StableTypeOK
<1>5. ReadingFaithful'
  <2>1. reader.before.time \in Nat /\ reader.original \in Nat
    BY <1>0 DEF StableTypeOK, ReaderStates
  <2> QED BY <1>0, <1>1, <1>3, <2>1 DEF ReadingFaithful, Inode
<1> QED BY <1>1, <1>3, <1>4, <1>5 DEF StableInv, CaptureIsCoherent

-----------------------------------------------------------------------------
(* The reader reads                                                        *)

\* An attempt ends: the next one begins from nothing, or the capture is given up.
LEMMA UnstableKeeps ==
    ASSUME StableInv, outcome = "none", Still, Unstable \/ Missing
    PROVE  StableInv'
<1>0. StableTypeOK /\ InodesSeen /\ ReadingFaithful /\ reader \in ReaderStates
  BY DEF StableInv, StableTypeOK
<1>1. UNCHANGED <<inodes, name, writes, versions>>
  BY DEF Still
<1>2. InodesSeen'
  BY <1>0, <1>1 DEF InodesSeen
<1>3. CASE reader' = [Idle EXCEPT !.attempt = reader.attempt + 1, !.saw = TRUE] /\ UNCHANGED outcome
  <2>1. <<>> \in FileBodies
    BY DEF FileBodies
  <2>2. reader.attempt \in Nat
    BY <1>0 DEF ReaderStates
  <2>3. reader' \in ReaderStates /\ reader'.step = "lstat"
    <3>1. reader' = [step |-> "lstat", attempt |-> reader.attempt + 1, saw |-> TRUE, observed |-> FALSE, original |-> 0,
                     before |-> [time |-> 0, size |-> 0], body |-> <<>>]
      BY <1>3 DEF Idle
    <3>2. [time |-> 0, size |-> 0] \in [time : Nat, size : Nat]
      OBVIOUS
    <3> QED BY <2>1, <2>2, <3>1, <3>2 DEF ReaderStates
  <2> QED BY <1>0, <1>1, <1>2, <1>3, <2>3 DEF StableInv, StableTypeOK, ReadingFaithful, CaptureIsCoherent
<1>4. CASE /\ UNCHANGED reader
           /\ outcome' = "changing" \/ (outcome' = "missing" /\ ~(reader.observed \/ reader.saw))
  <2>1. StableTypeOK' /\ ReadingFaithful'
    BY <1>0, <1>1, <1>4 DEF StableTypeOK, ReadingFaithful, Inode
  <2> QED BY <1>2, <1>4, <2>1 DEF StableInv, CaptureIsCoherent
<1> QED BY <1>3, <1>4 DEF Unstable, Missing

\* A step of the reader that goes on.
LEMMA ReaderKeeps ==
    ASSUME StableInv, outcome = "none", Still, UNCHANGED outcome, reader' \in ReaderStates, ReadingFaithful'
    PROVE  StableInv'
<1>1. StableTypeOK' /\ InodesSeen'
  BY DEF StableInv, StableTypeOK, InodesSeen, Still
<1> QED BY <1>1 DEF StableInv, CaptureIsCoherent

LEMMA OpenKeeps ==
    ASSUME StableInv, Lstat \/ Open
    PROVE  StableInv'
<1>0. StableTypeOK /\ InodesSeen /\ ReadingFaithful /\ reader \in ReaderStates /\ outcome = "none" /\ Still
  BY DEF StableInv, StableTypeOK, Lstat, Open, At
<1>1. UNCHANGED <<inodes, name, writes, versions>> /\ Len(inodes) \in Nat /\ name \in 0 .. Len(inodes)
  BY <1>0 DEF Still, StableTypeOK
<1>2. CASE name # 0 /\ reader' = [reader EXCEPT !.step = "open", !.observed = TRUE, !.original = name] /\ UNCHANGED outcome
  <2>1. reader' \in ReaderStates /\ reader'.step = "open" /\ reader'.original = name
    <3>1. name \in Nat
      BY <1>1
    <3> QED BY <1>0, <1>2, <3>1 DEF ReaderStates
  <2>2. ReadingFaithful'
    BY <1>1, <1>2, <2>1 DEF ReadingFaithful
  <2> QED BY <1>0, <1>2, <2>1, <2>2, ReaderKeeps
<1>3. CASE /\ name # 0 /\ name = reader.original /\ UNCHANGED outcome
           /\ reader' = [reader EXCEPT !.step = "read", !.body = <<>>,
                            !.before = [time |-> inodes[name].time, size |-> Len(inodes[name].body)]]
  <2>0. name \in 1 .. Len(inodes)
    BY <1>1, <1>3
  <2>1. inodes[name].time \in Nat /\ inodes[name].time <= writes /\ Len(inodes[name].body) \in Nat
    BY <1>0, <2>0, InodeFacts DEF InodesSeen, FileBodies
  <2>2. <<>> \in FileBodies /\ Len(<<>>) = 0
    BY DEF FileBodies
  <2>3. /\ reader' \in ReaderStates /\ reader'.step = "read" /\ reader'.original = name /\ reader'.body = <<>>
        /\ reader'.before.time = inodes[name].time /\ reader'.before.size = Len(inodes[name].body)
    BY <1>0, <1>3, <2>1, <2>2 DEF ReaderStates
  <2>4. ReadingFaithful'
    BY <1>1, <2>0, <2>1, <2>2, <2>3 DEF ReadingFaithful, Inode
  <2> QED BY <1>0, <1>3, <2>3, <2>4, ReaderKeeps
<1>4. CASE Missing \/ Unstable
  BY <1>0, <1>4, UnstableKeeps
<1> QED BY <1>2, <1>3, <1>4 DEF Lstat, Open

LEMMA ReadKeeps ==
    ASSUME StableInv, ReadChunk \/ After
    PROVE  StableInv'
<1>0. StableTypeOK /\ InodesSeen /\ ReadingFaithful /\ reader \in ReaderStates /\ outcome = "none" /\ Still
  BY DEF StableInv, StableTypeOK, ReadChunk, After, At
<1>1. UNCHANGED <<inodes, name, writes, versions>> /\ reader.step \in {"read", "after"}
  BY <1>0 DEF Still, ReadChunk, After, At
<1>2. /\ reader.original \in 1 .. Len(inodes) /\ Inode.body \in FileBodies /\ reader.body \in FileBodies
      /\ reader.before \in [time : Nat, size : Nat]
  <2>1. reader.original \in 1 .. Len(inodes)
    BY <1>0, <1>1 DEF ReadingFaithful
  <2> QED BY <1>0, <2>1, InodeFacts DEF ReaderStates, Inode
<1>3. Len(reader.body) \in Nat /\ Len(Inode.body) \in Nat /\ reader.before.size \in Nat
  BY <1>2 DEF FileBodies
<1>4. CASE /\ Len(reader.body) < Len(Inode.body) /\ UNCHANGED outcome /\ reader.step = "read"
           /\ reader' = [reader EXCEPT !.body = Append(@, Inode.body[Len(reader.body) + 1])]
  <2> DEFINE r == Inode.body[Len(reader.body) + 1]
  <2>1. r \in FileRecords
    BY <1>2, <1>3, <1>4, ElementOfSeq DEF FileBodies
  <2>2. /\ Append(reader.body, r) \in FileBodies /\ Len(Append(reader.body, r)) = Len(reader.body) + 1
        /\ Append(reader.body, r)[Len(reader.body) + 1] = r
        /\ \A i \in 1 .. Len(reader.body) : Append(reader.body, r)[i] = reader.body[i]
    BY <1>2, <2>1, AppendProperties DEF FileBodies
  <2>3. /\ reader' \in ReaderStates /\ reader'.step = "read" /\ reader'.original = reader.original
        /\ reader'.body = Append(reader.body, r) /\ reader'.before = reader.before
    BY <1>0, <1>4, <2>2 DEF ReaderStates
  <2>4. Inode' = Inode
    BY <1>1, <2>3 DEF Inode
  <2>5. ReadingFaithful'
    <3> HIDE DEF r
    <3>1. \A i \in 1 .. Len(reader'.body) : i \in 1 .. Len(reader.body) \/ i = Len(reader.body) + 1
      BY <1>3, <2>2, <2>3
    <3>2. Len(reader'.body) = Len(reader.body) + 1 /\ reader'.body[Len(reader.body) + 1] = r
          /\ \A i \in 1 .. Len(reader.body) : reader'.body[i] = reader.body[i]
      BY <2>2, <2>3
    <3>3. ASSUME Inode.time = reader.before.time
          PROVE  /\ reader.before.size = Len(Inode.body) /\ Len(reader'.body) <= Len(Inode.body)
                 /\ \A i \in 1 .. Len(reader'.body) : reader'.body[i] = Inode.body[i]
      BY <1>0, <1>1, <1>3, <1>4, <3>1, <3>2, <3>3 DEF ReadingFaithful, r
    <3> QED BY <1>0, <1>1, <1>2, <2>3, <2>4, <3>3 DEF ReadingFaithful
  <2> QED BY <1>0, <1>4, <2>3, <2>5, ReaderKeeps
<1>5. CASE /\ UNCHANGED outcome /\ \/ reader' = [reader EXCEPT !.step = "after"] /\ ~(Len(reader.body) < reader.before.size)
                                   \/ reader' = [reader EXCEPT !.step = "named"] /\ reader.step = "after"
  <2>1. /\ reader' \in ReaderStates /\ reader'.step \in {"after", "named"} /\ reader'.original = reader.original
        /\ reader'.body = reader.body /\ reader'.before = reader.before
    BY <1>0, <1>5 DEF ReaderStates
  <2>2. Inode' = Inode
    BY <1>1, <2>1 DEF Inode
  <2>3. ReadingFaithful'
    BY <1>0, <1>1, <1>2, <1>3, <1>5, <2>1, <2>2 DEF ReadingFaithful
  <2> QED BY <1>0, <1>5, <2>1, <2>3, ReaderKeeps
<1>6. CASE Unstable
  BY <1>0, <1>6, UnstableKeeps
<1> QED BY <1>4, <1>5, <1>6 DEF ReadChunk, After, At

\* What is parsed is what the path named.
LEMMA NamedKeeps ==
    ASSUME StableInv, Named
    PROVE  StableInv'
<1>0. StableTypeOK /\ InodesSeen /\ ReadingFaithful /\ reader \in ReaderStates /\ outcome = "none" /\ Still
  BY DEF StableInv, StableTypeOK, Named, At
<1>1. UNCHANGED <<inodes, name, writes, versions>> /\ reader.step = "named"
  BY <1>0 DEF Still, Named, At
<1>2. CASE UnchangedInode(reader.before) /\ outcome' = Parsed(reader.body) /\ UNCHANGED reader
  <2>1. /\ reader.original \in 1 .. Len(inodes) /\ Inode.body \in FileBodies /\ reader.body \in FileBodies
        /\ Inode.body \in versions
    BY <1>0, <1>1, InodeFacts DEF ReadingFaithful, ReaderStates, Inode, InodesSeen
  <2>2. /\ Len(reader.body) = Len(Inode.body) /\ \A i \in 1 .. Len(reader.body) : reader.body[i] = Inode.body[i]
    BY <1>0, <1>1, <1>2 DEF ReadingFaithful, UnchangedInode
  <2>3. reader.body = Inode.body
    BY <2>1, <2>2, SeqEqual DEF FileBodies
  <2>4. reader.body \in versions /\ EndsTorn(reader.body)
    BY <1>0, <2>1, <2>3 DEF InodesSeen
  <2>5. Parsed(reader.body) # "invalid"
    <3>1. DOMAIN reader.body = 1 .. Len(reader.body) /\ Len(reader.body) \in Nat
      BY <2>1 DEF FileBodies
    <3> QED BY <2>4, <3>1 DEF Parsed, IsTorn, Last, EndsTorn
  <2>6. Parsed(reader.body) \in {"changing", "captured", "invalid"} /\ (Parsed(reader.body) = "captured" => ~IsTorn(reader.body))
    BY DEF Parsed
  <2>7. StableTypeOK' /\ InodesSeen' /\ ReadingFaithful'
    BY <1>0, <1>1, <1>2, <2>6 DEF StableTypeOK, InodesSeen, ReadingFaithful, Inode
  <2> QED BY <1>1, <1>2, <2>4, <2>5, <2>6, <2>7 DEF StableInv, CaptureIsCoherent
<1>3. CASE Missing \/ Unstable
  BY <1>0, <1>3, UnstableKeeps
<1> QED BY <1>2, <1>3 DEF Named

\* readStable() and parse() capture a body that the path named at some moment, with a
\* whole last record, whatever the session does to the file between any two awaits;
\* they never call a file invalid that is being written, nor missing once they saw it.
THEOREM CaptureIsCoherentTheorem == StableSpec => []CaptureIsCoherent
<1>1. StableInv /\ [StableNext]_stableVars => StableInv'
  <2> SUFFICES ASSUME StableInv, [StableNext]_stableVars PROVE StableInv'
    OBVIOUS
  <2>1. CASE UNCHANGED stableVars
    BY <2>1 DEF stableVars, StableInv, StableTypeOK, InodesSeen, ReadingFaithful, Inode, CaptureIsCoherent
  <2> QED BY <2>1, SessionKeeps, NameKeeps, OpenKeeps, ReadKeeps, NamedKeeps DEF StableNext
<1>2. StableInv => CaptureIsCoherent
  BY DEF StableInv
<1> QED BY <1>1, <1>2, StableInitInv, PTL DEF StableSpec

-----------------------------------------------------------------------------
(***************************************************************************)
(* The journal: every publication that exists has an identifier of its own *)
(* and every process holds one the journal or the server knows.            *)
(***************************************************************************)
JournalSpec == JournalInit /\ [][JournalNext]_journalVars

JournalTypeOK ==
    /\ row \in [source : CapturedFiles \cup {Nothing}, accepted : Receipts \cup {Nothing}, pending : Publications \cup {Nothing}]
    /\ captures \subseteq Snapshots /\ IsFiniteSet(captures) /\ kept \subseteq Snapshots
    /\ remote \in Seq(Publications) /\ operations \in Nat
    /\ hand \in [Uploaders -> Publications \cup Receipts \cup {Nothing}]

\* The publications that exist, and the ones the server has committed.
Committed(p) == \E i \in 1 .. Len(remote) : remote[i] = p
Existing == {p \in Publications : \/ row.pending = p \/ Committed(p) \/ \E u \in Uploaders : hand[u] = p}

\* An identifier names one publication, and later ones have later identifiers.
IdsUnique ==
    /\ \A p \in Existing : p.id <= operations
    /\ \A p, q \in Existing : p.id = q.id => p = q

\* A process holds the pending publication, or one that is committed, or its receipt.
HandsKnown ==
    \A u \in Uploaders :
       /\ hand[u] \in Publications => hand[u] = row.pending \/ Committed(hand[u])
       /\ hand[u] \in Receipts => \E i \in 1 .. Len(remote) : hand[u] = Receipt(remote[i], i)

\* The first publication has no base.
FirstBase == row.accepted = Nothing /\ row.pending # Nothing => row.pending.base = 0

JournalInv == JournalTypeOK /\ IdsUnique /\ HandsKnown /\ FirstBase /\ EvidenceKept

-----------------------------------------------------------------------------
(* Records and their bytes                                                 *)

LEMMA RecordFacts ==
    /\ \A p \in Publications : p \notin Receipts /\ p \notin Snapshots /\ "seq" \notin DOMAIN p
    /\ \A r \in Receipts : "seq" \in DOMAIN r
    /\ Nothing \notin Publications /\ Nothing \notin Receipts
<1>1. \A p \in Publications : DOMAIN p = {"file", "body", "title", "id", "base"}
  BY DEF Publications
<1>2. \A r \in Receipts : DOMAIN r = {"file", "body", "title", "id", "base", "seq"}
  BY DEF Receipts
<1>3. ASSUME NEW s \in Snapshots PROVE DOMAIN s = {"file", "body", "title"}
  BY JournalAssumption DEF Snapshot
<1>4. "seq" \notin {"file", "body", "title", "id", "base"} /\ "seq" \in {"file", "body", "title", "id", "base", "seq"}
      /\ "id" \in {"file", "body", "title", "id", "base"} /\ "id" \notin {"file", "body", "title"}
  OBVIOUS
<1>5. \A p \in Publications : p \notin Receipts
  BY <1>1, <1>2, <1>4
<1>6. \A p \in Publications : p \notin Snapshots
  BY <1>1, <1>3, <1>4
<1>7. \A p \in Publications : "seq" \notin DOMAIN p
  BY <1>1, <1>4
<1>8. \A r \in Receipts : "seq" \in DOMAIN r
  BY <1>2, <1>4
<1> QED BY <1>5, <1>6, <1>7, <1>8, JournalAssumption

LEMMA ReceiptFacts ==
    ASSUME NEW p \in Publications, NEW n \in Nat
    PROVE  /\ Receipt(p, n) \in Receipts /\ Receipt(p, n).seq = n
           /\ Receipt(p, n).body = p.body /\ Receipt(p, n).title = p.title
BY DEF Receipt, Publications, Receipts

LEMMA SnapshotFacts ==
    ASSUME NEW s \in Snapshots
    PROVE  s.file \in CapturedFiles /\ s.body \in CapturedBodies /\ s.title \in CapturedTitles /\ Len(s.body) \in Nat
<1>1. s.body \in Seq(Range(s.body))
  BY JournalAssumption DEF Snapshot
<1>2. Len(s.body) \in Nat
  BY <1>1, LenProperties
<1> QED BY <1>2 DEF CapturedFiles, CapturedBodies, CapturedTitles

Sized == Snapshots \cup Publications
Size  == [x \in Sized |-> Len(x.body)]
Weight(S) == Cardinality(Units(S, Size))

LEMMA SizeType == Size \in [Sized -> Nat]
<1>1. \A x \in Sized : x.body \in CapturedBodies
  BY SnapshotFacts DEF Sized, Publications
<1>2. \A b \in CapturedBodies : Len(b) \in Nat
  BY SnapshotFacts DEF CapturedBodies
<1> QED BY <1>1, <1>2 DEF Size

LEMMA SumIsWeight ==
    ASSUME NEW S, S \subseteq Sized, IsFiniteSet(S)
    PROVE  /\ MapThenSumSet(LAMBDA s : Len(s.body), S) = Weight(S)
           /\ IsFiniteSet(Units(S, Size)) /\ Weight(S) \in Nat
<1> DEFINE count == [x \in S |-> Len(x.body)]
           Step(g) == [T \in SUBSET S |-> IF T = {} THEN 0 ELSE Len((CHOOSE x \in T : TRUE).body) + g[T \ {CHOOSE x \in T : TRUE}]]
           sum == CHOOSE g : g = Step(g)
<1>1. count \in [S -> Nat] /\ \A x \in S : count[x] = Size[x]
  BY SizeType DEF Size
<1>2. Units(S, count) = Units(S, Size)
  BY <1>1 DEF Units
<1>3. ASSUME NEW g PROVE Step(g) = SumStep(S, count, g)
  <2>1. \A T \in SUBSET S : T # {} => AnyOf(T) \in S
    BY DEF AnyOf
  <2>2. \A T \in SUBSET S : T # {} => count[AnyOf(T)] = Len(AnyOf(T).body)
    BY <2>1
  <2> HIDE DEF count
  <2> QED BY <2>2 DEF SumStep, AnyOf
<1>4. sum = Step(sum)
  <2>1. Counted(S, count) = Step(Counted(S, count))
    <3>1. Counted(S, count) = SumStep(S, count, Counted(S, count))
      <4> HIDE DEF count
      <4> QED BY <1>1, CountingSums
    <3> QED BY <1>3, <3>1
  <2> HIDE DEF Step
  <2> QED BY <2>1
<1>5. sum[S] = Cardinality(Units(S, count))
  <2>1. sum = SumStep(S, count, sum)
    <3> HIDE DEF Step, sum, count
    <3> QED BY <1>3, <1>4
  <2> HIDE DEF sum, count, Step
  <2> QED BY <1>1, <2>1, SumsAreCounts
<1>6. MapThenSumSet(LAMBDA s : Len(s.body), S) = sum[S]
  BY DEF MapThenSumSet, MapThenFoldSet
<1>7. IsFiniteSet(Units(S, count))
  <2> HIDE DEF count
  <2> QED BY <1>1, UnitsFinite
<1> HIDE DEF sum, count
<1> QED BY <1>2, <1>5, <1>6, <1>7, FS_CardinalityType DEF Weight

\* One body more.
LEMMA WeightPlus ==
    ASSUME NEW S, S \subseteq Sized, IsFiniteSet(S), NEW x \in Sized, x \notin S
    PROVE  Weight(S \cup {x}) = Len(x.body) + Weight(S) /\ IsFiniteSet(S \cup {x})
<1>1. S \cup {x} \in SUBSET Sized /\ x \in S \cup {x} /\ (S \cup {x}) \ {x} = S
  OBVIOUS
<1>2. IsFiniteSet(Units(S, Size))
  BY SumIsWeight
<1>3. Cardinality(Units(S \cup {x}, Size)) = Size[x] + Cardinality(Units(S, Size))
  BY <1>1, <1>2, SizeType, UnitsOfOneMore
<1>4. Size[x] = Len(x.body)
  BY DEF Size
<1> QED BY <1>3, <1>4, FS_AddElement DEF Weight

\* The bodies the journal holds.
HeldIn(C, p) == C \cup IF p = Nothing THEN {} ELSE {p}

LEMMA BytesOf ==
    ASSUME NEW C, C \subseteq Snapshots, IsFiniteSet(C), NEW p \in Publications \cup {Nothing}
    PROVE  /\ HeldIn(C, p) \subseteq Sized /\ IsFiniteSet(HeldIn(C, p))
           /\ MapThenSumSet(LAMBDA s : Len(s.body), HeldIn(C, p)) = Weight(HeldIn(C, p)) /\ Weight(HeldIn(C, p)) \in Nat
           /\ p # Nothing => Weight(HeldIn(C, p)) = Len(p.body) + Weight(C) /\ Len(p.body) \in Nat /\ Weight(C) \in Nat
<1>0. C \subseteq Sized
  BY DEF Sized
<1>1. CASE p = Nothing
  <2>1. HeldIn(C, p) = C
    BY <1>1 DEF HeldIn
  <2> QED BY <1>0, <1>1, <2>1, SumIsWeight
<1>2. CASE p # Nothing
  <2>1. HeldIn(C, p) = C \cup {p} /\ p \in Publications
    BY <1>2 DEF HeldIn
  <2>2. p \in Sized /\ p \notin C
    BY <2>1, RecordFacts DEF Sized
  <2>3. Weight(C \cup {p}) = Len(p.body) + Weight(C) /\ IsFiniteSet(C \cup {p}) /\ C \cup {p} \subseteq Sized
    BY <1>0, <2>2, WeightPlus
  <2>4. Len(p.body) \in Nat
    BY <2>2, SizeType DEF Size
  <2> QED BY <1>0, <2>1, <2>3, <2>4, SumIsWeight
<1> QED BY <1>1, <1>2

LEMMA HeldMore ==
    ASSUME NEW C, C \subseteq Snapshots, IsFiniteSet(C), NEW p \in Publications \cup {Nothing}, NEW s \in Snapshots, s \notin C
    PROVE  Weight(HeldIn(C \cup {s}, p)) = Len(s.body) + Weight(HeldIn(C, p)) /\ IsFiniteSet(C \cup {s})
<1>1. HeldIn(C \cup {s}, p) = HeldIn(C, p) \cup {s}
  BY DEF HeldIn
<1>2. s \notin HeldIn(C, p) /\ s \in Sized
  BY RecordFacts DEF HeldIn, Sized
<1> QED BY <1>1, <1>2, BytesOf, WeightPlus, FS_AddElement

LEMMA BytesNow ==
    ASSUME JournalTypeOK
    PROVE  Bytes = Weight(HeldIn(captures, row.pending)) /\ row.pending \in Publications \cup {Nothing}
<1>1. row.pending \in Publications \cup {Nothing}
  BY DEF JournalTypeOK
<1>2. Bytes = MapThenSumSet(LAMBDA s : Len(s.body), HeldIn(captures, row.pending))
  BY DEF Bytes, HeldIn
<1> QED BY <1>1, <1>2, BytesOf DEF JournalTypeOK

LEMMA BytesNext ==
    ASSUME JournalTypeOK'
    PROVE  Bytes' = Weight(HeldIn(captures', row'.pending)) /\ row'.pending \in Publications \cup {Nothing}
<1>1. row'.pending \in Publications \cup {Nothing} /\ captures' \subseteq Snapshots /\ IsFiniteSet(captures')
  BY DEF JournalTypeOK
<1>2. Bytes' = MapThenSumSet(LAMBDA s : Len(s.body), HeldIn(captures', row'.pending))
  BY DEF Bytes, HeldIn, MapThenSumSet, MapThenFoldSet
<1> QED BY <1>1, <1>2, BytesOf

\* storeCapture() stays within the backlog.
LEMMA StoresFits ==
    ASSUME JournalInv, NEW s \in Snapshots, Stores(s)
    PROVE  /\ captures \cup {s} \subseteq Snapshots /\ IsFiniteSet(captures \cup {s})
           /\ Weight(HeldIn(captures \cup {s}, row.pending)) <= Backlog
<1>1. /\ captures \subseteq Snapshots /\ IsFiniteSet(captures) /\ Bytes <= Backlog
      /\ Bytes = Weight(HeldIn(captures, row.pending)) /\ row.pending \in Publications \cup {Nothing} /\ Bytes \in Nat
  BY BytesNow, BytesOf DEF JournalInv, JournalTypeOK, EvidenceKept
<1>2. CASE s \in captures
  <2>1. captures \cup {s} = captures
    BY <1>2
  <2> QED BY <1>1, <2>1
<1>3. CASE s \notin captures
  <2>1. Bytes + Len(s.body) <= Backlog
    BY <1>3 DEF Stores
  <2>2. Len(s.body) \in Nat
    BY SnapshotFacts
  <2>3. Weight(HeldIn(captures \cup {s}, row.pending)) = Len(s.body) + Bytes /\ IsFiniteSet(captures \cup {s})
    BY <1>1, <1>3, HeldMore
  <2> QED BY <1>1, <2>1, <2>2, <2>3, JournalAssumption
<1> QED BY <1>2, <1>3

\* Dropping a capture frees its bytes.
LEMMA HeldLess ==
    ASSUME NEW C, C \subseteq Snapshots, IsFiniteSet(C), NEW p \in Publications \cup {Nothing}, NEW s \in Snapshots
    PROVE  /\ IsFiniteSet(C \ {s}) /\ Weight(HeldIn(C \ {s}, p)) <= Weight(HeldIn(C, p))
           /\ s \in C => Weight(HeldIn(C, p)) = Len(s.body) + Weight(HeldIn(C \ {s}, p))
<1>1. IsFiniteSet(C \ {s}) /\ C \ {s} \subseteq Snapshots
  BY FS_RemoveElement
<1>2. Weight(HeldIn(C \ {s}, p)) \in Nat /\ Weight(HeldIn(C, p)) \in Nat /\ Len(s.body) \in Nat
  BY <1>1, BytesOf, SnapshotFacts
<1>3. CASE s \in C
  <2>1. (C \ {s}) \cup {s} = C /\ s \notin C \ {s}
    BY <1>3
  <2>2. Weight(HeldIn(C, p)) = Len(s.body) + Weight(HeldIn(C \ {s}, p))
    BY <1>1, <2>1, HeldMore
  <2> QED BY <1>1, <1>2, <2>2
<1>4. CASE s \notin C
  <2>1. C \ {s} = C
    BY <1>4
  <2>2. Weight(HeldIn(C, p)) <= Weight(HeldIn(C, p))
    BY <1>2
  <2>3. Weight(HeldIn(C \ {s}, p)) <= Weight(HeldIn(C, p))
    BY <2>1, <2>2, Zenon
  <2> QED BY <1>1, <1>4, <2>3
<1> QED BY <1>3, <1>4

-----------------------------------------------------------------------------
(* Steps of the journal                                                    *)

\* The parts of EvidenceKept.
Found(s) == s \in captures \/ (row.pending # Nothing /\ Matches(row.pending, s)) \/ \E i \in DOMAIN remote : Matches(remote[i], s)
AcceptedKnown ==
    row.accepted # Nothing =>
      /\ row.accepted.seq \in DOMAIN remote /\ Receipt(remote[row.accepted.seq], row.accepted.seq) = row.accepted
      /\ row.pending # Nothing => row.pending.base = row.accepted.seq /\ IsPrefix(row.accepted.body, row.pending.body)
HistoryGrows == \A i \in DOMAIN remote : i > 1 => IsPrefix(remote[i-1].body, remote[i].body)

LEMMA EvidenceParts ==
    /\ EvidenceKept <=> (\A s \in kept : Found(s)) /\ Bytes <= Backlog /\ AcceptedKnown /\ HistoryGrows
    /\ EvidenceKept' <=> (\A s \in kept' : Found(s)') /\ Bytes' <= Backlog /\ AcceptedKnown' /\ HistoryGrows'
<1>1. EvidenceKept <=> (\A s \in kept : Found(s)) /\ Bytes <= Backlog /\ AcceptedKnown /\ HistoryGrows
  BY DEF EvidenceKept, Found, AcceptedKnown, HistoryGrows
<1>2. EvidenceKept' <=> (\A s \in kept' : Found(s)') /\ Bytes' <= Backlog /\ AcceptedKnown' /\ HistoryGrows'
  BY DEF EvidenceKept, Found, AcceptedKnown, HistoryGrows
<1> QED BY <1>1, <1>2

LEMMA JournalFacts ==
    ASSUME JournalInv
    PROVE  /\ row.pending \in Publications \cup {Nothing} /\ row.accepted \in Receipts \cup {Nothing}
           /\ DOMAIN remote = 1 .. Len(remote) /\ Len(remote) \in Nat /\ \A i \in 1 .. Len(remote) : remote[i] \in Publications
           /\ (\A s \in kept : Found(s)) /\ Bytes <= Backlog /\ AcceptedKnown /\ HistoryGrows
           /\ JournalTypeOK /\ IdsUnique /\ HandsKnown /\ FirstBase
<1>1. JournalTypeOK
  BY DEF JournalInv
<1>2. \A i \in 1 .. Len(remote) : remote[i] \in Publications
  BY <1>1, ElementOfSeq DEF JournalTypeOK
<1>3. DOMAIN remote = 1 .. Len(remote) /\ Len(remote) \in Nat
  BY <1>1, LenProperties DEF JournalTypeOK
<1>4. row.pending \in Publications \cup {Nothing} /\ row.accepted \in Receipts \cup {Nothing}
  BY <1>1 DEF JournalTypeOK
<1> QED BY <1>2, <1>3, <1>4, EvidenceParts DEF JournalInv

\* A step that leaves the row and the server alone.
LEMMA RowKeeps ==
    ASSUME JournalInv, UNCHANGED <<row, remote, operations>>, NEW h, hand' = h,
           h \in [Uploaders -> Publications \cup Receipts \cup {Nothing}],
           \A v \in Uploaders : \/ h[v] \in {hand[v], Nothing, row.pending}
                                \/ \E i \in 1 .. Len(remote) : h[v] = Receipt(remote[i], i),
           captures' \subseteq Snapshots, IsFiniteSet(captures'), kept' \subseteq Snapshots,
           \A s \in kept' : Found(s)', Weight(HeldIn(captures', row.pending)) <= Backlog
    PROVE  JournalInv'
<1>1. JournalTypeOK'
  BY DEF JournalInv, JournalTypeOK
<1>2. Bytes' <= Backlog
  BY <1>1, BytesNext
<1>3. AcceptedKnown' /\ HistoryGrows' /\ FirstBase'
  BY JournalFacts DEF AcceptedKnown, HistoryGrows, FirstBase
<1>4. \A p : Committed(p)' <=> Committed(p)
  BY DEF Committed
<1>5. Existing' \subseteq Existing
  <2>1. ASSUME NEW p \in Existing' PROVE p \in Existing
    <3>1. p \in Publications /\ (row.pending = p \/ Committed(p) \/ \E u \in Uploaders : h[u] = p)
      BY <1>4 DEF Existing
    <3>2. ASSUME NEW u \in Uploaders, h[u] = p PROVE p \in Existing
      <4>1. ~\E i \in 1 .. Len(remote) : h[u] = Receipt(remote[i], i)
        BY <3>1, <3>2, JournalFacts, ReceiptFacts, RecordFacts
      <4>2. p # Nothing
        BY <3>1, RecordFacts
      <4> QED BY <3>1, <3>2, <4>1, <4>2 DEF Existing
    <3> QED BY <3>1, <3>2 DEF Existing
  <2> QED BY <2>1
<1>6. IdsUnique'
  BY <1>5, JournalFacts DEF IdsUnique
<1>7. HandsKnown'
  <2> SUFFICES ASSUME NEW u \in Uploaders
               PROVE  /\ h[u] \in Publications => h[u] = row.pending \/ Committed(h[u])
                      /\ h[u] \in Receipts => \E i \in 1 .. Len(remote) : h[u] = Receipt(remote[i], i)
    BY <1>4 DEF HandsKnown
  <2>1. CASE \E i \in 1 .. Len(remote) : h[u] = Receipt(remote[i], i)
    BY <2>1, JournalFacts, ReceiptFacts, RecordFacts
  <2>2. CASE h[u] = hand[u]
    BY <2>2, JournalFacts DEF HandsKnown
  <2>3. CASE h[u] \in {Nothing, row.pending}
    BY <2>3, JournalFacts, RecordFacts
  <2> QED BY <2>1, <2>2, <2>3
<1> QED BY <1>1, <1>2, <1>3, <1>6, <1>7, EvidenceParts DEF JournalInv

\* The captures grow by s, or stay.
LEMMA FoundStays ==
    ASSUME JournalInv, UNCHANGED <<row, remote>>, captures \subseteq captures', NEW s, s \in kept \/ s \in captures'
    PROVE  Found(s)'
BY JournalFacts DEF Found

LEMMA CaptureStepKeeps ==
    ASSUME JournalInv, NEW s \in Snapshots, JournalCapture(s)
    PROVE  JournalInv'
<1>1. JournalTypeOK /\ UNCHANGED <<row, remote, hand, operations>> /\ captures' = captures \cup {s} /\ kept' = kept \cup {s}
  BY DEF JournalCapture, JournalInv
<1>2. \A x \in kept' : Found(x)'
  BY <1>1, FoundStays
<1>3. captures' \subseteq Snapshots /\ IsFiniteSet(captures') /\ Weight(HeldIn(captures', row.pending)) <= Backlog
  BY <1>1, StoresFits DEF JournalCapture
<1>4. hand \in [Uploaders -> Publications \cup Receipts \cup {Nothing}] /\ kept' \subseteq Snapshots
  BY <1>1 DEF JournalTypeOK
<1> QED BY <1>1, <1>2, <1>3, <1>4, RowKeeps

\* Adopting what is pending, and losing what a process held.
LEMMA HandKeeps ==
    ASSUME JournalInv, NEW u \in Uploaders, NEW h, h \in {Nothing, row.pending} \/ \E i \in 1 .. Len(remote) : h = Receipt(remote[i], i),
           hand' = [hand EXCEPT ![u] = h], UNCHANGED <<row, remote, operations, captures, kept>>
    PROVE  JournalInv'
<1>1. JournalTypeOK /\ row.pending \in Publications \cup {Nothing}
  BY JournalFacts
<1>2. h \in Publications \cup Receipts \cup {Nothing}
  BY <1>1, JournalFacts, ReceiptFacts
<1>3. PICK g \in [Uploaders -> Publications \cup Receipts \cup {Nothing}] : g = [hand EXCEPT ![u] = h]
  BY <1>1, <1>2 DEF JournalTypeOK
<1>4. \A v \in Uploaders : g[v] = IF v = u THEN h ELSE hand[v]
  BY <1>1, <1>3 DEF JournalTypeOK
<1>5. \A x \in kept' : Found(x)'
  BY FoundStays
<1>6. captures' \subseteq Snapshots /\ IsFiniteSet(captures') /\ kept' \subseteq Snapshots /\ Weight(HeldIn(captures', row.pending)) <= Backlog
  <2>1. Bytes = Weight(HeldIn(captures, row.pending)) /\ Bytes <= Backlog
    BY <1>1, BytesNow, JournalFacts
  <2> QED BY <1>1, <2>1 DEF JournalTypeOK
<1> QED BY <1>3, <1>4, <1>5, <1>6, RowKeeps

\* What the accepted receipt matches is on the server.
LEMMA AcceptedFound ==
    ASSUME JournalInv, row.accepted # Nothing, NEW s, Matches(row.accepted, s)
    PROVE  \E i \in DOMAIN remote : Matches(remote[i], s)
<1>1. row.accepted.seq \in DOMAIN remote /\ Receipt(remote[row.accepted.seq], row.accepted.seq) = row.accepted
  BY JournalFacts DEF AcceptedKnown
<1>2. PICK i \in DOMAIN remote : i = row.accepted.seq /\ remote[i] \in Publications /\ i \in Nat
  BY <1>1, JournalFacts
<1>3. remote[i].body = row.accepted.body /\ remote[i].title = row.accepted.title
  BY <1>1, <1>2, ReceiptFacts
<1> QED BY <1>3 DEF Matches

\* A capture becomes the pending publication.
LEMMA PromoteKeeps ==
    ASSUME JournalInv, NEW u \in Uploaders, NEW s \in Snapshots, NEW held, s \in held, captures \subseteq held, held \subseteq captures \cup {s},
           held \subseteq Snapshots, IsFiniteSet(held), Weight(HeldIn(held, row.pending)) <= Backlog,
           row.pending = Nothing, row.accepted = Nothing \/ Extends(s),
           operations' = operations + 1, row' = [row EXCEPT !.source = s.file, !.pending = Publication(s)],
           hand' = [hand EXCEPT ![u] = Publication(s)], captures' = held \ {s}, UNCHANGED remote,
           kept' \subseteq kept \cup {s}
    PROVE  JournalInv'
<1> DEFINE p == Publication(s)
<1>0. JournalTypeOK /\ operations \in Nat /\ row.accepted \in Receipts \cup {Nothing}
  BY JournalFacts DEF JournalTypeOK
<1>1. /\ p \in Publications /\ p.id = operations + 1 /\ p.body = s.body /\ p.title = s.title
      /\ p.base = IF row.accepted = Nothing THEN 0 ELSE row.accepted.seq
  <2>1. row.accepted # Nothing => row.accepted.seq \in Nat
    BY <1>0 DEF Receipts
  <2> QED BY <1>0, <2>1, SnapshotFacts DEF Publication, Publications
<1> HIDE DEF p
<1>2. p # Nothing /\ p \notin Receipts
  BY <1>1, RecordFacts
<1>3. row'.pending = p /\ row'.accepted = row.accepted
  BY <1>0 DEF JournalTypeOK, p
<1>4. \A v \in Uploaders : hand'[v] = IF v = u THEN p ELSE hand[v]
  BY <1>0 DEF JournalTypeOK, p
<1>5. IsFiniteSet(held \ {s}) /\ Weight(HeldIn(held, row.pending)) = Len(s.body) + Weight(HeldIn(held \ {s}, row.pending))
      /\ row.pending \in Publications \cup {Nothing}
  BY HeldLess, JournalFacts
<1>6. JournalTypeOK'
  <2>1. row' \in [source : CapturedFiles \cup {Nothing}, accepted : Receipts \cup {Nothing}, pending : Publications \cup {Nothing}]
    BY <1>0, <1>1, SnapshotFacts DEF JournalTypeOK, p
  <2>2. hand' \in [Uploaders -> Publications \cup Receipts \cup {Nothing}]
    BY <1>0, <1>1 DEF JournalTypeOK, p
  <2> QED BY <1>0, <1>5, <2>1, <2>2 DEF JournalTypeOK
<1>7. Bytes' <= Backlog
  <2>1. Weight(HeldIn(held \ {s}, p)) = Len(p.body) + Weight(held \ {s})
    BY <1>1, <1>2, <1>5, BytesOf
  <2>2. HeldIn(held \ {s}, row.pending) = held \ {s}
    BY DEF HeldIn
  <2>3. Bytes' = Weight(HeldIn(held \ {s}, p))
    BY <1>3, <1>6, BytesNext
  <2> QED BY <1>1, <1>5, <2>1, <2>2, <2>3
<1>8. ASSUME NEW x \in kept' PROVE Found(x)'
  <2>1. CASE x = s
    BY <1>1, <1>2, <1>3, <2>1 DEF Found, Matches
  <2>2. CASE x # s
    <3>1. Found(x)
      BY <2>2, JournalFacts
    <3> QED BY <2>2, <3>1 DEF Found
  <2> QED BY <2>1, <2>2
<1>9. AcceptedKnown' /\ HistoryGrows' /\ FirstBase'
  <2>1. AcceptedKnown /\ HistoryGrows
    BY JournalFacts
  <2>2. row.accepted # Nothing => IsPrefix(row.accepted.body, p.body)
    BY <1>1 DEF Extends
  <2> QED BY <1>1, <1>3, <2>1, <2>2 DEF AcceptedKnown, HistoryGrows, FirstBase
<1>10. \A q : Committed(q)' <=> Committed(q)
  BY DEF Committed
<1>11. \A q \in Existing' : q = p \/ q \in Existing
  BY <1>3, <1>4, <1>10 DEF Existing
<1>12. IdsUnique'
  <2>1. \A q \in Existing : q.id \in Nat /\ q.id <= operations
    BY JournalFacts DEF IdsUnique, Existing, Publications
  <2>2. \A q \in Existing' : q.id <= operations'
    BY <1>0, <1>1, <1>11, <2>1
  <2>3. \A q \in Existing : q.id # p.id
    BY <1>0, <1>1, <2>1
  <2>4. \A q, r \in Existing' : q.id = r.id => q = r
    BY <1>11, <2>3, JournalFacts DEF IdsUnique
  <2> QED BY <2>2, <2>4 DEF IdsUnique
<1>13. HandsKnown'
  <2> SUFFICES ASSUME NEW v \in Uploaders
               PROVE  /\ hand'[v] \in Publications => hand'[v] = row'.pending \/ Committed(hand'[v])
                      /\ hand'[v] \in Receipts => \E i \in 1 .. Len(remote) : hand'[v] = Receipt(remote[i], i)
    BY <1>10 DEF HandsKnown, Committed
  <2>1. CASE v = u
    BY <1>2, <1>3, <1>4, <2>1
  <2>2. CASE v # u
    BY <1>4, <2>2, JournalFacts, RecordFacts DEF HandsKnown
  <2> QED BY <2>1, <2>2
<1> QED BY <1>6, <1>7, <1>8, <1>9, <1>12, <1>13, EvidenceParts DEF JournalInv

LEMMA PreparedKeeps ==
    ASSUME JournalInv, NEW u \in Uploaders, NEW s \in Snapshots, NEW held, s \in held, captures \subseteq held, held \subseteq captures \cup {s},
           held \subseteq Snapshots, IsFiniteSet(held), Weight(HeldIn(held, row.pending)) <= Backlog,
           PrepareCaptured(u, s, held), kept' = kept \/ kept' = kept \cup {s}
    PROVE  JournalInv'
<1>0. JournalTypeOK /\ row.pending \in Publications \cup {Nothing} /\ kept' \subseteq Snapshots /\ kept' \subseteq kept \cup {s}
      /\ hand \in [Uploaders -> Publications \cup Receipts \cup {Nothing}] /\ remote' = remote
  BY JournalFacts DEF JournalTypeOK, PrepareCaptured
<1>1. CASE captures' = held /\ UNCHANGED <<row, hand, operations>>
  <2>1. \A x \in kept' : Found(x)'
    BY <1>0, <1>1, FoundStays
  <2> QED BY <1>0, <1>1, <2>1, RowKeeps
<1>2. CASE captures' = held /\ hand' = [hand EXCEPT ![u] = row.pending] /\ UNCHANGED <<row, operations>>
  <2>1. \A x \in kept' : Found(x)'
    BY <1>0, <1>2, FoundStays
  <2>2. PICK g \in [Uploaders -> Publications \cup Receipts \cup {Nothing}] : g = [hand EXCEPT ![u] = row.pending]
    BY <1>0
  <2>3. \A v \in Uploaders : g[v] = IF v = u THEN row.pending ELSE hand[v]
    BY <1>0, <2>2
  <2> QED BY <1>0, <1>2, <2>1, <2>2, <2>3, RowKeeps
<1>3. CASE row.accepted # Nothing /\ Matches(row.accepted, s) /\ captures' = held \ {s} /\ UNCHANGED <<row, hand, operations>>
  <2>1. ASSUME NEW x \in kept' PROVE Found(x)'
    <3>1. CASE x = s
      BY <1>0, <1>3, <3>1, AcceptedFound DEF Found
    <3>2. CASE x # s
      <4>1. Found(x)
        BY <1>0, <3>2, JournalFacts
      <4> QED BY <1>0, <1>3, <3>2, <4>1 DEF Found
    <3> QED BY <3>1, <3>2
  <2>2. IsFiniteSet(held \ {s}) /\ Weight(HeldIn(held \ {s}, row.pending)) <= Backlog
    <3>1. IsFiniteSet(held \ {s}) /\ Weight(HeldIn(held \ {s}, row.pending)) <= Weight(HeldIn(held, row.pending))
      BY <1>0, HeldLess
    <3>2. Weight(HeldIn(held \ {s}, row.pending)) \in Nat /\ Weight(HeldIn(held, row.pending)) \in Nat
      BY <1>0, <3>1, BytesOf
    <3> QED BY <3>1, <3>2, JournalAssumption
  <2> QED BY <1>0, <1>3, <2>1, <2>2, RowKeeps
<1>4. CASE /\ row.pending = Nothing /\ (row.accepted = Nothing \/ Extends(s))
           /\ operations' = operations + 1 /\ row' = [row EXCEPT !.source = s.file, !.pending = Publication(s)]
           /\ hand' = [hand EXCEPT ![u] = Publication(s)] /\ captures' = held \ {s}
  BY <1>0, <1>4, PromoteKeeps
<1> QED BY <1>1, <1>2, <1>3, <1>4 DEF PrepareCaptured

LEMMA PrepareKeeps ==
    ASSUME JournalInv, NEW u \in Uploaders, NEW s \in Snapshots, PrepareCapture(u, s) \/ JournalPrepare(u, s)
    PROVE  JournalInv'
<1>0. JournalTypeOK /\ row.pending \in Publications \cup {Nothing} /\ Bytes <= Backlog
  BY JournalFacts
<1>1. CASE PrepareCapture(u, s)
  <2>1. s \in captures /\ PrepareCaptured(u, s, captures) /\ kept' = kept
    BY <1>1 DEF PrepareCapture
  <2>2. captures \subseteq Snapshots /\ IsFiniteSet(captures) /\ Weight(HeldIn(captures, row.pending)) <= Backlog
    BY <1>0, BytesNow DEF JournalTypeOK
  <2> QED BY <2>1, <2>2, PreparedKeeps
<1>2. CASE JournalPrepare(u, s)
  <2>1. CASE hand' = [hand EXCEPT ![u] = row.pending] /\ UNCHANGED <<row, captures, remote, operations, kept>>
    BY <2>1, HandKeeps
  <2>2. CASE UNCHANGED journalVars
    <3>1. UNCHANGED <<row, captures, remote, hand, operations, kept>>
      BY <2>2 DEF journalVars
    <3>2. \A x \in kept' : Found(x)'
      BY <3>1, FoundStays
    <3> QED BY <1>0, <3>1, <3>2, BytesNow, RowKeeps DEF JournalTypeOK
  <2>3. CASE Stores(s) /\ PrepareCaptured(u, s, captures \cup {s}) /\ kept' = kept \cup {s}
    <3>1. PICK held : held = captures \cup {s}
      OBVIOUS
    <3>2. PrepareCaptured(u, s, held) /\ s \in held /\ captures \subseteq held /\ held \subseteq captures \cup {s}
      BY <2>3, <3>1
    <3> QED BY <2>3, <3>1, <3>2, StoresFits, PreparedKeeps
  <2> QED BY <1>2, <2>1, <2>2, <2>3 DEF JournalPrepare
<1> QED BY <1>1, <1>2

\* What a process holds without a receipt is a publication that exists.
LEMMA HeldExists ==
    ASSUME JournalInv, NEW u \in Uploaders, hand[u] # Nothing
    PROVE  /\ Publishing(u) => hand[u] \in Publications /\ hand[u] \in Existing
           /\ ~Publishing(u) => hand[u] \in Receipts /\ \E i \in 1 .. Len(remote) : hand[u] = Receipt(remote[i], i)
<1>1. hand[u] \in Publications \cup Receipts
  BY JournalFacts DEF JournalTypeOK
<1>2. Publishing(u) <=> hand[u] \in Publications
  BY <1>1, RecordFacts DEF Publishing
<1> QED BY <1>1, <1>2, JournalFacts DEF HandsKnown, Existing

\* The server commits the pending publication on top of the last.
LEMMA CommitKeeps ==
    ASSUME JournalInv, NEW u \in Uploaders, Publishing(u), \A i \in DOMAIN remote : remote[i].id # hand[u].id,
           hand[u].base = Len(remote), remote' = Append(remote, hand[u]), UNCHANGED <<row, captures, operations, kept>>,
           hand' = [hand EXCEPT ![u] = Receipt(hand[u], Len(remote) + 1)] \/ hand' = [hand EXCEPT ![u] = Nothing]
    PROVE  JournalInv'
<1>0. /\ JournalTypeOK /\ Len(remote) \in Nat /\ DOMAIN remote = 1 .. Len(remote)
      /\ \A i \in 1 .. Len(remote) : remote[i] \in Publications
  BY JournalFacts
<1>1. PICK p \in Publications : p = hand[u] /\ p = row.pending /\ p # Nothing
  <2>1. hand[u] \in Publications /\ hand[u] # Nothing
    BY HeldExists DEF Publishing
  <2>2. ~Committed(hand[u])
    BY <1>0 DEF Committed
  <2> QED BY <2>1, <2>2, JournalFacts DEF HandsKnown
<1> DEFINE n == Len(remote) + 1
<1>2. /\ remote' \in Seq(Publications) /\ Len(remote') = n /\ remote'[n] = p /\ DOMAIN remote' = 1 .. n
      /\ \A i \in 1 .. Len(remote) : remote'[i] = remote[i]
  <2>1. remote' = Append(remote, p) /\ remote \in Seq(Publications)
    BY <1>0, <1>1 DEF JournalTypeOK
  <2> QED BY <2>1, AppendProperties, LenProperties
<1>3. n \in Nat /\ \A i \in 1 .. n : i \in 1 .. Len(remote) \/ i = n
  BY <1>0
<1>4. Receipt(p, n) \in Receipts
  BY <1>3, ReceiptFacts
<1>5. hand' \in [Uploaders -> Publications \cup Receipts \cup {Nothing}]
      /\ \A v \in Uploaders : IF v = u THEN hand'[v] \in {Receipt(p, n), Nothing} ELSE hand'[v] = hand[v]
  BY <1>0, <1>1, <1>4 DEF JournalTypeOK
<1>6. JournalTypeOK'
  BY <1>0, <1>2, <1>5 DEF JournalTypeOK
<1>7. Bytes' <= Backlog
  BY <1>0, <1>6, BytesNow, BytesNext, JournalFacts
<1> HIDE DEF n
<1>8. \A i \in 1 .. Len(remote) : i \in 1 .. n
  BY <1>0 DEF n
<1>9. n \in 1 .. n
  BY <1>0, <1>3 DEF n
<1>10. ASSUME NEW s \in kept' PROVE Found(s)'
  <2>1. Found(s)
    BY JournalFacts
  <2> QED BY <1>0, <1>2, <1>8, <2>1 DEF Found
<1>11. AcceptedKnown' /\ FirstBase'
  BY <1>0, <1>2, <1>8, JournalFacts DEF AcceptedKnown, FirstBase
<1>12. HistoryGrows'
  <2> SUFFICES ASSUME NEW i \in 1 .. n, i > 1 PROVE IsPrefix(remote'[i-1].body, remote'[i].body)
    BY <1>2 DEF HistoryGrows
  <2>1. CASE i \in 1 .. Len(remote)
    <3>1. i - 1 \in 1 .. Len(remote)
      BY <1>0, <2>1
    <3> QED BY <1>0, <1>2, <2>1, <3>1, JournalFacts DEF HistoryGrows
  <2>2. CASE i = n
    <3>1. i - 1 = Len(remote) /\ Len(remote) \in 1 .. Len(remote)
      BY <1>0, <2>2 DEF n
    <3>2. row.accepted # Nothing
      BY <1>0, <1>1, <3>1, JournalFacts DEF FirstBase
    <3>3. row.accepted.seq = Len(remote) /\ Receipt(remote[Len(remote)], Len(remote)) = row.accepted /\ IsPrefix(row.accepted.body, p.body)
      BY <1>1, <3>2, JournalFacts DEF AcceptedKnown
    <3>4. row.accepted.body = remote[Len(remote)].body
      BY <1>0, <3>1, <3>3, ReceiptFacts
    <3> QED BY <1>2, <2>2, <3>1, <3>3, <3>4
  <2> QED BY <1>3, <2>1, <2>2
<1>13. \A q : Committed(q)' <=> Committed(q) \/ q = p
  BY <1>2, <1>3, <1>8, <1>9 DEF Committed
<1>14. Existing' \subseteq Existing
  <2>1. ASSUME NEW q \in Existing' PROVE q \in Existing
    <3>1. q \in Publications /\ (row.pending = q \/ Committed(q) \/ \E v \in Uploaders : hand'[v] = q)
      BY <1>1, <1>13 DEF Existing
    <3>2. ASSUME NEW v \in Uploaders, hand'[v] = q PROVE hand[v] = q
      BY <1>4, <1>5, <3>1, <3>2, RecordFacts
    <3> QED BY <3>1, <3>2 DEF Existing
  <2> QED BY <2>1
<1>15. IdsUnique'
  BY <1>14, JournalFacts DEF IdsUnique
<1>16. HandsKnown'
  <2> SUFFICES ASSUME NEW v \in Uploaders
               PROVE  /\ hand'[v] \in Publications => hand'[v] = row.pending \/ Committed(hand'[v]) \/ hand'[v] = p
                      /\ hand'[v] \in Receipts => \E i \in 1 .. n : hand'[v] = Receipt(remote'[i], i)
    BY <1>2, <1>13 DEF HandsKnown, Committed
  <2>1. CASE v = u
    BY <1>2, <1>4, <1>5, <1>9, <2>1, RecordFacts
  <2>2. CASE v # u
    BY <1>2, <1>5, <1>8, <2>2, JournalFacts DEF HandsKnown
  <2> QED BY <2>1, <2>2
<1> QED BY <1>6, <1>7, <1>10, <1>11, <1>12, <1>15, <1>16, EvidenceParts DEF JournalInv

LEMMA PublishKeeps ==
    ASSUME JournalInv, NEW u \in Uploaders, JournalPublish(u)
    PROVE  JournalInv'
<1> DEFINE known == {i \in DOMAIN remote : remote[i].id = hand[u].id}
<1>0. Publishing(u) /\ hand[u] # Nothing /\ UNCHANGED <<row, captures, operations, kept>>
  BY DEF JournalPublish, Publishing
<1>1. CASE known # {} /\ hand' = [hand EXCEPT ![u] = Receipt(hand[u], CHOOSE i \in known : TRUE)] /\ UNCHANGED remote
  <2>1. PICK i \in 1 .. Len(remote) : i = (CHOOSE x \in known : TRUE) /\ remote[i].id = hand[u].id
    BY <1>1, JournalFacts
  <2>2. remote[i] \in Existing /\ hand[u] \in Existing
    BY <1>0, HeldExists, JournalFacts DEF Existing, Committed
  <2>3. remote[i] = hand[u]
    BY <2>1, <2>2, JournalFacts DEF IdsUnique
  <2>4. hand' = [hand EXCEPT ![u] = Receipt(remote[i], i)]
    BY <1>1, <2>1, <2>3
  <2> HIDE DEF known
  <2>5. PICK h : h = Receipt(remote[i], i)
    OBVIOUS
  <2> QED BY <1>0, <1>1, <2>4, <2>5, HandKeeps
<1>2. CASE /\ known = {} /\ hand[u].base = Len(remote) /\ remote' = Append(remote, hand[u])
           /\ hand' \in {[hand EXCEPT ![u] = Receipt(hand[u], Len(remote) + 1)], [hand EXCEPT ![u] = Nothing]}
  BY <1>0, <1>2, CommitKeeps
<1>3. CASE hand' = [hand EXCEPT ![u] = Nothing] /\ UNCHANGED remote
  BY <1>0, <1>3, HandKeeps
<1> QED BY <1>1, <1>2, <1>3 DEF JournalPublish

\* accept(): what is settled is committed.
LEMMA SettleKeeps ==
    ASSUME JournalInv, NEW u \in Uploaders, hand[u] # Nothing, ~Publishing(u), Settles(hand[u]),
           row' = [row EXCEPT !.accepted = hand[u], !.pending = Nothing], hand' = [hand EXCEPT ![u] = Nothing],
           UNCHANGED <<captures, remote, operations, kept>>
    PROVE  JournalInv'
<1>0. /\ JournalTypeOK /\ Len(remote) \in Nat /\ DOMAIN remote = 1 .. Len(remote) /\ row.pending \in Publications
      /\ \A i \in 1 .. Len(remote) : remote[i] \in Publications
  BY JournalFacts DEF Settles
<1>1. PICK i \in 1 .. Len(remote) : hand[u] = Receipt(remote[i], i) /\ hand[u] \in Receipts /\ i \in Nat
  BY <1>0, HeldExists
<1>2. hand[u].seq = i /\ Receipt(row.pending, i) = Receipt(remote[i], i)
  BY <1>0, <1>1, ReceiptFacts DEF Settles
<1>3. row.pending = remote[i]
  <2>1. row.pending.id = remote[i].id
    BY <1>2 DEF Receipt
  <2>2. row.pending \in Existing /\ remote[i] \in Existing
    BY <1>0 DEF Existing, Committed
  <2> QED BY <2>1, <2>2, JournalFacts DEF IdsUnique
<1>4. row'.pending = Nothing /\ row'.accepted = hand[u]
  BY <1>0 DEF JournalTypeOK
<1>5. \A v \in Uploaders : hand'[v] = IF v = u THEN Nothing ELSE hand[v]
  BY <1>0 DEF JournalTypeOK
<1>6. JournalTypeOK'
  BY <1>0, <1>1 DEF JournalTypeOK
<1>7. Bytes' <= Backlog
  <2>1. captures \subseteq Snapshots /\ IsFiniteSet(captures) /\ row.pending # Nothing
    BY <1>0, RecordFacts DEF JournalTypeOK
  <2>2. Weight(HeldIn(captures, row.pending)) = Len(row.pending.body) + Weight(captures) /\ Len(row.pending.body) \in Nat /\ Weight(captures) \in Nat
    BY <1>0, <2>1, BytesOf
  <2>3. Bytes = Weight(HeldIn(captures, row.pending)) /\ Bytes <= Backlog
    BY <1>0, BytesNow, JournalFacts
  <2>4. Bytes' = Weight(captures)
    BY <1>4, <1>6, BytesNext DEF HeldIn
  <2> QED BY <2>2, <2>3, <2>4, JournalAssumption
<1>8. ASSUME NEW s \in kept' PROVE Found(s)'
  <2>1. Found(s)
    BY JournalFacts
  <2> QED BY <1>0, <1>3, <2>1 DEF Found
<1>9. AcceptedKnown' /\ HistoryGrows' /\ FirstBase'
  BY <1>0, <1>1, <1>2, <1>4, JournalFacts DEF AcceptedKnown, HistoryGrows, FirstBase
<1>10. \A q : Committed(q)' <=> Committed(q)
  BY DEF Committed
<1>11. Existing' \subseteq Existing
  BY <1>4, <1>5, <1>10, RecordFacts DEF Existing
<1>12. IdsUnique'
  BY <1>11, JournalFacts DEF IdsUnique
<1>13. HandsKnown'
  <2> SUFFICES ASSUME NEW v \in Uploaders
               PROVE  /\ hand'[v] \in Publications => Committed(hand'[v])
                      /\ hand'[v] \in Receipts => \E k \in 1 .. Len(remote) : hand'[v] = Receipt(remote[k], k)
    BY <1>10 DEF HandsKnown, Committed
  <2>1. Committed(row.pending)
    BY <1>3 DEF Committed
  <2>2. CASE v = u
    BY <1>5, <2>2, RecordFacts
  <2>3. CASE v # u
    BY <1>5, <2>1, <2>3, JournalFacts DEF HandsKnown
  <2> QED BY <2>2, <2>3
<1> QED BY <1>6, <1>7, <1>8, <1>9, <1>12, <1>13, EvidenceParts DEF JournalInv

LEMMA JournalInitInv ==
    ASSUME JournalInit
    PROVE  JournalInv
<1>1. row.pending = Nothing /\ row.accepted = Nothing /\ captures = {} /\ remote = <<>> /\ operations = 0 /\ kept = {}
      /\ \A u \in Uploaders : hand[u] = Nothing
  BY DEF JournalInit
<1>2. JournalTypeOK
  <2>1. row \in [source : CapturedFiles \cup {Nothing}, accepted : Receipts \cup {Nothing}, pending : Publications \cup {Nothing}]
    BY DEF JournalInit
  <2>2. hand \in [Uploaders -> Publications \cup Receipts \cup {Nothing}]
    BY DEF JournalInit
  <2> QED BY <1>1, <2>1, <2>2, FS_EmptySet DEF JournalTypeOK
<1>3. Len(remote) = 0 /\ DOMAIN remote = {}
  BY <1>1
<1>4. Existing = {}
  BY <1>1, <1>3, RecordFacts DEF Existing, Committed
<1>5. IdsUnique /\ HandsKnown /\ FirstBase
  BY <1>1, <1>4, RecordFacts DEF IdsUnique, HandsKnown, FirstBase
<1>6. Bytes <= Backlog
  <2>1. Bytes = Weight({})
    BY <1>1, <1>2, BytesNow DEF HeldIn
  <2>2. Weight({}) = 0
    BY UnitsOfNone, FS_EmptySet DEF Weight
  <2> QED BY <2>1, <2>2, JournalAssumption
<1>7. AcceptedKnown /\ HistoryGrows
  BY <1>1, <1>3 DEF AcceptedKnown, HistoryGrows
<1> QED BY <1>1, <1>2, <1>5, <1>6, <1>7, EvidenceParts DEF JournalInv

\* Whatever processes share the journal and whatever replies are lost, bytes it took
\* over stay in a capture, in the pending publication or on the server, the backlog
\* keeps its limit, and what is accepted was committed and is built upon (capture,
\* prepare, prepareCaptured and accept of ArchiveJournal).
THEOREM EvidenceKeptTheorem == JournalSpec => []EvidenceKept
<1>1. JournalInv /\ [JournalNext]_journalVars => JournalInv'
  <2> SUFFICES ASSUME JournalInv, [JournalNext]_journalVars PROVE JournalInv'
    OBVIOUS
  <2>1. CASE UNCHANGED journalVars
    <3>1. UNCHANGED <<row, captures, remote, hand, operations, kept>>
      BY <2>1 DEF journalVars
    <3>2. \A x \in kept' : Found(x)'
      BY <3>1, FoundStays
    <3> QED BY <3>1, <3>2, BytesNow, JournalFacts, RowKeeps DEF JournalTypeOK
  <2>2. ASSUME NEW u \in Uploaders, Adopt(u) \/ Forget(u) PROVE JournalInv'
    BY <2>2, HandKeeps DEF Adopt, Forget
  <2>3. ASSUME NEW u \in Uploaders, JournalAccept(u) PROVE JournalInv'
    <3>1. CASE Settles(hand[u])
      BY <2>3, <3>1, SettleKeeps DEF JournalAccept
    <3>2. CASE ~Settles(hand[u])
      BY <2>3, <3>2, HandKeeps DEF JournalAccept
    <3> QED BY <3>1, <3>2
  <2> QED BY <2>1, <2>2, <2>3, CaptureStepKeeps, PrepareKeeps, PublishKeeps DEF JournalNext
<1>2. JournalInv => EvidenceKept
  BY DEF JournalInv
<1> QED BY <1>1, <1>2, JournalInitInv, PTL DEF JournalSpec

=============================================================================
