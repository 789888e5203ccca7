------------------------------- MODULE StoreIndex -------------------------------
(***************************************************************************)
(* Authority and derived index of a private store: the immutable files of  *)
(* journal.ts, controls.ts and acknowledgements.ts, the SQLite generations *)
(* over them (storage/index-cache.ts), and the operations of store.ts that *)
(* keep the two together.                                                  *)
(*                                                                         *)
(* One session at a time holds the operation lease (StoreLease); reporting *)
(* readers take no lease and run at any time.  Each durable write and each *)
(* SQLite transaction is one action: Crash falls between any two, and      *)
(* inside a transaction.                                                   *)
(***************************************************************************)
EXTENDS Naturals, FiniteSets

CONSTANTS
    Record,        \* public records, each known by its hash
    Control,       \* those that are controls
    Unit,          \* usage units
    UnitOf,        \* the unit of a record
    Reporter,      \* whether somebody reports while the store is in use
    BatchEntries,  \* files a bounded rebuild replays in one slice (256)
    ReceiptSize,   \* hashes of one acknowledgement file (3000)
    MaxEntries,    \* bound: journal entries
    MaxFaults,     \* bound: failed writes, crashes and invalidated caches
    MaxTampers     \* bound: changes of authority by somebody else

ASSUME StoreAssumption ==
    /\ IsFiniteSet(Record) /\ Control \subseteq Record
    /\ UnitOf \in [Record -> Unit]
    /\ Reporter \in BOOLEAN
    /\ BatchEntries \in Nat \ {0} /\ ReceiptSize \in Nat \ {0}
    /\ MaxEntries \in Nat /\ MaxFaults \in Nat /\ MaxTampers \in Nat

VARIABLES
    authority,  \* the immutable files
    index,      \* cache/index.sqlite and index.json
    stage,      \* cache/index-stage.sqlite and index-stage.json
    leased,     \* whether locks/operation.lock exists
    pc,         \* where the session stands
    op,         \* the operation it runs
    handle,     \* Store.index and the failed flags of the lease
    draft,      \* the uncommitted transaction of a rebuild
    left,       \* files the slice may still replay
    result,     \* how the session's last refused operation was refused
    answer,     \* what pending() returned last
    reader,     \* the reporting reader
    faults,     \* how many of these there were
    tampers,    \* changes of authority so far
    noticeable  \* whether a trusted index once named a file that was gone

session == << op, handle, draft, left, result >>
bounds == << faults, tampers, noticeable >>
vars == << authority, index, stage, leased, pc, session, answer, reader, bounds >>

-----------------------------------------------------------------------------
(* Authority.  Paths name the sequence of an entry and the hash of anything  *)
(* else; `stamp` stands for the metadata a fingerprint also covers.          *)

File == [kind : {"journal", "control", "receipt"}, seq : Nat, holds : SUBSET Record, stamp : Nat]

NewFile(kind, seq, holds) == [kind |-> kind, seq |-> seq, holds |-> holds, stamp |-> 0]

\* Mutant of Rank: files are replayed in the lexical order of their paths.
RankLexical(f) ==
    IF f.kind = "receipt" THEN 0 ELSE IF f.kind = "control" THEN 1 ELSE 1 + f.seq

Rank(f) == IF f.kind = "journal" THEN f.seq ELSE MaxEntries + (IF f.kind = "control" THEN 1 ELSE 2)

SamePath(f, g) ==
    /\ f.kind = g.kind
    /\ IF f.kind = "journal" THEN f.seq = g.seq ELSE f.holds = g.holds

Holds(files, kinds) == UNION {f.holds : f \in {g \in files : g.kind \in kinds}}
Captured(files) == Holds(files, {"journal", "control"})
Receipted(files) == Holds(files, {"receipt"})
Owed(files) == Captured(files) \ Receipted(files)

-----------------------------------------------------------------------------
(* The database and what its statements do.                                  *)

Database ==
    [journal : SUBSET File, records : SUBSET Record, controls : SUBSET Record,
     acknowledgements : SUBSET Record, pending : SUBSET Record,
     pendingUnits : [Unit -> Nat], files : SUBSET File, progress : SUBSET File]

EmptyDatabase(files) ==
    [journal |-> {}, records |-> {}, controls |-> {}, acknowledgements |-> {}, pending |-> {},
     pendingUnits |-> [u \in Unit |-> 0], files |-> files, progress |-> {}]

InUnit(records, u) == Cardinality({r \in records : UnitOf[r] = u})

\* Mutant of InsertRecords: a record that is known counts again.
InsertRecordsAgain(db, records) ==
    [db EXCEPT !.records = @ \cup records,
               !.pending = @ \cup (records \ db.records),
               !.pendingUnits = [u \in Unit |-> @[u] + InUnit(records, u)]]

InsertRecords(db, records) ==
    LET added == records \ db.records
    IN  [db EXCEPT !.records = @ \cup added,
                   !.pending = @ \cup added,
                   !.pendingUnits = [u \in Unit |-> @[u] + InUnit(added, u)]]

AddEntry(db, f) == [InsertRecords(db, f.holds) EXCEPT !.journal = @ \cup {f}]

AddControl(db, f) == [InsertRecords(db, f.holds) EXCEPT !.controls = @ \cup f.holds]

AddAcknowledgements(db, hashes) ==
    LET settled == hashes \cap db.pending
    IN  [db EXCEPT !.acknowledgements = @ \cup hashes,
                   !.pending = @ \ hashes,
                   !.pendingUnits = [u \in Unit |-> @[u] - InUnit(settled, u)]]

Add(db, f) ==
    CASE f.kind = "journal" -> AddEntry(db, f)
      [] f.kind = "control" -> AddControl(db, f)
      [] f.kind = "receipt" -> AddAcknowledgements(db, f.holds)

-----------------------------------------------------------------------------
(* A generation is a database (none when it is missing or torn), a manifest  *)
(* that names the files it was built from and its own fingerprint, and       *)
(* perhaps a rollback journal that a crash left.                             *)

Generation ==
    [db : SUBSET Database, manifest : SUBSET [files : SUBSET File, database : Database], hot : BOOLEAN]

Gone == [db |-> {}, manifest |-> {}, hot |-> FALSE]

Manifest(files, dbs) == {[files |-> files, database |-> db] : db \in dbs}

Names(gen, files) == gen.db # {} /\ gen.manifest = Manifest(files, gen.db)

\* `previous` of the code: an intact generation over other files than today's.
Previous(gen, files) ==
    {f \in UNION {db.files : db \in gen.db} :
        ~Names(gen, files) /\ \E db \in gen.db : Names(gen, db.files)}

\* The index of a file that is there again with the content it had is rebuilt.
LostFrom(gen, files) ==
    {f \in Previous(gen, files) :
        ~\E g \in files : SamePath(f, g) /\ (f.kind = "journal" => f.holds = g.holds)}

-----------------------------------------------------------------------------
(* Sessions *)

Session(bounded) == [open |-> FALSE, changed |-> FALSE, failed |-> FALSE, bounded |-> bounded]
NoOp == [kind |-> "none", holds |-> {}, left |-> {}]
NoDraft == EmptyDatabase({})

Location == {"idle", "ready", "open", "resume", "replay", "stamp", "promote", "publish", "tidy",
             "apply", "receipts", "index", "release"}

Reading == {"off", "journal", "others", "manifest", "query", "queried", "reported"}
NoReader == [at |-> "off", proof |-> 0, files |-> {}, database |-> {}, raw |-> {}, view |-> {}]

TypeOK ==
    /\ authority \in SUBSET File
    /\ index \in Generation /\ stage \in Generation
    /\ leased \in BOOLEAN
    /\ pc \in Location
    /\ op \in [kind : {"none", "entry", "control", "acknowledge", "pending"},
               holds : SUBSET Record, left : SUBSET Record]
    /\ handle \in [open : BOOLEAN, changed : BOOLEAN, failed : BOOLEAN, bounded : BOOLEAN]
    /\ draft \in Database
    /\ left \in Nat
    /\ result \in {"none", "failed", "busy", "invalid"}
    /\ answer \in SUBSET Record
    /\ reader \in [at : Reading, proof : 0 .. 2, files : SUBSET File, database : SUBSET Database,
                   raw : SUBSET [files : SUBSET File, database : Database], view : SUBSET Database]
    /\ faults \in Nat /\ tampers \in Nat /\ noticeable \in BOOLEAN

Init ==
    /\ authority = {} /\ index = Gone /\ stage = Gone
    /\ leased = FALSE /\ pc = "idle"
    /\ op = NoOp /\ handle = Session(FALSE) /\ draft = NoDraft /\ left = 0 /\ result = "none"
    /\ answer = {} /\ reader = NoReader
    /\ faults = 0 /\ tampers = 0 /\ noticeable = FALSE

\* A step of the session that ends at `next`.
At(here, next) == pc = here /\ pc' = next

Fault == faults < MaxFaults /\ faults' = faults + 1

\* What a step of the session may leave alone.
Outside == << leased, reader, tampers, noticeable >>

(* withLock: a lease whose owner is gone is taken over. *)
Begin(bounded) ==
    /\ At("idle", "ready")
    /\ leased' = TRUE
    /\ handle' = Session(bounded)
    /\ result' = "none"
    /\ UNCHANGED << authority, index, stage, op, draft, left, answer, reader, bounds >>

(* operation: calls of one owner queue up; after a failure none is served. *)
Issue(kind, holds) ==
    /\ At("ready", IF handle.open THEN "apply" ELSE "open")
    /\ ~handle.failed
    /\ op' = [kind |-> kind, holds |-> holds, left |-> {}]
    /\ UNCHANGED << authority, index, stage, leased, handle, draft, left, result, answer, reader, bounds >>

\* Every control supersedes the ones it finds, so that none is issued twice.
Issuable == Record \ (Control \cap Captured(authority))

\* Collection journals the controls it decides on together with the usage.
CommitBatch ==
    /\ Cardinality({f \in authority : f.kind = "journal"}) < MaxEntries
    /\ \E records \in SUBSET Issuable : Issue("entry", records)

CommitControl == \E r \in Control \cap Issuable : Issue("control", {r})

AcknowledgeHashes == \E hashes \in SUBSET Record \ {{}} : Issue("acknowledge", hashes)

Pending == Issue("pending", {})

(* The operation ends with an error and the next one starts afresh. *)
Refuse(how) ==
    /\ result' = how
    /\ op' = NoOp /\ draft' = NoDraft /\ left' = 0

-----------------------------------------------------------------------------
(* StoreIndex.open *)

OpenValid ==
    /\ pc = "open"
    /\ Names(index, authority)
    /\ IF index.hot
       THEN pc' = "ready" /\ Refuse("invalid") /\ UNCHANGED handle
       ELSE /\ pc' = "apply"
            /\ handle' = [handle EXCEPT !.open = TRUE]
            /\ UNCHANGED << op, draft, left, result >>
    /\ UNCHANGED << authority, index, stage, answer, faults, Outside >>

OpenLost ==
    /\ At("open", "ready")
    /\ LostFrom(index, authority) # {}
    /\ Refuse("invalid")
    /\ UNCHANGED << authority, index, stage, handle, answer, faults, Outside >>

\* Mutant of OpenStale: files that are gone are no reason to refuse.
OpenStaleAlways ==
    /\ At("open", "resume")
    /\ ~Names(index, authority)
    /\ index' = Gone
    /\ UNCHANGED << authority, stage, session, answer, faults, Outside >>

\* A rollback journal may keep the intact database from being read.  The files
\* are unlinked one by one, the database first: nothing is trusted in between.
OpenStale ==
    /\ At("open", "resume")
    /\ ~Names(index, authority)
    /\ LostFrom(index, authority) = {} \/ index.hot
    /\ index' = Gone
    /\ UNCHANGED << authority, stage, session, answer, faults, Outside >>

-----------------------------------------------------------------------------
(* StoreIndex.rebuild *)

\* Mutant of ReplayFrom: a slice does not continue the one before.
ReplayFromStart(db) ==
    /\ draft' = EmptyDatabase(authority)
    /\ left' = IF handle.bounded THEN BatchEntries ELSE Cardinality(authority)

ReplayFrom(db) ==
    /\ draft' = db
    /\ left' = IF handle.bounded THEN BatchEntries ELSE Cardinality(authority)

ResumeStage ==
    /\ At("resume", "replay")
    /\ Names(stage, authority) /\ ~stage.hot
    /\ \E db \in stage.db : ReplayFrom(db)
    /\ UNCHANGED << authority, index, stage, op, handle, result, answer, faults, Outside >>

StageLost ==
    /\ At("resume", "ready")
    /\ Previous(stage, authority) \ authority # {}
    /\ Refuse("invalid")
    /\ UNCHANGED << authority, index, stage, handle, answer, faults, Outside >>

RestartStage ==
    /\ At("resume", "replay")
    /\ ~Names(stage, authority) \/ stage.hot
    /\ Previous(stage, authority) \subseteq authority \/ stage.hot
    /\ stage' = [Gone EXCEPT !.db = {EmptyDatabase(authority)}]
    /\ ReplayFrom(EmptyDatabase(authority))
    /\ UNCHANGED << authority, index, op, handle, result, answer, faults, Outside >>

\* Entries come first, in their order, then controls, then receipts.
NextFile == {f \in authority \ draft.progress :
                \A g \in authority \ draft.progress : Rank(f) <= Rank(g)}

Replayable(f) ==
    /\ f.kind = "journal" => f.seq = Cardinality(draft.journal) + 1
    /\ f.kind = "receipt" => f.holds \subseteq draft.records

ReplayFile ==
    /\ At("replay", "replay")
    /\ left > 0
    /\ \E f \in NextFile :
        /\ Replayable(f)
        /\ draft' = [Add(draft, f) EXCEPT !.progress = @ \cup {f}]
    /\ left' = left - 1
    /\ UNCHANGED << authority, index, stage, op, handle, result, answer, faults, Outside >>

(* A gap, a receipt of nothing known, or a failed read: rolled back, and the *)
(* stage is not trusted again.                                               *)
RollBack(how) ==
    /\ At("replay", "ready")
    /\ stage' = [stage EXCEPT !.manifest = {}]
    /\ Refuse(how)
    /\ UNCHANGED << authority, index, handle, answer, Outside >>

ReplayInvalid ==
    /\ left > 0
    /\ \E f \in NextFile : ~Replayable(f)
    /\ RollBack("invalid")
    /\ UNCHANGED faults

ReplayFails == Fault /\ RollBack("failed")

\* A slice also ends when its time is up, however little it has done.
CommitSlice ==
    /\ At("replay", "stamp")
    /\ handle.bounded \/ NextFile = {}
    /\ stage' = [stage EXCEPT !.db = {draft}]
    /\ draft' = NoDraft /\ left' = 0
    /\ UNCHANGED << authority, index, op, handle, result, answer, faults, Outside >>

StampStage ==
    /\ pc = "stamp"
    /\ stage' = [stage EXCEPT !.manifest = Manifest(authority, stage.db)]
    /\ IF \A db \in stage.db : Cardinality(db.progress) = Cardinality(authority)
       THEN pc' = "promote" /\ UNCHANGED << op, draft, left, result >>
       ELSE pc' = "ready" /\ Refuse("busy")
    /\ UNCHANGED << authority, index, handle, answer, faults, Outside >>

Promote ==
    /\ At("promote", "publish")
    /\ index' = [index EXCEPT !.db = stage.db]
    /\ stage' = [stage EXCEPT !.db = {}]
    /\ UNCHANGED << authority, session, answer, faults, Outside >>

PublishRebuilt ==
    /\ At("publish", "tidy")
    /\ index' = [index EXCEPT !.manifest = Manifest(authority, index.db)]
    /\ UNCHANGED << authority, stage, session, answer, faults, Outside >>

RemoveStageManifest ==
    /\ At("tidy", "open")
    /\ stage' = [stage EXCEPT !.manifest = {}]
    /\ UNCHANGED << authority, index, session, answer, faults, Outside >>

\* Nothing is undone: what these steps left is examined again next time.
RebuildFails ==
    /\ pc \in {"resume", "stamp", "promote", "publish", "tidy"}
    /\ pc' = "ready"
    /\ Fault
    /\ Refuse("failed")
    /\ UNCHANGED << authority, index, stage, handle, answer, Outside >>

-----------------------------------------------------------------------------
(* Operations on an open handle (store.ts) *)

Finish ==
    /\ pc' = "ready"
    /\ op' = NoOp
    /\ UNCHANGED << draft, left, result >>

\* Mutant of MutationFails: later operations go on with the same generation.
MutationFailsQuietly(published) ==
    /\ pc' = "ready"
    /\ Refuse("failed")
    /\ authority' \in {authority, published}
    /\ UNCHANGED << index, stage, handle, answer, Outside >>

\* mutateAuthority: the error may have come after the file was published.
MutationFails(published) ==
    /\ pc' = "ready"
    /\ Refuse("failed")
    /\ handle' = [handle EXCEPT !.failed = TRUE]
    /\ authority' \in {authority, published}
    /\ UNCHANGED << index, stage, answer, Outside >>

AnswerPending ==
    /\ pc = "apply" /\ op.kind = "pending"
    /\ \E db \in index.db : answer' = db.pending
    /\ Finish
    /\ UNCHANGED << authority, index, stage, handle, faults, Outside >>

\* The file that an entry or a control is published as.
OwnFile(db) ==
    IF op.kind = "entry" THEN NewFile("journal", Cardinality(db.journal) + 1, op.holds)
                         ELSE NewFile("control", 0, op.holds)

\* link(2) refuses a sequence that exists.
PublishFile ==
    /\ pc = "apply" /\ op.kind \in {"entry", "control"}
    /\ \E db \in index.db :
        \/ /\ ~\E f \in authority : SamePath(f, OwnFile(db))
           /\ authority' = authority \cup {OwnFile(db)}
           /\ pc' = "index"
           /\ UNCHANGED << index, stage, session, answer, faults, Outside >>
        \/ /\ \E f \in authority : SamePath(f, OwnFile(db))
           /\ MutationFails(authority) /\ UNCHANGED faults
        \/ Fault /\ MutationFails(authority \cup {OwnFile(db)})

FilterConfirmed ==
    /\ pc = "apply" /\ op.kind = "acknowledge"
    /\ \E db \in index.db :
        LET confirmed == (op.holds \cap db.records) \ db.acknowledgements
        IN  IF confirmed = {} THEN Finish
            ELSE /\ pc' = "receipts"
                 /\ op' = [op EXCEPT !.holds = confirmed, !.left = confirmed]
                 /\ UNCHANGED << draft, left, result >>
    /\ UNCHANGED << authority, index, stage, handle, answer, faults, Outside >>

Chunk == {hashes \in SUBSET op.left :
            /\ Cardinality(hashes) <= ReceiptSize
            /\ hashes = op.left \/ Cardinality(hashes) = ReceiptSize}

PublishReceipts ==
    /\ pc = "receipts"
    /\ \E hashes \in Chunk \ {{}} :
        \/ /\ authority' = authority \cup {NewFile("receipt", 0, hashes)}
           /\ op' = [op EXCEPT !.left = @ \ hashes]
           /\ pc' = IF hashes = op.left THEN "index" ELSE "receipts"
           /\ UNCHANGED << index, stage, handle, draft, left, result, answer, faults, Outside >>
        \/ Fault /\ MutationFails(authority \cup {NewFile("receipt", 0, hashes)})

\* One transaction; a receipt is followed by a new inventory of all files.
Indexed(db) ==
    CASE op.kind = "entry" -> [AddEntry(db, OwnFile(db)) EXCEPT !.files = @ \cup {OwnFile(db)}]
      [] op.kind = "control" -> [AddControl(db, OwnFile(db)) EXCEPT !.files = @ \cup {OwnFile(db)}]
      [] op.kind = "acknowledge" -> [AddAcknowledgements(db, op.holds) EXCEPT !.files = @ \cup authority]

\* A reader inside its query keeps the transaction from committing.
Shared == reader.at # "reported" /\ reader.view # {} /\ reader.view = index.db

UpdateIndex ==
    /\ pc = "index"
    /\ ~Shared
    /\ index' = [index EXCEPT !.db = {Indexed(db) : db \in @}]
    /\ handle' = [handle EXCEPT !.changed = TRUE]
    /\ Finish
    /\ UNCHANGED << authority, stage, answer, faults, Outside >>

UpdateFails ==
    /\ pc = "index"
    /\ \/ Shared /\ UNCHANGED faults
       \/ Fault
    /\ MutationFails(authority)

\* The checkpoint is a hint that nobody reads back; failing to write it is an error.
CheckpointFails ==
    /\ pc = "index" /\ op.kind = "entry" /\ ~Shared
    /\ pc' = "ready"
    /\ Fault
    /\ index' = [index EXCEPT !.db = {Indexed(db) : db \in @}]
    /\ handle' = [handle EXCEPT !.changed = TRUE, !.failed = TRUE]
    /\ Refuse("failed")
    /\ UNCHANGED << authority, stage, answer, Outside >>

-----------------------------------------------------------------------------
(* StoreIndex.close *)

\* Mutant of Publication: a failed generation is published as well.
PublicationAnyway == UNION {Manifest(authority, {db}) : db \in index.db}

Publication ==
    IF handle.failed THEN {}
    ELSE UNION {Manifest(db.files, {db}) : db \in index.db}

Closing ==
    IF handle.open /\ (handle.failed \/ handle.changed)
    THEN index' = [index EXCEPT !.manifest = Publication]
    ELSE UNCHANGED index

Flush ==
    /\ At("ready", "ready")
    /\ handle.open /\ handle.changed /\ ~handle.failed
    /\ Closing
    /\ handle' = [handle EXCEPT !.open = FALSE, !.changed = FALSE]
    /\ UNCHANGED << authority, stage, op, draft, left, result, answer, faults, Outside >>

Close ==
    /\ At("ready", "release")
    /\ Closing
    /\ handle' = Session(FALSE)
    /\ UNCHANGED << authority, stage, op, draft, left, result, answer, faults, Outside >>

\* The manifest stays as it was, of a database that has changed since.
CloseFails ==
    /\ pc = "ready" /\ handle.open
    /\ \/ /\ handle.changed /\ ~handle.failed
          /\ pc' = "ready"
          /\ handle' = Session(handle.bounded)
       \/ /\ handle.changed \/ handle.failed
          /\ pc' = "release"
          /\ handle' = Session(FALSE)
    /\ Fault
    /\ Refuse("failed")
    /\ UNCHANGED << authority, index, stage, answer, Outside >>

\* What the cache vouched for is forgotten with it.
InvalidateCache ==
    /\ At("ready", "ready") /\ ~handle.failed
    /\ Fault
    /\ index' = Gone /\ stage' = Gone
    /\ handle' = Session(handle.bounded)
    /\ noticeable' = FALSE
    /\ UNCHANGED << authority, leased, op, draft, left, result, answer, reader, tampers >>

Release ==
    /\ At("release", "idle")
    /\ leased' = FALSE
    /\ UNCHANGED << authority, index, stage, session, answer, reader, bounds >>

-----------------------------------------------------------------------------
(* The process dies.  Inside a transaction it leaves a rollback journal or   *)
(* not, and the database as it was or torn.                                  *)

Torn(gen) == {gen} \cup {[gen EXCEPT !.db = dbs, !.hot = TRUE] : dbs \in {gen.db, {}}}

Crash ==
    /\ pc # "idle" /\ pc' = "idle"
    /\ Fault
    /\ index' \in IF pc = "index" THEN Torn(index) ELSE {index}
    /\ stage' \in IF pc = "replay" THEN Torn(stage) ELSE {stage}
    /\ Refuse("none") /\ handle' = Session(FALSE)
    /\ UNCHANGED << authority, answer, Outside >>

-----------------------------------------------------------------------------
(* Somebody else changes the files while no operation runs.                  *)

Tamper(files) ==
    /\ pc = "idle"
    /\ tampers < MaxTampers /\ tampers' = tampers + 1
    /\ authority' = files
    /\ noticeable' = (~index.hot /\ LostFrom(index, files) # {})
    /\ UNCHANGED << index, stage, leased, pc, session, answer, reader, faults >>

Altered(f, holds) == [f EXCEPT !.holds = holds, !.stamp = tampers + 1]

Remove == \E f \in authority : Tamper(authority \ {f})

\* A backup is restored, the content is the same.
Touch == \E f \in authority : Tamper((authority \ {f}) \cup {Altered(f, f.holds)})

Rewrite ==
    \E f \in {g \in authority : g.kind = "journal"} :
        \E holds \in SUBSET (Record \ Control) \ {f.holds} :
            Tamper((authority \ {f}) \cup {Altered(f, holds)})

-----------------------------------------------------------------------------
(* StoreIndex.readOnly: two proofs around one transaction, and no lease.     *)

Nothing == UNCHANGED << authority, index, stage, leased, pc, session, answer, bounds >>

NobodyWrites == ~leased /\ ~index.hot

Look ==
    /\ Reporter
    /\ NobodyWrites
    /\ \/ reader.at = "off" /\ reader' = [reader EXCEPT !.at = "journal", !.proof = 1]
       \/ reader.at = "queried" /\ reader' = [reader EXCEPT !.at = "journal", !.proof = 2]
    /\ Nothing

\* inventory() reads one directory after the other.
TakeJournal ==
    /\ reader.at = "journal"
    /\ reader' = [reader EXCEPT !.at = "others", !.files = {f \in authority : f.kind = "journal"}]
    /\ Nothing

\* The rest, and the fingerprint of the database.
TakeOthers ==
    /\ reader.at = "others"
    /\ index.db # {}
    /\ reader' = [reader EXCEPT !.at = "manifest", !.database = index.db,
                                !.files = @ \cup {f \in authority : f.kind # "journal"}]
    /\ Nothing

Proves == index.manifest = Manifest(reader.files, reader.database)

Prove ==
    /\ reader.at = "manifest" /\ reader.proof = 1
    /\ Proves
    /\ reader' = [reader EXCEPT !.at = "query", !.raw = index.manifest]
    /\ Nothing

\* A hot database cannot be read without writing to it.
Query ==
    /\ reader.at = "query"
    /\ index.db # {} /\ ~index.hot
    /\ reader' = [reader EXCEPT !.at = "queried", !.view = index.db]
    /\ Nothing

\* Mutant of ProveAgain: only the database is compared.
ProveAgainDatabase ==
    /\ reader.at = "manifest" /\ reader.proof = 2
    /\ \A m \in reader.raw : reader.database = {m.database}
    /\ reader' = [reader EXCEPT !.at = "reported"]
    /\ Nothing

ProveAgain ==
    /\ reader.at = "manifest" /\ reader.proof = 2
    /\ Proves
    /\ index.manifest = reader.raw
    /\ reader' = [reader EXCEPT !.at = "reported"]
    /\ Nothing

\* Done, or any check failed: nothing is repaired and nothing is reported.
GiveUp ==
    /\ reader.at # "off"
    /\ reader' = NoReader
    /\ Nothing

-----------------------------------------------------------------------------
Open == OpenValid \/ OpenLost \/ OpenStale

Rebuild ==
    \/ ResumeStage \/ StageLost \/ RestartStage
    \/ ReplayFile \/ ReplayInvalid \/ CommitSlice
    \/ StampStage \/ Promote \/ PublishRebuilt \/ RemoveStageManifest

Serve ==
    \/ AnswerPending \/ PublishFile \/ FilterConfirmed \/ PublishReceipts
    \/ UpdateIndex \/ UpdateFails \/ CheckpointFails

Failure == ReplayFails \/ RebuildFails \/ CloseFails \/ Crash

Read == Look \/ TakeJournal \/ TakeOthers \/ Prove \/ Query \/ ProveAgain \/ GiveUp

Next ==
    \/ \E bounded \in BOOLEAN : Begin(bounded)
    \/ CommitBatch \/ CommitControl \/ AcknowledgeHashes \/ Pending
    \/ Open \/ Rebuild \/ Serve
    \/ Flush \/ Close \/ InvalidateCache \/ Release
    \/ Failure
    \/ Remove \/ Touch \/ Rewrite
    \/ Read

Spec == Init /\ [][Next]_vars

(* Sessions are begun again and again and ask for something; a session takes *)
(* its steps; now and then a slice has the time to replay a file.            *)
FairSpec ==
    /\ Spec
    /\ WF_vars(Begin(TRUE)) /\ SF_vars(Pending) /\ WF_vars(Close) /\ WF_vars(Release)
    /\ WF_vars(Open) /\ WF_vars(Rebuild) /\ WF_vars(Serve)
    /\ SF_vars(ReplayFile)

-----------------------------------------------------------------------------
(* Properties *)

\* A database says of `files` what they say themselves.
Agrees(db, files) ==
    /\ db.files = files
    /\ {f.seq : f \in db.journal} = 1 .. Cardinality(db.journal)
    /\ db.journal = {f \in files : f.kind = "journal"}
    /\ db.records = Captured(files)
    /\ db.controls = Holds(files, {"control"})
    /\ db.acknowledgements = Receipted(files)
    /\ db.pending = Owed(files)
    /\ \A u \in Unit : db.pendingUnits[u] = InUnit(Owed(files), u)

\* Between two operations the handle agrees with authority, however often the
\* index was updated, published, torn, rebuilt in slices or resumed before:
\* what store.ts selects and answers from it is what the files say.
IndexAgrees ==
    (pc = "ready" /\ handle.open /\ ~handle.failed) =>
        \A db \in index.db : Agrees(db, authority)

\* A manifest that vouches for a database over today's files is right: readers
\* and the next open believe it without looking at a record.
PublishedAgrees ==
    (\E db \in index.db : Names(index, authority)) =>
        index.hot \/ \A db \in index.db : Agrees(db, authority)

\* Derived state alone never makes a store unusable: as long as nobody else
\* touches authority, no crash or failure leads open() to "invalid-durable-data".
DerivedNeverBlocks == tampers = 0 => result # "invalid"

\* Authority that an intact index vouched for and that is gone is noticed by
\* every later open, and the evidence is not destroyed by refusing.
VanishedNoticed == noticeable => ~handle.open

\* A report that is not given up shows exactly what authority owed at one
\* instant, although the reader holds no lease and sessions come and go.  (A
\* database here is its content; after tampering a rebuilt one may be equal to an
\* older one, which the fingerprints of the code still tell apart.)
ReportExact ==
    (reader.at = "reported" /\ tampers = 0) => \A db \in reader.view : Agrees(db, reader.files)

\* Bounded sessions get a usable index in the end, one slice at a time.
RebuildCompletes == []<>(handle.open)

\* The store implements an atomic one.
PrivateStoreOf ==
    INSTANCE PrivateStore WITH
        records <- Captured(authority), receipts <- Receipted(authority), outbox <- answer

ImplementsPrivateStore == PrivateStoreOf!Spec

=============================================================================
