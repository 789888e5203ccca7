------------------------------- MODULE LedgerSync -------------------------------
(***************************************************************************)
(* Synchronization of private stores with the public ledger                *)
(* (operations/sync.ts, git/data-transport.ts, storage/store.ts).          *)
(*                                                                         *)
(* Each clone runs one operation at a time: synchronizeTransaction holds   *)
(* the operation lease of the clone's store from its first read to its     *)
(* return (LocalStore.withLock).  Clones interleave freely with each       *)
(* other, with the remote that serves them and with its owner.  Every      *)
(* action of an operation is one remote request or one durable write, so   *)
(* that Crash and Expire can fall between any two of them.                 *)
(*                                                                         *)
(* The local variable `prior` of the code is not kept: it is the content   *)
(* of transport.json wherever the code reads it, because the operation     *)
(* writes both together and nothing else writes the file under its lease.  *)
(***************************************************************************)
EXTENDS CommitHistory, FiniteSets

CONSTANTS
    Clone,          \* private stores, one per Git common directory
    Kinds,          \* Kinds[c]: kinds of operations clone c runs
    Local,          \* Local[c]: the records collection can find in clone c
    Contributions,  \* sets of records that importContribution may be given
    Edits,          \* <<expected, target>> metadata changes users request
    BootMeta,       \* BootMeta[c]: metadata offered by an initializing clone
    Seeded,         \* whether the data ref exists at the start
    SeedMeta,       \* its metadata then
    LedgerEvidence, \* clones whose binding carries verified ledger evidence
    LocalRoute,     \* clones bound to a local path or file URL
    Oversized,      \* records of units too large for an automatic batch
    BatchLimit,     \* records of an automatic batch (128 in sync.ts)
    MaxRetries,     \* maxRetries of SyncOptions, at most 3
    MaxFaults,      \* bound: crashes, expiries, lost requests, lost caches
    MaxTampers,     \* bound: changes of the ref that no clone made
    MaxHistory      \* bound: length from which no metadata change is requested

\* "automatic" is the bounded summary mode of workers, "manual" the full one.
Kind == {"manual", "automatic", "configure", "import"}

ASSUME ConstantsAssumption ==
    /\ Kinds \in [Clone -> SUBSET Kind]
    /\ Local \in [Clone -> SUBSET Record]
    /\ Contributions \subseteq SUBSET Record
    /\ Edits \subseteq Meta \X Meta
    /\ BootMeta \in [Clone -> Meta]
    /\ Seeded \in BOOLEAN
    /\ SeedMeta \in Meta
    /\ LedgerEvidence \subseteq Clone
    /\ LocalRoute \subseteq Clone
    /\ Oversized \subseteq Record
    /\ BatchLimit \in Nat \ {0}
    /\ MaxRetries \in 0 .. 3
    /\ MaxFaults \in Nat
    /\ MaxTampers \in Nat
    /\ MaxHistory \in Nat

VARIABLES
    tip,        \* the data ref of the remote
    inflight,   \* push requests sent and not yet applied or lost
    transport,  \* transport.json: ref presence and accepted commit
    anchors,    \* refs/agent-badge/accepted/* of each clone
    journaled,  \* records in the journal and the controls of each store
    acked,      \* records with a durable acknowledgement receipt
    pc,         \* where the running operation of each clone stands
    op,         \* its volatile state
    creations,  \* history: root commits each clone has sent
    faults,     \* faults so far
    tampers     \* external changes of the ref so far

remoteVars == << tip, inflight >>
storeVars  == << transport, anchors, journaled, acked >>
countVars  == << creations, faults, tampers >>
vars == << remoteVars, storeVars, pc, op, countVars >>

-----------------------------------------------------------------------------
(* Types *)

Transport == [seen : BOOLEAN, commit : History]

NeverSeen == [seen |-> FALSE, commit |-> Absent]

Request == [from : Clone, old : History, new : History]

Status == {"synced", "unchanged", "queued", "conflict", "unsupported"}

Location == {"idle", "open", "lookup", "fetch", "confirm", "record", "select",
             "build", "mark", "check", "send", "await", "verify", "acknowledge",
             "done"}

Operation ==
    [ kind       : Kind,
      initialize : BOOLEAN,             \* SyncOptions.initialize is given
      expected   : Meta,                \* MetadataChange.expectedMetadataRevision
      target     : Meta,                \* MetadataChange.meta
      imported   : SUBSET Record,       \* importedRecords
      fetched    : History,             \* commit read by fetch, unconfirmed
      accepted   : History,             \* commit of `accepted`
      local      : SUBSET Record,       \* localPending
      candidate  : History,             \* commit built by this attempt
      attempt    : 0 .. MaxRetries,
      attempted  : BOOLEAN,             \* MetadataChange.attempted
      status     : Status ]

NewOperation(kind, initialize, edit, imported) ==
    [ kind |-> kind, initialize |-> initialize,
      expected |-> edit[1], target |-> edit[2], imported |-> imported,
      fetched |-> Absent, accepted |-> Absent, local |-> {},
      candidate |-> Absent, attempt |-> 0, attempted |-> FALSE,
      status |-> "queued" ]

\* An operation without a metadata change carries this unused pair.
NoEdit == << SeedMeta, SeedMeta >>

NoOperation == NewOperation("manual", FALSE, NoEdit, {})

\* What the caller of an operation reads once it has returned.
Outcome(o, status) ==
    [o EXCEPT !.imported = {}, !.fetched = Absent, !.local = {},
              !.candidate = Absent, !.attempt = 0, !.status = status]

TypeOK ==
    /\ tip \in History
    /\ inflight \subseteq Request
    /\ transport \in [Clone -> Transport]
    /\ anchors \in [Clone -> SUBSET History]
    /\ journaled \in [Clone -> SUBSET Record]
    /\ acked \in [Clone -> SUBSET Record]
    /\ pc \in [Clone -> Location]
    /\ op \in [Clone -> Operation]
    /\ creations \in [Clone -> Nat]
    /\ faults \in Nat
    /\ tampers \in Nat

Init ==
    /\ tip = IF Seeded THEN Extend(Absent, {}, SeedMeta) ELSE Absent
    /\ inflight = {}
    /\ transport = [c \in Clone |-> NeverSeen]
    /\ anchors = [c \in Clone |-> {}]
    /\ journaled = [c \in Clone |-> {}]
    /\ acked = [c \in Clone |-> {}]
    /\ pc = [c \in Clone |-> "idle"]
    /\ op = [c \in Clone |-> NoOperation]
    /\ creations = [c \in Clone |-> 0]
    /\ faults = 0
    /\ tampers = 0

-----------------------------------------------------------------------------
(* What an operation reads *)

Pending(c) == journaled[c] \ acked[c]

\* Metadata changes and imports never take the bounded path.
Bounded(c) == op[c].kind = "automatic"

\* Mutant of EverSeen: only the binding is asked.
SeenByBinding(c) == c \in LedgerEvidence

\* Durable evidence that the ref existed: accept never treats it as absent.
EverSeen(c) == transport[c].seen \/ c \in LedgerEvidence

\* Units whose records fit one batch; every unit is one record here.
Batches(outbox) ==
    LET fitting == outbox \ Oversized
    IN  { batch \in SUBSET fitting :
            /\ Cardinality(batch) <= BatchLimit
            /\ batch = fitting \/ Cardinality(batch) = BatchLimit }

\* The accepted snapshot holds the change and every record it must hold.
Includes(c, local, snapshot) ==
    /\ snapshot # Absent
    /\ op[c].kind = "configure" => MetaOf(snapshot) = op[c].target
    /\ local \cup op[c].imported \subseteq RecordsOf(snapshot)

\* The expected revision is no longer the accepted one.
StaleEdit(c) ==
    /\ op[c].kind = "configure"
    /\ op[c].accepted = Absent \/ MetaOf(op[c].accepted) # op[c].expected

\* Equal metadata does not prove a change won: its own commit must be there.
Landed(c) ==
    op[c].kind = "configure" => Ancestor(op[c].candidate, op[c].accepted)

\* Mutant of KeepsAccepted: the immutable paths are not listed.
DescendsOnly(c) == Ancestor(transport[c].commit, op[c].fetched)

\* assertDescendant(): ancestry, and every immutable path is still there.
KeepsAccepted(c) == Retains(transport[c].commit, op[c].fetched)

\* Mutant of AnchorsWith: the anchor replaces the one still relied on.
AnchorsReplaced(c, commit) == {commit}

\* anchor(): one private ref per accepted commit, and none is ever deleted.
AnchorsWith(c, commit) == anchors[c] \cup {commit}

\* Mutant of MetaFor: bootstrap metadata is used again when a creation loses.
MetaOfBootstrap(c) ==
    IF op[c].kind = "configure" THEN op[c].target
    ELSE IF op[c].initialize THEN BootMeta[c]
    ELSE MetaOf(op[c].accepted)

\* The accepted metadata wins over everything but an explicit change of it.
MetaFor(c) ==
    IF op[c].kind = "configure" THEN op[c].target
    ELSE IF op[c].accepted = Absent THEN BootMeta[c]
    ELSE MetaOf(op[c].accepted)

RecordsFor(c) == RecordsOf(op[c].accepted) \cup op[c].local \cup op[c].imported

\* Mutant of RetriesLeft: one attempt too many.
RetriesLeftOffByOne(c) == op[c].attempt <= MaxRetries

RetriesLeft(c) == op[c].attempt < MaxRetries

\* The records a confirmed operation acknowledges.
Confirmed(c) == op[c].local

-----------------------------------------------------------------------------
(* Steps of a clone *)

Goto(c, from, to) == pc[c] = from /\ pc' = [pc EXCEPT ![c] = to]

\* The operation returns; only what its caller reads of it is kept.
Finish(c, from, status) ==
    /\ Goto(c, from, "done")
    /\ op' = [op EXCEPT ![c] = Outcome(@, status)]

\* Local collection and explicit controls journal records under the lease.
Capture(c) ==
    /\ pc[c] = "idle"
    /\ \E found \in SUBSET (Local[c] \ journaled[c]) :
         /\ found # {}
         /\ journaled' = [journaled EXCEPT ![c] = @ \cup found]
    /\ UNCHANGED << remoteVars, transport, anchors, acked, pc, op, countVars >>

\* Only the automatic mode tries the unchanged summary before accept().
Begin(c, operation) ==
    /\ operation.kind \in Kinds[c]
    /\ Goto(c, "idle", IF operation.kind = "automatic" THEN "open" ELSE "lookup")
    /\ op' = [op EXCEPT ![c] = operation]
    /\ UNCHANGED << remoteVars, storeVars, countVars >>

StartManual(c, initialize) ==
    Begin(c, NewOperation("manual", initialize, NoEdit, {}))

StartAutomatic(c) == Begin(c, NewOperation("automatic", FALSE, NoEdit, {}))

StartConfigure(c) ==
    /\ Len(tip) < MaxHistory
    /\ \E edit \in Edits : Begin(c, NewOperation("configure", FALSE, edit, {}))

StartImport(c) ==
    \E records \in Contributions :
        Begin(c, NewOperation("import", FALSE, NoEdit, records))

\* The checked unchanged summary: nothing pending and the ref where it was.
Summarize(c) ==
    /\ transport[c].commit # Absent
    /\ Pending(c) = {}
    /\ \/ /\ tip = Absent
          /\ Finish(c, "open", "conflict")
       \/ /\ tip = transport[c].commit
          /\ Finish(c, "open",
                    IF tip \in anchors[c] THEN "unchanged" ELSE "queued")
    /\ UNCHANGED << remoteVars, storeVars, countVars >>

Open(c) ==
    /\ \/ transport[c].commit = Absent
       \/ Pending(c) # {}
       \/ tip \notin {Absent, transport[c].commit}
    /\ Goto(c, "open", "lookup")
    /\ UNCHANGED << remoteVars, storeVars, op, countVars >>

\* accept(): the ref exists; its presence is durable before it is trusted.
SeeRef(c) ==
    /\ tip # Absent
    /\ Goto(c, "lookup", "fetch")
    /\ transport' = [transport EXCEPT ![c].seen = TRUE]
    /\ UNCHANGED << remoteVars, anchors, journaled, acked, op, countVars >>

\* accept(): the ref is absent; once seen, that is rewritten history.
MissRef(c) ==
    /\ tip = Absent
    /\ IF EverSeen(c)
       THEN Finish(c, "lookup", "conflict")
       ELSE Goto(c, "lookup", "select") /\ op' = [op EXCEPT ![c].accepted = Absent]
    /\ UNCHANGED << remoteVars, storeVars, countVars >>

Fetch(c) ==
    /\ IF Valid(tip)
       THEN /\ Goto(c, "fetch", "confirm")
            /\ op' = [op EXCEPT ![c].fetched = tip]
       ELSE Finish(c, "fetch", CASE tip = Absent -> "queued"
                                 [] MetaOf(tip) = Foreign -> "conflict"
                                 [] OTHER -> "unsupported")
    /\ UNCHANGED << remoteVars, storeVars, countVars >>

\* confirmAccepted(): nothing accepted before may be missing, then anchor.
Confirm(c) ==
    LET prior == transport[c].commit
        anchored == prior = Absent \/ prior \in anchors[c]
    IN  /\ IF anchored /\ KeepsAccepted(c)
           THEN /\ Goto(c, "confirm", "record")
                /\ anchors' = [anchors EXCEPT ![c] = AnchorsWith(c, op[c].fetched)]
                /\ UNCHANGED op
           ELSE /\ Finish(c, "confirm", IF anchored THEN "conflict" ELSE "queued")
                /\ UNCHANGED anchors
        /\ UNCHANGED << remoteVars, transport, journaled, acked, countVars >>

\* confirmAccepted(): record the accepted commit after its anchor.
Accept(c) ==
    /\ Goto(c, "record", IF op[c].candidate = Absent THEN "select" ELSE "verify")
    /\ transport' = [transport EXCEPT ![c] =
                        [seen |-> TRUE, commit |-> op[c].fetched]]
    /\ op' = [op EXCEPT ![c].accepted = op[c].fetched, ![c].fetched = Absent]
    /\ UNCHANGED << remoteVars, anchors, journaled, acked, countVars >>

Refuse(c) ==
    /\ \/ StaleEdit(c) /\ Finish(c, "select", "conflict")
       \/ /\ op[c].kind # "configure"
          /\ op[c].accepted = Absent
          /\ ~op[c].initialize
          /\ Finish(c, "select", "queued")
    /\ UNCHANGED << remoteVars, storeVars, countVars >>

\* The local records this operation publishes: all of them, or one batch.
Selections(c, outbox) == IF Bounded(c) THEN Batches(outbox) ELSE {outbox}

\* What follows a selection: nothing fits, some of a batch is there already,
\* everything is there, or a commit has to be built.
Decide(c, local, outbox) ==
    LET present == local \cap RecordsOf(op[c].accepted)
    IN  CASE Bounded(c) /\ local = {} /\ outbox # {} ->
                 Finish(c, "select", "queued")
          [] Bounded(c) /\ present # {} ->
                 /\ Goto(c, "select", "acknowledge")
                 /\ op' = [op EXCEPT ![c].local = present, ![c].status = "unchanged"]
          [] ~(Bounded(c) /\ (present # {} \/ (local = {} /\ outbox # {}))) ->
                 /\ Goto(c, "select", IF Includes(c, local, op[c].accepted)
                                      THEN "acknowledge" ELSE "build")
                 /\ op' = [op EXCEPT ![c].local = local, ![c].status = "unchanged"]

\* Collect (full mode only), select, and look before writing anything.
Select(c) ==
    /\ ~StaleEdit(c)
    /\ op[c].accepted # Absent \/ op[c].initialize
    /\ \E found \in SUBSET (Local[c] \ journaled[c]) :
         /\ op[c].kind = "manual" \/ found = {}
         /\ journaled' = [journaled EXCEPT ![c] = @ \cup found]
    /\ LET outbox == journaled'[c] \ acked[c]
       IN  \E local \in Selections(c, outbox) : Decide(c, local, outbox)
    /\ UNCHANGED << remoteVars, transport, anchors, acked, countVars >>

\* The loop body up to push: rebuild on the accepted snapshot of this attempt.
Build(c) ==
    /\ IF StaleEdit(c)
       THEN Finish(c, "build", "conflict")
       ELSE /\ Goto(c, "build", IF transport[c].seen THEN "check" ELSE "mark")
            /\ op' = [op EXCEPT
                 ![c].candidate = Extend(op[c].accepted, RecordsFor(c), MetaFor(c)),
                 ![c].attempted = op[c].kind = "configure"]
    /\ UNCHANGED << remoteVars, storeVars, countVars >>

\* A first creation is durable evidence before anything is sent.
Mark(c) ==
    /\ Goto(c, "mark", "check")
    /\ transport' = [transport EXCEPT ![c].seen = TRUE]
    /\ UNCHANGED << remoteVars, anchors, journaled, acked, op, countVars >>

\* push(): compare the ref with the parent, refuse an automatic local route.
Check(c) ==
    LET parent == op[c].accepted
    IN  /\ CASE parent # Absent /\ tip = Absent -> Finish(c, "check", "conflict")
             [] tip # parent /\ tip # Absent -> Goto(c, "check", "lookup") /\ UNCHANGED op
             [] tip = parent /\ Bounded(c) /\ c \in LocalRoute ->
                    Finish(c, "check", "unsupported")
             [] OTHER -> Goto(c, "check", "send") /\ UNCHANGED op
        /\ UNCHANGED << remoteVars, storeVars, countVars >>

\* git push: the guard hook compares the advertised ref, then the request goes
\* out and the process waits for the answer.
Send(c) ==
    /\ Goto(c, "send", "await")
    /\ IF tip = op[c].accepted
       THEN /\ inflight' = inflight \cup
                 {[from |-> c, old |-> op[c].accepted, new |-> op[c].candidate]}
            /\ creations' = [creations EXCEPT
                 ![c] = IF op[c].accepted = Absent THEN @ + 1 ELSE @]
       ELSE UNCHANGED << inflight, creations >>
    /\ UNCHANGED << tip, storeVars, op, faults, tampers >>

\* The push has ended; the ref is read again whatever its outcome.
Answer(c) ==
    /\ \A request \in inflight : request.from = c => request.new # op[c].candidate
    /\ Goto(c, "await", "lookup")
    /\ UNCHANGED << remoteVars, storeVars, op, countVars >>

\* After a send: the change may have lost, or records may still be missing.
Verify(c) ==
    LET retry ==
            IF RetriesLeft(c)
            THEN /\ Goto(c, "verify", "build")
                 /\ op' = [op EXCEPT ![c].attempt = @ + 1]
            ELSE Finish(c, "verify", "queued")
    IN  /\ CASE ~Landed(c) /\ StaleEdit(c) -> Finish(c, "verify", "conflict")
             [] Landed(c) /\ Includes(c, op[c].local, op[c].accepted) ->
                    /\ Goto(c, "verify", "acknowledge")
                    /\ op' = [op EXCEPT ![c].status = "synced"]
             [] OTHER -> retry
        /\ UNCHANGED << remoteVars, storeVars, countVars >>

\* Durable receipts for the confirmed local records, and for no other.
Acknowledge(c) ==
    /\ acked' = [acked EXCEPT ![c] = @ \cup Confirmed(c)]
    /\ Finish(c, "acknowledge",
              IF Bounded(c) /\ journaled[c] # acked'[c] THEN "queued" ELSE op[c].status)
    /\ UNCHANGED << remoteVars, transport, anchors, journaled, countVars >>

\* Release the lease; the volatile state is gone.
Return(c) ==
    /\ Goto(c, "done", "idle")
    /\ op' = [op EXCEPT ![c] = NoOperation]
    /\ UNCHANGED << remoteVars, storeVars, countVars >>

-----------------------------------------------------------------------------
(* Failures of a clone *)

\* The deadline, a cancellation, an unavailable remote or a budget spent on
\* rebuilding an index ends the operation: the caller reads "queued".
Expire(c) ==
    /\ pc[c] \notin {"idle", "done"}
    /\ faults < MaxFaults
    /\ Finish(c, pc[c], "queued")
    /\ faults' = faults + 1
    /\ UNCHANGED << remoteVars, storeVars, creations, tampers >>

\* The connection breaks after the remote has the request, before the answer.
Disconnect(c) ==
    /\ faults < MaxFaults
    /\ Goto(c, "await", "lookup")
    /\ faults' = faults + 1
    /\ UNCHANGED << remoteVars, storeVars, op, creations, tampers >>

\* The process dies; what it sent stays in flight.
Crash(c) ==
    /\ pc[c] # "idle"
    /\ faults < MaxFaults
    /\ Goto(c, pc[c], "idle")
    /\ op' = [op EXCEPT ![c] = NoOperation]
    /\ faults' = faults + 1
    /\ UNCHANGED << remoteVars, storeVars, creations, tampers >>

-----------------------------------------------------------------------------
(* The remote and its owner *)

\* Mutant of Deliver: a forced update, which compares nothing.
DeliverForced(request) ==
    /\ request \in inflight
    /\ inflight' = inflight \ {request}
    /\ tip' = request.new
    /\ UNCHANGED << storeVars, pc, op, countVars >>

\* receive-pack compares the old object identifier and updates, in one step.
Deliver(request) ==
    /\ request \in inflight
    /\ inflight' = inflight \ {request}
    /\ tip' = IF tip = request.old THEN request.new ELSE tip
    /\ UNCHANGED << storeVars, pc, op, countVars >>

\* The connection breaks before the remote has the request.
Lose(request) ==
    /\ request \in inflight
    /\ faults < MaxFaults
    /\ inflight' = inflight \ {request}
    /\ faults' = faults + 1
    /\ UNCHANGED << tip, storeVars, pc, op, creations, tampers >>

\* What someone with push permission may leave in place of a history: nothing,
\* a rewind, a valid descendant without the records, a foreign or broken tree.
Tampered(history) ==
    {Absent, Extend(Absent, {}, Foreign)}
    \cup { SubSeq(history, 1, n) : n \in 1 .. Len(history) }
    \cup { Extend(history, {}, meta) : meta \in {SeedMeta, Malformed} }

Tamper ==
    /\ tampers < MaxTampers
    /\ tampers' = tampers + 1
    /\ \E history \in Tampered(tip) \ {tip} : tip' = history
    /\ UNCHANGED << inflight, storeVars, pc, op, creations, faults >>

-----------------------------------------------------------------------------
(* The specification *)

Start(c) ==
    \/ \E initialize \in BOOLEAN : StartManual(c, initialize)
    \/ StartAutomatic(c)
    \/ StartConfigure(c)
    \/ StartImport(c)

Proceed(c) ==
    \/ Summarize(c)
    \/ Open(c)
    \/ SeeRef(c)
    \/ MissRef(c)
    \/ Fetch(c)
    \/ Confirm(c)
    \/ Accept(c)
    \/ Refuse(c)
    \/ Select(c)
    \/ Build(c)
    \/ Mark(c)
    \/ Check(c)
    \/ Send(c)
    \/ Answer(c)
    \/ Verify(c)
    \/ Acknowledge(c)
    \/ Return(c)

Fail(c) ==
    \/ Expire(c)
    \/ Disconnect(c)
    \/ Crash(c)

Next ==
    \/ \E c \in Clone : Capture(c) \/ Start(c) \/ Proceed(c) \/ Fail(c)
    \/ \E request \in inflight : Deliver(request) \/ Lose(request)
    \/ Tamper

Spec == Init /\ [][Next]_vars

\* A started operation takes its steps, a request reaches the remote or is
\* lost, and each clone keeps being asked for a manual synchronization that
\* may initialize, as retried setup and sync commands do.
Fairness ==
    /\ \A c \in Clone : WF_vars(Proceed(c))
    /\ \A c \in Clone : SF_vars(StartManual(c, TRUE))
    /\ WF_vars(\E request \in inflight : Deliver(request))

FairSpec == Spec /\ Fairness

-----------------------------------------------------------------------------
(* Safety *)

\* A record with a receipt is in the commit this clone accepted: crashes,
\* batches, retries and races never acknowledge what was not confirmed.
AcknowledgedIsAccepted ==
    \A c \in Clone : acked[c] \subseteq RecordsOf(transport[c].commit)

\* As long as only clones write the ref, every acknowledged record is in it:
\* dropping it from the outbox loses nothing, whoever pushed since.
NothingLost ==
    tampers = 0 => \A c \in Clone : acked[c] \subseteq RecordsOf(tip)

\* An accepted commit always has its private anchor, even when the process
\* dies between the two writes; otherwise the clone could never sync again.
AcceptedIsAnchored ==
    \A c \in Clone :
        transport[c].commit # Absent => transport[c].commit \in anchors[c]

\* Only a requested change ever replaces metadata, and only the metadata it
\* expected: no stale bootstrap metadata, no losing change retried on another.
NoOverride ==
    tampers = 0 =>
        \A i \in 2 .. Len(tip) :
            \/ tip[i].meta = tip[i - 1].meta
            \/ << tip[i - 1].meta, tip[i].meta >> \in Edits

\* A clone sends a root commit at most once in its life, whatever fails or is
\* deleted in between: absence never reads as permission to seed again.
NoReseed == \A c \in Clone : creations[c] <= 1

\* The accepted commit of a clone only moves to descendants that keep every
\* record, even when the ref is deleted, rewound or rewritten.
AcceptanceAdvances ==
    [][\A c \in Clone : Retains(transport[c].commit, transport'[c].commit)]_transport

-----------------------------------------------------------------------------
(* Refinement *)

Public == INSTANCE PublicLedger WITH ledger <- tip, confirmed <- acked

\* Crashes, retries, races and batches are invisible from outside: every step
\* is a whole commit, an acknowledgement of public records, or nothing.
ImplementsPublicLedger == Public!Spec

-----------------------------------------------------------------------------
(* Liveness *)

\* A journaled record is eventually acknowledged once faults stop.
PendingPublished ==
    \A c \in Clone : \A r \in Record : r \in journaled[c] ~> r \in acked[c]

=============================================================================
