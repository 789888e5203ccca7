# agent-badge in TLA+

agent-badge counts the usage of coding agents on the machines of a project's
contributors and publishes it on a data branch of the project's own Git remote.
This directory holds TLA+ models of its state-changing parts, the TLC
configurations that check them and TLAPS proofs about them. All paths below are
relative to the repository; `core` abbreviates `packages/core/src`.

## 1. The system

| Component | Code | State it keeps | Operations | Correct when |
|---|---|---|---|---|
| Ledger synchronization | `core/operations/sync.ts`, `core/git/data-transport.ts` | remote data ref; `transport.json`; private anchors `refs/agent-badge/accepted/*` | `syncUsage`, `synchronizeTransaction`, `importContribution`, `configureRepository` | nothing acknowledged is lost, no second ledger is seeded, no metadata is overwritten, history is never accepted backwards, everything is published in the end |
| Private store | `core/storage/store.ts`, `journal.ts`, `controls.ts`, `acknowledgements.ts`, `atomic-file.ts`, `checkpoints.ts` | journal entries, controls, receipts, `transport.json`, pending configuration, reconciliation flag | `commitBatch`, `commitControl`, `acknowledge`, `recordAcceptedLedger`, ... | every state after a crash is one an uninterrupted execution could have left |
| Store lease | `core/storage/lock.ts` | `locks/operation.lock`, `locks/recovery.lock` | `acquireLock`, release, `reclaim`, `observeWorkerLease` | one process works on a store, a dead one does not block it (the first fails, see findings) |
| Supervisor | `core/operations/supervisor.ts`, `worker-host.ts`, `budget.ts` | one child process, two timers, one message | `superviseOperation` | one answer, the worker's group dead by then, its lease cleaned |
| Derived store index | `core/storage/index-cache.ts` | SQLite generations over the journal | open, rebuild, promote, pending batch | agrees with the journal it was built from |
| Accepted index | `core/storage/accepted-index.ts`, `accepted-stage.ts` | slots of validated commits, resumable stage | load, create, install, rebuild | serves exactly the commit it names |
| Metadata changes | `core/operations/configure.ts` | pending marker, tracked declaration | `configureRepository` | compare and swap on the shared revision, repairable when interrupted |
| Rebind | `core/operations/rebind.ts` | `transport.json` of a moved remote | `rebindAcceptedRemote` | the new remote holds the accepted history |
| Collection | `core/collection/*`, `agent-badge/src/commands/controls.ts` | decisions, checkpoints, source offset, reconciliation flag, controls | `collectUsage`, `runControlCommand` | nothing attributed is lost, the user's choice stands, no source starves, "nothing pending" is true |
| Ledger reduction | `core/ledger/*`, `core/domain/*` | none (pure) | `reduceLedger`, controls, validation | independent of order, idempotent |
| Providers, pricing, rendering | `core/providers`, `core/pricing`, `core/render` | none | parse, price, draw | - |
| Setup and integrations | `agent-badge/src/integration/*` | tracked files of `.agent-badge/`, `setup-intent.json`, `local.json`, `bootstrap.cjs`, `hooks.json`, `agent-hooks.json`, `agent-hooks.pending.json` | `planSetup`, `applySetup`, `deactivate`, hook and provider transactions | the user's hook and configuration survive every interruption, nothing unapproved is started, what is installed is recorded |
| Command line, initializer, scripts | `agent-badge/src/cli`, `commands`, `create-agent-badge`, `scripts` | none | - | - |

How they interact: commands and hooks run an operation through the supervisor,
in a worker process that opens the private store (one per Git common directory)
and holds its lease from the first read to the return.  Under the lease the
worker collects usage into the journal, fetches and validates the data ref,
anchors and records the accepted commit, builds a commit that adds the pending
records, pushes it with an expected old value, reads the ref again and writes
receipts for the records it finds there.  Clones share nothing but the remote.

What is hard: clones race on one ref; an answer of `git push` may be lost after
the ref has moved; a worker may be killed between any two durable writes; the
owner of the remote may delete or rewind the ref; leases are removed by
processes that do not own them; pids come back; the result of a worker races
its deadline; derived caches must never be believed over the journal; setup,
uninstall and the user write the same files, and only a part of setup is under a
lease.
`PROJECT.json` lists these hazards line by line with the properties that cover
them, and says which are still open.

## 2. Modules

| Module | Models | State | Checked by | Proved in |
|---|---|---|---|---|
| `CommitHistory` | commits of the data ref as sequences of snapshots | - | through the others | `CommitHistory_proofs` |
| `LedgerSync` | `synchronizeTransaction` of every clone, the remote, its owner, failures | `tip inflight transport anchors journaled acked pc op` | `MCLedgerSync` + 3 cfgs | `LedgerSync_proofs` |
| `PublicLedger` | what synchronization promises, with no steps | `ledger confirmed` | as a PROPERTY of `LedgerSync` | `LedgerSync_proofs` |
| `Configure` | metadata changes over `LedgerSync`: the pending marker, the declaration, its repair by setup | `marker previous stage declared repair sent` | `MCConfigure` | `Configure_proofs` |
| `StoreLease` | the lease protocol and the cleanup by parents | `lease guard pc mine seen given sup overtaken` | through `Supervision` | `Supervision_proofs` |
| `Supervision` | launchers over `StoreLease`: timers, messages, signals, exits, Git children | `call group mail did calls` | `MCSupervision` + 2 cfgs | `Supervision_proofs` |
| `StoreIndex` | immutable files, index generations, the operations on them, lock free reports | `authority index stage pc op handle draft answer reader` | `MCStoreIndex` + 2 cfgs | `StoreIndex_proofs` |
| `PrivateStore` | what the private store promises its lease holder | `records receipts outbox` | as a PROPERTY of `StoreIndex` | `StoreIndex_proofs` |
| `AcceptedIndex` | two database slots and the manifest that names the one in use | `slots manifest` | through `AcceptedStage` | `AcceptedStage_proofs` |
| `AcceptedStage` | staged validation, promotion, confirmation, publication from the cache, rebind | `remote transport anchors owner pinned stage session` | `MCAccepted` | `AcceptedStage_proofs` |
| `PushHook` | the pre-push hook, its backup, driver and record | `hook backup driver record mine hasty` | through `Setup` | `Setup_proofs` |
| `ProviderHooks` | entries in the files of coding agents, and the transaction over them | `files manifest pending visit theirs late` | through `Setup` | `Setup_proofs` |
| `Setup` | setup and uninstall commands that interleave | `tracked intent local bootstrap runtimes lease proc` | `MCSetup` | `Setup_proofs` |
| `Attribution` | whose usage an observation is: the order of the rules, what a directory proves, which policy edits matter | - | through `Collect` | `Collect_proofs` |
| `Collect` | collections, reprojection and the include and exclude commands, with sources, directories and policy that change | `file place policy decided recorded chain checkpoint flag offset waiting pc run` | `MCCollect` + 2 cfgs | `Collect_proofs` |

### CommitHistory and LedgerSync

A commit is the sequence of snapshots from the root to it.  This is exact, not a
simplification: `DataTransport.commit` fixes author, committer, dates and
message, so that two clones that build the same tree on the same parent get the
same identifier.  (With `commit.gpgSign` two signatures may differ; the model
then merges two commits whose content is the same.)  A snapshot keeps what the
protocol reads: the immutable records and the metadata.

Every action of an operation is one remote request or one durable write, and
between any two of them `Crash` and `Expire` may fall:

| Code | Action |
|---|---|
| `syncUsage`, worker, configure, import begin under the lease | `StartManual` `StartAutomatic` `StartConfigure` `StartImport` |
| unchanged summary, sync.ts:129-137 | `Summarize`, `Open` |
| `accept()`: `remoteTip`, presence made durable, `fetch` | `SeeRef`, `MissRef`, `Fetch` |
| `confirmAccepted()`: `assertDescendant`, `anchor`, then `recordAcceptedLedger` | `Confirm`, `Accept` |
| refusals 178-188, collection and selection 196-221 | `Refuse`, `Select` (with `Decide`) |
| loop body up to the push, with the first-creation evidence | `Build`, `Mark` |
| `push()`: compare, refuse an automatic local route, send | `Check`, `Send` |
| answer of the push, second `accept()`, outcome | `Answer`, ... `Verify` |
| receipts, return | `Acknowledge`, `Return` |

A push request is a member of `inflight`: `Deliver` compares and updates in one
step, `Lose` drops it, and the client may give up (`Disconnect`, `Crash`,
`Expire`) while it is still on its way.  `Tamper` is the owner of the remote.
`prior` of the code is not a variable: it equals the content of
`transport.json` at every point where the code reads it.

Abstracted: object encoding, routing checks (they end in `Expire` or a
refusal), the lazily rebuilt accepted index (`AcceptedStage`; a rebuild that uses
up the operation returns `queued`, which is `Expire`), pending units of several
records (every unit is one record; `Oversized` names those too large for a
batch), and collection (it journals any subset of what the clone can find).

### Configure

`Configure` extends `LedgerSync`: the transaction of a configure command is the
one of `LedgerSync`, and its `done` location keeps what the caller reads of the
result (`status`, `attempted`).

| Code | Action |
|---|---|
| `configureRepository`: the note before the transaction, configure.ts:43-47 | `Note` |
| the note after it: kept, or restored after a definite rejection, 49-59 | `Conclude` (`Rejected`, `NoteLeft`) |
| `writeAcceptedDeclaration`, removal of the note; a write that fails | `Declare`, `Clear`; `Drift` |
| setup plans, compares and writes the accepted policy | `PlanRepair`, `CheckRepair`, `WriteRepair` |
| the transaction, its crashes and losses; other operations | `Transact`, `Interrupt`, `Remote`; `Synchronize` |

`sent` is history: the changes a clone has sent.  Configure works under the
lease from `Note` to `Clear`, setup does not take it.

### StoreLease

Two files and what processes know of them.  `lease` is the content of
`operation.lock`, `guard` the existence of `recovery.lock`; each system call on
them is one action, so the read of an owner (`Inspect`), the probe of its pid
(`Judge`) and the unlink (`Remove`) can be separated by any step of anybody, the
release of the lease by its owner and the owner's exit included.
Processes are named by their pid and a later process may get it again; parents
know the pid and the token of the one worker they spawned and clean up after
they observed its exit.  A namespace that could not be established is
`known = FALSE` and is never treated as proof of death.

`overtaken` is history: a recovery has found dead an owner that is no longer the
one in the file.  The code cannot tell, and unlinks whatever is there.  The lease
is exclusive up to that moment and not after it (findings), so that the claims
about it are `KeptUnlessOvertaken`, which holds, and `HolderKeepsLease`, which
does not.

### Supervision

`Supervision` extends `StoreLease` with the launchers.  `call` is the closure of
`superviseOperation` (the summary it has read, whether it has sent SIGKILL, the
answer its caller has got), `mail` the message in the pipe, `group` a Git process
in the process group of the worker.

| Code | Action |
|---|---|
| `superviseOperation` spawns the worker | `Launch` |
| `on("message")`, the stop timer, the hard timer or an abort | `Receive`, `Stop`, `Abort` |
| `on("exit")`: `killTree`, `cleanupWorkerLease`, `done` | `Exited`, `Clean`, `Done` (`Result`) |
| the worker sends its summary, exits, is killed or loses its launcher | `Post`, `Ends`, `Killed`, `Deserted` |
| the worker runs Git, which may outlive it | `Fork`, `Reap` |

The steps of the worker on the lease are those of `StoreLease`.  A report is
supervised the same way but holds no lease; it adds nothing here.

### StoreIndex

`authority` is the set of immutable files (a journal entry knows its sequence,
controls and receipts are named by their hash).  A generation - `index` and
`stage` - is a database, a manifest with the files it vouches for and the
database it fingerprints, and a flag for a rollback journal that a crash left.
The tables are fields of a record and every statement of the code that changes
one is a difference there too (`InsertRecords`, `AddAcknowledgements`), so that
`IndexAgrees` compares incremental updates with a direct definition.

| Code | Action |
|---|---|
| `withLock`, `operation` | `Begin`, `CommitBatch` ... `Pending` (by `Issue`), `Close`, `Release` |
| `StoreIndex.open` | `OpenValid`, `OpenLost`, `OpenStale` |
| `StoreIndex.rebuild` | `ResumeStage`, `StageLost`, `RestartStage`, `ReplayFile` (one file), `ReplayInvalid`, `CommitSlice`, `StampStage`, `Promote`, `PublishRebuilt`, `RemoveStageManifest` |
| `commitBatch`, `commitControl`, `acknowledge` | `PublishFile`, `FilterConfirmed`, `PublishReceipts` (one file), then `UpdateIndex` |
| `mutateAuthority` | `MutationFails`, with the file published or not |
| `StoreIndex.close`, `flushDerivedIndex`, `invalidateCache` | `Closing` in `Close` and `Flush`, `InvalidateCache` |
| `StoreIndex.readOnly` | `Look`, `TakeJournal`, `TakeOthers`, `Prove`, `Query`, `ProveAgain`, `GiveUp` |

A batch holds any records and controls, as collection journals the controls it
decides on together with the usage; a control supersedes the ones it finds, so that
none is issued twice (`Issuable`).

A fingerprint is the thing it fingerprints.  A torn database is worth what a
missing one is: neither is ever trusted.  A write that was synced is durable;
what a power failure does to writes that were not is not modelled.
Abstracted: evidence, identities and sources of entries and the cursor checks of
`commitBatch`, which belong to collection; the legacy `acknowledged.json` is one
more receipt file; checkpoint files are hints that nobody reads back, so that
only the failure to write one is kept.

`LedgerSync` uses the store as `PrivateStore` describes it (`Capture`,
`Acknowledge` and the outbox are atomic there), and `StoreIndex` implements it.

### AcceptedIndex and AcceptedStage

`AcceptedIndex` is the cache: two database slots and one manifest, which is
replaced atomically and vouches for one of them by its fingerprint.
`AcceptedStage` is what a session under the lease does with it from the tip it
reads to the receipt, in place of `Fetch`, `Confirm` and `Accept` of
`LedgerSync`, where the cache is abstracted.  `session` is the call, everything
else is on disk or on a remote.

| Code | Action |
|---|---|
| sync.ts:129-137, `fetch` with a cached, a lazily built or a full generation | `Unchanged`, `FetchTip`, `Load`, `Create` |
| `confirmAccepted`: `assertDescendant`, `anchor`, `recordAcceptedLedger` | `Confirm` (`Descends`), `Anchor`, `RecordAccepted` |
| `rebuildAcceptedIndex`: whose stage it is | `Adopt`, `Pin`, `Resume`, `Abandon`, `Rebound`, `RecoverCandidate` |
| its phases, each resumed by a later call | `Open`, `List`, `Copy`, `Read`, `Reduce`, `Count`, `Finish`, `Retain`, `Seal`, `Save` |
| `AcceptedIndex.promote`, `close`; the owner is dropped step by step | `Promote`, `Published`; `Unpin`, `Disown`, `Unstage` |
| `commitExtension`, `prepareAcceptedCandidate`, `push`, `installCandidate` | `Extension`, `Own`, `Offer`, `Push`, `Install` |
| `rebindAcceptedRemote` | a session of mode `rebind` |
| deadline, kill, a file or ref that was changed | `Expire`, `Crash`, `Damage` |

Rows, chunks, checksums and summaries are sets and flags: a summary is a
function of the records it covers, and a chunk is a prefix in path order.  What
remotes do is limited to moments at which a session reads them.  A manual
session stops at `Settle`; what it publishes is one of the commits `Advance`
makes.

### Attribution and Collect

`Attribution` is pure: `Rules` lists the twelve rules of `attributeObservation`
in the order they are tried and `First` takes the first that applies.
`Collect` adds what changes.  The journal is kept by what it means for
collection: `decided` maps each observation (source, generation, unit) to its
latest decision with the policy it was taken under, `recorded` and `chain` are
the public records and the controls of each unit, `checkpoint` the latest
candidate of each source.

| Code | Action |
|---|---|
| the activation is read, then the lease is awaited | `Load`, `Start` |
| reprojection, collect.ts:468-537: one source, its chunks in order, its failure | `Project`, `WriteOutput`, `WriteVerdicts`, `SkipSource`, `Projection` |
| discovery, reservation of the next start, 538-566 | `Discover`, `Reserve` |
| one source: scan, decide, commit, or refuse, miss, fail, 567-652 | `Scan`, `RefuseSource`, `MissSource`, `FailSource` |
| rotation 653; worker-sync.ts:46-63 clears the reconciliation flag | `Rotate`, `Conclude` |
| `runControlCommand`: policy, reprojection, control | `StartControl`, then `CommitControl` |
| deadline, kill, crash between two commits | `Stop` |
| agents, the user, the file system | `Create` `Grow` `Rewrite` `Delete`, `EditPolicy`, `Move` |

`NextCheckpoint`, `Resumes` and `Generation` follow the Codex adapter: a source
is resumed if scope and file identity are the same and the verified prefix still
is a prefix, otherwise it is read from the start in a generation chained to the
last.  A prefix hash is the prefix, a policy hash the policy.  A unit stands for
a usage entry with one public record; the copies of a unit differ in what they
say of their directory and remote (`Facts`).

Abstracted: paths (a directory has at most one mapping and one enrollment),
several entries of one unit, disabled providers, targeted collection, sources
whose format is unsupported, entries of versions that kept no decisions, and the
synchronization around a command.  Writing the flag before the batch it belongs
to is kept as a failure that leaves only the flag (`FailSource`).

### PushHook, ProviderHooks and Setup

`Setup` is the command: it carries the list of the steps it has left, with the
plan it made at its start, and every step is one durable write.  `PushHook` and
`ProviderHooks` hold what these steps do to the hook and to the configuration
files of the agents, so that each can be read beside its source file.

| Code | Action |
|---|---|
| `planSetup` with `planHooks`, `planAgentHooks` | `StartSetup` (`SetupPlan`, `HookPlan`, `ProviderPlan`) |
| `applySetup`: comparison, runtime, intent, tracked files | `Compare`, `InstallRuntime`, `NoteIntent`, `WriteTracked` |
| approval, entry point, end of the intent, initial operation | `Approve`, `SwitchBootstrap`, `ClearIntent`, `InitialOperation` |
| `applyHookPlanLocked` | `InstallHook` (`RecordInstalling`, `MoveAside`, `WriteDriver`, `WriteWrapper`, `RecordInstalled`), `SkipHook` |
| `removeHooksLocked`; a file that is gone when it is to be moved | `RemoveHook` (`RestoreHook`, `RemoveDriver`, `RemoveRecord`), `KeepHook`; `HookGone` |
| `applyAgentHookPlan` | `EnterProviders`, `PublishInstall` |
| `finishTransaction`: all files are checked, then each is compared, and replaced unless it was written before | `Finish` (`CheckFiles`, `CompareFile`, `ReplaceFile`, `WriteManifest`, `Retire`), `ThirdState` |
| `deactivate`, `removeAgentHooksLocked`, `removeTrackedSetup` | `StartUninstall`, `Deactivate`, `UnlinkBootstrap`, `Forget`, `EnterEntries`, `RemoveEntries`, `EntriesStay`, `ReadOwnership`, `RemoveTracked` |
| the integration lease is busy for two seconds | `Busy` |
| death or a failed write; the user | `Crash`; `Edit` |

The user takes no lease: `Edit` saves the hook or a provider file between any two
steps, also between the comparison of a file and the renaming that puts another
content there.  What was saved in that window is remembered in `hasty` (the hook,
by a section that had compared the path before it moved or replaced what is there)
and in `late` (the provider files), and there the code makes no promise
(observations).  `visit` is how far `finishTransaction` is: the files not compared
yet, and the one that was compared and is being staged.  The files of an intent are
visited in any order, the manifest last, as the code puts it last in the list.

A version stands for everything a release writes: the wrapper, the driver, the
entry, the pin.  The integration lease is a variable with one holder, which a
dead command gives back.  That is what `StoreLease` shows of the lease until a
recovery is overtaken, and only until then (finding of `lease_overtaken`): `Setup`,
like `LedgerSync`, `StoreIndex` and `Collect`, says what holds while a lease has
one holder.  A plan is one step, because its result is compared with the files again before anything is
written.

Abstracted or left out: the workflow file and the README block, inline TOML
settings, linked worktrees, checkouts of other branches, `--new-repository`,
`win32`.

## 3. Runs

| Run | Instance | Shows |
|---|---|---|
| `ledger` | two clones synchronized by hand, absent ref, one usage record, one retry, one fault, one change by the owner | at most one root per clone, the metadata of the winner stays, anchors precede, nothing that lost accepted records is ever accepted, receipts only for what is accepted |
| `ledger_edits` | a clone that runs every kind of operation and one that makes the same edit, no retry inside an operation, one fault | the protocol implements `PublicLedger`; every journaled record is acknowledged in the end |
| `ledger_lost_creation` | one clone, absent ref, one fault | **violation**, see findings |
| `configure` | two clones with the same edit, one that also synchronizes, setups of both, one fault | a change that may still arrive keeps its note; a declaration that drifted is repaired |
| `supervision` | two pids, one given out again while a lease names it, one launcher, one call, one death | a live holder keeps its lease unless a recovery was overtaken; one answer, when the process group is gone; a dead owner's lease goes away unless a recovery died with it |
| `lease_overtaken` | three pids that acquire and release, no death | **violation**, see findings |
| `store_index` | a record and a control of one unit, two entries, slices and receipts of one, two faults | what is believed agrees with the files; nothing derived blocks the store; bounded sessions rebuild it; the store implements `PrivateStore` |
| `store_report` | one record, one entry, a reader, one fault, one change of a file | reports are exact, lost authority is noticed |
| `accepted` | two records, two remotes, histories of two commits, all three kinds of sessions, one change of a remote, one fault | what is served is exactly its commit, what is confirmed retains what was, the confirmed index survives |
| `setup` | a process that sets up and one that uninstalls, two releases, one provider, three commands, two of them side by side, one crash, one edit | the user's hook and text survive, except for what is saved between a comparison and the renaming after it; what is installed is recorded, nothing unapproved is started, a founding is not forgotten |
| `collect` | two sources, two units, two edits or commands, one change of a file, one failure or stop, automatic operations of one source and one entry | cursors, decisions, records and controls agree; reconciliation is reported honestly; everything is collected in the end |
| `collect_stale` | one source, one command, no failure | **violation**, see findings |

Bounds: `MaxRetries`, `MaxFaults`, `MaxTampers`, `MaxHistory`, `MaxDeaths`,
`MaxCalls`, `MaxEntries`, `MaxLines`, `MaxChanges`, `MaxEdits`, `MaxStops`,
`MaxCommits`, `MaxMoves`, `MaxRuns`, `MaxOverlap`, `MaxCrashes` and `BatchLimit`
are guards of the models, and each is named in its module.

Why these bounds are enough for the question asked: two clones give every race
on one ref (a third only repeats the second's part, since a clone sees nothing
but the ref); one retry distinguishes the first attempt from a later one, and
zero retries make the liveness claim harder, not easier; one fault can be put
at every step, and after it the operations run again over what it left; one
change by the owner likewise.  In the lease two processes and a parent are the
least in which two recoveries, by a waiter and by the parent, meet over the lease of
a dead worker and one of them acquires it before the other is done; the third
process of `lease_overtaken` is the one that acquires between a read and a probe.  In the store two
entries give repeated records, gaps and a slice that stops half way; slices and
receipts of one file put a boundary between any two files; two faults are a
failure and a crash in the recovery from it.  In the accepted cache two records
let a call end inside a phase, and two commits are one that is confirmed and one
that is staged, pushed or tampered with.  In a setup three commands are an
installation, one that is interrupted and one that finds what it left; two of
them overlap, because only parts of them are under a lease.  In a collection two
sources are the least that rotate and the least that hold copies of one unit; two
entries make a bounded read stop half way; two edits are a choice and its
replacement, also by a command or after a directory went away.  Where a theorem
is proved it covers every value.

Larger instances that were checked without being runs: `Setup` with one process that
does both (four commands, one crash, one edit; three commands, two crashes, one edit;
three commands, one crash, two edits) and with three concurrent commands, one of them
a setup, and no edit; `LedgerSync` with a clone that also runs automatic
operations and is given a contribution, beside a manual one (one fault and one
change by the owner); `Supervision` with three pids, all given out again, and
`StoreLease` alone with three pids, two deaths and four tokens, both up to the first
overtaken recovery, after which the invariant says nothing.  Batches,
oversized units and local routes (`BatchLimit`, `Oversized`, `LocalRoute`) were
checked on a small instance of their own and are covered by the theorems.  The
type invariants of all modules hold on the instances above; only the one of
`LedgerSync` has a run, since it is the one its proofs start from.

The passing run of `Collect` assumes `Settled` and `Patient`.  `Settled`: nobody
edits the policy between an operation's read of it and its end; `collect_stale`
shows what happens otherwise.  `Patient`: no choice about a unit returns, by an edit
or by a command, while decisions taken under that choice are left.  Without it an
exclude command that is cut after its output and a return to the former choice
leave the unit excluded with nothing to decide again, because its decisions are
already those of that policy (collect.ts:426 keeps them until the output is
durable).  It is enough that one of several decisions is left: with three edits
and two cuts (exclude, include, exclude, each reprojection cut between its chunks)
TLC finds the same end where only the policy as a whole may not return.

`lease_overtaken` declares pids and tokens interchangeable and `accepted` its
remotes: no definition singles one out, and these runs check no liveness.
Deadlock checking is off in `setup` only, where the user may stop running
commands; everywhere else operations can always start again.

### Fairness

`LedgerSync!FairSpec`: an operation that has started takes its steps (the code
never waits for another clone), a request that was sent reaches the remote
unless it is lost, and each clone is asked for a manual synchronization again
and again.  Nothing is assumed about who wins a race.

`Configure!FairCSpec` says the same of one clone, with the declaration as part
of the operation, and that setup is run where the declaration has drifted, as
docs/TROUBLESHOOTING.md:11 tells the user to.

`Supervision!FairSSpec`: commands keep being run, what runs takes its steps, a
launcher handles its events and its hard timer fires (supervisor.ts:67), an acquisition ends by its deadline, a probe of the
namespace succeeds now and then, and of the waiters that poll the guard every
20 ms one finds it free once in a while when it is free again and again.  The
last one is a statement about timing that no step of the code guarantees; without
it all waiters could be unlucky for ever.  `DeadOwnerReclaimed` says most about the
pid that is not in `Reused`: where a later process gets the pid of the dead owner
the owner no longer counts as dead, and nothing bounds how long that process lives.

`StoreIndex!FairSpec`: bounded sessions are begun again and again and each asks
for the outbox, a session takes its steps, and a slice, which may end after any
file because its time is up, now and then has the time for one.

`Collect!FairSpec`: the next step of the operation that holds the lease is taken
- its budget is wall-clock time, which ends it by `Stop` at most `MaxStops` times
- and collections are begun again and again, as every commit and every agent
session runs one.  Nothing is assumed about their mode: they may all be
automatic.

`AcceptedStage` and `Setup` state no fairness: the observations below show that
neither always ends well, so that only their safety is claimed.

## 4. Findings

`ledger_lost_creation` - the first creation records `transport.json` with a null
commit before it pushes (sync.ts:259-263, deliberately: an unknown outcome must
not permit seeding again).  If that push is lost and the ref stays absent, line
141 reads the evidence as a rewritten history: every later sync and every
retried setup ends in `conflict`, although `docs/RECOVERY.md` tells the user to
retry.  The safe half of the design is `NoReseed`, which holds and is proved.

`lease_overtaken` - `reclaim()` reads the owner, probes its pid and unlinks the path
in three steps (lock.ts:56-58), under a guard that other recoveries respect and
acquisitions do not.  If the owner releases and exits after the read and somebody
else acquires before the probe, the probe is right about the process and the unlink
hits the lease of the new holder; the next one acquires beside it.  TLC needs 17
states and no crash.  The comment at lock.ts:49 says that the guard keeps waiters
from deleting a newly acquired lock, and the test at store.test.ts:608 does so for
two reapers, which it does (`KeptUnlessOvertaken`, proved).

`collect_stale` - the private policy is part of the activation, which the hooks
(runtime-worker.ts:12-21) and commands (context.ts:6) read before they wait for the
lease.  If an exclude command has the lease meanwhile, the collection that waited
finds decisions of a policy it does not know, takes the difference for an edit
that includes the unit again, and journals an include control.  The policy still
says exclude; the next collection under it decides again and excludes again,
after the unit may have been published.  The comment at collect.ts:340 promises
that replay cannot undo a shared control.

### Observations

States the models reach, or would reach without an assumption they name, that no
run is kept for.

- Accepted stage: a stage of an older tip cannot be promoted while the inactive
  slot is pinned, and the pinned slot is not released before a promotion, so that
  automatic synchronization of a tip that moved stays queued until a manual one
  (accepted-index.ts:97-109; docs/maintainers/STORAGE-AND-PERFORMANCE.md:44-45).
- Accepted stage: a manual synchronization can confirm a newer commit while the
  stage of an older one is left; the retention scan of a later automatic one then
  throws, since the staged commit does not descend from the confirmed one.
- Accepted stage: a death between the receipt of an owner and its ref, or between
  the removal of the ref and of the receipt, leaves an owner whose ref cannot be
  deleted: `git update-ref -d` fails each time (`Unpin`).
- Configure: a request that leaves the metadata as it is succeeds without sending
  anything, and clears the note of an earlier attempt that may still be on its
  way (configure.ts:58).  No edit of `configure` is such a request; with one
  (`<< m0, m0 >>` in `EditsOne`) TLC finds `UncertaintyKept` violated.  The
  declaration is repaired all the same, since setup compares it with what was
  accepted and does not read the note.
- Setup: an upgrade that dies after `config.json` was written and before the pin
  makes every later plan take the old pin for the new release and throw
  (setup.ts:132-133, manifest.ts:29-37), although docs/RECOVERY.md:17 says to
  retry setup.  The checkout has to be restored by hand.
- Setup: uninstall reports "removed" also when the hook section was left out
  because the integration lease was busy (operations.ts:78, docs/UNINSTALL.md:13).
- Setup: the hook path is compared once (hooks.ts:124, 149 for a removal) and then
  renamed over (138-139, 157, 162); a provider file is compared
  (agent-hooks.ts:114-115) and then staged, synced and renamed over (73-79).  What
  the user saves in between is overwritten: asked whether the last hook of the user
  is at the hook path or in the backup, and whether each provider file has the text
  it was last given, TLC finds installations without any failure in which a hook
  that was saved between the two renamings is nowhere (26 states), and in which a
  file is (15 states).
  A hook saved before the first renaming ends up in the backup, which `hooks.json`
  then does not recognise, so that the removal refuses.  docs/UNINSTALL.md:11 says
  that existing settings and hook bytes are preserved, and
  docs/superpowers/research/2026-10-22-hook-integration-contract.md:123 that setup and
  removal refuse edited files rather than discarding them; both hold except there.
- Setup: two deaths and two releases can leave a wrapper that `hooks.json` does
  not recognise; two first setups side by side can mix two identities; a death
  of uninstall between restoring the hook and removing `hooks.json`, or between
  removing `local.json` and `bootstrap.cjs`, leaves a state that asks for a
  repair by hand.  In each of them the hook of the user is kept.
- Setup: two setups that overlap can forget a founding, since the one that ends
  clears the intent without looking whose it is (setup.ts:236).  The shortest way TLC
  finds: the first has noted its intent, an uninstall gives it up, the second plans
  another repository, the first writes its approval, the second notes its intent, the
  first clears it, the second publishes its config.  Then neither the intent nor the
  approval names what config.json does.  A retried setup would still found it, as the
  approval that is there allows it, although it names another repository
  (setup.ts:150).
  `FoundingNotForgotten` is therefore claimed, checked and proved for one process that
  runs setup.

## 5. Proofs

TLAPS proves what follows for every value of the constants that satisfies
their assumptions, and without the bounds of the runs on lengths, faults, commands and
edits where the text does not name one.  No property is inductive as it stands;
each proof goes by a strengthening, which was checked with TLC on small instances
before it was proved.

- `LedgerSync_proofs` (with facts about commits in `CommitHistory_proofs`).
  `TypeCorrect`, `AcknowledgementsConfirmed`, `AnchorsFirst`, `AcceptedNeverRewinds`:
  a receipt is justified by what the running operation knows, so
  `AcceptanceInvariant` says, for each location of an operation, what `fetched`,
  `accepted`, `local` and `candidate` are worth there (for instance that in `record`
  the fetched commit is anchored and retains the recorded one).  `SeededOnce` rests
  on `AllRootInv`: a clone that has sent a root commit, or is about to, has durable
  evidence, and evidence is never forgotten.  `AcknowledgedStaysPublic` and
  `MetadataChangesRequested` rest on `SharedInvariant`: without tampering every
  commit a clone knows, and the old side of every request that can still win, is an
  ancestor of the tip, and every candidate is a permitted extension of its parent.
  `LedgerSyncImplementsPublicLedger`, with `MaxTampers = 0`: `Deliver` of a request
  whose comparison succeeds is a `Publish`, `Acknowledge` is an acknowledgement of
  public records, and every other action stutters.
- `Configure_proofs`.  `ConfigureTypeCorrect`; `UncertaintyAlwaysKept` under the
  assumption that no edit asks for the metadata it expects (the observation below
  says what happens otherwise).  `NotesInvariant` adds to `SharedInvariant` that
  when the note may go, every change that was sent is no longer than the confirmed
  commit: whatever was sent and is not in it has lost its comparison for good.
- `Supervision_proofs`.  For `StoreLease!Spec`: `LeaseTypeCorrect`, `LeaseKept` and
  `OneHolder`, without any assumption: both say what holds until a recovery is
  overtaken.  `LeaseInvariant` says that whoever is past the guard is alone there,
  that until then a recovery or a parent about to remove a lease finds one there that
  nobody holds (`Abandoned`): a process in `judge` keeps no promise, as its owner may
  leave, but the probe of an owner that is still in the file does; and that nobody
  uses the token of a worker whose exit its parent has observed.  For `Supervision!SSpec`:
  `SupervisedLeaseKept` and `SupervisedOneHolder`, since what launchers and their
  workers do to the lease keeps the same invariant; and `CallsTypeCorrect`,
  `GroupsGoneFirst` and `AnswersAreFinal` from `RaceInvariant`: a Git process
  of a call is left only while its worker is watched or its exit has not been
  handled, and whoever was answered has a group without processes, and a worker that
  was sent SIGKILL if it is still watched.
- `StoreIndex_proofs`.  `StoreTypeCorrect`, `IndexAlwaysAgrees`,
  `PublishedAlwaysAgrees`, `DerivedNeverEverBlocks`, `VanishedAlwaysNoticed`,
  `ReportAlwaysExact` and `StoreImplementsAtomic`.  `StoreInv` says of every database
  that carries a manifest or is being rebuilt which files it reflects, of the operation at
  each location what it holds (`PlaceInv`) and how far the index may be behind the
  files (`BehindInv`), of a rebuild that the files left to replay
  are replayable (`RebuildInv`), and of a reader that what it took agrees with one
  state of the files (`ReaderInv`).  What other programs do to the files is part of the model;
  `StoreImplementsAtomic` assumes `MaxTampers = 0`, and the parts of `StoreInv` that
  need untouched files are stated for `tampers = 0`.
- `AcceptedStage_proofs`.  `AcceptedTypeCorrect`, `ServedAlwaysExact`,
  `RetainedAlwaysTrue`, `ConfirmedAlwaysRetains`, `HandoffAlwaysSealed`,
  `ConfirmedAlwaysKept`, `CacheAlwaysSurvives`.  `AcceptedInv` says of each phase of a stage what
  its tables hold of its commit (`StageOf`), whose stage it is (`OwnedInv`), and
  what the session at each location has established about the commit it is about
  to publish or confirm (`SessionInv`).
- `Setup_proofs`.  `SetupTypeCorrect`, `EntryAlwaysApproved`, `HookAlwaysRecorded`,
  `UserHookAlwaysServed`, `ProviderEditsAlwaysKept`, `GroupsAlwaysRecorded`,
  `FoundingNeverForgotten`.  The steps a command has left are a sequence; the proofs
  use which step may follow which (`Flow`) and that exactly the command inside a
  section has the lease (`ControlInv`), so that what holds at a step follows from
  what held at the one before (`HookPhase`, `ProviderPhase`, `EntryPhase`).  The
  lease keeps other commands out and not the user: `HookPhase` says of each step that
  the hook is as it was compared or that it was saved since, and `Visiting` that of
  the files of an intent only the one being staged may have changed unseen, which is
  then in `late`.
  `FoundingNeverForgotten` needs the whole way of a setup instead: `FoundingInv`
  says that between the note of the intent and its end the intent or the
  approval names the planned repository, that no other repository is in the clone
  meanwhile, and that a plan that may not found has nothing to found.  It assumes
  `OneSetup`, at most one process that runs setup beside any number that uninstall;
  the observations say why.
- `Collect_proofs`.  `CollectTypeCorrect`, `CheckpointsCovered`, `AttributedCaptured`,
  `ReconciledHonestly`, under `Settled` `ReplayNeverCounts`, and under `Settled` and
  `Patient` `UserDecides`.  `Core` (types, the shape of a run, the form of decisions)
  comes first, with the lemma that every step is of one of six kinds (`Steps`), and the others
  are relative to it: what is in hand for a source is what its policy decided
  (`HandInv`, `CaptureInv`), output follows the policy it was computed under
  (`OutInv`, `PolicyInv`), a clean source was read to its end (`HonestInv`), and a
  choice of the user stands until another replaces it (`ChoiceInv`).

The assumptions of the modules (`ConstantsAssumption`, `SetupAssumption`,
`NameAssumption`, `ModeAssumption` and the like) say what a constant may be, and TLC evaluates
them in the runs.  The hypotheses `Settled`, `Patient`, `OneSetup`, `MaxTampers = 0`
and the one on edits are no such assumptions: each is named in its
theorem and holds in the run that checks the property.  The abstract specifications
promise nothing where somebody else rewrites the ref or the files; what happens
without the other hypotheses is told in sections 3 and 4.

Only model-checked are the liveness properties (`PendingPublished`, `DriftRepaired`,
`DeadOwnerReclaimed`, `RebuildCompletes`, `EverythingCollected`), which depend on
fairness and are out of the prover's reach, and the three violations.  Every other
property of a run is proved.

## 6. Plan

All modules of the plan are written: `LedgerSync` with `PublicLedger`,
`StoreLease`, `StoreIndex` with `PrivateStore`, `Configure`, `Supervision`,
`AcceptedIndex` with `AcceptedStage`, `Attribution` with `Collect`, and `PushHook`,
`ProviderHooks` and `Setup`.  No RECURSIVE operator is used, so that all of them
can be proved about.  What would still say more about the system:

1. `LedgerSync` under tampering that only rewinds: which records a clone publishes
   again.
2. `Supervision` over `StoreIndex`: that the store a worker leaves when it is killed is one
   the next holder of the lease may open (today the two meet in `Crash`).
3. Weaker hypotheses: `Patient` for single choices that return, `OneSetup` for
   setups that overlap only outside their tracked files.

### Not modelled

- Parsers of the providers' logs, pricing, rendering and the reduction of a
  ledger (`reduceLedger`, `validate-tree`): pure functions of their input, which the
  models take as data.
- Status, doctor and reports: read-only views; how a report reads without the
  lease is in `StoreIndex`.
- Command line, initializer, test kit and scripts: they hold no state.
- The queue of operations of one lease owner (store.ts:145), which makes them
  sequential; `StoreIndex` assumes that it does.
- A recovery guard that its owner left behind (lock.ts:59), which the code
  accepts as a loss of availability; `DeadOwnerReclaimed` excludes it by name.
- What a power failure does to writes that were not synced, and `win32`.
