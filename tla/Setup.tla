---------------------------------- MODULE Setup ----------------------------------
(***************************************************************************)
(* Setup and uninstall of a clone (integration/setup.ts, runtime.ts and    *)
(* operations.ts), with its pre-push hook and its provider entries.        *)
(*                                                                         *)
(* A command carries the list of the steps it has left.  Only the hook and *)
(* the provider sections run under the integration lease; everything else  *)
(* of a setup interleaves with an uninstall, with the user's edits, and    *)
(* with its own death between any two steps, which releases the lease: its *)
(* owner is provably dead then (StoreLease).  planSetup() is one step: its *)
(* result is compared with the files again before anything is written.     *)
(***************************************************************************)
EXTENDS PushHook, ProviderHooks, Sequences, SequencesExt

CONSTANTS
    Process,    \* commands the user runs, one after the other in each
    Kinds,      \* what each of them is used for
    Shared,     \* releases another clone may have set this checkout up with
    MaxRuns,    \* bound: commands started
    MaxOverlap, \* bound: of these, the ones that may start beside another
    MaxCrashes, \* bound: commands that die or fail on their own
    MaxEdits    \* bound: edits of the user

ASSUME SetupAssumption ==
    /\ Kinds \in [Process -> SUBSET {"setup", "uninstall"}]
    /\ Release = Version /\ Shared \subseteq Version
    /\ MaxRuns \in Nat /\ MaxOverlap \in Nat /\ MaxCrashes \in Nat /\ MaxEdits \in Nat

VARIABLES
    tracked,    \* .agent-badge/ in the checkout
    intent,     \* the repository in setup-intent.json, or 0
    local,      \* local.json: the approval of this clone
    bootstrap,  \* the release bootstrap.cjs starts, or 0
    runtimes,   \* releases installed in the private directory
    lease,      \* who holds integration-locks/
    proc,       \* what each command has left to do
    drawn,      \* how many repository ids were drawn here
    requested,  \* history: repositories an initialization was requested for
    approved,   \* history: releases local.json has approved
    dropped,    \* history: repositories uninstall has deactivated
    spent       \* commands, deaths and edits so far

cloneVars == << tracked, intent, local, bootstrap, runtimes >>
histVars == << drawn, requested, approved, dropped >>
svars == << hookVars, providerVars, cloneVars, lease, proc, histVars, spent >>

\* Another clone founded this repository; the others are drawn here.
Theirs == 1
Id == 1 .. MaxRuns + 1

NoConfig == [id |-> 0, version |-> 0]
NoLocal == [id |-> 0, version |-> 0, init |-> FALSE]
NoFiles == [config |-> NoConfig, manifest |-> 0, lock |-> 0]

\* The files ownership.json lists have the content it was written for.
Files(id, version) ==
    [config |-> [id |-> id, version |-> version], manifest |-> version, lock |-> version]

\* ownership.json holds the digests of the other files.
Tracked(written, owns) == [files |-> written, owned |-> owns]

Idle == [kind |-> "none", todo |-> << >>, plan |-> << >>]

Free == "free"

\* No command has the name that stands for the free lease.
ASSUME NameAssumption == Free \notin Process

Nowhere == Tracked(NoFiles, NoFiles)

SetupInit ==
    /\ HookInit
    /\ ProviderInit
    /\ tracked \in {Nowhere} \cup
                   { Tracked(Files(Theirs, v), Files(Theirs, v)) : v \in Shared }
    /\ intent = 0 /\ local = NoLocal /\ bootstrap = 0 /\ runtimes = {}
    /\ lease = Free
    /\ proc = [p \in Process |-> Idle]
    /\ drawn = 0 /\ requested = {} /\ approved = {} /\ dropped = {}
    /\ spent = [runs |-> 0, crashes |-> 0, edits |-> 0]

-----------------------------------------------------------------------------
(* The steps of a command *)

HookSteps == << "hook lock", "installing", "move", "driver", "wrapper",
                "installed", "unlock" >>
ProviderSteps == << "provider lock", "publish", "write", "manifest", "retire", "unlock" >>

\* Mutant of RemovalSteps: the record goes before the driver it describes.
RecordGoesFirst == << "remove lock", "restore", "remove record", "remove driver", "unlock" >>

RemovalSteps == << "remove lock", "restore", "remove driver", "remove record", "unlock" >>

EntrySteps == << "entries lock", "entries", "unlock" >>

\* Mutant of Activation: the entry point is switched before it is approved.
EntryFirst == << "bootstrap", "local" >>

\* Approval precedes switching executable entrypoints.
Activation == << "local", "bootstrap" >>

SetupSteps ==
    << "compare", "runtime", "intent", "config", "pin manifest", "pin lock", "ownership" >>
    \o ProviderSteps \o Activation \o HookSteps \o << "clear", "operation" >>

UninstallSteps ==
    << "deactivate", "unlink bootstrap", "forget" >> \o RemovalSteps \o EntrySteps
    \o << "untrack" >>

Doing(p, step) == proc[p].todo # << >> /\ Head(proc[p].todo) = step

Todo(p, steps) == proc' = [proc EXCEPT ![p] = IF steps = << >> THEN Idle
                                              ELSE [@ EXCEPT !.todo = steps]]

Done(p) == Todo(p, Tail(proc[p].todo))

\* The rest of a section is left out, the release of its lease included.
AfterSection(steps) ==
    LET end == SelectInSeq(steps, LAMBDA step : step = "unlock")
    IN  SubSeq(steps, end + 1, Len(steps))

CanStart(p) ==
    /\ proc[p].todo = << >>
    /\ spent.runs < MaxRuns
    /\ spent.runs < MaxOverlap \/ \A q \in Process : proc[q].todo = << >>

LeaveSection(p) == Todo(p, AfterSection(proc[p].todo))

\* A failure ends a setup; an uninstall goes on after the hook, and leaves the
\* tracked files alone when the provider entries stay.
Throw(p) == IF Doing(p, "remove lock") THEN LeaveSection(p) ELSE Todo(p, << >>)

-----------------------------------------------------------------------------
(* planSetup() *)

Declared == tracked.files.config

Identity ==
    CASE Declared # NoConfig -> Declared.id
      [] Declared = NoConfig /\ local # NoLocal -> local.id
      [] Declared = NoConfig /\ local = NoLocal /\ intent # 0 -> intent
      [] OTHER -> drawn + 2

\* The pin in the checkout is taken for a release it is declared for.
PinInvalid(version) ==
    /\ Declared.version = version
    /\ tracked.files.manifest # 0 /\ tracked.files.lock # 0
    /\ ~(tracked.files.manifest = version /\ tracked.files.lock = version)

PinModified(version) ==
    \E file \in {"manifest", "lock"} :
        tracked.files[file] \notin {0, version, tracked.owned[file]}

PlanThrows(version) ==
    \/ intent \notin {0, Identity}
    \/ PinInvalid(version)
    \/ PinModified(version)

\* Mutant of InitializeAllowed: the intent of an interrupted setup is not read.
AllowedByLocal ==
    IF local # NoLocal THEN local.init ELSE Declared = NoConfig

InitializeAllowed ==
    IF local # NoLocal THEN local.init ELSE intent # 0 \/ Declared = NoConfig

SetupPlan(version) ==
    [ id        |-> Identity,
      version   |-> version,
      init      |-> InitializeAllowed,
      before    |-> tracked,
      hook      |-> HookPlan(version),
      providers |-> ProviderPlan(version) ]

StartSetup(p) ==
    /\ "setup" \in Kinds[p]
    /\ CanStart(p)
    /\ \E version \in Version :
         /\ ~PlanThrows(version)
         /\ proc' = [proc EXCEPT ![p] = [kind |-> "setup", todo |-> SetupSteps,
                                         plan |-> SetupPlan(version)]]
    /\ drawn' = IF Identity > drawn + 1 THEN drawn + 1 ELSE drawn
    /\ spent' = [spent EXCEPT !.runs = @ + 1]
    /\ UNCHANGED << hookVars, providerVars, cloneVars, lease, requested, approved, dropped >>

-----------------------------------------------------------------------------
(* applySetup() *)

Wanted(plan) == Files(plan.id, plan.version)

\* Files that will change are compared with what was reviewed, once.
Compare(p) ==
    LET plan == proc[p].plan
        unchanged(file) == \/ plan.before.files[file] = Wanted(plan)[file]
                           \/ tracked.files[file] = plan.before.files[file]
    IN  /\ Doing(p, "compare")
        /\ IF /\ \A file \in DOMAIN tracked.files : unchanged(file)
              /\ tracked.owned = plan.before.owned \/ plan.before.owned = Wanted(plan)
              /\ ProvidersAsPlanned(plan.providers)
           THEN Done(p) ELSE Throw(p)
        /\ UNCHANGED << hookVars, providerVars, cloneVars, lease, histVars, spent >>

InstallRuntime(p) ==
    /\ Doing(p, "runtime")
    /\ runtimes' = runtimes \cup {proc[p].plan.version}
    /\ Done(p)
    /\ UNCHANGED << hookVars, providerVars, tracked, intent, local, bootstrap, lease,
                    histVars, spent >>

NoteIntent(p) ==
    LET plan == proc[p].plan
    IN  /\ Doing(p, "intent")
        /\ IF plan.init /\ intent \notin {0, plan.id}
           THEN Throw(p) /\ UNCHANGED intent
           ELSE Done(p) /\ intent' = IF plan.init THEN plan.id ELSE intent
        /\ UNCHANGED << hookVars, providerVars, tracked, local, bootstrap, runtimes,
                        lease, histVars, spent >>

\* One file after the other, those the plan changes; the digests come last.
Publishing == [config |-> "config", manifest |-> "pin manifest", lock |-> "pin lock"]

WriteTracked(p) ==
    LET plan == proc[p].plan
    IN  /\ \/ \E file \in DOMAIN Publishing :
                /\ Doing(p, Publishing[file])
                /\ tracked' = IF plan.before.files[file] = Wanted(plan)[file] THEN tracked
                              ELSE [tracked EXCEPT !.files[file] = Wanted(plan)[file]]
           \/ /\ Doing(p, "ownership")
              /\ tracked' = IF plan.before.owned = Wanted(plan) THEN tracked
                            ELSE [tracked EXCEPT !.owned = Wanted(plan)]
        /\ Done(p)
        /\ UNCHANGED << hookVars, providerVars, intent, local, bootstrap, runtimes,
                        lease, histVars, spent >>

Approve(p) ==
    LET plan == proc[p].plan
    IN  /\ Doing(p, "local")
        /\ local' = [id |-> plan.id, version |-> plan.version, init |-> plan.init]
        /\ approved' = approved \cup {plan.version}
        /\ Done(p)
        /\ UNCHANGED << hookVars, providerVars, tracked, intent, bootstrap, runtimes,
                        lease, drawn, requested, dropped, spent >>

SwitchBootstrap(p) ==
    /\ Doing(p, "bootstrap")
    /\ bootstrap' = proc[p].plan.version
    /\ Done(p)
    /\ UNCHANGED << hookVars, providerVars, tracked, intent, local, runtimes,
                    lease, histVars, spent >>

ClearIntent(p) ==
    /\ Doing(p, "clear")
    /\ intent' = 0
    /\ Done(p)
    /\ UNCHANGED << hookVars, providerVars, tracked, local, bootstrap, runtimes,
                    lease, histVars, spent >>

\* The initial operation of Collect and LedgerSync.
InitialOperation(p) ==
    /\ Doing(p, "operation")
    /\ requested' = IF proc[p].plan.init THEN requested \cup {proc[p].plan.id} ELSE requested
    /\ Done(p)
    /\ UNCHANGED << hookVars, providerVars, cloneVars, lease, drawn, approved, dropped, spent >>

-----------------------------------------------------------------------------
(* The integration lease *)

Locks == {"hook lock", "provider lock", "remove lock", "entries lock"}

\* Two seconds of waiting are over: the section is left out.
Busy(p) ==
    /\ \E step \in Locks : Doing(p, step)
    /\ lease # Free
    /\ IF Doing(p, "entries lock") THEN Throw(p) ELSE LeaveSection(p)
    /\ UNCHANGED << hookVars, providerVars, cloneVars, lease, histVars, spent >>

Unlock(p) ==
    /\ Doing(p, "unlock")
    /\ lease' = Free
    /\ Done(p)
    /\ UNCHANGED << hookVars, providerVars, cloneVars, histVars, spent >>

\* A section is entered, left at once, or fails at its first comparison.
Enter(p, lock, enter, fail) ==
    /\ Doing(p, lock)
    /\ lease = Free
    /\ IF fail THEN Throw(p) /\ UNCHANGED lease
       ELSE IF enter THEN Done(p) /\ lease' = p
       ELSE LeaveSection(p) /\ UNCHANGED lease
    /\ UNCHANGED << hookVars, providerVars, cloneVars, histVars, spent >>

\* A step of a section that touches the hook, or the provider files.
InHooks(p, step) ==
    /\ Doing(p, step)
    /\ Done(p)
    /\ UNCHANGED << providerVars, cloneVars, lease, histVars, spent >>

InProviders(p, step) ==
    /\ Doing(p, step)
    /\ UNCHANGED << hookVars, cloneVars, lease, histVars, spent >>

-----------------------------------------------------------------------------
(* applyHookPlan() and removeHooks() *)

\* A plan with action items does not even take the lease.
SkipHook(p) ==
    /\ Doing(p, "hook lock")
    /\ proc[p].plan.hook.action
    /\ LeaveSection(p)
    /\ UNCHANGED << hookVars, providerVars, cloneVars, lease, histVars, spent >>

InstallHook(p) ==
    LET plan == proc[p].plan.hook
    IN  \/ /\ Doing(p, "hook lock") /\ ~plan.action
           /\ Enter(p, "hook lock", ~HookUnchanged(plan), HookPlanStale(plan))
        \/ InHooks(p, "installing") /\ RecordInstalling(plan)
        \/ InHooks(p, "move") /\ MoveAside(plan)
        \/ InHooks(p, "driver") /\ WriteDriver(plan)
        \/ InHooks(p, "wrapper") /\ WriteWrapper(plan)
        \/ InHooks(p, "installed") /\ RecordInstalled

\* The user's file was never moved: only the driver and the record go.
KeepHook(p) ==
    /\ Doing(p, "remove lock") /\ lease = Free
    /\ OriginalInPlace(record, hook) /\ ~RemovalThrows
    /\ lease' = p
    /\ Todo(p, Tail(Tail(proc[p].todo)))
    /\ UNCHANGED << hookVars, providerVars, cloneVars, histVars, spent >>

\* The file to be moved, or to be removed, is gone since it was compared.
HookGone(p) ==
    /\ hook = Nothing
    /\ \/ Doing(p, "move") /\ Moves(proc[p].plan.hook) /\ Throw(p)
       \/ Doing(p, "restore") /\ record.original = Nothing /\ LeaveSection(p)
    /\ lease' = Free
    /\ UNCHANGED << hookVars, providerVars, cloneVars, histVars, spent >>

RemoveHook(p) ==
    \/ /\ ~OriginalInPlace(record, hook) \/ RemovalThrows
       /\ Enter(p, "remove lock", record # NoRecord, record # NoRecord /\ RemovalThrows)
    \/ InHooks(p, "restore") /\ RestoreHook
    \/ InHooks(p, "remove driver") /\ RemoveDriver
    \/ InHooks(p, "remove record") /\ RemoveRecord

-----------------------------------------------------------------------------
(* applyAgentHookPlan() and removeAgentHooks() *)

\* Setup finishes an interrupted installation, never an interrupted removal.
EnterProviders(p) ==
    LET plan == proc[p].plan.providers
    IN  Enter(p, "provider lock",
              IF plan.pending = NoIntent THEN Changes(plan)
              ELSE pending.kind # "remove" /\ Recoverable(pending),
              ~ProvidersAsPlanned(plan) \/ pending # plan.pending)

\* finishTransaction(), from the intent that is found or published.
Finish(p) ==
    \/ /\ InProviders(p, "write")
       /\ IF AllWritten THEN Done(p) /\ UNCHANGED providerVars
          ELSE /\ UNCHANGED proc
               /\ CheckFiles \/ \E q \in Provider : CompareFile(q) \/ ReplaceFile(q)
    \/ InProviders(p, "manifest") /\ Done(p) /\ WriteManifest
    \/ InProviders(p, "retire") /\ Done(p) /\ Retire

\* A file in a third state stops it, and the intent stays.
ThirdState(p) ==
    /\ Doing(p, "write")
    /\ StrangeFile
    /\ lease' = Free
    /\ Throw(p)
    /\ UNCHANGED << hookVars, providerVars, cloneVars, histVars, spent >>

PublishInstall(p) ==
    /\ InProviders(p, "publish")
    /\ Done(p)
    /\ IF pending # NoIntent THEN FinishFound
       ELSE Publish(proc[p].plan.providers.intent)

EnterEntries(p) ==
    Enter(p, "entries lock", TRUE, pending # NoIntent /\ ~Recoverable(pending))

\* What is pending is finished first; a removal that was pending is enough.
RemoveEntries(p) ==
    LET rest == Tail(proc[p].todo)
        finish == << "write", "manifest", "retire" >>
    IN  /\ InProviders(p, "entries")
        /\ \/ /\ pending # NoIntent
              /\ Todo(p, finish \o (IF pending.kind = "remove" THEN rest ELSE proc[p].todo))
              /\ FinishFound
           \/ /\ pending = NoIntent
              /\ \A q \in Entries : ~Edited(q)
              /\ IF Entries = {} THEN Done(p) /\ UNCHANGED providerVars
                 ELSE Todo(p, finish \o rest) /\ Publish(RemovalIntent)

\* An entry the user edited keeps the manifest and every tracked file.
EntriesStay(p) ==
    /\ Doing(p, "entries")
    /\ pending = NoIntent
    /\ \E q \in Entries : Edited(q)
    /\ lease' = Free
    /\ Throw(p)
    /\ UNCHANGED << hookVars, providerVars, cloneVars, histVars, spent >>

-----------------------------------------------------------------------------
(* deactivate() and removeTrackedSetup() *)

StartUninstall(p) ==
    /\ "uninstall" \in Kinds[p]
    /\ CanStart(p)
    /\ proc' = [proc EXCEPT ![p] =
           [kind |-> "uninstall", todo |-> UninstallSteps,
            plan |-> [local |-> NoLocal, bootstrap |-> 0, owned |-> NoFiles, kept |-> FALSE]]]
    /\ spent' = [spent EXCEPT !.runs = @ + 1]
    /\ UNCHANGED << hookVars, providerVars, cloneVars, lease, histVars >>

Deactivate(p) ==
    /\ Doing(p, "deactivate")
    /\ proc' = [proc EXCEPT ![p].todo = Tail(@), ![p].plan.local = local,
                            ![p].plan.bootstrap = bootstrap]
    /\ local' = NoLocal
    /\ dropped' = dropped \cup ({local.id} \ {0})
    /\ UNCHANGED << hookVars, providerVars, tracked, intent, bootstrap, runtimes,
                    lease, drawn, requested, approved, spent >>

\* Only the entry point of the approval that was just removed.
UnlinkBootstrap(p) ==
    LET read == proc[p].plan
    IN  /\ Doing(p, "unlink bootstrap")
        /\ bootstrap' = IF read.local # NoLocal /\ read.bootstrap = read.local.version
                        THEN 0 ELSE bootstrap
        /\ Done(p)
        /\ UNCHANGED << hookVars, providerVars, tracked, intent, local, runtimes,
                        lease, histVars, spent >>

Forget(p) ==
    /\ Doing(p, "forget")
    /\ intent' = 0
    /\ dropped' = dropped \cup ({intent} \ {0})
    /\ Done(p)
    /\ UNCHANGED << hookVars, providerVars, tracked, local, bootstrap, runtimes,
                    lease, drawn, requested, approved, spent >>

\* The digests are read once; an edited file stays, and with it the digests.
ReadOwnership(p) ==
    /\ Doing(p, "untrack")
    /\ proc' = [proc EXCEPT ![p].plan.owned = tracked.owned,
           ![p].todo = IF tracked.owned = NoFiles THEN << >>
                       ELSE << "remove config", "remove manifest", "remove lock file",
                               "remove ownership" >>]
    /\ UNCHANGED << hookVars, providerVars, cloneVars, lease, histVars, spent >>

Removing == [config |-> "remove config", manifest |-> "remove manifest", lock |-> "remove lock file"]

RemoveTracked(p) ==
    LET read == proc[p].plan
    IN  /\ \/ \E file \in DOMAIN Removing :
               LET ours == tracked.files[file] = read.owned[file]
               IN  /\ Doing(p, Removing[file])
                   /\ tracked' = IF ours THEN [tracked EXCEPT !.files[file] = NoFiles[file]]
                                 ELSE tracked
                   /\ proc' = [proc EXCEPT ![p].todo = Tail(@), ![p].plan.kept =
                          @ \/ (~ours /\ tracked.files[file] # NoFiles[file])]
           \/ /\ Doing(p, "remove ownership")
              /\ tracked' = IF read.kept THEN tracked ELSE [tracked EXCEPT !.owned = NoFiles]
              /\ Done(p)
        /\ UNCHANGED << hookVars, providerVars, intent, local, bootstrap, runtimes,
                        lease, histVars, spent >>

-----------------------------------------------------------------------------
(* Deaths, and the user *)

\* The process dies, or a write or the installation of the release fails.
Crash(p) ==
    /\ proc[p].todo # << >>
    /\ spent.crashes < MaxCrashes
    /\ proc' = [proc EXCEPT ![p] = Idle]
    /\ lease' = IF lease = p THEN Free ELSE lease
    /\ spent' = [spent EXCEPT !.crashes = @ + 1]
    /\ UNCHANGED << hookVars, providerVars, cloneVars, histVars >>

\* A command has compared the hook and is about to move or to replace it.
HookCompared ==
    \E p \in Process :
        \E step \in {"installing", "move", "driver", "wrapper", "restore"} : Doing(p, step)

\* The user saves a file, at any time.
Edit ==
    /\ spent.edits < MaxEdits
    /\ spent' = [spent EXCEPT !.edits = @ + 1]
    /\ \/ EditHook(HookCompared) /\ UNCHANGED providerVars
       \/ /\ \E q \in Provider : EditProvider(q, \E p \in Process : Doing(p, "write"))
          /\ UNCHANGED hookVars
    /\ UNCHANGED << cloneVars, lease, proc, histVars >>

-----------------------------------------------------------------------------
(* The specification *)

SetupNext ==
    \/ \E p \in Process :
         \/ StartSetup(p) \/ Compare(p) \/ InstallRuntime(p) \/ NoteIntent(p)
         \/ WriteTracked(p) \/ Approve(p) \/ SwitchBootstrap(p) \/ ClearIntent(p)
         \/ InitialOperation(p) \/ Busy(p) \/ Unlock(p)
         \/ SkipHook(p) \/ InstallHook(p) \/ KeepHook(p) \/ RemoveHook(p) \/ HookGone(p)
         \/ EnterProviders(p) \/ PublishInstall(p) \/ Finish(p) \/ ThirdState(p)
         \/ EnterEntries(p) \/ RemoveEntries(p) \/ EntriesStay(p)
         \/ StartUninstall(p) \/ Deactivate(p) \/ UnlinkBootstrap(p) \/ Forget(p)
         \/ ReadOwnership(p) \/ RemoveTracked(p) \/ Crash(p)
    \/ Edit

SetupSpec == SetupInit /\ [][SetupNext]_svars

-----------------------------------------------------------------------------
(* Properties *)

\* The user's hook is never lost: whatever dies or interleaves, what the user
\* last put at the hook path is there or in the backup, and an executable one
\* runs through the wrapper unless hooks.json says that it is being moved.  Only
\* a hook that was saved after a section compared the path, and before it moved or
\* replaced what is there, is not covered: it may be overwritten.
UserHookServed ==
    mine # Nothing /\ ~hasty =>
        \/ hook = mine
        \/ /\ backup = mine
           /\ record.original = mine
           /\ \/ record.phase = "installing"
              \/ hook \in { Wrapper(v, mine \in { Own(x) : x \in Executable }) : v \in Version }

\* Nothing of ours is left behind without the record that lets a later setup
\* or uninstall recognise and remove it.
HookRecorded ==
    record = NoRecord => hook \notin Wrappers /\ driver = 0 /\ backup = Nothing

\* Installing, recovering and removing an entry never undo what the user wrote in
\* the same file, before, between and after the deaths and the recoveries of the
\* commands; only a file saved after it was compared, and before the renaming
\* that follows, is not covered: it is overwritten.
ProviderEditsKept == \A p \in Provider \ late : files[p].text = theirs[p]

\* Without a pending intent the manifest lists every group of ours.
GroupsRecorded ==
    pending = NoIntent =>
        \A p \in Provider : files[p].groups \ {Altered} \subseteq {manifest.entry[p]}

\* The entry point never starts a release that was not approved and installed.
EntryApproved == bootstrap # 0 => bootstrap \in approved \cap runtimes

\* A repository that was founded here and published in the checkout is still
\* to be initialized, unless that was requested or an uninstall gave it up.
FoundingNotForgotten ==
    LET founded == Declared.id
    IN  founded \in 2 .. drawn + 1 /\ founded \notin requested \cup dropped =>
            \/ intent = founded
            \/ local.id = founded /\ local.init
            \/ \E p \in Process : Doing(p, "operation") /\ proc[p].plan.id = founded

=============================================================================
