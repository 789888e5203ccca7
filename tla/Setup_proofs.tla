------------------------------ MODULE Setup_proofs ------------------------------
(***************************************************************************)
(* Proofs about Setup for any number of commands, releases, providers,     *)
(* texts and scripts, and without the bounds on runs, overlaps, deaths and *)
(* edits.                                                                  *)
(*                                                                         *)
(* A command carries its steps as a sequence.  The proofs only use which   *)
(* step may follow which (Flow), so that what holds at a step is derived   *)
(* from what held at the steps before it.  The founding of a ledger is     *)
(* about the way of a setup as a whole, and goes by the place of its next  *)
(* step in the list (At).                                                  *)
(***************************************************************************)
EXTENDS Setup, TLAPS, WellFoundedInduction

-----------------------------------------------------------------------------
(* Types *)

SetupStep == { "compare", "runtime", "intent", "config", "pin manifest", "pin lock",
               "ownership", "provider lock", "publish", "write", "manifest", "retire",
               "unlock", "local", "bootstrap", "hook lock", "installing", "move",
               "driver", "wrapper", "installed", "clear", "operation" }

UninstallStep == { "deactivate", "unlink bootstrap", "forget", "remove lock", "restore",
                   "remove driver", "remove record", "unlock", "entries lock", "entries",
                   "write", "manifest", "retire", "untrack", "remove config",
                   "remove manifest", "remove lock file", "remove ownership" }

Config == [id : Nat, version : Version \cup {0}]

Contents == [config : Config, manifest : Version \cup {0}, lock : Version \cup {0}]

Local == [id : Nat, version : Version \cup {0}, init : BOOLEAN]

HookPlans == [version : Version, before : Content, record : Record, action : BOOLEAN,
              delegate : BOOLEAN]

ProviderPlans == [pending : Intent, intent : Intent, action : BOOLEAN]

SetupPlans == [id : Nat, version : Version, init : BOOLEAN,
               before : [files : Contents, owned : Contents],
               hook : HookPlans, providers : ProviderPlans]

UninstallPlans == [local : Local, bootstrap : Version \cup {0}, owned : Contents,
                   kept : BOOLEAN]

Setups == [kind : {"setup"}, todo : Seq(SetupStep), plan : SetupPlans]

Uninstalls == [kind : {"uninstall"}, todo : Seq(UninstallStep), plan : UninstallPlans]

CloneTypeOK ==
    /\ tracked \in [files : Contents, owned : Contents]
    /\ intent \in Nat
    /\ local \in Local
    /\ bootstrap \in Version \cup {0}
    /\ runtimes \in SUBSET Version

SetupTypeOK ==
    /\ HookTypeOK /\ ProviderTypeOK /\ CloneTypeOK
    /\ lease \in Process \cup {Free}
    /\ proc \in [Process -> {Idle} \cup Setups \cup Uninstalls]
    /\ drawn \in Nat
    /\ requested \in SUBSET Nat /\ approved \in SUBSET Version /\ dropped \in SUBSET Nat
    /\ spent \in [runs : Nat, crashes : Nat, edits : Nat]

-----------------------------------------------------------------------------
(* The order of steps *)

Consecutive(a, b, list) == \E k \in 1 .. Len(list) - 1 : a = list[k] /\ b = list[k + 1]

\* One step follows another in a list of the model.
Flow(a, b) ==
    \/ Consecutive(a, b, SetupSteps)
    \/ Consecutive(a, b, UninstallSteps)
    \/ Consecutive(a, b, << "write", "manifest", "retire", "unlock" >>)
    \/ Consecutive(a, b, << "write", "manifest", "retire", "entries" >>)
    \/ Consecutive(a, b, << "remove config", "remove manifest", "remove lock file",
                            "remove ownership" >>)

\* A command ends after one of these.
Final == {"operation", "untrack", "remove ownership"}

\* What is done under the integration lease.
Section == { "installing", "move", "driver", "wrapper", "installed", "restore",
             "remove driver", "remove record", "publish", "write", "manifest", "retire",
             "entries", "unlock" }

OrderInv(todo) ==
    /\ \A k \in 1 .. Len(todo) - 1 : Flow(todo[k], todo[k + 1])
    /\ todo # << >> => todo[Len(todo)] \in Final

Within(p) == proc[p].todo # << >> /\ Head(proc[p].todo) \in Section

ControlInv == \A p \in Process : OrderInv(proc[p].todo) /\ (Within(p) <=> lease = p)

-----------------------------------------------------------------------------
(* What holds at the steps of a command *)

\* The release was installed before its entry point is switched, and approved.
EntryPhase(p) ==
    LET version == proc[p].plan.version
    IN  /\ proc[p].kind = "setup" /\ ~ Doing(p, "compare") /\ ~ Doing(p, "runtime") =>
               version \in runtimes
        /\ proc[p].kind = "setup" /\ Doing(p, "bootstrap") => version \in approved

EntryInv == EntryApproved /\ \A p \in Process : EntryPhase(p)

Runnable == { Own(script) : script \in Executable }

\* A record names what it replaced and how; without a backup none is named.
RecordInv ==
    /\ record = NoRecord \/ record.phase \in {"installing", "installed"}
    /\ record.original \in {Nothing} \cup Owns
    /\ record # NoRecord => record.delegate = (record.original \in Runnable)
    /\ record.original = Nothing => backup = Nothing

\* A plan to install the hook goes by the record, or finds the user's file.
HookPlanInv(plan) ==
    /\ plan.delegate = IF plan.record = NoRecord THEN plan.before \in Runnable
                       ELSE plan.record.delegate
    /\ plan.record # NoRecord /\ plan.before # Nothing /\ ~ plan.action =>
           \/ plan.record.phase = "installing" /\ plan.before = plan.record.original
           \/ Recognised(plan.before, plan.record)
    /\ plan.record = NoRecord => plan.before \notin Wrappers

\* The user's hook is in the backup, so that the wrapper may take its place.
Aside == mine # Nothing => backup = mine /\ record.original = mine

Replaced(plan) == IF plan.record = NoRecord THEN plan.before ELSE plan.record.original

\* Each step relies on the hook that was compared, unless it was saved since.
HookPhase(p) ==
    LET plan == proc[p].plan.hook
    IN  /\ proc[p].kind = "setup" => HookPlanInv(plan)
        /\ Doing(p, "installing") => record = plan.record
        /\ Doing(p, "installing") \/ Doing(p, "move") =>
               /\ plan.record.original # Nothing /\ ~ OriginalInPlace(plan.record, plan.before)
                      => backup = plan.record.original
               /\ ~ plan.action
               /\ hasty \/ hook = plan.before
        /\ Doing(p, "move") =>
               /\ record.phase = "installing"
               /\ record.original = Replaced(plan) /\ record.delegate = plan.delegate
               /\ plan.record = NoRecord => backup = Nothing
        /\ Doing(p, "driver") \/ Doing(p, "wrapper") \/ Doing(p, "installed") =>
               record.phase = "installing" /\ record.delegate = plan.delegate
        /\ Doing(p, "driver") \/ Doing(p, "wrapper") => hasty \/ Aside
        /\ Doing(p, "installed") =>
               \/ hasty \/ hook = mine
               \/ Aside /\ hook = Wrapper(plan.version, plan.delegate)
        /\ Doing(p, "restore") =>
               /\ record # NoRecord
               /\ record.original # Nothing => backup = record.original
               /\ hasty \/ (~ RemovalThrows /\ ~ OriginalInPlace(record, hook))
        /\ Doing(p, "remove driver") \/ Doing(p, "remove record") =>
               /\ record # NoRecord /\ hook \notin Wrappers /\ backup = Nothing
               /\ mine # Nothing => hasty \/ hook = mine
        /\ Doing(p, "remove record") => driver = 0

HookInv == RecordInv /\ HookRecorded /\ UserHookServed /\ \A p \in Process : HookPhase(p)

\* The groups of ours in a file.
Ours(file) == file.groups \ {Altered}

\* A file with a group is there.
Sound(file) == file.groups # {} => file.exists

\* What the manifest will list when the intent is finished.
Outcome(i) == IF i.before.manifest = i.after.manifest THEN manifest ELSE i.after.manifest

\* An intent leaves the user's text alone and lists every group it leaves; one
\* that does not change the manifest leaves none.
IntentInv(i) ==
    \A q \in Provider :
        /\ i.before.files[q].text = i.after.files[q].text
        /\ Ours(i.after.files[q]) \subseteq {i.after.manifest.entry[q]}
        /\ i.before.manifest = i.after.manifest /\ q \in Touched(i) =>
               i.after.files[q].groups = {}
        /\ Sound(i.after.files[q])

\* Nor does it forget a group of a file it does not touch.
PendingInv ==
    /\ IntentInv(pending)
    /\ pending = NoIntent <=> pending.kind = "none"
    /\ pending # NoIntent =>
           \A q \in Provider \ Touched(pending) :
               Ours(files[q]) \subseteq {Outcome(pending).entry[q]}

\* A new intent changes the entry of a file only together with the file.
ProviderPlanInv(plan) ==
    /\ plan.intent.kind # "none"
    /\ plan.pending = NoIntent =>
           /\ IntentInv(plan.intent)
           /\ \A q \in Provider \ Touched(plan.intent) :
                  plan.intent.before.manifest.entry[q] = plan.intent.after.manifest.entry[q]

\* A file that was compared is as the intent expects it, unless it was saved
\* since; one that was passed lists nothing the manifest will not list.
Visiting ==
    /\ pending # NoIntent
    /\ visit.ahead \subseteq Touched(pending)
    /\ \A q \in visit.compared :
           /\ visit.compared = {q} /\ q \in Touched(pending)
           /\ q \in late \/ files[q] = pending.before.files[q]
    /\ visit.checked =>
           \A q \in Touched(pending) \ (visit.ahead \cup visit.compared) :
               Ours(files[q]) \subseteq {Outcome(pending).entry[q]}

ProviderPhase(p) ==
    LET plan == proc[p].plan.providers
    IN  /\ proc[p].kind = "setup" => ProviderPlanInv(plan)
        /\ Doing(p, "publish") =>
               /\ pending = plan.pending
               /\ /\ pending = NoIntent
                  /\ plan.intent.before.manifest # plan.intent.after.manifest
                  => manifest = plan.intent.before.manifest
        /\ Doing(p, "write") => Visiting
        /\ Doing(p, "manifest") =>
               /\ pending # NoIntent
               /\ \A q \in Provider : Ours(files[q]) \subseteq {Outcome(pending).entry[q]}
        /\ Doing(p, "retire") =>
               \A q \in Provider : Ours(files[q]) \subseteq {manifest.entry[q]}

ProviderInv ==
    /\ ProviderEditsKept /\ GroupsRecorded /\ PendingInv
    /\ \A q \in Provider : Sound(files[q])
    /\ \A p \in Process : ProviderPhase(p)

-----------------------------------------------------------------------------
(* The lists *)

\* A list of steps in S that begins and ends with the given ones.
Spans(s, S, first, last) ==
    s \in Seq(S) /\ s # << >> /\ s[1] = first /\ s[Len(s)] = last

LEMMA ConcatSpans ==
    ASSUME NEW S, NEW s, NEW t, NEW x, NEW y, NEW u, NEW v,
           Spans(s, S, x, y), Spans(t, S, u, v)
    PROVE  Spans(s \o t, S, x, v)
<1>1. s \in Seq(S) /\ t \in Seq(S) /\ Len(s) > 0 /\ Len(t) > 0
    BY DEF Spans
<1>2. Len(s \o t) = Len(s) + Len(t) /\ s \o t \in Seq(S) /\ s \o t # << >>
    BY <1>1
<1>3. (s \o t)[1] = s[1] /\ (s \o t)[Len(s) + Len(t)] = t[Len(t)]
    BY <1>1
<1> QED
    BY <1>2, <1>3 DEF Spans

\* Two steps that follow each other in a concatenation do so in one of its
\* parts, or are where they meet.
LEMMA ConcatFlow ==
    ASSUME NEW S, NEW s, NEW t, NEW x, NEW y, NEW u, NEW v,
           Spans(s, S, x, y), Spans(t, S, u, v), NEW a, NEW b, Consecutive(a, b, s \o t)
    PROVE  Consecutive(a, b, s) \/ Consecutive(a, b, t) \/ (a = y /\ b = u)
<1>1. s \in Seq(S) /\ t \in Seq(S) /\ Len(s) > 0 /\ Len(t) > 0
    BY DEF Spans
<1>2. PICK k \in 1 .. Len(s) + Len(t) - 1 : a = (s \o t)[k] /\ b = (s \o t)[k + 1]
    BY <1>1 DEF Consecutive
<1>3. CASE k < Len(s)
    BY <1>1, <1>2, <1>3 DEF Consecutive
<1>4. CASE k = Len(s)
    BY <1>1, <1>2, <1>4 DEF Spans
<1>5. CASE k > Len(s)
    <2>1. a = t[k - Len(s)] /\ b = t[k - Len(s) + 1] /\ k - Len(s) \in 1 .. Len(t) - 1
        BY <1>1, <1>2, <1>5
    <2> QED
        BY <2>1 DEF Consecutive
<1> QED
    BY <1>1, <1>2, <1>3, <1>4, <1>5

\* Where a step may follow another in a setup ...
LEMMA SetupFlow ==
    ASSUME NEW a, NEW b, Consecutive(a, b, SetupSteps)
    PROVE  \/ Consecutive(a, b, << "compare", "runtime", "intent", "config", "pin manifest",
                                   "pin lock", "ownership" >>)
           \/ Consecutive(a, b, ProviderSteps)
           \/ Consecutive(a, b, Activation)
           \/ Consecutive(a, b, HookSteps)
           \/ Consecutive(a, b, << "clear", "operation" >>)
           \/ (a = "ownership" /\ b = "provider lock")
           \/ (a = "unlock" /\ b = "local")
           \/ (a = "bootstrap" /\ b = "hook lock")
           \/ (a = "unlock" /\ b = "clear")
<1> DEFINE X == << "compare", "runtime", "intent", "config", "pin manifest", "pin lock",
                   "ownership" >>
           Y == << "clear", "operation" >>
           XP == X \o ProviderSteps
           XPA == XP \o Activation
           XPAH == XPA \o HookSteps
<1>1. Spans(X, SetupStep, "compare", "ownership") /\ Spans(Y, SetupStep, "clear", "operation")
    BY DEF SetupStep, Spans
<1>2. Spans(ProviderSteps, SetupStep, "provider lock", "unlock")
    BY DEF SetupStep, Spans, ProviderSteps
<1>3. Spans(Activation, SetupStep, "local", "bootstrap")
    BY DEF SetupStep, Spans, Activation
<1>4. Spans(HookSteps, SetupStep, "hook lock", "unlock")
    BY DEF SetupStep, Spans, HookSteps
<1>5. SetupSteps = XPAH \o Y
    BY DEF SetupSteps
<1> HIDE DEF X, Y
<1>6. Spans(XP, SetupStep, "compare", "unlock")
    BY <1>1, <1>2, ConcatSpans
<1>7. Consecutive(a, b, XP) => \/ Consecutive(a, b, X) \/ Consecutive(a, b, ProviderSteps)
                                  \/ (a = "ownership" /\ b = "provider lock")
    BY <1>1, <1>2, ConcatFlow
<1> HIDE DEF XP
<1>8. Spans(XPA, SetupStep, "compare", "bootstrap")
    BY <1>3, <1>6, ConcatSpans
<1>9. Consecutive(a, b, XPA) => \/ Consecutive(a, b, XP) \/ Consecutive(a, b, Activation)
                                   \/ (a = "unlock" /\ b = "local")
    BY <1>3, <1>6, ConcatFlow
<1> HIDE DEF XPA
<1>10. Spans(XPAH, SetupStep, "compare", "unlock")
    BY <1>4, <1>8, ConcatSpans
<1>11. Consecutive(a, b, XPAH) => \/ Consecutive(a, b, XPA) \/ Consecutive(a, b, HookSteps)
                                    \/ (a = "bootstrap" /\ b = "hook lock")
    BY <1>4, <1>8, ConcatFlow
<1> HIDE DEF XPAH
<1>12. \/ Consecutive(a, b, XPAH) \/ Consecutive(a, b, Y)
      \/ (a = "unlock" /\ b = "clear")
    BY <1>1, <1>5, <1>10, ConcatFlow
<1> QED
    BY <1>7, <1>9, <1>11, <1>12 DEF X, Y

\* ... and in an uninstall.
LEMMA UninstallFlow ==
    ASSUME NEW a, NEW b, Consecutive(a, b, UninstallSteps)
    PROVE  \/ Consecutive(a, b, << "deactivate", "unlink bootstrap", "forget" >>)
           \/ Consecutive(a, b, RemovalSteps)
           \/ Consecutive(a, b, EntrySteps)
           \/ (a = "forget" /\ b = "remove lock")
           \/ (a = "unlock" /\ b = "entries lock")
           \/ (a = "unlock" /\ b = "untrack")
<1> DEFINE X == << "deactivate", "unlink bootstrap", "forget" >>
           Y == << "untrack" >>
           XR == X \o RemovalSteps
           XRE == XR \o EntrySteps
<1>1. Spans(X, UninstallStep, "deactivate", "forget") /\ Spans(Y, UninstallStep, "untrack", "untrack")
    BY DEF UninstallStep, Spans
<1>2. Spans(RemovalSteps, UninstallStep, "remove lock", "unlock")
    BY DEF UninstallStep, Spans, RemovalSteps
<1>3. Spans(EntrySteps, UninstallStep, "entries lock", "unlock")
    BY DEF UninstallStep, Spans, EntrySteps
<1>4. UninstallSteps = XRE \o Y
    BY DEF UninstallSteps
<1>5. ~ Consecutive(a, b, Y)
    BY DEF Consecutive
<1> HIDE DEF X, Y
<1>6. Spans(XR, UninstallStep, "deactivate", "unlock")
    BY <1>1, <1>2, ConcatSpans
<1>7. Consecutive(a, b, XR) => \/ Consecutive(a, b, X) \/ Consecutive(a, b, RemovalSteps)
                                  \/ (a = "forget" /\ b = "remove lock")
    BY <1>1, <1>2, ConcatFlow
<1> HIDE DEF XR
<1>8. Spans(XRE, UninstallStep, "deactivate", "unlock")
    BY <1>3, <1>6, ConcatSpans
<1>9. Consecutive(a, b, XRE) => \/ Consecutive(a, b, XR) \/ Consecutive(a, b, EntrySteps)
                                   \/ (a = "unlock" /\ b = "entries lock")
    BY <1>3, <1>6, ConcatFlow
<1> HIDE DEF XRE
<1>10. Consecutive(a, b, XRE) \/ (a = "unlock" /\ b = "untrack")
    BY <1>1, <1>4, <1>5, <1>8, ConcatFlow
<1> QED
    BY <1>7, <1>9, <1>10 DEF X

\* The pairs of lists of two to seven steps.
LEMMA Two ==
    ASSUME NEW x, NEW y, NEW a, NEW b,
           Consecutive(a, b, << x, y >>)
    PROVE  \/ a = x /\ b = y
BY DEF Consecutive

LEMMA Three ==
    ASSUME NEW x, NEW y, NEW z, NEW a, NEW b,
           Consecutive(a, b, << x, y, z >>)
    PROVE  \/ a = x /\ b = y
           \/ a = y /\ b = z
BY DEF Consecutive

LEMMA Four ==
    ASSUME NEW w, NEW x, NEW y, NEW z, NEW a, NEW b,
           Consecutive(a, b, << w, x, y, z >>)
    PROVE  \/ a = w /\ b = x
           \/ a = x /\ b = y
           \/ a = y /\ b = z
BY DEF Consecutive

LEMMA Five ==
    ASSUME NEW v, NEW w, NEW x, NEW y, NEW z, NEW a, NEW b,
           Consecutive(a, b, << v, w, x, y, z >>)
    PROVE  \/ a = v /\ b = w
           \/ a = w /\ b = x
           \/ a = x /\ b = y
           \/ a = y /\ b = z
BY DEF Consecutive

LEMMA Six ==
    ASSUME NEW u, NEW v, NEW w, NEW x, NEW y, NEW z, NEW a, NEW b,
           Consecutive(a, b, << u, v, w, x, y, z >>)
    PROVE  \/ a = u /\ b = v
           \/ a = v /\ b = w
           \/ a = w /\ b = x
           \/ a = x /\ b = y
           \/ a = y /\ b = z
BY DEF Consecutive

LEMMA Seven ==
    ASSUME NEW t, NEW u, NEW v, NEW w, NEW x, NEW y, NEW z, NEW a, NEW b,
           Consecutive(a, b, << t, u, v, w, x, y, z >>)
    PROVE  \/ a = t /\ b = u
           \/ a = u /\ b = v
           \/ a = v /\ b = w
           \/ a = w /\ b = x
           \/ a = x /\ b = y
           \/ a = y /\ b = z
BY DEF Consecutive

\* The pairs of steps that follow each other in the model.
FlowPairs(a, b) ==
    \/ a = "compare" /\ b = "runtime"
    \/ a = "runtime" /\ b = "intent"
    \/ a = "intent" /\ b = "config"
    \/ a = "config" /\ b = "pin manifest"
    \/ a = "pin manifest" /\ b = "pin lock"
    \/ a = "pin lock" /\ b = "ownership"
    \/ a = "provider lock" /\ b = "publish"
    \/ a = "publish" /\ b = "write"
    \/ a = "write" /\ b = "manifest"
    \/ a = "manifest" /\ b = "retire"
    \/ a = "retire" /\ b = "unlock"
    \/ a = "local" /\ b = "bootstrap"
    \/ a = "hook lock" /\ b = "installing"
    \/ a = "installing" /\ b = "move"
    \/ a = "move" /\ b = "driver"
    \/ a = "driver" /\ b = "wrapper"
    \/ a = "wrapper" /\ b = "installed"
    \/ a = "installed" /\ b = "unlock"
    \/ a = "clear" /\ b = "operation"
    \/ a = "deactivate" /\ b = "unlink bootstrap"
    \/ a = "unlink bootstrap" /\ b = "forget"
    \/ a = "remove lock" /\ b = "restore"
    \/ a = "restore" /\ b = "remove driver"
    \/ a = "remove driver" /\ b = "remove record"
    \/ a = "remove record" /\ b = "unlock"
    \/ a = "entries lock" /\ b = "entries"
    \/ a = "entries" /\ b = "unlock"
    \/ a = "retire" /\ b = "entries"
    \/ a = "remove config" /\ b = "remove manifest"
    \/ a = "remove manifest" /\ b = "remove lock file"
    \/ a = "remove lock file" /\ b = "remove ownership"
    \/ a = "ownership" /\ b = "provider lock"
    \/ a = "bootstrap" /\ b = "hook lock"
    \/ a = "forget" /\ b = "remove lock"
    \/ a = "unlock" /\ b \in {"local", "clear", "entries lock", "untrack"}

LEMMA FlowIsPairs ==
    ASSUME NEW a, NEW b, Flow(a, b)
    PROVE  FlowPairs(a, b)
<1>1. CASE Consecutive(a, b, SetupSteps)
    <2>1. CASE Consecutive(a, b, << "compare", "runtime", "intent", "config", "pin manifest", "pin lock", "ownership" >>)
        BY <2>1, Seven DEF FlowPairs
    <2>2. CASE Consecutive(a, b, ProviderSteps)
        BY <2>2, Six DEF FlowPairs, ProviderSteps
    <2>3. CASE Consecutive(a, b, Activation)
        BY <2>3, Two DEF FlowPairs, Activation
    <2>4. CASE Consecutive(a, b, HookSteps)
        BY <2>4, Seven DEF FlowPairs, HookSteps
    <2>5. CASE Consecutive(a, b, << "clear", "operation" >>)
        BY <2>5, Two DEF FlowPairs
    <2> QED
        BY <1>1, <2>1, <2>2, <2>3, <2>4, <2>5, SetupFlow DEF FlowPairs
<1>2. CASE Consecutive(a, b, UninstallSteps)
    <2>1. CASE Consecutive(a, b, << "deactivate", "unlink bootstrap", "forget" >>)
        BY <2>1, Three DEF FlowPairs
    <2>2. CASE Consecutive(a, b, RemovalSteps)
        BY <2>2, Five DEF FlowPairs, RemovalSteps
    <2>3. CASE Consecutive(a, b, EntrySteps)
        BY <2>3, Three DEF FlowPairs, EntrySteps
    <2> QED
        BY <1>2, <2>1, <2>2, <2>3, UninstallFlow DEF FlowPairs
<1>3. CASE Consecutive(a, b, << "write", "manifest", "retire", "unlock" >>)
    BY <1>3, Four DEF FlowPairs
<1>4. CASE Consecutive(a, b, << "write", "manifest", "retire", "entries" >>)
    BY <1>4, Four DEF FlowPairs
<1>5. CASE Consecutive(a, b, << "remove config", "remove manifest", "remove lock file",
                                "remove ownership" >>)
    BY <1>5, Four DEF FlowPairs
<1> QED
    BY <1>1, <1>2, <1>3, <1>4, <1>5 DEF Flow

\* What comes before a step.
LEMMA Predecessors ==
    ASSUME NEW a, NEW b, Flow(a, b)
    PROVE  /\ b \in Section <=> a \in Locks \cup (Section \ {"unlock"})
           /\ a \notin Final
           /\ b # "compare"
           /\ b = "runtime" => a = "compare"
           /\ b = "bootstrap" => a = "local"
           /\ b = "installing" => a = "hook lock"
           /\ b = "move" => a = "installing"
           /\ b = "driver" => a = "move"
           /\ b = "wrapper" => a = "driver"
           /\ b = "installed" => a = "wrapper"
           /\ b = "restore" => a = "remove lock"
           /\ b = "remove driver" => a = "restore"
           /\ b = "remove record" => a = "remove driver"
           /\ b = "publish" => a = "provider lock"
           /\ b = "write" => a = "publish"
           /\ b = "manifest" => a = "write"
           /\ b = "retire" => a = "manifest"
BY FlowIsPairs DEF FlowPairs, Section, Locks, Final

-----------------------------------------------------------------------------
(* How a command goes on *)

\* The lists themselves are in order.
LEMMA ListsInOrder ==
    /\ SetupSteps \in Seq(SetupStep) /\ SetupSteps # << >>
    /\ Head(SetupSteps) = "compare" /\ OrderInv(SetupSteps)
    /\ UninstallSteps \in Seq(UninstallStep) /\ UninstallSteps # << >>
    /\ Head(UninstallSteps) = "deactivate" /\ OrderInv(UninstallSteps)
<1> DEFINE X == << "compare", "runtime", "intent", "config", "pin manifest", "pin lock",
                   "ownership" >>
           Y == << "clear", "operation" >>
           U == << "deactivate", "unlink bootstrap", "forget" >>
           V == << "untrack" >>
<1>1. Spans(X, SetupStep, "compare", "ownership") /\ Spans(Y, SetupStep, "clear", "operation")
    BY DEF SetupStep, Spans
<1>2. /\ Spans(ProviderSteps, SetupStep, "provider lock", "unlock")
      /\ Spans(Activation, SetupStep, "local", "bootstrap")
      /\ Spans(HookSteps, SetupStep, "hook lock", "unlock")
    BY DEF SetupStep, Spans, ProviderSteps, Activation, HookSteps
<1>3. /\ Spans(U, UninstallStep, "deactivate", "forget")
      /\ Spans(V, UninstallStep, "untrack", "untrack")
    BY DEF UninstallStep, Spans
<1>4. /\ Spans(RemovalSteps, UninstallStep, "remove lock", "unlock")
      /\ Spans(EntrySteps, UninstallStep, "entries lock", "unlock")
    BY DEF UninstallStep, Spans, RemovalSteps, EntrySteps
<1>5. /\ SetupSteps = (((X \o ProviderSteps) \o Activation) \o HookSteps) \o Y
      /\ UninstallSteps = ((U \o RemovalSteps) \o EntrySteps) \o V
    BY DEF SetupSteps, UninstallSteps
<1> HIDE DEF X, Y, U, V
<1>6. Spans(X \o ProviderSteps, SetupStep, "compare", "unlock")
    BY <1>1, <1>2, ConcatSpans
<1>7. Spans((X \o ProviderSteps) \o Activation, SetupStep, "compare", "bootstrap")
    BY <1>2, <1>6, ConcatSpans
<1>8. Spans(((X \o ProviderSteps) \o Activation) \o HookSteps, SetupStep, "compare", "unlock")
    BY <1>2, <1>7, ConcatSpans
<1>9. Spans(SetupSteps, SetupStep, "compare", "operation")
    BY <1>1, <1>5, <1>8, ConcatSpans
<1>10. Spans(U \o RemovalSteps, UninstallStep, "deactivate", "unlock")
    BY <1>3, <1>4, ConcatSpans
<1>11. Spans((U \o RemovalSteps) \o EntrySteps, UninstallStep, "deactivate", "unlock")
    BY <1>4, <1>10, ConcatSpans
<1>12. Spans(UninstallSteps, UninstallStep, "deactivate", "untrack")
    BY <1>3, <1>5, <1>11, ConcatSpans
<1>13. ASSUME NEW list, list \in {SetupSteps, UninstallSteps}, NEW k \in 1 .. Len(list) - 1
       PROVE  Flow(list[k], list[k + 1])
    BY <1>13 DEF Flow, Consecutive
<1>14. ASSUME NEW list, NEW S, NEW first, NEW last, Spans(list, S, first, last)
       PROVE  list \in Seq(S) /\ list # << >> /\ Head(list) = first /\ list[Len(list)] = last
    BY <1>14 DEF Spans
<1> QED
    BY <1>9, <1>12, <1>13, <1>14 DEF OrderInv, Final

\* What is left after a step ...
LEMMA TailMoves ==
    ASSUME NEW S, NEW todo \in Seq(S), todo # << >>, OrderInv(todo)
    PROVE  /\ Tail(todo) \in Seq(S) /\ OrderInv(Tail(todo))
           /\ \/ Tail(todo) = << >> /\ Head(todo) \in Final
              \/ Tail(todo) # << >> /\ Flow(Head(todo), Head(Tail(todo)))
<1>1. /\ Tail(todo) \in Seq(S) /\ Len(Tail(todo)) = Len(todo) - 1
      /\ \A i \in 1 .. Len(Tail(todo)) : Tail(todo)[i] = todo[i + 1]
      /\ Head(todo) = todo[1] /\ Len(todo) > 0
    OBVIOUS
<1>2. OrderInv(Tail(todo))
    BY <1>1 DEF OrderInv
<1>3. CASE Tail(todo) = << >>
    <2>1. Len(Tail(todo)) =< 0
        BY <1>3
    <2>2. todo[Len(todo)] = todo[1]
        BY <1>1, <2>1
    <2> QED
        BY <1>1, <1>2, <1>3, <2>2 DEF OrderInv
<1>4. CASE Tail(todo) # << >>
    <2>1. Len(todo) > 1 /\ Head(Tail(todo)) = Tail(todo)[1]
        BY <1>1, <1>4
    <2>2. Head(Tail(todo)) = todo[2] /\ 1 \in 1 .. Len(todo) - 1
        BY <1>1, <2>1
    <2>3. Flow(todo[1], todo[1 + 1])
        BY <2>2 DEF OrderInv
    <2> QED
        BY <1>1, <1>2, <1>4, <2>2, <2>3
<1> QED
    BY <1>3, <1>4

LEMMA LeastElement ==
    ASSUME NEW I, I \subseteq Nat, I # {}
    PROVE  \E m \in I : \A n \in I : m =< n
<1>1. PICK m \in I : \A n \in I : << n, m >> \notin OpToRel(<, Nat)
    BY WFMin, NatLessThanWellFounded, Zenon
<1>2. ASSUME NEW n \in I PROVE ~ (n < m)
    <2>1. n \in Nat /\ m \in Nat
        OBVIOUS
    <2> QED
        BY <1>1, <2>1, Zenon DEF OpToRel
<1> QED
    BY <1>2

\* ... and after a section that is left out.
LEMMA AfterMoves ==
    ASSUME NEW S, NEW todo \in Seq(S), todo # << >>, OrderInv(todo)
    PROVE  LET rest == AfterSection(todo)
           IN  /\ rest \in Seq(S) /\ OrderInv(rest)
               /\ rest # << >> => \/ rest = todo /\ \A i \in 1 .. Len(todo) : todo[i] # "unlock"
                               \/ Flow("unlock", Head(rest))
<1> DEFINE I == { i \in 1 .. Len(todo) : todo[i] = "unlock" }
           end == SelectInSeq(todo, LAMBDA step : step = "unlock")
           rest == AfterSection(todo)
<1>1. rest = SubSeq(todo, end + 1, Len(todo))
    BY DEF AfterSection
<1>2. end = IF I # {} THEN Min(I) ELSE 0
    BY DEF SelectInSeq
<1>3. CASE I = {}
    <2>1. rest = SubSeq(todo, 1, Len(todo))
        BY <1>1, <1>2, <1>3
    <2>2. rest = todo
        BY <2>1
    <2> QED
        BY <1>3, <2>2
<1>4. CASE I # {}
    <2>1. \E m \in I : \A n \in I : m =< n
        <3>1. I \subseteq Nat
            OBVIOUS
        <3> HIDE DEF I
        <3> QED
            BY <1>4, <3>1, LeastElement, Zenon
    <2>2. end \in I
        BY <1>2, <1>4, <2>1 DEF Min
    <2> HIDE DEF end, rest
    <2>3. end \in 1 .. Len(todo) /\ todo[end] = "unlock" /\ Len(todo) \in Nat
        BY <2>2
    <2>4. /\ rest \in Seq(S) /\ Len(rest) = Len(todo) - end
          /\ \A i \in 1 .. Len(todo) - end : rest[i] = todo[end + i]
        BY <1>1, <2>3
    <2>5. OrderInv(rest)
        <3>1. ASSUME NEW k \in 1 .. Len(rest) - 1 PROVE Flow(rest[k], rest[k + 1])
            <4>1. /\ k \in 1 .. Len(todo) - end /\ k + 1 \in 1 .. Len(todo) - end
                  /\ end + k \in 1 .. Len(todo) - 1 /\ end + (k + 1) = (end + k) + 1
                BY <2>3, <2>4
            <4>2. rest[k] = todo[end + k] /\ rest[k + 1] = todo[(end + k) + 1]
                BY <2>4, <4>1
            <4> QED
                BY <4>1, <4>2 DEF OrderInv
        <3>2. ASSUME rest # << >> PROVE rest[Len(rest)] \in Final
            <4>1. Len(rest) \in 1 .. Len(todo) - end /\ end + Len(rest) = Len(todo)
                BY <2>3, <2>4, <3>2
            <4> QED
                BY <2>4, <4>1 DEF OrderInv
        <3> QED
            BY <3>1, <3>2 DEF OrderInv
    <2>6. ASSUME rest # << >> PROVE Flow("unlock", Head(rest))
        <3>1. 1 \in 1 .. Len(todo) - end /\ end \in 1 .. Len(todo) - 1
            BY <2>3, <2>4, <2>6
        <3>2. Head(rest) = todo[end + 1]
            BY <2>4, <2>6, <3>1
        <3> QED
            BY <2>3, <3>1, <3>2 DEF OrderInv
    <2> QED
        BY <2>4, <2>5, <2>6 DEF rest
<1> QED
    BY <1>3, <1>4

-----------------------------------------------------------------------------
(* The moves of a command *)

ProcOK ==
    /\ proc \in [Process -> {Idle} \cup Setups \cup Uninstalls]
    /\ \A p \in Process : OrderInv(proc[p].todo)

StepOf(p) == IF proc[p].kind = "setup" THEN SetupStep ELSE UninstallStep

Others(p) == \A q \in Process \ {p} : proc'[q] = proc[q]

Stops(p) == proc'[p] = Idle

\* The command has steps left, of the same plan.
Continues(p) ==
    /\ proc'[p].kind = proc[p].kind /\ proc'[p].plan = proc[p].plan
    /\ proc'[p].todo # << >>

\* It goes on with a step that may follow a.
GoesOn(p, a) == Continues(p) /\ Flow(a, Head(proc'[p].todo))

LEMMA CommandType ==
    ASSUME ProcOK, NEW p \in Process, proc[p].todo # << >>
    PROVE  /\ proc[p].todo \in Seq(StepOf(p)) /\ Head(proc[p].todo) \in StepOf(p)
           /\ OrderInv(proc[p].todo)
           /\ \/ proc[p].kind = "setup" /\ proc[p] \in Setups
              \/ proc[p].kind = "uninstall" /\ proc[p] \in Uninstalls
<1>1. proc[p] \in Setups \cup Uninstalls /\ OrderInv(proc[p].todo)
    <2>1. proc[p] # Idle
        BY DEF Idle
    <2> QED
        BY <2>1 DEF ProcOK
<1>2. \/ proc[p].kind = "setup" /\ proc[p] \in Setups
      \/ proc[p].kind = "uninstall" /\ proc[p] \in Uninstalls
    BY <1>1 DEF Setups, Uninstalls
<1>3. proc[p].todo \in Seq(StepOf(p))
    BY <1>2 DEF Setups, Uninstalls, StepOf
<1>4. Head(proc[p].todo) \in StepOf(p)
    BY <1>3
<1> QED
    BY <1>1, <1>2, <1>3, <1>4

LEMMA TodoMoves ==
    ASSUME ProcOK, NEW p \in Process, proc[p].todo # << >>,
           NEW steps \in Seq(StepOf(p)), OrderInv(steps), Todo(p, steps)
    PROVE  /\ ProcOK' /\ Others(p)
           /\ steps = << >> => Stops(p)
           /\ steps # << >> => Continues(p) /\ proc'[p].todo = steps
<1>1. CASE steps = << >>
    <2>1. proc' = [proc EXCEPT ![p] = Idle]
        BY <1>1 DEF Todo
    <2>2. proc'[p] = Idle /\ Others(p) /\ proc' \in [Process -> {Idle} \cup Setups \cup Uninstalls]
        BY <2>1 DEF ProcOK, Others
    <2>3. OrderInv(<< >>)
        BY DEF OrderInv
    <2> QED
        BY <1>1, <2>2, <2>3 DEF ProcOK, Others, Stops, Idle
<1>2. CASE steps # << >>
    <2>1. proc' = [proc EXCEPT ![p] = [@ EXCEPT !.todo = steps]]
        BY <1>2 DEF Todo
    <2>2. /\ proc'[p] = [proc[p] EXCEPT !.todo = steps] /\ Others(p)
          /\ proc' = [proc EXCEPT ![p] = proc'[p]]
        BY <2>1 DEF ProcOK, Others
    <2>3. /\ proc'[p] \in Setups \cup Uninstalls /\ proc'[p].todo = steps
          /\ proc'[p].kind = proc[p].kind /\ proc'[p].plan = proc[p].plan
        BY <2>2, CommandType DEF Setups, Uninstalls, StepOf
    <2>4. proc' \in [Process -> {Idle} \cup Setups \cup Uninstalls]
        BY <2>2, <2>3 DEF ProcOK
    <2> QED
        BY <1>2, <2>2, <2>3, <2>4 DEF ProcOK, Others, Continues
<1> QED
    BY <1>1, <1>2

LEMMA DoneMoves ==
    ASSUME ProcOK, NEW p \in Process, NEW a, Doing(p, a), Done(p)
    PROVE  /\ ProcOK' /\ Others(p)
           /\ GoesOn(p, a) \/ (Stops(p) /\ a \in Final)
<1>1. proc[p].todo # << >> /\ Head(proc[p].todo) = a
    BY DEF Doing
<1>2. /\ Tail(proc[p].todo) \in Seq(StepOf(p)) /\ OrderInv(Tail(proc[p].todo))
      /\ \/ Tail(proc[p].todo) = << >> /\ a \in Final
         \/ Tail(proc[p].todo) # << >> /\ Flow(a, Head(Tail(proc[p].todo)))
    BY <1>1, CommandType, TailMoves
<1> QED
    BY <1>1, <1>2, TodoMoves DEF Done, GoesOn

LEMMA LeaveMoves ==
    ASSUME ProcOK, NEW p \in Process, proc[p].todo # << >>, LeaveSection(p)
    PROVE  /\ ProcOK' /\ Others(p)
           /\ GoesOn(p, "unlock") \/ Stops(p) \/ (Continues(p) /\ proc'[p].todo = proc[p].todo)
<1> DEFINE rest == AfterSection(proc[p].todo)
<1>1. /\ rest \in Seq(StepOf(p)) /\ OrderInv(rest)
      /\ rest # << >> => rest = proc[p].todo \/ Flow("unlock", Head(rest))
    BY CommandType, AfterMoves
<1>2. Todo(p, rest)
    BY DEF LeaveSection
<1> HIDE DEF rest
<1> QED
    BY <1>1, <1>2, TodoMoves DEF GoesOn

\* After the first two steps of a removal: the hook is left as it is.
LEMMA SkipMoves ==
    ASSUME ProcOK, NEW p \in Process, Doing(p, "remove lock"),
           Todo(p, Tail(Tail(proc[p].todo)))
    PROVE  /\ ProcOK' /\ Others(p) /\ Continues(p)
           /\ Head(proc'[p].todo) = "remove driver"
<1> DEFINE rest == Tail(proc[p].todo)
<1>1. proc[p].todo # << >> /\ Head(proc[p].todo) = "remove lock"
    BY DEF Doing
<1>2. /\ rest \in Seq(StepOf(p)) /\ OrderInv(rest)
      /\ \/ rest = << >> /\ "remove lock" \in Final
         \/ rest # << >> /\ Flow("remove lock", Head(rest))
    BY <1>1, CommandType, TailMoves
<1> HIDE DEF rest
<1>3. rest # << >> /\ Head(rest) = "restore"
    <2>1. rest # << >> /\ FlowPairs("remove lock", Head(rest))
        BY <1>2, FlowIsPairs DEF Final
    <2> QED
        BY <2>1 DEF FlowPairs
<1>4. /\ Tail(rest) \in Seq(StepOf(p)) /\ OrderInv(Tail(rest))
      /\ \/ Tail(rest) = << >> /\ "restore" \in Final
         \/ Tail(rest) # << >> /\ Flow("restore", Head(Tail(rest)))
    BY <1>2, <1>3, TailMoves
<1>5. Tail(rest) # << >> /\ Head(Tail(rest)) = "remove driver"
    <2>1. Tail(rest) # << >> /\ FlowPairs("restore", Head(Tail(rest)))
        BY <1>4, FlowIsPairs DEF Final
    <2> QED
        BY <2>1 DEF FlowPairs
<1>6. Todo(p, Tail(rest))
    BY DEF rest
<1> QED
    BY <1>1, <1>4, <1>5, <1>6, TodoMoves

\* The rest of a removal that fails at its first file ends with the release.
LEMMA RestoreLeaves ==
    ASSUME ProcOK, NEW p \in Process, Doing(p, "restore"), LeaveSection(p)
    PROVE  /\ ProcOK' /\ Others(p)
           /\ GoesOn(p, "unlock") \/ Stops(p)
<1> DEFINE todo == proc[p].todo
           rest == AfterSection(todo)
<1>1. /\ todo # << >> /\ todo \in Seq(StepOf(p)) /\ OrderInv(todo)
      /\ todo[1] = "restore" /\ Len(todo) \in Nat
    BY CommandType DEF Doing
<1>2. Todo(p, rest)
    BY DEF LeaveSection
<1> HIDE DEF todo
<1>3. ASSUME NEW k \in 1 .. Len(todo), todo[k] \notin Final
      PROVE  k + 1 \in 1 .. Len(todo) /\ FlowPairs(todo[k], todo[k + 1])
    <2>1. k # Len(todo)
        BY <1>1, <1>3 DEF OrderInv
    <2>2. k \in 1 .. Len(todo) - 1 /\ k + 1 \in 1 .. Len(todo)
        BY <1>1, <2>1
    <2> QED
        BY <1>1, <2>2, FlowIsPairs DEF OrderInv
<1>4. ASSUME NEW k \in 1 .. Len(todo), NEW a, NEW b, todo[k] = a, a \notin Final,
             \A c : FlowPairs(a, c) => c = b
      PROVE  k + 1 \in 1 .. Len(todo) /\ todo[k + 1] = b
    BY <1>3, <1>4
<1>5. /\ \A c : FlowPairs("restore", c) => c = "remove driver"
      /\ \A c : FlowPairs("remove driver", c) => c = "remove record"
      /\ \A c : FlowPairs("remove record", c) => c = "unlock"
      /\ "restore" \notin Final /\ "remove driver" \notin Final /\ "remove record" \notin Final
    BY DEF FlowPairs, Final
<1>6. \E k \in 1 .. Len(todo) : todo[k] = "unlock"
    <2>1. 1 \in 1 .. Len(todo) /\ todo[1] = "restore"
        BY <1>1
    <2>2. 2 \in 1 .. Len(todo) /\ todo[2] = "remove driver"
        <3>1. 1 + 1 \in 1 .. Len(todo) /\ todo[1 + 1] = "remove driver"
            BY <1>4, <1>5, <2>1
        <3>2. 1 + 1 = 2
            OBVIOUS
        <3> QED
            BY <3>1, <3>2, Zenon
    <2>3. 3 \in 1 .. Len(todo) /\ todo[3] = "remove record"
        <3>1. 3 = 2 + 1
            OBVIOUS
        <3> QED
            BY <1>4, <1>5, <2>2, <3>1, Zenon
    <2>4. 3 + 1 \in 1 .. Len(todo) /\ todo[3 + 1] = "unlock"
        BY <1>4, <1>5, <2>3
    <2> QED
        BY <2>4
<1>7. /\ rest \in Seq(StepOf(p)) /\ OrderInv(rest)
      /\ rest # << >> => Flow("unlock", Head(rest))
    BY <1>1, <1>6, AfterMoves
<1> HIDE DEF rest
<1> QED
    BY <1>1, <1>2, <1>7, TodoMoves DEF GoesOn, todo

LEMMA StopMoves ==
    ASSUME ProcOK, NEW p \in Process, proc[p].todo # << >>, Todo(p, << >>)
    PROVE  ProcOK' /\ Others(p) /\ Stops(p)
<1>1. << >> \in Seq(StepOf(p)) /\ OrderInv(<< >>)
    BY DEF OrderInv
<1> QED
    BY <1>1, TodoMoves

LEMMA ThrowMoves ==
    ASSUME ProcOK, NEW p \in Process, proc[p].todo # << >>, Throw(p)
    PROVE  /\ ProcOK' /\ Others(p)
           /\ GoesOn(p, "unlock") \/ Stops(p) \/ (Continues(p) /\ proc'[p].todo = proc[p].todo)
BY LeaveMoves, StopMoves DEF Throw

\* An uninstall finishes a pending intent before it goes on.
LEMMA FinishMoves ==
    ASSUME NEW S, NEW steps \in Seq(S), steps # << >>, OrderInv(steps),
           Head(steps) \in {"unlock", "entries"}, {"write", "manifest", "retire"} \subseteq S
    PROVE  LET todo == << "write", "manifest", "retire" >> \o steps
           IN  todo \in Seq(S) /\ todo # << >> /\ OrderInv(todo) /\ Head(todo) = "write"
<1> DEFINE finish == << "write", "manifest", "retire" >>
           todo == finish \o steps
<1>1. /\ finish \in Seq(S) /\ Len(finish) =< 3 /\ Len(finish) >= 3
      /\ finish[1] = "write" /\ finish[2] = "manifest" /\ finish[3] = "retire"
    OBVIOUS
<1>2. /\ Flow("write", "manifest") /\ Flow("manifest", "retire")
      /\ Flow("retire", "unlock") /\ Flow("retire", "entries")
    <2> DEFINE L == << "write", "manifest", "retire", "unlock" >>
               M == << "write", "manifest", "retire", "entries" >>
    <2>1. /\ Len(L) >= 4 /\ L[1] = "write" /\ L[2] = "manifest" /\ L[3] = "retire" /\ L[4] = "unlock"
          /\ Len(M) >= 4 /\ M[3] = "retire" /\ M[4] = "entries"
          /\ Len(L) \in Nat /\ Len(M) \in Nat
        OBVIOUS
    <2> HIDE DEF L, M
    <2>2. /\ Consecutive("write", "manifest", L) /\ Consecutive("manifest", "retire", L)
          /\ Consecutive("retire", "unlock", L) /\ Consecutive("retire", "entries", M)
        <3>1. \A k \in {1, 2, 3} : k \in 1 .. Len(L) - 1 /\ k \in 1 .. Len(M) - 1
            BY <2>1
        <3>2. L[1 + 1] = "manifest" /\ L[2 + 1] = "retire" /\ L[3 + 1] = "unlock" /\ M[3 + 1] = "entries"
            BY <2>1
        <3> QED
            BY <2>1, <3>1, <3>2 DEF Consecutive
    <2> QED
        BY <2>2 DEF Flow, L, M
<1>3. /\ steps[1] \in {"unlock", "entries"} /\ Len(steps) > 0 /\ Len(steps) \in Nat
      /\ steps[Len(steps)] \in Final
      /\ \A k \in 1 .. Len(steps) - 1 : Flow(steps[k], steps[k + 1])
    BY DEF OrderInv
<1> HIDE DEF finish
<1>4. /\ todo \in Seq(S) /\ todo # << >> /\ Len(todo) = 3 + Len(steps)
      /\ \A k \in 1 .. 3 : todo[k] = finish[k]
      /\ \A k \in 1 .. Len(steps) : todo[3 + k] = steps[k]
    BY <1>1, <1>3
<1>5. Head(todo) = "write" /\ todo[1] = "write" /\ todo[2] = "manifest" /\ todo[3] = "retire"
    BY <1>1, <1>4
<1>6. todo[Len(todo)] \in Final
    BY <1>3, <1>4
<1>7. ASSUME NEW k \in 1 .. Len(todo) - 1 PROVE Flow(todo[k], todo[k + 1])
    <2>1. CASE k < 3
        BY <1>2, <1>5, <2>1
    <2>2. CASE k = 3
        <3>1. todo[3 + 1] = steps[1]
            BY <1>3, <1>4
        <3> QED
            BY <1>2, <1>3, <1>5, <2>2, <3>1
    <2>3. CASE k > 3
        <3>1. k - 3 \in 1 .. Len(steps) - 1 /\ (k - 3) + 1 \in 1 .. Len(steps)
            BY <1>3, <1>4, <2>3
        <3>2. todo[3 + (k - 3)] = steps[k - 3] /\ todo[3 + ((k - 3) + 1)] = steps[(k - 3) + 1]
            BY <1>4, <3>1
        <3>3. 3 + (k - 3) = k /\ 3 + ((k - 3) + 1) = k + 1
            BY <2>3
        <3> QED
            BY <1>3, <3>1, <3>2, <3>3
    <2> QED
        BY <1>4, <2>1, <2>2, <2>3
<1> HIDE DEF todo
<1>8. todo \in Seq(S) /\ todo # << >> /\ OrderInv(todo) /\ Head(todo) = "write"
    BY <1>4, <1>5, <1>6, <1>7 DEF OrderInv
<1> QED
    BY <1>8 DEF todo, finish

\* The steps that a removal leaves after it published or found an intent.
LEMMA EntriesMoves ==
    ASSUME ProcOK, NEW p \in Process, Doing(p, "entries"),
           NEW steps \in {Tail(proc[p].todo), proc[p].todo},
           Todo(p, << "write", "manifest", "retire" >> \o steps)
    PROVE  ProcOK' /\ Others(p) /\ Continues(p) /\ Head(proc'[p].todo) = "write"
<1>1. proc[p].todo # << >> /\ Head(proc[p].todo) = "entries"
    BY DEF Doing
<1>2. /\ Tail(proc[p].todo) \in Seq(StepOf(p)) /\ OrderInv(Tail(proc[p].todo))
      /\ \/ Tail(proc[p].todo) = << >> /\ "entries" \in Final
         \/ Tail(proc[p].todo) # << >> /\ Flow("entries", Head(Tail(proc[p].todo)))
    BY <1>1, CommandType, TailMoves
<1>3. Tail(proc[p].todo) # << >> /\ Head(Tail(proc[p].todo)) = "unlock"
    <2>1. "entries" \notin Final
        BY DEF Final
    <2>2. Tail(proc[p].todo) # << >> /\ Flow("entries", Head(Tail(proc[p].todo)))
        BY <1>2, <2>1
    <2>3. FlowPairs("entries", Head(Tail(proc[p].todo)))
        BY <2>2, FlowIsPairs
    <2> QED
        BY <2>2, <2>3 DEF FlowPairs
<1>4. steps \in Seq(StepOf(p)) /\ steps # << >> /\ OrderInv(steps) /\ Head(steps) \in {"unlock", "entries"}
    BY <1>1, <1>2, <1>3, CommandType
<1>5. {"write", "manifest", "retire"} \subseteq StepOf(p)
    BY DEF StepOf, SetupStep, UninstallStep
<1> DEFINE todo == << "write", "manifest", "retire" >> \o steps
<1>6. todo \in Seq(StepOf(p)) /\ todo # << >> /\ OrderInv(todo) /\ Head(todo) = "write"
    BY <1>4, <1>5, FinishMoves
<1>7. Todo(p, todo)
    OBVIOUS
<1> HIDE DEF todo
<1> QED
    BY <1>1, <1>6, <1>7, TodoMoves

-----------------------------------------------------------------------------
(* Type correctness *)

LEMMA ContentTypes ==
    /\ Nothing \in Content
    /\ \A version \in Version, delegate \in BOOLEAN : Wrapper(version, delegate) \in Content
    /\ NoRecord \in Record
    /\ NoConfig \in Config /\ NoLocal \in Local /\ NoFiles \in Contents
    /\ \A id \in Nat, version \in Version : Files(id, version) \in Contents
    /\ Nowhere \in [files : Contents, owned : Contents]
<1>1. Nothing \in Content
    BY DEF Content
<1>2. \A version \in Version, delegate \in BOOLEAN : Wrapper(version, delegate) \in Content
    BY DEF Content, Wrappers
<1>3. NoRecord \in Record
    BY <1>1 DEF NoRecord, Record
<1>4. NoConfig \in Config /\ NoLocal \in Local
    BY DEF NoConfig, Config, NoLocal, Local
<1>5. NoFiles \in Contents
    BY <1>4 DEF NoFiles, Contents
<1>6. \A id \in Nat, version \in Version : Files(id, version) \in Contents
    BY DEF Files, Contents, Config
<1>7. Nowhere \in [files : Contents, owned : Contents]
    BY <1>5 DEF Nowhere, Tracked
<1> QED
    BY <1>1, <1>2, <1>3, <1>4, <1>5, <1>6, <1>7

LEMMA HookPlanType ==
    ASSUME HookTypeOK, NEW version \in Version
    PROVE  HookPlan(version) \in HookPlans
<1>1. NeedsAction \in BOOLEAN
    BY DEF NeedsAction
<1>2. (IF record = NoRecord THEN hook \in { Own(script) : script \in Executable }
       ELSE record.delegate) \in BOOLEAN
    <2>1. record.delegate \in BOOLEAN
        BY DEF HookTypeOK, Record
    <2>2. (hook \in { Own(script) : script \in Executable }) \in BOOLEAN
        OBVIOUS
    <2> QED
        BY <2>1, <2>2
<1> QED
    BY <1>1, <1>2 DEF HookPlan, HookPlans, HookTypeOK

LEMMA HookTypes ==
    ASSUME HookTypeOK,
           \/ UNCHANGED hookVars
           \/ \E plan \in HookPlans : \/ RecordInstalling(plan) \/ MoveAside(plan)
                                      \/ WriteDriver(plan) \/ WriteWrapper(plan)
           \/ RecordInstalled \/ RestoreHook \/ RemoveDriver \/ RemoveRecord
           \/ \E compared \in BOOLEAN : EditHook(compared)
    PROVE  HookTypeOK'
<1> USE DEF HookTypeOK
<1>1. CASE UNCHANGED hookVars
    BY <1>1 DEF hookVars
<1>2. ASSUME NEW plan \in HookPlans, RecordInstalling(plan) PROVE HookTypeOK'
    BY <1>2, ContentTypes DEF RecordInstalling, HookPlans, Record
<1>3. ASSUME NEW plan \in HookPlans, MoveAside(plan) PROVE HookTypeOK'
    BY <1>3, ContentTypes DEF MoveAside
<1>4. ASSUME NEW plan \in HookPlans, WriteDriver(plan) PROVE HookTypeOK'
    BY <1>4 DEF WriteDriver, HookPlans
<1>5. ASSUME NEW plan \in HookPlans, WriteWrapper(plan) PROVE HookTypeOK'
    BY <1>5, ContentTypes DEF WriteWrapper, HookPlans
<1>6. CASE RecordInstalled
    BY <1>6 DEF RecordInstalled, Record
<1>7. CASE RestoreHook
    BY <1>7, ContentTypes DEF RestoreHook, Record
<1>8. CASE RemoveDriver
    BY <1>8 DEF RemoveDriver
<1>9. CASE RemoveRecord
    BY <1>9, ContentTypes DEF RemoveRecord
<1>10. ASSUME NEW compared \in BOOLEAN, EditHook(compared) PROVE HookTypeOK'
    BY <1>10 DEF EditHook, Content
<1> QED
    BY <1>1, <1>2, <1>3, <1>4, <1>5, <1>6, <1>7, <1>8, <1>9, <1>10

LEMMA SnapshotTypes ==
    ASSUME ProviderTypeOK
    PROVE  /\ Now \in Snapshots /\ NoManifest \in Manifest /\ Missing \in File
           /\ NoIntent \in Intent /\ RemovalIntent \in Intent
           /\ \A version \in Release : Installed(version) \in Snapshots
<1> USE DEF ProviderTypeOK
<1>1. Now \in Snapshots
    BY DEF Now, Snapshots
<1>2. NoManifest \in Manifest
    BY DEF NoManifest, Manifest
<1>3. Missing \in File
    BY ProviderAssumption DEF Missing, File
<1>4. NoneMissing \in Snapshots
    BY <1>2, <1>3 DEF NoneMissing, Snapshots
<1>5. NoIntent \in Intent
    BY <1>4 DEF NoIntent, Intent
<1>6. RemovalIntent \in Intent
    <2>1. ASSUME NEW p \in Provider
          PROVE  (IF p \in Entries THEN [files[p] EXCEPT !.groups = @ \ {manifest.entry[p]}]
                  ELSE files[p]) \in File
        BY DEF File
    <2>2. RemovalIntent.after \in Snapshots
        BY <1>2, <2>1 DEF RemovalIntent, Snapshots
    <2> QED
        BY <1>1, <2>2 DEF RemovalIntent, Intent
<1>7. ASSUME NEW version \in Release PROVE Installed(version) \in Snapshots
    <2>1. ASSUME NEW p \in Provider
          PROVE  [ files[p] EXCEPT !.exists = TRUE,
                       !.groups = IF Matches(p) THEN (@ \ {manifest.entry[p]}) \cup {version}
                                  ELSE @ ] \in File
        BY <1>7 DEF File
    <2>2. ASSUME NEW p \in Provider
          PROVE  (IF Matches(p) THEN version ELSE manifest.entry[p]) \in Release \cup {0}
        BY <1>7 DEF Manifest
    <2>3. [p \in Provider |-> IF Matches(p) THEN version ELSE manifest.entry[p]]
              \in [Provider -> Release \cup {0}]
        BY <2>2
    <2>4. [ exists |-> TRUE, entry |-> [p \in Provider |-> IF Matches(p) THEN version
                                          ELSE manifest.entry[p]] ] \in Manifest
        BY <2>3 DEF Manifest
    <2> QED
        BY <2>1, <2>4 DEF Installed, Snapshots
<1> QED
    BY <1>1, <1>2, <1>3, <1>5, <1>6, <1>7

LEMMA ProviderPlanType ==
    ASSUME ProviderTypeOK, NEW version \in Release
    PROVE  ProviderPlan(version) \in ProviderPlans
<1>1. /\ pending \in Intent /\ Now \in Snapshots /\ NoIntent \in Intent
      /\ Installed(version) \in Snapshots
    BY SnapshotTypes DEF ProviderTypeOK
<1>2. [kind |-> "install", before |-> Now, after |-> Installed(version)] \in Intent
    BY <1>1 DEF Intent
<1>3. [pending EXCEPT !.before = Now] \in Intent
    BY <1>1 DEF Intent
<1>4. (\E p \in Provider : ~Matches(p)) \in BOOLEAN
      /\ (pending.kind = "remove" \/ ~Recoverable(pending)) \in BOOLEAN
    OBVIOUS
<1> QED
    BY <1>1, <1>2, <1>3, <1>4 DEF ProviderPlan, ProviderPlans

LEMMA ProviderTypes ==
    ASSUME ProviderTypeOK,
           \/ UNCHANGED providerVars
           \/ \E i \in Intent : Publish(i)
           \/ FinishFound \/ CheckFiles
           \/ \E q \in Provider : CompareFile(q) \/ ReplaceFile(q)
           \/ \E q \in Provider, writing \in BOOLEAN : EditProvider(q, writing)
           \/ WriteManifest \/ Retire
    PROVE  ProviderTypeOK'
<1> USE DEF ProviderTypeOK
<1>1. CASE UNCHANGED providerVars
    BY <1>1 DEF providerVars
<1>2. ASSUME NEW i \in Intent, Publish(i) PROVE ProviderTypeOK'
    BY <1>2 DEF Publish, NotVisited, Visit
<1>3. CASE FinishFound
    BY <1>3 DEF FinishFound, NotVisited, Visit
<1>7. CASE CheckFiles
    BY <1>7 DEF CheckFiles, Touched, Visit
<1>8. ASSUME NEW q \in Provider, CompareFile(q) PROVE ProviderTypeOK'
    <2>1. visit' \in Visit
        BY <1>8 DEF CompareFile, Visit
    <2> QED
        BY <1>8, <2>1 DEF CompareFile
<1>9. ASSUME NEW q \in Provider, ReplaceFile(q) PROVE ProviderTypeOK'
    <2>1. visit' \in Visit
        BY <1>9 DEF ReplaceFile, Visit
    <2>2. files' \in [Provider -> File]
        BY <1>9 DEF ReplaceFile, Intent, Snapshots
    <2> QED
        BY <1>9, <2>1, <2>2 DEF ReplaceFile
<1>4. CASE WriteManifest
    BY <1>4 DEF WriteManifest, Intent, Snapshots
<1>5. CASE Retire
    BY <1>5, SnapshotTypes DEF Retire
<1>6. ASSUME NEW q \in Provider, NEW writing \in BOOLEAN, EditProvider(q, writing)
      PROVE  ProviderTypeOK'
    <2> DEFINE T == { [files[q] EXCEPT !.exists = TRUE, !.text = text] : text \in Text }
               U == {Missing, [files[q] EXCEPT !.groups = {}]}
               V == { [files[q] EXCEPT !.groups = {Altered}] : g \in files[q].groups \ {Altered} }
    <2>1. PICK file \in T \cup U \cup V : /\ files' = [files EXCEPT ![q] = file]
                                        /\ theirs' = [theirs EXCEPT ![q] = file.text]
        BY <1>6 DEF EditProvider
    <2>2. file \in File
        <3>1. files[q] \in File
            OBVIOUS
        <3>2. CASE file \in T
            BY <3>1, <3>2 DEF File
        <3>3. CASE file \in U
            BY <3>1, <3>3, SnapshotTypes DEF File
        <3>4. CASE file \in V
            BY <3>1, <3>4 DEF File
        <3> QED
            BY <3>2, <3>3, <3>4
    <2>3. file.text \in Text
        BY <2>2 DEF File
    <2> HIDE DEF T, U, V
    <2> QED
        BY <1>6, <2>1, <2>2, <2>3 DEF EditProvider
<1> QED
    BY <1>1, <1>2, <1>3, <1>4, <1>5, <1>6, <1>7, <1>8, <1>9

LEMMA SetupPlanType ==
    ASSUME SetupTypeOK, NEW version \in Version
    PROVE  SetupPlan(version) \in SetupPlans
<1>1. HookPlan(version) \in HookPlans /\ ProviderPlan(version) \in ProviderPlans
    BY HookPlanType, ProviderPlanType, SetupAssumption DEF SetupTypeOK
<1>2. Identity \in Nat
    <2>1. Declared.id \in Nat /\ local.id \in Nat /\ intent \in Nat /\ drawn + 2 \in Nat
        BY DEF SetupTypeOK, CloneTypeOK, Declared, Contents, Config, Local
    <2> QED
        BY <2>1 DEF Identity
<1>3. InitializeAllowed \in BOOLEAN
    BY DEF SetupTypeOK, CloneTypeOK, Local, InitializeAllowed
<1> QED
    BY <1>1, <1>2, <1>3 DEF SetupPlan, SetupPlans, SetupTypeOK, CloneTypeOK

\* However a step ends, the commands stay commands with their steps in order.
LEMMA MovesOK ==
    ASSUME ProcOK, NEW p \in Process, proc[p].todo # << >>,
           Done(p) \/ Throw(p) \/ LeaveSection(p) \/ Todo(p, << >>)
    PROVE  ProcOK'
<1>1. Doing(p, Head(proc[p].todo))
    BY DEF Doing
<1> QED
    BY <1>1, DoneMoves, ThrowMoves, LeaveMoves, StopMoves

LEMMA ReadsOK ==
    ASSUME ProcOK, NEW p \in Process, NEW command,
           command = Idle \/ command \in Setups \/ command \in Uninstalls,
           OrderInv(command.todo), proc' = [proc EXCEPT ![p] = command]
    PROVE  ProcOK' /\ Others(p) /\ proc'[p] = command
BY DEF ProcOK, Others

\* What only a setup does, and what only an uninstall does.
LEMMA InSetup ==
    ASSUME ProcOK, NEW p \in Process, NEW a \in SetupStep \ UninstallStep, Doing(p, a)
    PROVE  proc[p].todo # << >> /\ proc[p].kind = "setup" /\ proc[p].plan \in SetupPlans
<1>1. proc[p].todo # << >> /\ a \in StepOf(p)
    BY CommandType DEF Doing
<1>2. proc[p].kind = "setup"
    BY <1>1 DEF StepOf
<1> QED
    BY <1>1, <1>2, CommandType DEF Setups

LEMMA InUninstall ==
    ASSUME ProcOK, NEW p \in Process, NEW a \in UninstallStep \ SetupStep, Doing(p, a)
    PROVE  /\ proc[p].todo # << >> /\ proc[p] \in Uninstalls
           /\ Tail(proc[p].todo) \in Seq(UninstallStep) /\ OrderInv(Tail(proc[p].todo))
<1>1. proc[p].todo # << >> /\ a \in StepOf(p)
    BY CommandType DEF Doing
<1>2. StepOf(p) = UninstallStep /\ proc[p] \in Uninstalls
    BY <1>1, CommandType DEF StepOf
<1> QED
    BY <1>1, <1>2, CommandType, TailMoves

\* Every step keeps the types, and the steps of every command in order.
LEMMA TypeStep ==
    ASSUME SetupTypeOK, ProcOK, [SetupNext]_svars
    PROVE  SetupTypeOK' /\ ProcOK'
<1> USE DEF SetupTypeOK
<1> DEFINE Rest == /\ CloneTypeOK' /\ lease' \in Process \cup {Free}
                   /\ drawn' \in Nat /\ requested' \in SUBSET Nat
                   /\ approved' \in SUBSET Version /\ dropped' \in SUBSET Nat
                   /\ spent' \in [runs : Nat, crashes : Nat, edits : Nat]
           Whole == HookTypeOK' /\ ProviderTypeOK' /\ Rest /\ ProcOK'
<1>0. Whole => SetupTypeOK' /\ ProcOK'
    BY DEF ProcOK
<1>1. CASE UNCHANGED svars
    BY <1>1 DEF svars, hookVars, providerVars, cloneVars, histVars, HookTypeOK, ProviderTypeOK,
               CloneTypeOK, ProcOK
<1>a. (UNCHANGED hookVars => HookTypeOK') /\ (UNCHANGED providerVars => ProviderTypeOK')
    BY HookTypes, ProviderTypes
<1>b. ASSUME NEW p \in Process, proc[p].todo # << >>,
             Done(p) \/ Throw(p) \/ LeaveSection(p) \/ Todo(p, << >>)
      PROVE  ProcOK'
    BY <1>b, MovesOK
<1>c. /\ DOMAIN Removing = {"config", "manifest", "lock"}
      /\ \A file \in {"config", "manifest", "lock"} :
             Removing[file] \in {"remove config", "remove manifest", "remove lock file"}
    BY DEF Removing
<1>2. ASSUME NEW p \in Process, StartSetup(p) PROVE Whole
    <2>1. PICK version \in Version :
              proc' = [proc EXCEPT ![p] = [kind |-> "setup", todo |-> SetupSteps,
                                           plan |-> SetupPlan(version)]]
        BY <1>2 DEF StartSetup
    <2> DEFINE command == [kind |-> "setup", todo |-> SetupSteps, plan |-> SetupPlan(version)]
    <2>2. command \in Setups /\ OrderInv(command.todo)
        BY SetupPlanType, ListsInOrder DEF Setups
    <2> HIDE DEF command
    <2>3. ProcOK'
        BY <2>1, <2>2, ReadsOK DEF command
    <2> QED
        BY <1>2, <1>a, <2>3 DEF StartSetup, cloneVars, CloneTypeOK
<1>3. ASSUME NEW p \in Process, Compare(p) PROVE Whole
    BY <1>3, <1>a, <1>b DEF Compare, cloneVars, histVars, CloneTypeOK, Doing
<1>4. ASSUME NEW p \in Process, InstallRuntime(p) PROVE Whole
    <2>1. proc[p].plan \in SetupPlans
        BY <1>4, InSetup DEF InstallRuntime, SetupStep, UninstallStep
    <2> QED
        BY <1>4, <1>a, <1>b, <2>1 DEF InstallRuntime, SetupPlans, histVars, CloneTypeOK, Doing
<1>5. ASSUME NEW p \in Process, NoteIntent(p) PROVE Whole
    <2>1. proc[p].plan \in SetupPlans
        BY <1>5, InSetup DEF NoteIntent, SetupStep, UninstallStep
    <2> QED
        BY <1>5, <1>a, <1>b, <2>1 DEF NoteIntent, SetupPlans, histVars, CloneTypeOK, Doing
<1>6. ASSUME NEW p \in Process, WriteTracked(p) PROVE Whole
    <2>1. proc[p].todo # << >> /\ proc[p].plan \in SetupPlans
        <3>1. \A step \in {"config", "pin manifest", "pin lock", "ownership"} :
                  step \in SetupStep \ UninstallStep
            BY DEF SetupStep, UninstallStep
        <3>2. /\ DOMAIN Publishing = {"config", "manifest", "lock"}
              /\ \A file \in {"config", "manifest", "lock"} :
                  Publishing[file] \in {"config", "pin manifest", "pin lock"}
            BY DEF Publishing
        <3>3. \E step \in {"config", "pin manifest", "pin lock", "ownership"} : Doing(p, step)
            BY <1>6, <3>2 DEF WriteTracked
        <3> QED
            BY <3>1, <3>3, InSetup
    <2>2. Wanted(proc[p].plan) \in Contents
        BY <2>1, ContentTypes DEF Wanted, SetupPlans
    <2>3. tracked' \in [files : Contents, owned : Contents]
        <3>1. CASE tracked' = tracked \/ tracked' = [tracked EXCEPT !.owned = Wanted(proc[p].plan)]
            BY <2>2, <3>1 DEF CloneTypeOK
        <3>2. ASSUME NEW file \in DOMAIN Publishing,
                     tracked' = [tracked EXCEPT !.files[file] = Wanted(proc[p].plan)[file]]
              PROVE  tracked' \in [files : Contents, owned : Contents]
            <4>1. file \in {"config", "manifest", "lock"}
                BY DEF Publishing
            <4> QED
                BY <2>2, <3>2, <4>1 DEF CloneTypeOK, Contents
        <3> QED
            BY <1>6, <3>1, <3>2 DEF WriteTracked
    <2> QED
        BY <1>6, <1>a, <1>b, <2>1, <2>3 DEF WriteTracked, histVars, CloneTypeOK
<1>7. ASSUME NEW p \in Process, Approve(p) PROVE Whole
    <2>1. proc[p].plan \in SetupPlans
        BY <1>7, InSetup DEF Approve, SetupStep, UninstallStep
    <2> QED
        BY <1>7, <1>a, <1>b, <2>1 DEF Approve, CloneTypeOK, Doing, SetupPlans, Local
<1>8. ASSUME NEW p \in Process, SwitchBootstrap(p) PROVE Whole
    <2>1. proc[p].plan \in SetupPlans
        BY <1>8, InSetup DEF SwitchBootstrap, SetupStep, UninstallStep
    <2> QED
        BY <1>8, <1>a, <1>b, <2>1 DEF SwitchBootstrap, SetupPlans, histVars, CloneTypeOK, Doing
<1>9. ASSUME NEW p \in Process, ClearIntent(p) PROVE Whole
    BY <1>9, <1>a, <1>b DEF ClearIntent, histVars, CloneTypeOK, Doing
<1>10. ASSUME NEW p \in Process, InitialOperation(p) PROVE Whole
    <2>1. proc[p].plan \in SetupPlans
        BY <1>10, InSetup DEF InitialOperation, SetupStep, UninstallStep
    <2> QED
        BY <1>10, <1>a, <1>b, <2>1 DEF InitialOperation, SetupPlans, cloneVars, CloneTypeOK, Doing
<1>11. ASSUME NEW p \in Process, Busy(p) PROVE Whole
    BY <1>11, <1>a, <1>b DEF Busy, cloneVars, histVars, CloneTypeOK, Doing
<1>12. ASSUME NEW p \in Process, Unlock(p) PROVE Whole
    BY <1>12, <1>a, <1>b DEF Unlock, cloneVars, histVars, CloneTypeOK, Doing
<1>13. ASSUME NEW p \in Process, SkipHook(p) PROVE Whole
    BY <1>13, <1>a, <1>b DEF SkipHook, cloneVars, histVars, CloneTypeOK, Doing
<1>14. ASSUME NEW p \in Process, NEW lock, NEW enter, NEW fail, Enter(p, lock, enter, fail)
       PROVE  Whole
    BY <1>14, <1>a, <1>b DEF Enter, cloneVars, histVars, CloneTypeOK, Doing
<1>15. ASSUME NEW p \in Process, NEW step, InHooks(p, step), HookTypeOK' PROVE Whole
    BY <1>15, <1>a, <1>b DEF InHooks, cloneVars, histVars, CloneTypeOK, Doing
<1>16. ASSUME NEW p \in Process, InstallHook(p) PROVE Whole
    <2>1. CASE InHooks(p, "installing") \/ InHooks(p, "move") \/ InHooks(p, "driver")
               \/ InHooks(p, "wrapper") \/ InHooks(p, "installed")
        <3>1. proc[p].plan.hook \in HookPlans
            <4>1. \A step \in {"installing", "move", "driver", "wrapper", "installed"} :
                      step \in SetupStep \ UninstallStep
                BY DEF SetupStep, UninstallStep
            <4>2. \E step \in {"installing", "move", "driver", "wrapper", "installed"} : Doing(p, step)
                BY <2>1 DEF InHooks
            <4> QED
                BY <4>1, <4>2, InSetup DEF SetupPlans
        <3>2. UNCHANGED hookVars => HookTypeOK'
            BY <1>a
        <3>3. HookTypeOK' \/ Enter(p, "hook lock", ~HookUnchanged(proc[p].plan.hook),
                                   HookPlanStale(proc[p].plan.hook))
            BY <1>16, <3>1, HookTypes DEF InstallHook
        <3> QED
            BY <2>1, <3>3, <1>14, <1>15
    <2> QED
        BY <1>16, <2>1, <1>14 DEF InstallHook
<1>17. ASSUME NEW p \in Process, RemoveHook(p) PROVE Whole
    BY <1>17, <1>14, <1>15, HookTypes DEF RemoveHook
<1>d. ASSUME NEW p \in Process, KeepHook(p) PROVE Whole
    <2>1. ProcOK'
        BY <1>d, SkipMoves DEF KeepHook
    <2> QED
        BY <1>d, <1>a, <2>1 DEF KeepHook, cloneVars, histVars, CloneTypeOK
<1>e. ASSUME NEW p \in Process, HookGone(p) PROVE Whole
    BY <1>e, <1>a, <1>b DEF HookGone, cloneVars, histVars, CloneTypeOK, Doing
<1>18. ASSUME NEW p \in Process, EnterProviders(p) PROVE Whole
    BY <1>18, <1>14 DEF EnterProviders
<1>19. ASSUME NEW p \in Process, NEW step, InProviders(p, step), ProviderTypeOK', ProcOK' PROVE Whole
    BY <1>19, <1>a DEF InProviders, cloneVars, histVars, CloneTypeOK
<1>20. ASSUME NEW p \in Process, Finish(p) PROVE Whole
    <2>1. CASE InProviders(p, "write") /\ Done(p) /\ UNCHANGED providerVars
        BY <2>1, <1>a, <1>b, <1>19 DEF InProviders, Doing
    <2>2. CASE /\ InProviders(p, "write") /\ UNCHANGED proc
               /\ CheckFiles \/ \E q \in Provider : CompareFile(q) \/ ReplaceFile(q)
        <3>1. ProcOK'
            BY <2>2 DEF ProcOK
        <3>2. ProviderTypeOK'
            BY <2>2, ProviderTypes
        <3> QED
            BY <2>2, <3>1, <3>2, <1>19
    <2>3. CASE InProviders(p, "manifest") /\ Done(p) /\ WriteManifest
        BY <2>3, <1>b, <1>19, ProviderTypes DEF InProviders, Doing
    <2>4. CASE InProviders(p, "retire") /\ Done(p) /\ Retire
        BY <2>4, <1>b, <1>19, ProviderTypes DEF InProviders, Doing
    <2> QED
        BY <1>20, <2>1, <2>2, <2>3, <2>4 DEF Finish
<1>21. ASSUME NEW p \in Process, ThirdState(p) PROVE Whole
    BY <1>21, <1>a, <1>b DEF ThirdState, cloneVars, histVars, CloneTypeOK, Doing
<1>22. ASSUME NEW p \in Process, PublishInstall(p) PROVE Whole
    <2>1. proc[p].plan \in SetupPlans /\ proc[p].todo # << >>
        BY <1>22, InSetup DEF PublishInstall, InProviders, SetupStep, UninstallStep
    <2> QED
        BY <1>22, <2>1, <1>a, <1>b, <1>19, ProviderTypes DEF PublishInstall, SetupPlans, ProviderPlans
<1>23. ASSUME NEW p \in Process, EnterEntries(p) PROVE Whole
    BY <1>23, <1>14 DEF EnterEntries
<1>24. ASSUME NEW p \in Process, RemoveEntries(p) PROVE Whole
    <2>1. InProviders(p, "entries") /\ Doing(p, "entries") /\ proc[p].todo # << >>
        BY <1>24 DEF RemoveEntries, InProviders, Doing
    <2>2. ProviderTypeOK'
        BY <1>24, <1>a, SnapshotTypes, ProviderTypes DEF RemoveEntries
    <2>3. ProcOK'
        BY <1>24, <1>b, <2>1, EntriesMoves DEF RemoveEntries
    <2> QED
        BY <1>19, <2>1, <2>2, <2>3
<1>25. ASSUME NEW p \in Process, EntriesStay(p) PROVE Whole
    BY <1>25, <1>a, <1>b DEF EntriesStay, cloneVars, histVars, CloneTypeOK, Doing
<1>26. ASSUME NEW p \in Process, StartUninstall(p) PROVE Whole
    <2> DEFINE command == [kind |-> "uninstall", todo |-> UninstallSteps,
            plan |-> [local |-> NoLocal, bootstrap |-> 0, owned |-> NoFiles, kept |-> FALSE]]
    <2>1. command \in Uninstalls /\ OrderInv(command.todo)
        BY ListsInOrder, ContentTypes DEF Uninstalls, UninstallPlans
    <2>2. proc' = [proc EXCEPT ![p] = command]
        BY <1>26 DEF StartUninstall
    <2> HIDE DEF command
    <2>3. ProcOK'
        BY <2>1, <2>2, ReadsOK
    <2> QED
        BY <1>26, <1>a, <2>3 DEF StartUninstall, cloneVars, histVars, CloneTypeOK
<1>27. ASSUME NEW p \in Process, Deactivate(p) PROVE Whole
    <2>1. /\ proc[p].todo # << >> /\ proc[p] \in Uninstalls
          /\ Tail(proc[p].todo) \in Seq(UninstallStep) /\ OrderInv(Tail(proc[p].todo))
        BY <1>27, InUninstall DEF Deactivate, SetupStep, UninstallStep
    <2> DEFINE command == [proc[p] EXCEPT !.todo = Tail(@), !.plan.local = local,
                                          !.plan.bootstrap = bootstrap]
    <2>2. command \in Uninstalls /\ command.todo = Tail(proc[p].todo)
        BY <2>1 DEF Uninstalls, UninstallPlans, CloneTypeOK
    <2>3. proc' = [proc EXCEPT ![p] = command]
        BY <1>27 DEF Deactivate, ProcOK
    <2> HIDE DEF command
    <2>a. OrderInv(command.todo) /\ command \in Uninstalls
        BY <2>1, <2>2
    <2>4. ProcOK'
        BY <2>a, <2>3, ReadsOK
    <2> QED
        BY <1>27, <1>a, <2>4, ContentTypes DEF Deactivate, CloneTypeOK, Local
<1>28. ASSUME NEW p \in Process, UnlinkBootstrap(p) PROVE Whole
    BY <1>28, <1>a, <1>b DEF UnlinkBootstrap, histVars, CloneTypeOK, Doing
<1>29. ASSUME NEW p \in Process, Forget(p) PROVE Whole
    BY <1>29, <1>a, <1>b DEF Forget, CloneTypeOK, Doing
<1>30. ASSUME NEW p \in Process, ReadOwnership(p) PROVE Whole
    <2>1. /\ proc[p].todo # << >> /\ proc[p] \in Uninstalls
          /\ Tail(proc[p].todo) \in Seq(UninstallStep) /\ OrderInv(Tail(proc[p].todo))
        BY <1>30, InUninstall DEF ReadOwnership, SetupStep, UninstallStep
    <2> DEFINE steps == IF tracked.owned = NoFiles THEN << >>
                        ELSE << "remove config", "remove manifest", "remove lock file",
                                "remove ownership" >>
               command == [proc[p] EXCEPT !.plan.owned = tracked.owned, !.todo = steps]
    <2>2. steps \in Seq(UninstallStep) /\ OrderInv(steps)
        <3> DEFINE L == << "remove config", "remove manifest", "remove lock file",
                           "remove ownership" >>
        <3>1. L \in Seq(UninstallStep) /\ L[Len(L)] \in Final
            BY DEF UninstallStep, Final
        <3>2. \A k \in 1 .. Len(L) - 1 : Flow(L[k], L[k + 1])
            BY Zenon DEF Flow, Consecutive
        <3>3. << >> \in Seq(UninstallStep) /\ OrderInv(<< >>)
            BY DEF OrderInv
        <3>4. steps = << >> \/ steps = L
            OBVIOUS
        <3> HIDE DEF L, steps
        <3>5. OrderInv(L)
            BY <3>1, <3>2 DEF OrderInv
        <3> QED
            BY <3>1, <3>3, <3>4, <3>5
    <2>3. proc' = [proc EXCEPT ![p] = command]
        BY <1>30 DEF ReadOwnership, ProcOK
    <2> HIDE DEF steps
    <2>4. command \in Uninstalls /\ command.todo = steps
        BY <2>1, <2>2 DEF Uninstalls, UninstallPlans, CloneTypeOK
    <2> HIDE DEF command
    <2>5. OrderInv(command.todo)
        BY <2>2, <2>4
    <2>a. command \in Uninstalls
        BY <2>4
    <2>6. ProcOK'
        BY <2>3, <2>a, <2>5, ReadsOK
    <2> QED
        BY <1>30, <1>a, <2>6 DEF ReadOwnership, cloneVars, histVars, CloneTypeOK
<1>31. ASSUME NEW p \in Process, RemoveTracked(p) PROVE Whole
    <2>1. ASSUME NEW file \in DOMAIN Removing, Doing(p, Removing[file]),
                 tracked' = IF tracked.files[file] = proc[p].plan.owned[file]
                            THEN [tracked EXCEPT !.files[file] = NoFiles[file]] ELSE tracked,
                 proc' = [proc EXCEPT ![p].todo = Tail(@), ![p].plan.kept =
                          @ \/ (~(tracked.files[file] = proc[p].plan.owned[file])
                                /\ tracked.files[file] # NoFiles[file])]
          PROVE  tracked' \in [files : Contents, owned : Contents] /\ ProcOK'
        <3>1. /\ file \in {"config", "manifest", "lock"}
              /\ Removing[file] \in {"remove config", "remove manifest", "remove lock file"}
            BY <1>c
        <3>a. \A step \in {"remove config", "remove manifest", "remove lock file"} :
                  step \in UninstallStep \ SetupStep
            BY DEF UninstallStep, SetupStep
        <3>2. tracked' \in [files : Contents, owned : Contents]
            BY <2>1, <3>1, ContentTypes DEF CloneTypeOK, Contents
        <3>3. /\ proc[p].todo # << >> /\ proc[p] \in Uninstalls
              /\ Tail(proc[p].todo) \in Seq(UninstallStep) /\ OrderInv(Tail(proc[p].todo))
            BY <2>1, <3>1, <3>a, InUninstall
        <3> DEFINE keeps == proc[p].plan.kept \/ (~(tracked.files[file] = proc[p].plan.owned[file])
                                                   /\ tracked.files[file] # NoFiles[file])
                   command == [proc[p] EXCEPT !.todo = Tail(@), !.plan.kept = keeps]
        <3>4. keeps \in BOOLEAN
            BY <3>3 DEF Uninstalls, UninstallPlans
        <3>5. proc' = [proc EXCEPT ![p] = command]
            BY <2>1 DEF ProcOK
        <3> HIDE DEF keeps
        <3>6. command \in Uninstalls /\ command.todo = Tail(proc[p].todo)
            BY <3>3, <3>4 DEF Uninstalls, UninstallPlans
        <3> HIDE DEF command
        <3>7. OrderInv(command.todo)
            BY <3>3, <3>6
        <3>8. ProcOK'
            BY <3>5, <3>6, <3>7, ReadsOK
        <3> QED
            BY <3>2, <3>8
    <2>2. ASSUME Doing(p, "remove ownership"), Done(p),
                 tracked' = IF proc[p].plan.kept THEN tracked ELSE [tracked EXCEPT !.owned = NoFiles]
          PROVE  tracked' \in [files : Contents, owned : Contents] /\ ProcOK'
        BY <2>2, <1>b, ContentTypes DEF CloneTypeOK, Doing
    <2>3. tracked' \in [files : Contents, owned : Contents] /\ ProcOK'
        BY <1>31, <2>1, <2>2 DEF RemoveTracked
    <2> QED
        BY <1>31, <1>a, <2>3 DEF RemoveTracked, histVars, CloneTypeOK
<1>32. ASSUME NEW p \in Process, Crash(p) PROVE Whole
    <2>1. OrderInv(Idle.todo) /\ Idle \in {Idle} \cup Setups \cup Uninstalls
        BY DEF OrderInv, Idle
    <2>2. ProcOK'
        BY <1>32, <2>1, ReadsOK DEF Crash
    <2> QED
        BY <1>32, <1>a, <2>2 DEF Crash, cloneVars, histVars, CloneTypeOK
<1>33. CASE Edit
    <2>1. /\ HookCompared \in BOOLEAN
          /\ (\E p \in Process : Doing(p, "write")) \in BOOLEAN
        BY DEF HookCompared
    <2>2. HookTypeOK' /\ ProviderTypeOK'
        BY <1>33, <1>a, <2>1, HookTypes, ProviderTypes DEF Edit
    <2> QED
        BY <1>33, <2>2 DEF Edit, cloneVars, histVars, CloneTypeOK, ProcOK
<1> HIDE DEF Whole
<1> QED
    BY <1>0, <1>1, <1>2, <1>3, <1>4, <1>5, <1>6, <1>7, <1>8, <1>9, <1>10, <1>11, <1>12, <1>13,
       <1>16, <1>17, <1>d, <1>e, <1>18, <1>20, <1>21, <1>22, <1>23, <1>24, <1>25, <1>26, <1>27, <1>28,
       <1>29, <1>30, <1>31, <1>32, <1>33 DEF SetupNext

-----------------------------------------------------------------------------
(* The lease *)

\* Who holds the lease after a step of p, when p alone enters or leaves a section.
LEMMA LeaseMoves ==
    ASSUME ControlInv, NEW p \in Process, ProcOK', Others(p),
           \/ UNCHANGED lease /\ (Within(p)' <=> Within(p))
           \/ lease' = Free /\ Within(p) /\ ~ Within(p)'
           \/ lease = Free /\ lease' = p /\ Within(p)'
    PROVE  ControlInv'
<1>1. \A q \in Process \ {p} : Within(q)' <=> Within(q)
    BY DEF Others, Within
<1>2. \A q \in Process : OrderInv(proc'[q].todo)
    BY DEF ProcOK
<1>3. \A q \in Process : Within(q)' <=> lease' = q
    BY <1>1, NameAssumption DEF ControlInv
<1> QED
    BY <1>2, <1>3 DEF ControlInv

LEMMA FlowOutside ==
    ASSUME NEW a, NEW b, Flow(a, b), a \notin Locks, a \notin Section \ {"unlock"}
    PROVE  b \notin Section
<1>1. b \in Section <=> a \in Locks \cup (Section \ {"unlock"})
    BY Predecessors
<1> QED
    BY <1>1

LEMMA DoneOutside ==
    ASSUME ProcOK, ControlInv, NEW p \in Process, NEW a, Doing(p, a), a \notin Locks \cup Section,
           Done(p), UNCHANGED lease
    PROVE  ControlInv'
<1>1. ~ Within(p)
    BY DEF Within, Doing
<1>2. ProcOK' /\ Others(p) /\ (GoesOn(p, a) \/ Stops(p))
    BY DoneMoves
<1>3. ~ Within(p)'
    BY <1>2, FlowOutside DEF GoesOn, Stops, Within, Idle
<1> QED
    BY <1>1, <1>2, <1>3, LeaseMoves

LEMMA DoneInside ==
    ASSUME ProcOK, ControlInv, NEW p \in Process, NEW a, Doing(p, a), a \in Section \ {"unlock"},
           Done(p), UNCHANGED lease
    PROVE  ControlInv'
<1>1. Within(p)
    BY DEF Within, Doing
<1>2. a \notin Final
    BY DEF Section, Final
<1>3. ProcOK' /\ Others(p) /\ GoesOn(p, a)
    BY <1>2, DoneMoves
<1>4. Within(p)'
    BY <1>3, Predecessors DEF GoesOn, Continues, Within
<1> QED
    BY <1>1, <1>3, <1>4, LeaseMoves

LEMMA LeaveOutside ==
    ASSUME ProcOK, ControlInv, NEW p \in Process, NEW a, Doing(p, a), a \notin Section,
           Throw(p) \/ LeaveSection(p), UNCHANGED lease
    PROVE  ControlInv'
<1>1. proc[p].todo # << >> /\ ~ Within(p)
    BY DEF Within, Doing
<1>2. /\ ProcOK' /\ Others(p)
      /\ GoesOn(p, "unlock") \/ Stops(p) \/ (Continues(p) /\ proc'[p].todo = proc[p].todo)
    BY <1>1, LeaveMoves, ThrowMoves
<1>3. ~ Within(p)'
    <2>1. CASE GoesOn(p, "unlock")
        BY <2>1, Predecessors DEF GoesOn, Within, Locks
    <2>2. CASE Stops(p)
        BY <2>2 DEF Stops, Within, Idle
    <2>3. CASE proc'[p].todo = proc[p].todo
        BY <1>1, <2>3 DEF Within
    <2> QED
        BY <1>2, <2>1, <2>2, <2>3
<1> QED
    BY <1>1, <1>2, <1>3, LeaseMoves

LEMMA EnterControl ==
    ASSUME ProcOK, ControlInv, NEW p \in Process, NEW lock \in Locks, NEW enter, NEW fail,
           Enter(p, lock, enter, fail)
    PROVE  ControlInv'
<1>1. Doing(p, lock) /\ lock \notin Section /\ lock \notin Final
    BY DEF Enter, Locks, Section, Final
<1>2. CASE UNCHANGED lease /\ (Throw(p) \/ LeaveSection(p))
    BY <1>1, <1>2, LeaveOutside
<1>3. CASE lease = Free /\ lease' = p /\ Done(p)
    <2>1. ProcOK' /\ Others(p) /\ GoesOn(p, lock)
        BY <1>1, <1>3, DoneMoves
    <2>2. Within(p)'
        BY <2>1, Predecessors DEF GoesOn, Continues, Within
    <2> QED
        BY <1>3, <2>1, <2>2, LeaseMoves
<1> QED
    BY <1>2, <1>3 DEF Enter

LEMMA FailInside ==
    ASSUME ProcOK, ControlInv, NEW p \in Process, NEW a \in Section, Doing(p, a),
           Throw(p), lease' = Free
    PROVE  ControlInv'
<1>1. Within(p) /\ proc[p].todo # << >>
    BY DEF Within, Doing
<1>2. Todo(p, << >>)
    BY DEF Throw, Doing, Section
<1>3. ProcOK' /\ Others(p) /\ Stops(p)
    BY <1>1, <1>2, StopMoves
<1>4. ~ Within(p)'
    BY <1>3 DEF Stops, Within, Idle
<1> QED
    BY <1>1, <1>3, <1>4, LeaseMoves

\* A command has the lease exactly while it is in a section.
LEMMA ControlStep ==
    ASSUME SetupTypeOK, ProcOK, ControlInv, [SetupNext]_svars
    PROVE  ControlInv'
<1> DEFINE Outside == {"compare", "runtime", "intent", "config", "pin manifest", "pin lock",
                       "ownership", "local", "bootstrap", "clear", "operation",
                       "deactivate", "unlink bootstrap", "forget", "untrack", "remove config",
                       "remove manifest", "remove lock file", "remove ownership"}
<1>a. /\ \A a \in Outside : a \notin Locks \cup Section
      /\ \A a \in Locks : a \notin Section
    BY DEF Locks, Section
<1>b. ASSUME NEW p \in Process, NEW a \in Outside, Doing(p, a), Done(p), UNCHANGED lease
      PROVE  ControlInv'
    BY <1>a, <1>b, DoneOutside
<1>c. ASSUME NEW p \in Process, NEW a \in Outside, Doing(p, a), NEW command,
             command = Idle \/ command \in Setups \/ command \in Uninstalls,
             OrderInv(command.todo), proc' = [proc EXCEPT ![p] = command],
             command.todo = << >> \/ Head(command.todo) \notin Section, UNCHANGED lease
      PROVE  ControlInv'
    <2>1. ProcOK' /\ Others(p) /\ proc'[p] = command
        BY <1>c, ReadsOK
    <2>2. ~ Within(p) /\ ~ Within(p)'
        BY <1>a, <1>c, <2>1 DEF Within, Doing
    <2> QED
        BY <1>c, <2>1, <2>2, LeaseMoves
<1>1. CASE UNCHANGED svars
    BY <1>1 DEF svars, ControlInv, Within
<1>2. ASSUME NEW p \in Process, StartSetup(p) \/ StartUninstall(p) PROVE ControlInv'
    <2>1. ~ Within(p) /\ UNCHANGED lease
        BY <1>2 DEF StartSetup, StartUninstall, CanStart, Within
    <2>2. ProcOK'
        BY TypeStep, <1>2 DEF SetupNext
    <2>3. /\ \E version \in Version :
                 proc' = [proc EXCEPT ![p] = [kind |-> "setup", todo |-> SetupSteps,
                                              plan |-> SetupPlan(version)]]
          \/ proc' = [proc EXCEPT ![p] =
                 [kind |-> "uninstall", todo |-> UninstallSteps,
                  plan |-> [local |-> NoLocal, bootstrap |-> 0, owned |-> NoFiles, kept |-> FALSE]]]
        BY <1>2 DEF StartSetup, StartUninstall
    <2>4. Others(p) /\ (proc'[p].todo = SetupSteps \/ proc'[p].todo = UninstallSteps)
        BY <2>3 DEF ProcOK, Others
    <2>5. Head(SetupSteps) \notin Section /\ Head(UninstallSteps) \notin Section
        BY ListsInOrder DEF Section
    <2>6. ~ Within(p)'
        BY <2>4, <2>5 DEF Within
    <2> QED
        BY <2>1, <2>2, <2>4, <2>6, LeaseMoves
<1>3. ASSUME NEW p \in Process, Compare(p) PROVE ControlInv'
    <2>1. Doing(p, "compare") /\ "compare" \in Outside /\ UNCHANGED lease /\ (Done(p) \/ Throw(p))
        BY <1>3 DEF Compare
    <2> QED
        BY <1>a, <1>b, <2>1, LeaveOutside
<1>4. ASSUME NEW p \in Process, InstallRuntime(p) PROVE ControlInv'
    BY <1>4, <1>b DEF InstallRuntime
<1>5. ASSUME NEW p \in Process, NoteIntent(p) PROVE ControlInv'
    <2>1. Doing(p, "intent") /\ "intent" \in Outside /\ UNCHANGED lease /\ (Done(p) \/ Throw(p))
        BY <1>5 DEF NoteIntent
    <2> QED
        BY <1>a, <1>b, <2>1, LeaveOutside
<1>6. ASSUME NEW p \in Process, WriteTracked(p) PROVE ControlInv'
    <2>1. /\ DOMAIN Publishing = {"config", "manifest", "lock"}
          /\ \A file \in {"config", "manifest", "lock"} : Publishing[file] \in Outside
        BY DEF Publishing
    <2>2. UNCHANGED lease /\ Done(p) /\ \E a \in Outside : Doing(p, a)
        BY <1>6, <2>1 DEF WriteTracked
    <2> QED
        BY <1>b, <2>2
<1>7. ASSUME NEW p \in Process, Approve(p) \/ SwitchBootstrap(p) \/ ClearIntent(p)
                                \/ InitialOperation(p) PROVE ControlInv'
    BY <1>7, <1>b DEF Approve, SwitchBootstrap, ClearIntent, InitialOperation
<1>8. ASSUME NEW p \in Process, Busy(p) PROVE ControlInv'
    BY <1>8, <1>a, LeaveOutside DEF Busy
<1>9. ASSUME NEW p \in Process, Unlock(p) PROVE ControlInv'
    <2>1. Doing(p, "unlock") /\ Done(p) /\ lease' = Free
        BY <1>9 DEF Unlock
    <2>2. Within(p)
        BY <2>1 DEF Doing, Within, Section
    <2>3. ProcOK' /\ Others(p) /\ (GoesOn(p, "unlock") \/ Stops(p))
        BY <2>1, DoneMoves
    <2>4. ~ Within(p)'
        <3>1. "unlock" \notin Locks /\ "unlock" \notin Section \ {"unlock"}
            BY DEF Locks
        <3> QED
            BY <2>3, <3>1, FlowOutside DEF GoesOn, Stops, Within, Idle
    <2> QED
        BY <2>1, <2>2, <2>3, <2>4, LeaseMoves
<1>10. ASSUME NEW p \in Process, SkipHook(p) PROVE ControlInv'
    BY <1>10, <1>a, LeaveOutside DEF SkipHook, Locks
<1> DEFINE Inside == {"installing", "move", "driver", "wrapper", "installed", "restore",
                      "remove driver", "remove record", "publish", "write", "manifest", "retire",
                      "entries"}
<1>d. ASSUME NEW p \in Process, NEW a \in Inside, Doing(p, a), Done(p), UNCHANGED lease
      PROVE  ControlInv'
    <2>1. a \in Section \ {"unlock"}
        BY DEF Section
    <2> QED
        BY <1>d, <2>1, DoneInside
<1>e. ASSUME NEW p \in Process, NEW a \in Inside, InHooks(p, a)
      PROVE  ControlInv'
    BY <1>d, <1>e DEF InHooks
<1>f. ASSUME NEW p \in Process, NEW a \in Inside, InProviders(p, a), Done(p)
      PROVE  ControlInv'
    BY <1>d, <1>f DEF InProviders
<1>g. "hook lock" \in Locks /\ "remove lock" \in Locks /\ "provider lock" \in Locks
      /\ "entries lock" \in Locks
    BY DEF Locks
<1>11. ASSUME NEW p \in Process, InstallHook(p) PROVE ControlInv'
    BY <1>11, <1>e, <1>g, EnterControl DEF InstallHook
<1>12. ASSUME NEW p \in Process, RemoveHook(p) PROVE ControlInv'
    BY <1>12, <1>e, <1>g, EnterControl DEF RemoveHook
<1>j. ASSUME NEW p \in Process, KeepHook(p) PROVE ControlInv'
    <2>1. /\ ProcOK' /\ Others(p) /\ Continues(p) /\ Head(proc'[p].todo) = "remove driver"
          /\ lease = Free /\ lease' = p
        BY <1>j, SkipMoves DEF KeepHook
    <2>2. Within(p)'
        BY <2>1 DEF Continues, Within, Section
    <2> QED
        BY <2>1, <2>2, LeaseMoves
<1>k. ASSUME NEW p \in Process, HookGone(p) PROVE ControlInv'
    <2>1. CASE Doing(p, "move") /\ Throw(p) /\ lease' = Free
        BY <2>1, FailInside DEF Section
    <2>2. CASE Doing(p, "restore") /\ LeaveSection(p) /\ lease' = Free
        <3>1. ProcOK' /\ Others(p) /\ (GoesOn(p, "unlock") \/ Stops(p))
            BY <2>2, RestoreLeaves
        <3>2. Within(p)
            BY <2>2 DEF Doing, Within, Section
        <3>3. ~ Within(p)'
            <4>1. "unlock" \notin Locks /\ "unlock" \notin Section \ {"unlock"}
                BY DEF Locks
            <4> QED
                BY <3>1, <4>1, FlowOutside DEF GoesOn, Stops, Within, Idle
        <3> QED
            BY <2>2, <3>1, <3>2, <3>3, LeaseMoves
    <2> QED
        BY <1>k, <2>1, <2>2 DEF HookGone
<1>13. ASSUME NEW p \in Process, EnterProviders(p) \/ EnterEntries(p) PROVE ControlInv'
    BY <1>13, <1>g, EnterControl DEF EnterProviders, EnterEntries
<1>14. ASSUME NEW p \in Process, Finish(p) PROVE ControlInv'
    <2>1. CASE InProviders(p, "write") /\ UNCHANGED proc
        BY <2>1 DEF InProviders, ControlInv, Within
    <2> QED
        BY <1>14, <1>f, <2>1 DEF Finish
<1>15. ASSUME NEW p \in Process, PublishInstall(p) PROVE ControlInv'
    BY <1>15, <1>f DEF PublishInstall
<1>16. ASSUME NEW p \in Process, ThirdState(p) \/ EntriesStay(p) PROVE ControlInv'
    BY <1>16, FailInside DEF ThirdState, EntriesStay, Section
<1>17. ASSUME NEW p \in Process, RemoveEntries(p) PROVE ControlInv'
    <2>1. InProviders(p, "entries") /\ Doing(p, "entries") /\ UNCHANGED lease
        BY <1>17 DEF RemoveEntries, InProviders
    <2>2. \/ Done(p)
          \/ \E steps \in {Tail(proc[p].todo), proc[p].todo} :
                 Todo(p, << "write", "manifest", "retire" >> \o steps)
        BY <1>17 DEF RemoveEntries
    <2>3. ASSUME NEW steps \in {Tail(proc[p].todo), proc[p].todo},
                 Todo(p, << "write", "manifest", "retire" >> \o steps)
          PROVE  ControlInv'
        <3>1. ProcOK' /\ Others(p) /\ Continues(p) /\ Head(proc'[p].todo) = "write"
            BY <2>1, <2>3, EntriesMoves
        <3>2. Within(p) /\ Within(p)'
            BY <2>1, <3>1 DEF Within, Doing, Continues, Section
        <3> QED
            BY <2>1, <3>1, <3>2, LeaseMoves
    <2> QED
        BY <1>f, <2>1, <2>2, <2>3
<1>18. ASSUME NEW p \in Process, UnlinkBootstrap(p) \/ Forget(p) PROVE ControlInv'
    BY <1>18, <1>b DEF UnlinkBootstrap, Forget
<1>h. ASSUME NEW p \in Process, NEW a \in Outside, Doing(p, a), ProcOK', Others(p),
             proc'[p].todo = << >> \/ Head(proc'[p].todo) \notin Section, UNCHANGED lease
      PROVE  ControlInv'
    <2>1. ~ Within(p) /\ ~ Within(p)'
        BY <1>a, <1>h DEF Within, Doing
    <2> QED
        BY <1>h, <2>1, LeaseMoves
<1>i. ASSUME NEW p \in Process, NEW a \in Outside, Doing(p, a), ProcOK', Others(p),
             proc'[p].todo = Tail(proc[p].todo), UNCHANGED lease
      PROVE  ControlInv'
    <2>1. proc[p].todo # << >> /\ Head(proc[p].todo) = a
        BY <1>i DEF Doing
    <2>2. Tail(proc[p].todo) = << >> \/ Flow(a, Head(Tail(proc[p].todo)))
        BY <2>1, CommandType, TailMoves
    <2>3. proc'[p].todo = << >> \/ Head(proc'[p].todo) \notin Section
        <3>1. a \notin Locks /\ a \notin Section \ {"unlock"}
            BY <1>a
        <3> QED
            BY <1>i, <2>2, <3>1, FlowOutside
    <2> QED
        BY <1>h, <1>i, <2>3
<1>19. ASSUME NEW p \in Process, Deactivate(p) PROVE ControlInv'
    <2>1. ProcOK'
        BY <1>19, TypeStep DEF SetupNext
    <2>2. Others(p) /\ proc'[p].todo = Tail(proc[p].todo)
        BY <1>19, CommandType DEF Deactivate, ProcOK, Others, Doing, Setups, Uninstalls
    <2> QED
        BY <1>19, <1>i, <2>1, <2>2 DEF Deactivate
<1>20. ASSUME NEW p \in Process, ReadOwnership(p) PROVE ControlInv'
    <2>1. ProcOK'
        BY <1>20, TypeStep DEF SetupNext
    <2> DEFINE steps == IF tracked.owned = NoFiles THEN << >>
                        ELSE << "remove config", "remove manifest", "remove lock file",
                                "remove ownership" >>
    <2>a. steps = << >> \/ Head(steps) = "remove config"
        OBVIOUS
    <2>b. proc' = [proc EXCEPT ![p].plan.owned = tracked.owned, ![p].todo = steps]
        BY <1>20 DEF ReadOwnership
    <2> HIDE DEF steps
    <2>c. Others(p)
        BY <2>b DEF ProcOK, Others
    <2>d. proc'[p].todo = steps
        <3>1. proc[p] \in Uninstalls
            BY <1>20, InUninstall DEF ReadOwnership, SetupStep, UninstallStep
        <3> QED
            BY <2>b, <3>1 DEF ProcOK, Uninstalls
    <2>2. Others(p) /\ (proc'[p].todo = << >> \/ Head(proc'[p].todo) = "remove config")
        BY <2>a, <2>c, <2>d
    <2>3. "remove config" \notin Section
        BY DEF Section
    <2> QED
        BY <1>20, <1>h, <2>1, <2>2, <2>3 DEF ReadOwnership
<1>21. ASSUME NEW p \in Process, RemoveTracked(p) PROVE ControlInv'
    <2>1. ProcOK'
        BY <1>21, TypeStep DEF SetupNext
    <2>a. /\ DOMAIN Removing = {"config", "manifest", "lock"}
          /\ \A file \in {"config", "manifest", "lock"} : Removing[file] \in Outside
        BY DEF Removing
    <2>2. ASSUME NEW file \in DOMAIN Removing, Doing(p, Removing[file]), UNCHANGED lease,
                 proc' = [proc EXCEPT ![p].todo = Tail(@), ![p].plan.kept =
                          @ \/ (~(tracked.files[file] = proc[p].plan.owned[file])
                                /\ tracked.files[file] # NoFiles[file])]
          PROVE  ControlInv'
        <3>1. Others(p) /\ proc'[p].todo = Tail(proc[p].todo)
            BY <2>2, CommandType DEF ProcOK, Others, Doing, Setups, Uninstalls
        <3>2. \E a \in Outside : Doing(p, a)
            BY <2>a, <2>2
        <3> QED
            BY <1>i, <2>1, <2>2, <3>1, <3>2
    <2>3. CASE Doing(p, "remove ownership") /\ Done(p) /\ UNCHANGED lease
        BY <1>b, <2>3
    <2> QED
        BY <1>21, <2>2, <2>3 DEF RemoveTracked
<1>22. ASSUME NEW p \in Process, Crash(p) PROVE ControlInv'
    <2>1. ProcOK'
        BY <1>22, TypeStep DEF SetupNext
    <2>2. Others(p) /\ proc'[p] = Idle /\ lease' = IF lease = p THEN Free ELSE lease
        BY <1>22 DEF Crash, ProcOK, Others
    <2>3. ~ Within(p)'
        BY <2>2 DEF Within, Idle
    <2>4. Within(p) <=> lease = p
        BY DEF ControlInv
    <2> QED
        BY <2>1, <2>2, <2>3, <2>4, LeaseMoves
<1>23. CASE Edit
    BY <1>23 DEF Edit, ControlInv, Within
<1> QED
    BY <1>1, <1>2, <1>3, <1>4, <1>5, <1>6, <1>7, <1>8, <1>9, <1>10, <1>11, <1>12, <1>j, <1>k,
       <1>13, <1>14, <1>15, <1>16, <1>17, <1>18, <1>19, <1>20, <1>21, <1>22, <1>23 DEF SetupNext

-----------------------------------------------------------------------------
(* Type correctness, and the lease *)

Base == SetupTypeOK /\ ProcOK /\ ControlInv

LEMMA BaseInit == SetupInit => Base
<1> SUFFICES ASSUME SetupInit PROVE Base
    OBVIOUS
<1>1. HookTypeOK
    BY ContentTypes DEF SetupInit, HookInit, HookTypeOK, Content
<1>2. ProviderTypeOK
    <2>1. \A text \in Given : [Missing EXCEPT !.exists = text # Blank, !.text = text] \in File
        BY ProviderAssumption DEF Missing, File
    <2> DEFINE F == { [Missing EXCEPT !.exists = text # Blank, !.text = text] : text \in Given }
    <2>a. F \subseteq File
        BY <2>1
    <2>b. files \in [Provider -> F]
        BY DEF SetupInit, ProviderInit
    <2> HIDE DEF F
    <2>2. files \in [Provider -> File]
        BY <2>a, <2>b
    <2>3. theirs \in [Provider -> Text]
        BY <2>2 DEF SetupInit, ProviderInit, File
    <2>4. NoManifest \in Manifest
        BY DEF NoManifest, Manifest
    <2>5. NoIntent \in Intent
        <3>1. Missing \in File
            BY ProviderAssumption DEF Missing, File
        <3>2. NoneMissing \in Snapshots
            BY <2>4, <3>1 DEF NoneMissing, Snapshots
        <3> QED
            BY <3>2 DEF NoIntent, Intent
    <2>6. NotVisited \in Visit
        BY DEF NotVisited, Visit
    <2> QED
        BY <2>2, <2>3, <2>4, <2>5, <2>6 DEF SetupInit, ProviderInit, ProviderTypeOK
<1>3. CloneTypeOK
    <2>1. \A v \in Shared : Files(Theirs, v) \in Contents
        BY ContentTypes, SetupAssumption DEF Theirs
    <2>2. tracked \in [files : Contents, owned : Contents]
        BY <2>1, ContentTypes DEF SetupInit, Tracked
    <2> QED
        BY <2>2, ContentTypes DEF SetupInit, CloneTypeOK
<1>4. ProcOK
    BY DEF SetupInit, ProcOK, OrderInv, Idle
<1>5. SetupTypeOK
    BY <1>1, <1>2, <1>3, <1>4 DEF SetupInit, SetupTypeOK, ProcOK
<1>6. ControlInv
    BY <1>4, NameAssumption DEF SetupInit, ControlInv, ProcOK, Within, Idle
<1> QED
    BY <1>4, <1>5, <1>6 DEF Base

LEMMA BaseStep == Base /\ [SetupNext]_svars => Base'
BY TypeStep, ControlStep DEF Base

LEMMA BaseAlways == SetupSpec => []Base
BY BaseInit, BaseStep, PTL DEF SetupSpec

\* Every reachable state of a clone and of its commands is well formed.
THEOREM SetupTypeCorrect == SetupSpec => []SetupTypeOK
<1>1. Base => SetupTypeOK
    BY DEF Base
<1> QED
    BY <1>1, BaseAlways, PTL

-----------------------------------------------------------------------------
(* What the other commands, and the plan of a setup, keep *)

\* Only p moves, and if it is a setup then it was one, of the same plan.
Kept(p) ==
    /\ Others(p)
    /\ proc'[p].kind = "setup" => proc[p].kind = "setup" /\ proc'[p].plan = proc[p].plan

LEMMA MovesKeep ==
    ASSUME ProcOK, NEW p \in Process, NEW a, Doing(p, a),
           Done(p) \/ Throw(p) \/ LeaveSection(p) \/ Todo(p, << >>)
    PROVE  /\ Kept(p)
           /\ proc'[p].todo # << >> => \/ proc'[p].todo = proc[p].todo
                                       \/ Flow(a, Head(proc'[p].todo))
                                       \/ Flow("unlock", Head(proc'[p].todo))
<1>1. proc[p].todo # << >>
    BY DEF Doing
<1>2. /\ Others(p)
      /\ \/ Stops(p) \/ GoesOn(p, a) \/ GoesOn(p, "unlock")
         \/ Continues(p) /\ proc'[p].todo = proc[p].todo
    BY <1>1, DoneMoves, ThrowMoves, LeaveMoves, StopMoves
<1>3. Stops(p) => proc'[p].kind = "none" /\ proc'[p].todo = << >>
    BY DEF Stops, Idle
<1> QED
    BY <1>2, <1>3 DEF Kept, GoesOn, Continues

\* Every step but the start of a setup.
LEMMA ActionKeeps ==
    ASSUME ProcOK, NEW p \in Process,
           \/ InstallRuntime(p) \/ NoteIntent(p) \/ WriteTracked(p) \/ Approve(p)
           \/ SwitchBootstrap(p) \/ ClearIntent(p) \/ InitialOperation(p) \/ Compare(p)
           \/ Busy(p) \/ Unlock(p) \/ SkipHook(p) \/ InstallHook(p) \/ KeepHook(p)
           \/ RemoveHook(p) \/ HookGone(p)
           \/ EnterProviders(p) \/ PublishInstall(p) \/ Finish(p) \/ ThirdState(p)
           \/ EnterEntries(p) \/ RemoveEntries(p) \/ EntriesStay(p)
           \/ StartUninstall(p) \/ Deactivate(p) \/ UnlinkBootstrap(p) \/ Forget(p)
           \/ ReadOwnership(p) \/ RemoveTracked(p) \/ Crash(p)
    PROVE  Kept(p)
<1> DEFINE Moved == Done(p) \/ Throw(p) \/ LeaveSection(p) \/ Todo(p, << >>)
<1>a. ASSUME NEW a, Doing(p, a), Moved PROVE Kept(p)
    BY <1>a, MovesKeep
<1>b. ASSUME UNCHANGED proc PROVE Kept(p)
    BY <1>b DEF Kept, Others
<1>c. ASSUME NEW command, proc' = [proc EXCEPT ![p] = command], command.kind # "setup"
      PROVE  Kept(p)
    BY <1>c DEF Kept, Others, ProcOK
<1>1. ASSUME \/ InstallRuntime(p) \/ NoteIntent(p) \/ Approve(p) \/ SwitchBootstrap(p)
             \/ ClearIntent(p) \/ InitialOperation(p) \/ Compare(p)
      PROVE  Kept(p)
    <2>1. \E a : Doing(p, a) /\ Moved
        BY <1>1 DEF InstallRuntime, NoteIntent, Approve, SwitchBootstrap, ClearIntent,
                    InitialOperation, Compare
    <2> QED
        BY <1>a, <2>1
<1>2. ASSUME WriteTracked(p) PROVE Kept(p)
    BY <1>2, <1>a DEF WriteTracked
<1>3. ASSUME Busy(p) \/ Unlock(p) \/ SkipHook(p) \/ ThirdState(p) \/ EntriesStay(p)
             \/ UnlinkBootstrap(p) \/ Forget(p) \/ HookGone(p) \/ KeepHook(p)
      PROVE  Kept(p)
    <2>1. Busy(p) \/ HookGone(p) => Kept(p)
        BY <1>a DEF Busy, HookGone
    <2>4. KeepHook(p) => Kept(p)
        BY SkipMoves DEF KeepHook, Kept, Continues
    <2>2. Unlock(p) \/ SkipHook(p) \/ UnlinkBootstrap(p) \/ Forget(p) => Kept(p)
        BY <1>a DEF Unlock, SkipHook, UnlinkBootstrap, Forget
    <2>3. ThirdState(p) \/ EntriesStay(p) => Kept(p)
        BY <1>a DEF ThirdState, EntriesStay
    <2> QED
        BY <1>3, <2>1, <2>2, <2>3, <2>4
<1>d. ASSUME NEW lock, NEW enter, NEW fail, Enter(p, lock, enter, fail) PROVE Kept(p)
    BY <1>a, <1>d DEF Enter
<1>e. ASSUME NEW step, InHooks(p, step) PROVE Kept(p)
    BY <1>a, <1>e DEF InHooks
<1>4. ASSUME InstallHook(p) \/ RemoveHook(p) \/ EnterProviders(p) \/ EnterEntries(p) PROVE Kept(p)
    BY <1>4, <1>d, <1>e DEF InstallHook, RemoveHook, EnterProviders, EnterEntries
<1>5. ASSUME PublishInstall(p) \/ Finish(p) PROVE Kept(p)
    <2>1. \/ \E a \in {"publish", "write", "manifest", "retire"} : Doing(p, a) /\ Done(p)
          \/ UNCHANGED proc
        BY <1>5 DEF PublishInstall, Finish, InProviders
    <2> QED
        BY <1>a, <1>b, <2>1
<1>6. ASSUME RemoveEntries(p) PROVE Kept(p)
    <2>1. /\ Doing(p, "entries")
          /\ \/ Done(p)
             \/ \E steps \in {Tail(proc[p].todo), proc[p].todo} :
                    Todo(p, << "write", "manifest", "retire" >> \o steps)
        BY <1>6 DEF RemoveEntries, InProviders
    <2>2. ASSUME NEW steps \in {Tail(proc[p].todo), proc[p].todo},
                 Todo(p, << "write", "manifest", "retire" >> \o steps)
          PROVE  Kept(p)
        BY <2>1, <2>2, EntriesMoves DEF Kept, Continues
    <2> QED
        BY <1>a, <2>1, <2>2
<1>7. ASSUME StartUninstall(p) PROVE Kept(p)
    <2> DEFINE command == [kind |-> "uninstall", todo |-> UninstallSteps,
            plan |-> [local |-> NoLocal, bootstrap |-> 0, owned |-> NoFiles, kept |-> FALSE]]
    <2>1. command.kind # "setup"
        OBVIOUS
    <2>2. proc' = [proc EXCEPT ![p] = command]
        BY <1>7 DEF StartUninstall
    <2> HIDE DEF command
    <2> QED
        BY <1>c, <2>1, <2>2
<1>f. ASSUME NEW a \in {"deactivate", "untrack", "remove config", "remove manifest",
                         "remove lock file"}, Doing(p, a)
      PROVE  proc[p] \in Uninstalls
    <2>1. a \in UninstallStep \ SetupStep
        BY DEF UninstallStep, SetupStep
    <2> QED
        BY <1>f, <2>1, InUninstall
<1>8. ASSUME Deactivate(p) PROVE Kept(p)
    <2>1. proc[p] \in Uninstalls
        BY <1>8, <1>f DEF Deactivate
    <2> DEFINE command == [proc[p] EXCEPT !.todo = Tail(@), !.plan.local = local,
                                          !.plan.bootstrap = bootstrap]
    <2>2. proc' = [proc EXCEPT ![p] = command]
        BY <1>8 DEF Deactivate, ProcOK
    <2>3. command.kind # "setup"
        BY <2>1 DEF Uninstalls
    <2> HIDE DEF command
    <2> QED
        BY <1>c, <2>2, <2>3
<1>9. ASSUME ReadOwnership(p) PROVE Kept(p)
    <2>1. proc[p] \in Uninstalls
        BY <1>9, <1>f DEF ReadOwnership
    <2> DEFINE steps == IF tracked.owned = NoFiles THEN << >>
                        ELSE << "remove config", "remove manifest", "remove lock file",
                                "remove ownership" >>
               command == [proc[p] EXCEPT !.plan.owned = tracked.owned, !.todo = steps]
    <2>2. proc' = [proc EXCEPT ![p] = command]
        BY <1>9 DEF ReadOwnership, ProcOK
    <2> HIDE DEF steps
    <2>3. command.kind # "setup"
        BY <2>1 DEF Uninstalls
    <2> HIDE DEF command
    <2> QED
        BY <1>c, <2>2, <2>3
<1>10. ASSUME RemoveTracked(p) PROVE Kept(p)
    <2>a. /\ DOMAIN Removing = {"config", "manifest", "lock"}
          /\ \A file \in {"config", "manifest", "lock"} :
                 Removing[file] \in {"remove config", "remove manifest", "remove lock file"}
        BY DEF Removing
    <2>1. ASSUME NEW file \in DOMAIN Removing, Doing(p, Removing[file]),
                 proc' = [proc EXCEPT ![p].todo = Tail(@), ![p].plan.kept =
                          @ \/ (~(tracked.files[file] = proc[p].plan.owned[file])
                                /\ tracked.files[file] # NoFiles[file])]
          PROVE  Kept(p)
        <3>1. proc[p] \in Uninstalls
            BY <2>1, <2>a, <1>f
        <3> DEFINE keeps == proc[p].plan.kept \/ (~(tracked.files[file] = proc[p].plan.owned[file])
                                                   /\ tracked.files[file] # NoFiles[file])
                   command == [proc[p] EXCEPT !.todo = Tail(@), !.plan.kept = keeps]
        <3>2. proc' = [proc EXCEPT ![p] = command]
            BY <2>1 DEF ProcOK
        <3> HIDE DEF keeps
        <3>3. command.kind # "setup"
            BY <3>1 DEF Uninstalls
        <3> HIDE DEF command
        <3> QED
            BY <1>c, <3>2, <3>3
    <2>2. CASE Doing(p, "remove ownership") /\ Done(p)
        BY <1>a, <2>2
    <2> QED
        BY <1>10, <2>1, <2>2 DEF RemoveTracked
<1>11. ASSUME Crash(p) PROVE Kept(p)
    <2>1. Idle.kind # "setup"
        BY DEF Idle
    <2> QED
        BY <1>11, <1>c, <2>1 DEF Crash
<1> QED
    BY <1>1, <1>2, <1>3, <1>4, <1>5, <1>6, <1>7, <1>8, <1>9, <1>10, <1>11

\* The start of a setup.
LEMMA StartKeeps ==
    ASSUME ProcOK, NEW p \in Process, StartSetup(p)
    PROVE  /\ Others(p) /\ proc'[p].kind = "setup" /\ Head(proc'[p].todo) = "compare"
           /\ \E version \in Version : proc'[p].plan = SetupPlan(version)
           /\ UNCHANGED << hookVars, providerVars, cloneVars, lease, approved >>
<1>1. PICK version \in Version :
          proc' = [proc EXCEPT ![p] = [kind |-> "setup", todo |-> SetupSteps,
                                       plan |-> SetupPlan(version)]]
    BY DEF StartSetup
<1> DEFINE command == [kind |-> "setup", todo |-> SetupSteps, plan |-> SetupPlan(version)]
<1>2. command.kind = "setup" /\ Head(command.todo) = "compare" /\ command.plan = SetupPlan(version)
    BY ListsInOrder
<1>3. proc' = [proc EXCEPT ![p] = command]
    BY <1>1
<1> HIDE DEF command
<1> QED
    BY <1>2, <1>3 DEF StartSetup, ProcOK, Others

-----------------------------------------------------------------------------
(* The entry point *)

\* What is done on the way of a setup to its entry point.
LEMMA EntryMoves ==
    ASSUME ProcOK, EntryInv, NEW p \in Process, Kept(p),
           runtimes \subseteq runtimes', approved \subseteq approved',
           proc'[p].kind = "setup" =>
               /\ proc[p].todo # << >> /\ ~ Doing(p, "compare")
               /\ Doing(p, "runtime") => proc[p].plan.version \in runtimes'
               /\ \/ proc'[p].todo = proc[p].todo
                  \/ Flow(Head(proc[p].todo), Head(proc'[p].todo))
                  \/ Flow("unlock", Head(proc'[p].todo))
               /\ Doing(p, "local") => proc[p].plan.version \in approved'
    PROVE  \A q \in Process : EntryPhase(q)'
<1>1. ASSUME NEW q \in Process \ {p} PROVE EntryPhase(q)'
    <2>1. proc'[q] = proc[q] /\ EntryPhase(q)
        BY DEF Kept, Others, EntryInv
    <2> QED
        BY <2>1 DEF EntryPhase, Doing
<1>2. ASSUME proc'[p].kind = "setup" PROVE EntryPhase(p)'
    <2>1. proc[p].kind = "setup" /\ proc'[p].plan = proc[p].plan /\ EntryPhase(p)
        BY <1>2 DEF Kept, EntryInv
    <2>2. proc[p].plan.version \in runtimes'
        BY <1>2, <2>1 DEF EntryPhase
    <2>3. ASSUME Doing(p, "bootstrap")' PROVE proc[p].plan.version \in approved'
        <3>1. Head(proc'[p].todo) = "bootstrap"
            BY <2>3 DEF Doing
        <3>2. CASE proc'[p].todo = proc[p].todo
            <4>1. Doing(p, "bootstrap")
                BY <1>2, <3>1, <3>2 DEF Doing
            <4> QED
                BY <2>1, <4>1 DEF EntryPhase
        <3>3. CASE Flow(Head(proc[p].todo), "bootstrap")
            <4>1. Doing(p, "local")
                BY <1>2, <3>3, Predecessors DEF Doing
            <4> QED
                BY <1>2, <4>1
        <3>4. ~ Flow("unlock", "bootstrap")
            BY Predecessors
        <3> QED
            BY <1>2, <3>1, <3>2, <3>3, <3>4
    <2> QED
        BY <2>1, <2>2, <2>3 DEF EntryPhase
<1>3. proc'[p].kind # "setup" => EntryPhase(p)'
    BY DEF EntryPhase
<1> QED
    BY <1>1, <1>2, <1>3

LEMMA EntryStep ==
    ASSUME Base, EntryInv, [SetupNext]_svars
    PROVE  EntryInv'
<1> USE DEF Base
<1> DEFINE Phases == \A q \in Process : EntryPhase(q)'
<1>1. CASE UNCHANGED svars
    BY <1>1 DEF svars, cloneVars, histVars, EntryInv, EntryApproved, EntryPhase, Doing
<1>2. CASE Edit
    BY <1>2 DEF Edit, cloneVars, histVars, EntryInv, EntryApproved, EntryPhase, Doing
<1>3. ASSUME NEW p \in Process, StartSetup(p) PROVE EntryInv'
    <2>1. /\ Others(p) /\ Head(proc'[p].todo) = "compare"
          /\ UNCHANGED << bootstrap, runtimes, approved >>
        BY <1>3, StartKeeps DEF cloneVars
    <2>2. ASSUME NEW q \in Process PROVE EntryPhase(q)'
        <3>1. CASE q = p
            <4>1. proc'[p].kind = "setup" => proc'[p].todo # << >>
                BY TypeStep, ListsInOrder, <1>3 DEF SetupNext, StartSetup, ProcOK
            <4> QED
                BY <2>1, <3>1, <4>1 DEF EntryPhase, Doing
        <3>2. CASE q # p
            BY <2>1, <3>2 DEF EntryInv, EntryPhase, Others, Doing
        <3> QED
            BY <3>1, <3>2
    <2> QED
        BY <2>1, <2>2 DEF EntryInv, EntryApproved
<1>a. ASSUME NEW p \in Process, NEW a, Doing(p, a), a \notin {"compare", "runtime", "local"},
             Done(p) \/ Throw(p) \/ LeaveSection(p) \/ Todo(p, << >>),
             UNCHANGED << runtimes, approved >>
      PROVE  Phases
    <2>1. /\ Kept(p)
          /\ proc'[p].todo # << >> => \/ proc'[p].todo = proc[p].todo
                                      \/ Flow(a, Head(proc'[p].todo))
                                      \/ Flow("unlock", Head(proc'[p].todo))
        BY <1>a, MovesKeep
    <2>2. proc[p].todo # << >> /\ Head(proc[p].todo) = a
        BY <1>a DEF Doing
    <2>3. ~ Doing(p, "compare") /\ ~ Doing(p, "runtime") /\ ~ Doing(p, "local")
        BY <1>a, <2>2 DEF Doing
    <2>4. proc'[p].kind = "setup" => proc'[p].todo # << >>
        <3>1. ProcOK'
            BY <1>a, <2>2, MovesOK
        <3>2. proc'[p] = Idle \/ proc'[p] \in Setups \/ proc'[p] \in Uninstalls
            BY <3>1 DEF ProcOK
        <3> QED
            BY <1>a, <2>2, DoneMoves, ThrowMoves, LeaveMoves, StopMoves DEF Stops, GoesOn, Continues, Idle
    <2> QED
        BY <1>a, <2>1, <2>2, <2>3, <2>4, EntryMoves
<1>b. ASSUME NEW p \in Process, Kept(p), proc'[p].kind # "setup" \/ UNCHANGED proc,
             UNCHANGED << runtimes, approved >>
      PROVE  Phases
    <2>1. ASSUME NEW q \in Process PROVE EntryPhase(q)'
        <3>1. CASE proc'[q] = proc[q]
            BY <1>b, <3>1 DEF EntryInv, EntryPhase, Doing
        <3>2. CASE q = p /\ proc'[q].kind # "setup"
            BY <3>2 DEF EntryPhase
        <3> QED
            BY <1>b, <3>1, <3>2 DEF Kept, Others
    <2> QED
        BY <2>1
<1>c. ASSUME UNCHANGED << bootstrap, runtimes, approved >>, Phases PROVE EntryInv'
    BY <1>c DEF EntryInv, EntryApproved
<1>4. ASSUME NEW p \in Process, Compare(p) \/ InstallRuntime(p) \/ Approve(p) PROVE Phases
    <2>a. PICK a \in {"compare", "runtime", "local"} : Doing(p, a)
        BY <1>4 DEF Compare, InstallRuntime, Approve
    <2>1. /\ Kept(p) /\ proc[p].todo # << >> /\ Head(proc[p].todo) = a
          /\ (Stops(p) \/ GoesOn(p, a))
        <3>1. proc[p].todo # << >> /\ Head(proc[p].todo) = a
            BY <2>a DEF Doing
        <3>2. Done(p) \/ Todo(p, << >>)
            BY <1>4 DEF Compare, InstallRuntime, Approve, Throw, Doing
        <3> QED
            BY <2>a, <3>1, <3>2, MovesKeep, DoneMoves, StopMoves
    <2>2. CASE Stops(p)
        <3>1. proc'[p].kind # "setup"
            BY <2>2 DEF Stops, Idle
        <3>2. runtimes \subseteq runtimes' /\ approved \subseteq approved'
            BY <1>4 DEF Compare, InstallRuntime, Approve, cloneVars, histVars
        <3> QED
            BY <2>1, <3>1, <3>2, EntryMoves
    <2>3. CASE GoesOn(p, a)
        <3>1. /\ runtimes \subseteq runtimes' /\ approved \subseteq approved'
              /\ Doing(p, "runtime") => proc[p].plan.version \in runtimes'
              /\ Doing(p, "local") => proc[p].plan.version \in approved'
            BY <1>4 DEF Compare, InstallRuntime, Approve, cloneVars, histVars, Doing
        <3>2. CASE a # "compare"
            <4>1. ~ Doing(p, "compare")
                BY <2>1, <3>2 DEF Doing
            <4> QED
                BY <2>1, <2>3, <3>1, <4>1, EntryMoves DEF GoesOn
        <3>3. CASE a = "compare"
            <4>1. Head(proc'[p].todo) = "runtime" /\ proc'[p].todo # << >>
                <5>1. FlowPairs("compare", Head(proc'[p].todo))
                    BY <2>3, <3>3, FlowIsPairs DEF GoesOn
                <5> QED
                    BY <2>3, <5>1 DEF FlowPairs, GoesOn, Continues
            <4>2. EntryPhase(p)'
                BY <4>1 DEF EntryPhase, Doing
            <4>3. ASSUME NEW q \in Process \ {p} PROVE EntryPhase(q)'
                BY <2>1, <3>1 DEF EntryInv, EntryPhase, Kept, Others, Doing
            <4> QED
                BY <4>2, <4>3
        <3> QED
            BY <3>2, <3>3
    <2> QED
        BY <2>1, <2>2, <2>3
<1>5. ASSUME NEW p \in Process, Compare(p) \/ InstallRuntime(p) \/ Approve(p) PROVE EntryInv'
    <2>1. UNCHANGED bootstrap /\ runtimes \subseteq runtimes' /\ approved \subseteq approved'
        BY <1>5 DEF Compare, InstallRuntime, Approve, cloneVars, histVars
    <2> QED
        BY <1>4, <1>5, <2>1 DEF EntryInv, EntryApproved
<1>6. ASSUME NEW p \in Process, SwitchBootstrap(p) PROVE EntryInv'
    <2>1. Phases
        BY <1>6, <1>a DEF SwitchBootstrap, histVars
    <2>2. proc[p].kind = "setup" /\ Doing(p, "bootstrap")
        BY <1>6, InSetup DEF SwitchBootstrap, SetupStep, UninstallStep
    <2>3. proc[p].plan.version \in runtimes \cap approved
        BY <2>2 DEF EntryInv, EntryPhase, Doing
    <2> QED
        BY <1>6, <2>1, <2>3 DEF SwitchBootstrap, histVars, EntryInv, EntryApproved
<1>7. ASSUME NEW p \in Process, UnlinkBootstrap(p) PROVE EntryInv'
    <2>1. Phases
        BY <1>7, <1>a DEF UnlinkBootstrap, histVars
    <2>2. bootstrap' \in {0, bootstrap} /\ UNCHANGED << runtimes, approved >>
        BY <1>7 DEF UnlinkBootstrap, histVars
    <2> QED
        BY <2>1, <2>2 DEF EntryInv, EntryApproved
<1>8. ASSUME NEW p \in Process,
             \/ NoteIntent(p) \/ ClearIntent(p) \/ InitialOperation(p) \/ Forget(p)
             \/ Unlock(p) \/ SkipHook(p) \/ HookGone(p) \/ ThirdState(p) \/ EntriesStay(p)
      PROVE  EntryInv'
    <2>1. UNCHANGED << bootstrap, runtimes, approved >>
        BY <1>8 DEF NoteIntent, ClearIntent, InitialOperation, Forget, Unlock, SkipHook,
                    HookGone, ThirdState, EntriesStay, cloneVars, histVars
    <2>2. \E a \in {"intent", "clear", "operation", "forget", "unlock", "hook lock", "move",
                    "restore", "write", "entries"} :
              Doing(p, a) /\ (Done(p) \/ Throw(p) \/ LeaveSection(p))
        BY <1>8 DEF NoteIntent, ClearIntent, InitialOperation, Forget, Unlock, SkipHook,
                    HookGone, ThirdState, EntriesStay
    <2> QED
        BY <1>a, <1>c, <2>1, <2>2
<1>9. ASSUME NEW p \in Process, WriteTracked(p) PROVE EntryInv'
    <2>1. /\ DOMAIN Publishing = {"config", "manifest", "lock"}
          /\ \A file \in {"config", "manifest", "lock"} :
                 Publishing[file] \in {"config", "pin manifest", "pin lock"}
        BY DEF Publishing
    <2>2. /\ Done(p) /\ UNCHANGED << bootstrap, runtimes, approved >>
          /\ \E a \in {"config", "pin manifest", "pin lock", "ownership"} : Doing(p, a)
        BY <1>9, <2>1 DEF WriteTracked, histVars
    <2> QED
        BY <1>a, <1>c, <2>2
<1>d. \A a \in Locks : a \notin {"compare", "runtime", "local"}
    BY DEF Locks
<1>10. ASSUME NEW p \in Process, Busy(p) PROVE EntryInv'
    BY <1>10, <1>a, <1>c, <1>d DEF Busy, cloneVars, histVars
<1>11. ASSUME NEW p \in Process, NEW lock \in Locks, NEW enter, NEW fail, Enter(p, lock, enter, fail)
       PROVE  EntryInv'
    BY <1>11, <1>a, <1>c, <1>d DEF Enter, cloneVars, histVars
<1>e. "hook lock" \in Locks /\ "remove lock" \in Locks /\ "provider lock" \in Locks
      /\ "entries lock" \in Locks
    BY DEF Locks
<1>12. ASSUME NEW p \in Process, NEW step, step \notin {"compare", "runtime", "local"}, InHooks(p, step)
       PROVE  EntryInv'
    BY <1>12, <1>a, <1>c DEF InHooks, cloneVars, histVars
<1>13. ASSUME NEW p \in Process, InstallHook(p) PROVE EntryInv'
    BY <1>13, <1>e, <1>11, <1>12 DEF InstallHook
<1>14. ASSUME NEW p \in Process, RemoveHook(p) PROVE EntryInv'
    BY <1>14, <1>e, <1>11, <1>12 DEF RemoveHook
<1>15. ASSUME NEW p \in Process, EnterProviders(p) \/ EnterEntries(p) PROVE EntryInv'
    BY <1>15, <1>e, <1>11 DEF EnterProviders, EnterEntries
<1>16. ASSUME NEW p \in Process, PublishInstall(p) \/ Finish(p) PROVE EntryInv'
    <2>1. UNCHANGED << bootstrap, runtimes, approved >>
        BY <1>16 DEF PublishInstall, Finish, InProviders, cloneVars, histVars
    <2>2. \/ \E a \in {"publish", "write", "manifest", "retire"} : Doing(p, a) /\ Done(p)
          \/ UNCHANGED proc
        BY <1>16 DEF PublishInstall, Finish, InProviders
    <2>3. Kept(p)
        BY <1>16, ActionKeeps
    <2> QED
        BY <1>a, <1>b, <1>c, <2>1, <2>2, <2>3
<1>17. ASSUME NEW p \in Process, RemoveEntries(p) PROVE EntryInv'
    <2>a. Kept(p)
        BY <1>17, ActionKeeps
    <2>1. Kept(p) /\ UNCHANGED << bootstrap, runtimes, approved >>
        BY <1>17, <2>a DEF RemoveEntries, InProviders, cloneVars, histVars
    <2>2. Doing(p, "entries") /\ proc[p].kind # "setup"
        <3>1. Doing(p, "entries") /\ "entries" \in UninstallStep \ SetupStep
            BY <1>17 DEF RemoveEntries, InProviders, UninstallStep, SetupStep
        <3> QED
            BY <3>1, InUninstall DEF Uninstalls
    <2>3. proc'[p].kind # "setup"
        BY <2>1, <2>2 DEF Kept
    <2> QED
        BY <1>b, <1>c, <2>1, <2>3
<1>18. ASSUME NEW p \in Process,
              \/ StartUninstall(p) \/ Deactivate(p) \/ ReadOwnership(p) \/ RemoveTracked(p)
              \/ KeepHook(p) \/ Crash(p)
       PROVE  EntryInv'
    <2>a. Kept(p)
        BY <1>18, ActionKeeps
    <2>1. Kept(p) /\ UNCHANGED << bootstrap, runtimes, approved >>
        BY <1>18, <2>a DEF StartUninstall, Deactivate, ReadOwnership, RemoveTracked, KeepHook,
           Crash, cloneVars, histVars
    <2>2. proc'[p].kind # "setup"
        <3>1. CASE StartUninstall(p) \/ Crash(p)
            BY <3>1 DEF StartUninstall, Crash, Idle, ProcOK
        <3>2. CASE Deactivate(p) \/ ReadOwnership(p) \/ RemoveTracked(p) \/ KeepHook(p)
            <4>1. PICK a \in {"deactivate", "untrack", "remove config", "remove manifest",
                              "remove lock file", "remove ownership", "remove lock"} : Doing(p, a)
                <5>1. /\ DOMAIN Removing = {"config", "manifest", "lock"}
                      /\ \A file \in {"config", "manifest", "lock"} :
                             Removing[file] \in {"remove config", "remove manifest", "remove lock file"}
                    BY DEF Removing
                <5> QED
                    BY <3>2, <5>1 DEF Deactivate, ReadOwnership, RemoveTracked, KeepHook
            <4>2. a \in UninstallStep \ SetupStep
                BY DEF UninstallStep, SetupStep
            <4>3. proc[p].kind # "setup"
                BY <4>1, <4>2, InUninstall DEF Uninstalls
            <4> QED
                BY <2>1, <4>3 DEF Kept
        <3> QED
            BY <1>18, <3>1, <3>2
    <2> QED
        BY <1>b, <1>c, <2>1, <2>2
<1> QED
    BY <1>1, <1>2, <1>3, <1>5, <1>6, <1>7, <1>8, <1>9, <1>10, <1>13, <1>14, <1>15, <1>16, <1>17,
       <1>18 DEF SetupNext

\* Whatever runs beside it, the entry point only starts a release that was
\* installed before and that local.json had approved.
THEOREM EntryAlwaysApproved == SetupSpec => []EntryApproved
<1>1. SetupInit => EntryInv
    BY DEF SetupInit, EntryInv, EntryApproved, EntryPhase, Idle, Doing
<1>2. Base /\ EntryInv /\ [SetupNext]_svars => EntryInv'
    BY EntryStep
<1>3. EntryInv => EntryApproved
    BY DEF EntryInv
<1> QED
    BY <1>1, <1>2, <1>3, BaseAlways, PTL DEF SetupSpec

-----------------------------------------------------------------------------
(* The pre-push hook *)

HookSection == { "installing", "move", "driver", "wrapper", "installed", "restore",
                 "remove driver", "remove record" }

\* What is in the hook directory is told apart by what wrote it.
LEMMA Distinct ==
    /\ Nothing \notin Owns /\ Nothing \notin Wrappers
    /\ \A content \in Owns : content \notin Wrappers
    /\ \A owned : \A content \in Owns : ~ Recognised(content, owned)
    /\ \A content \in Owns : content # Nothing
<1>1. /\ Nothing[1] = "nothing"
      /\ \A script : Own(script)[1] = "user"
      /\ \A version, delegate : Wrapper(version, delegate)[1] = "wrapper"
    BY DEF Nothing, Own, Wrapper
<1>2. \A content \in Owns : content[1] = "user"
    BY <1>1 DEF Owns
<1>3. \A content \in Wrappers : content[1] = "wrapper"
    BY <1>1 DEF Wrappers
<1>4. ASSUME NEW owned, NEW content, Recognised(content, owned) PROVE content[1] = "wrapper"
    BY <1>1, <1>4 DEF Recognised
<1> QED
    BY <1>1, <1>2, <1>3, <1>4

\* A step that leaves the hook alone, and does not bring its command into the
\* section of the hook.
LEMMA HookAside ==
    ASSUME HookInv, NEW p \in Process, Kept(p), UNCHANGED hookVars,
           \/ UNCHANGED proc
           \/ proc'[p].todo = << >>
           \/ Head(proc'[p].todo) \notin HookSection
    PROVE  HookInv'
<1>1. RecordInv' /\ HookRecorded' /\ UserHookServed'
    BY DEF HookInv, RecordInv, HookRecorded, UserHookServed, hookVars
<1>2. ASSUME NEW q \in Process, proc'[q] = proc[q] PROVE HookPhase(q)'
    <2>1. HookPhase(q)
        BY DEF HookInv
    <2> QED
        <3>1. /\ \A step : Doing(q, step)' <=> Doing(q, step)
              /\ (RemovalThrows' <=> RemovalThrows) /\ (Aside' <=> Aside)
            BY <1>2 DEF Doing, Aside, RemovalThrows, DriverOwned, MovedOnly, OriginalInPlace, hookVars
        <3>2. \A owned, before : OriginalInPlace(owned, before)' <=> OriginalInPlace(owned, before)
            BY DEF OriginalInPlace, hookVars
        <3> QED
            BY <1>2, <2>1, <3>1, <3>2 DEF HookPhase, hookVars
<1>3. ASSUME proc'[p].todo = << >> \/ Head(proc'[p].todo) \notin HookSection
      PROVE  HookPhase(p)'
    <2>1. \A step \in HookSection : ~ Doing(p, step)'
        BY <1>3 DEF Doing
    <2>2. HookPhase(p)
        BY DEF HookInv
    <2>3. proc'[p].kind = "setup" => HookPlanInv(proc'[p].plan.hook)
        BY <2>2 DEF HookPhase, Kept
    <2> QED
        BY <2>1, <2>3 DEF HookPhase, HookSection, HookPlanInv
<1>4. \A q \in Process : HookPhase(q)'
    BY <1>2, <1>3 DEF Kept, Others
<1> QED
    BY <1>1, <1>4 DEF HookInv

\* While a command is in a section no other one is.
LEMMA Alone ==
    ASSUME ControlInv, NEW p \in Process, lease = p \/ lease = Free, NEW q \in Process, q # p
    PROVE  ~ Within(q)
BY NameAssumption DEF ControlInv

\* The others are not in the section of the hook while it is changed.
LEMMA HookOthers ==
    ASSUME ControlInv, HookInv, NEW p \in Process, Others(p), lease = p \/ lease = Free
    PROVE  \A q \in Process \ {p} : HookPhase(q)'
<1> SUFFICES ASSUME NEW q \in Process \ {p} PROVE HookPhase(q)'
    OBVIOUS
<1>1. ~ Within(q) /\ HookPhase(q) /\ proc'[q] = proc[q]
    BY Alone DEF HookInv, Others
<1>2. HookSection \subseteq Section
    BY DEF HookSection, Section
<1>3. \A step \in HookSection : ~ Doing(q, step)'
    BY <1>1, <1>2 DEF Doing, Within
<1> QED
    BY <1>1, <1>3 DEF HookPhase, HookSection, HookPlanInv

LEMMA HookGoes ==
    ASSUME Base, HookInv, NEW p \in Process, NEW step \in HookSection, InHooks(p, step)
    PROVE  /\ Kept(p) /\ Continues(p) /\ FlowPairs(step, Head(proc'[p].todo))
           /\ Doing(p, step) /\ lease = p /\ HookPhase(p)
           /\ \A q \in Process \ {p} : HookPhase(q)'
<1>1. Doing(p, step) /\ Done(p)
    BY DEF InHooks
<1>2. step \in Section /\ step \notin Final
    BY DEF HookSection, Section, Final
<1>3. Others(p) /\ GoesOn(p, step) /\ Kept(p)
    BY <1>1, <1>2, DoneMoves, MovesKeep DEF Base
<1>4. FlowPairs(step, Head(proc'[p].todo))
    BY <1>3, FlowIsPairs DEF GoesOn
<1>5. lease = p
    BY <1>1, <1>2 DEF Base, ControlInv, Within, Doing
<1>6. \A q \in Process \ {p} : HookPhase(q)'
    BY <1>3, <1>5, HookOthers DEF Base
<1> QED
    BY <1>1, <1>3, <1>4, <1>5, <1>6 DEF GoesOn, HookInv

\* The phase of a command that is at one step of the section.
LEMMA PhaseAt ==
    ASSUME HookInv, NEW p \in Process, Kept(p), NEW b, proc'[p].todo # << >>,
           Head(proc'[p].todo) = b
    PROVE  /\ \A step : Doing(p, step)' <=> step = b
           /\ proc'[p].kind = "setup" => HookPlanInv(proc'[p].plan.hook)
BY DEF Doing, Kept, HookInv, HookPhase

LEMMA InstallingStep ==
    ASSUME Base, HookInv, NEW p \in Process, InHooks(p, "installing"),
           RecordInstalling(proc[p].plan.hook)
    PROVE  HookInv'
<1> DEFINE plan == proc[p].plan.hook
<1>1. /\ Kept(p) /\ Continues(p) /\ FlowPairs("installing", Head(proc'[p].todo))
      /\ Doing(p, "installing") /\ HookPhase(p)
      /\ \A q \in Process \ {p} : HookPhase(q)'
    BY HookGoes DEF HookSection
<1>2. Head(proc'[p].todo) = "move"
    BY <1>1 DEF FlowPairs
<1>3. /\ \A step : Doing(p, step)' <=> step = "move"
      /\ proc'[p].kind = "setup" => HookPlanInv(proc'[p].plan.hook)
      /\ proc'[p].plan.hook = plan
    BY <1>1, <1>2, PhaseAt DEF Continues
<1>4. proc[p].kind = "setup" /\ HookPlanInv(plan)
    <2>1. "installing" \in SetupStep \ UninstallStep
        BY DEF SetupStep, UninstallStep
    <2> QED
        BY <1>1, <2>1, InSetup DEF Base, HookPhase
<1>5. /\ ~ plan.action /\ record = plan.record /\ (hasty \/ hook = plan.before)
      /\ plan.record.original # Nothing /\ ~ OriginalInPlace(plan.record, plan.before)
              => backup = plan.record.original
    BY <1>1 DEF HookPhase
<1>a. plan.before \in Content
    <2>1. "installing" \in SetupStep \ UninstallStep
        BY DEF SetupStep, UninstallStep
    <2> QED
        BY <1>1, <2>1, InSetup DEF Base, SetupPlans, HookPlans
<1> HIDE DEF plan
<1>6. /\ record'.phase = "installing" /\ record'.original = Replaced(plan)
      /\ record'.delegate = plan.delegate
      /\ UNCHANGED << hook, backup, driver, mine, hasty >>
    BY DEF RecordInstalling, Replaced, plan
<1>7. record' # NoRecord
    BY <1>6 DEF NoRecord
<1>8. NoRecord.original = Nothing /\ (plan.record = NoRecord => backup = Nothing)
    BY <1>5 DEF NoRecord, HookInv, RecordInv
<1>9. /\ Replaced(plan) \in {Nothing} \cup Owns
      /\ plan.delegate = (Replaced(plan) \in Runnable)
      /\ Replaced(plan) = Nothing => backup = Nothing
    <2>1. CASE plan.record = NoRecord
        <3>1. plan.before \in {Nothing} \cup Owns
            BY <1>4, <1>a, <2>1 DEF HookPlanInv, Content
        <3> QED
            BY <1>4, <1>5, <1>8, <2>1, <3>1 DEF Replaced, HookPlanInv
    <2>2. CASE plan.record # NoRecord
        BY <1>4, <1>5, <2>2 DEF Replaced, HookPlanInv, HookInv, RecordInv
    <2> QED
        BY <2>1, <2>2
<1>10. RecordInv'
    BY <1>6, <1>9 DEF RecordInv
<1>11. HookRecorded'
    BY <1>7 DEF HookRecorded
<1>12. UserHookServed'
    <2>1. ASSUME mine # Nothing, ~ hasty, hook # mine PROVE backup = mine /\ record'.original = mine
        <3>1. backup = mine /\ record.original = mine
            BY <2>1 DEF HookInv, UserHookServed
        <3>2. plan.record # NoRecord
            BY <1>5, <1>8, <2>1, <3>1
        <3> QED
            BY <1>5, <1>6, <3>1, <3>2 DEF Replaced
    <2> QED
        BY <1>6, <2>1 DEF UserHookServed
<1>13. HookPhase(p)'
    BY <1>3, <1>5, <1>6, <1>8 DEF HookPhase, OriginalInPlace
<1> QED
    BY <1>1, <1>10, <1>11, <1>12, <1>13 DEF HookInv

LEMMA MoveStep ==
    ASSUME Base, HookInv, NEW p \in Process, InHooks(p, "move"), MoveAside(proc[p].plan.hook)
    PROVE  HookInv'
<1> DEFINE plan == proc[p].plan.hook
<1>1. /\ Kept(p) /\ Continues(p) /\ FlowPairs("move", Head(proc'[p].todo))
      /\ Doing(p, "move") /\ HookPhase(p)
      /\ \A q \in Process \ {p} : HookPhase(q)'
    BY HookGoes DEF HookSection
<1>2. Head(proc'[p].todo) = "driver"
    BY <1>1 DEF FlowPairs
<1>3. /\ \A step : Doing(p, step)' <=> step = "driver"
      /\ proc'[p].kind = "setup" => HookPlanInv(proc'[p].plan.hook)
      /\ proc'[p].plan.hook = plan
    BY <1>1, <1>2, PhaseAt DEF Continues
<1>4. proc[p].kind = "setup" /\ HookPlanInv(plan)
    <2>1. "move" \in SetupStep \ UninstallStep
        BY DEF SetupStep, UninstallStep
    <2> QED
        BY <1>1, <2>1, InSetup DEF Base, HookPhase
<1>5. /\ ~ plan.action /\ record.phase = "installing" /\ (hasty \/ hook = plan.before)
      /\ record.original = Replaced(plan) /\ record.delegate = plan.delegate
      /\ plan.record = NoRecord => backup = Nothing
      /\ plan.record.original # Nothing /\ ~ OriginalInPlace(plan.record, plan.before)
              => backup = plan.record.original
    BY <1>1 DEF HookPhase
<1> HIDE DEF plan
<1>6. /\ UNCHANGED << driver, record, mine, hasty >>
      /\ IF Moves(plan) THEN backup' = hook /\ hook' = Nothing ELSE UNCHANGED << backup, hook >>
    BY DEF MoveAside, plan
<1>7. record # NoRecord
    BY <1>5 DEF NoRecord
<1>8. CASE Moves(plan)
    <2>1. plan.before # Nothing /\ Replaced(plan) = plan.before /\ backup = Nothing
        BY <1>5, <1>8 DEF Moves, Replaced, OriginalInPlace
    <2>2. record.original = plan.before
        BY <1>5, <2>1
    <2>3. hasty' \/ Aside'
        BY <1>5, <1>6, <1>8, <2>1, <2>2 DEF Aside, HookInv, UserHookServed
    <2>4. RecordInv'
        BY <1>6, <2>1, <2>2 DEF HookInv, RecordInv
    <2> QED
        BY <1>1, <1>3, <1>5, <1>6, <1>7, <2>3, <2>4
        DEF HookInv, HookPhase, HookRecorded, UserHookServed, Aside
<1>9. CASE ~ Moves(plan)
    <2>1. UNCHANGED << backup, hook >>
        BY <1>6, <1>9
    <2>2. hasty' \/ Aside'
        <3>1. SUFFICES ASSUME mine # Nothing, ~ hasty, hook = mine
                       PROVE  backup = mine /\ record.original = mine
            BY <1>6, <2>1 DEF Aside, HookInv, UserHookServed
        <3>2. mine \in Owns /\ plan.before = mine
            BY <1>5, <3>1 DEF Base, SetupTypeOK, HookTypeOK
        <3>3. plan.record # NoRecord /\ ~ OriginalInPlace(plan.record, plan.before)
            BY <1>9, <3>1, <3>2 DEF Moves
        <3>4. plan.record.phase = "installing" /\ plan.before = plan.record.original
            BY <1>4, <1>5, <3>1, <3>2, <3>3, Distinct DEF HookPlanInv
        <3> QED
            BY <1>5, <3>1, <3>2, <3>3, <3>4 DEF Replaced
    <2>3. RecordInv'
        BY <1>6, <2>1 DEF HookInv, RecordInv
    <2> QED
        BY <1>1, <1>3, <1>5, <1>6, <1>7, <2>1, <2>2, <2>3
        DEF HookInv, HookPhase, HookRecorded, UserHookServed, Aside
<1> QED
    BY <1>8, <1>9

\* The three steps that put the driver and the wrapper in place.
LEMMA PlaceStep ==
    ASSUME Base, HookInv, NEW p \in Process,
           \/ InHooks(p, "driver") /\ WriteDriver(proc[p].plan.hook)
           \/ InHooks(p, "wrapper") /\ WriteWrapper(proc[p].plan.hook)
           \/ InHooks(p, "installed") /\ RecordInstalled
    PROVE  HookInv'
<1> DEFINE plan == proc[p].plan.hook
<1>1. PICK a \in {"driver", "wrapper", "installed"} :
          /\ InHooks(p, a)
          /\ a = "driver" => WriteDriver(plan)
          /\ a = "wrapper" => WriteWrapper(plan)
          /\ a = "installed" => RecordInstalled
    OBVIOUS
<1>2. /\ Kept(p) /\ Continues(p) /\ FlowPairs(a, Head(proc'[p].todo))
      /\ Doing(p, a) /\ HookPhase(p)
      /\ \A q \in Process \ {p} : HookPhase(q)'
    BY <1>1, HookGoes DEF HookSection
<1>3. /\ \A step : Doing(p, step)' <=> step = Head(proc'[p].todo)
      /\ proc'[p].kind = "setup" => HookPlanInv(proc'[p].plan.hook)
      /\ proc'[p].plan.hook = plan
    BY <1>2, PhaseAt DEF Continues
<1>4. proc[p].kind = "setup" /\ HookPlanInv(plan) /\ plan.version \in Version
    <2>1. a \in SetupStep \ UninstallStep
        BY DEF SetupStep, UninstallStep
    <2>2. proc[p].kind = "setup" /\ proc[p].plan \in SetupPlans
        BY <1>2, <2>1, InSetup DEF Base
    <2> QED
        BY <1>2, <2>2 DEF HookPhase, SetupPlans, HookPlans
<1>5. /\ record.phase = "installing" /\ record.delegate = plan.delegate
      /\ a \in {"driver", "wrapper"} => hasty \/ Aside
      /\ a = "installed" => \/ hasty \/ hook = mine
                            \/ Aside /\ hook = Wrapper(plan.version, plan.delegate)
    <2>1. Doing(p, "driver") \/ Doing(p, "wrapper") \/ Doing(p, "installed")
        BY <1>2
    <2>2. record.phase = "installing" /\ record.delegate = plan.delegate
        BY <1>2, <2>1 DEF HookPhase
    <2>3. a \in {"driver", "wrapper"} => hasty \/ Aside
        BY <1>2 DEF HookPhase
    <2>4. a = "installed" => \/ hasty \/ hook = mine
                             \/ Aside /\ hook = Wrapper(plan.version, plan.delegate)
        BY <1>2 DEF HookPhase
    <2> QED
        BY <2>2, <2>3, <2>4
<1> HIDE DEF plan
<1>6. record # NoRecord
    BY <1>5 DEF NoRecord
<1>7. CASE a = "driver"
    <2>1. UNCHANGED << hook, backup, record, mine, hasty >> /\ Head(proc'[p].todo) = "wrapper"
        BY <1>1, <1>2, <1>7 DEF WriteDriver, FlowPairs
    <2>2. RecordInv' /\ HookRecorded' /\ UserHookServed' /\ (hasty' \/ Aside')
        BY <1>5, <1>6, <1>7, <2>1 DEF HookInv, RecordInv, HookRecorded, UserHookServed, Aside
    <2>3. HookPhase(p)'
        BY <1>3, <1>5, <2>1, <2>2 DEF HookPhase
    <2> QED
        BY <1>2, <2>2, <2>3 DEF HookInv
<1>8. CASE a = "wrapper"
    <2>1. /\ UNCHANGED << backup, record, mine, hasty >> /\ Head(proc'[p].todo) = "installed"
          /\ hook' = Wrapper(plan.version, plan.delegate)
        BY <1>1, <1>2, <1>8 DEF WriteWrapper, FlowPairs
    <2>2. RecordInv' /\ HookRecorded' /\ UserHookServed' /\ (hasty' \/ Aside')
        BY <1>5, <1>6, <1>8, <2>1 DEF HookInv, RecordInv, HookRecorded, UserHookServed, Aside
    <2>3. HookPhase(p)'
        BY <1>3, <1>5, <2>1, <2>2 DEF HookPhase
    <2> QED
        BY <1>2, <2>2, <2>3 DEF HookInv
<1>9. CASE a = "installed"
    <2>1. /\ UNCHANGED << hook, backup, mine, hasty >> /\ Head(proc'[p].todo) = "unlock"
          /\ record' = [record EXCEPT !.phase = "installed", !.previous = 0]
        BY <1>1, <1>2, <1>9 DEF RecordInstalled, FlowPairs
    <2>2. record'.phase = "installed" /\ record'.original = record.original
          /\ record'.delegate = record.delegate
        BY <2>1 DEF Base, SetupTypeOK, HookTypeOK, Record
    <2>3. record' # NoRecord
        BY <2>2 DEF NoRecord
    <2>4. RecordInv' /\ HookRecorded'
        BY <1>6, <2>1, <2>2, <2>3 DEF HookInv, RecordInv, HookRecorded
    <2>5. ASSUME mine # Nothing, ~ hasty, hook # mine
          PROVE  /\ backup = mine /\ record.original = mine
                 /\ hook \in { Wrapper(v, mine \in { Own(x) : x \in Executable }) : v \in Version }
        <3>1. backup = mine /\ record.original = mine
            BY <1>5, <1>9, <2>5 DEF Aside
        <3>2. plan.delegate = (mine \in Runnable)
            BY <1>5, <1>6, <3>1 DEF HookInv, RecordInv
        <3> QED
            BY <1>4, <1>5, <1>9, <2>5, <3>1, <3>2 DEF Runnable
    <2>6. UserHookServed'
        BY <2>1, <2>2, <2>5 DEF UserHookServed
    <2>7. HookPhase(p)'
        BY <1>3, <2>1 DEF HookPhase
    <2> QED
        BY <1>2, <2>4, <2>6, <2>7 DEF HookInv
<1> QED
    BY <1>7, <1>8, <1>9

\* Putting the user's hook back, and forgetting what was installed.
LEMMA RemovalStep ==
    ASSUME Base, HookInv, NEW p \in Process,
           \/ InHooks(p, "restore") /\ RestoreHook
           \/ InHooks(p, "remove driver") /\ RemoveDriver
           \/ InHooks(p, "remove record") /\ RemoveRecord
    PROVE  HookInv'
<1>1. PICK a \in {"restore", "remove driver", "remove record"} :
          /\ InHooks(p, a)
          /\ a = "restore" => RestoreHook
          /\ a = "remove driver" => RemoveDriver
          /\ a = "remove record" => RemoveRecord
    OBVIOUS
<1>2. /\ Kept(p) /\ Continues(p) /\ FlowPairs(a, Head(proc'[p].todo))
      /\ Doing(p, a) /\ HookPhase(p)
      /\ \A q \in Process \ {p} : HookPhase(q)'
    BY <1>1, HookGoes DEF HookSection
<1>3. /\ \A step : Doing(p, step)' <=> step = Head(proc'[p].todo)
      /\ proc'[p].kind = "setup" => HookPlanInv(proc'[p].plan.hook)
    BY <1>2, PhaseAt DEF Continues
<1>4. mine \in {Nothing} \cup Owns
    BY DEF Base, SetupTypeOK, HookTypeOK
<1>5. CASE a = "restore"
    <2>1. /\ UNCHANGED << driver, record, mine, hasty >> /\ Head(proc'[p].todo) = "remove driver"
          /\ record # NoRecord
          /\ record.original # Nothing => backup = record.original
          /\ hasty \/ (~ RemovalThrows /\ ~ OriginalInPlace(record, hook))
        BY <1>1, <1>2, <1>5 DEF RestoreHook, FlowPairs, HookPhase
    <2>2. hook' = record.original /\ backup' = Nothing
        BY <1>1, <1>5, <2>1 DEF RestoreHook, HookInv, RecordInv
    <2>3. mine # Nothing => hasty \/ record.original = mine
        <3>1. SUFFICES ASSUME mine # Nothing, ~ hasty, hook = mine PROVE FALSE
            BY DEF HookInv, UserHookServed
        <3>2. ~ MovedOnly /\ ~ Recognised(hook, record)
            BY <1>4, <3>1, Distinct DEF MovedOnly
        <3> QED
            BY <2>1, <3>1, <3>2 DEF RemovalThrows
    <2>a. hook' \notin Wrappers
        BY <2>2, Distinct DEF HookInv, RecordInv
    <2>4. RecordInv' /\ HookRecorded' /\ UserHookServed'
        BY <2>1, <2>2, <2>3 DEF HookInv, RecordInv, HookRecorded, UserHookServed
    <2>5. HookPhase(p)'
        BY <1>3, <2>1, <2>2, <2>3, <2>a DEF HookPhase
    <2> QED
        BY <1>2, <2>4, <2>5 DEF HookInv
<1>6. CASE a = "remove driver"
    <2>1. /\ UNCHANGED << hook, backup, record, mine, hasty >> /\ Head(proc'[p].todo) = "remove record"
          /\ driver' = 0 /\ record # NoRecord /\ hook \notin Wrappers /\ backup = Nothing
          /\ mine # Nothing => hasty \/ hook = mine
        BY <1>1, <1>2, <1>6 DEF RemoveDriver, FlowPairs, HookPhase
    <2>2. RecordInv' /\ HookRecorded' /\ UserHookServed'
        BY <2>1 DEF HookInv, RecordInv, HookRecorded, UserHookServed
    <2>3. HookPhase(p)'
        BY <1>3, <2>1 DEF HookPhase
    <2> QED
        BY <1>2, <2>2, <2>3 DEF HookInv
<1>7. CASE a = "remove record"
    <2>1. /\ UNCHANGED << hook, backup, driver, mine, hasty >> /\ Head(proc'[p].todo) = "unlock"
          /\ record' = NoRecord /\ driver = 0 /\ hook \notin Wrappers /\ backup = Nothing
          /\ mine # Nothing => hasty \/ hook = mine
        BY <1>1, <1>2, <1>7 DEF RemoveRecord, FlowPairs, HookPhase
    <2>2. RecordInv' /\ HookRecorded' /\ UserHookServed'
        BY <2>1 DEF RecordInv, HookRecorded, UserHookServed, NoRecord
    <2>3. HookPhase(p)'
        BY <1>3, <2>1 DEF HookPhase
    <2> QED
        BY <1>2, <2>2, <2>3 DEF HookInv
<1> QED
    BY <1>5, <1>6, <1>7

\* A command enters the section of the hook only with what it compared.
LEMMA EnterHook ==
    ASSUME Base, HookInv, NEW p \in Process, NEW enter, NEW fail,
           \/ /\ Enter(p, "hook lock", enter, fail)
              /\ ~ proc[p].plan.hook.action
              /\ fail = HookPlanStale(proc[p].plan.hook)
           \/ /\ Enter(p, "remove lock", enter, fail)
              /\ enter => record # NoRecord
              /\ fail = (record # NoRecord /\ RemovalThrows)
              /\ ~ OriginalInPlace(record, hook) \/ RemovalThrows
    PROVE  HookInv'
<1> DEFINE plan == proc[p].plan.hook
<1>1. PICK lock \in {"hook lock", "remove lock"} :
          /\ Enter(p, lock, enter, fail)
          /\ lock = "hook lock" => ~ plan.action /\ fail = HookPlanStale(plan)
          /\ lock = "remove lock" => /\ enter => record # NoRecord
                                     /\ fail = (record # NoRecord /\ RemovalThrows)
                                     /\ ~ OriginalInPlace(record, hook) \/ RemovalThrows
    OBVIOUS
<1>2. UNCHANGED hookVars /\ Doing(p, lock) /\ lease = Free
    BY <1>1 DEF Enter, hookVars
<1>3. CASE UNCHANGED lease /\ (Throw(p) \/ LeaveSection(p))
    <2>1. Kept(p) /\ ProcOK' /\ ControlInv'
        BY <1>2, <1>3, MovesKeep, MovesOK, LeaveOutside DEF Base, Section, Doing
    <2>2. ~ Within(p)'
        BY <1>2, <1>3, <2>1, NameAssumption DEF ControlInv
    <2>3. proc'[p].todo = << >> \/ Head(proc'[p].todo) \notin HookSection
        BY <2>2 DEF Within, Section, HookSection
    <2> QED
        BY <1>2, <2>1, <2>3, HookAside
<1>4. CASE ~ fail /\ enter /\ Done(p)
    <2>1. lock \notin Final
        BY DEF Final
    <2>2. Kept(p) /\ GoesOn(p, lock) /\ Others(p)
        BY <1>2, <1>4, <2>1, DoneMoves, MovesKeep DEF Base
    <2>3. FlowPairs(lock, Head(proc'[p].todo))
        BY <2>2, FlowIsPairs DEF GoesOn
    <2>4. /\ \A step : Doing(p, step)' <=> step = Head(proc'[p].todo)
          /\ proc'[p].kind = "setup" => HookPlanInv(proc'[p].plan.hook)
          /\ proc'[p].plan.hook = plan
        BY <2>2, PhaseAt DEF GoesOn, Continues
    <2>5. \A q \in Process \ {p} : HookPhase(q)'
        BY <1>2, <2>2, HookOthers DEF Base
    <2>6. RecordInv' /\ HookRecorded' /\ UserHookServed'
        BY <1>2 DEF HookInv, RecordInv, HookRecorded, UserHookServed, hookVars
    <2>7. CASE lock = "hook lock"
        <3>1. Head(proc'[p].todo) = "installing"
            BY <2>3, <2>7 DEF FlowPairs
        <3>2. /\ ~ plan.action /\ record = plan.record /\ hook = plan.before
              /\ plan.record.original # Nothing /\ ~ OriginalInPlace(plan.record, plan.before)
                      => backup = plan.record.original
            BY <1>1, <1>4, <2>7 DEF HookPlanStale
        <3> HIDE DEF plan
        <3>3. HookPhase(p)'
            BY <1>2, <2>4, <3>1, <3>2 DEF HookPhase, OriginalInPlace, hookVars
        <3> QED
            BY <2>5, <2>6, <3>3 DEF HookInv
    <2>8. CASE lock = "remove lock"
        <3>1. Head(proc'[p].todo) = "restore"
            BY <2>3, <2>8 DEF FlowPairs
        <3>2. record # NoRecord /\ ~ RemovalThrows /\ ~ OriginalInPlace(record, hook)
            BY <1>1, <1>4, <2>8
        <3>a. record.original # Nothing => backup = record.original
            BY <3>2 DEF RemovalThrows, MovedOnly
        <3>3. /\ (record # NoRecord /\ ~ RemovalThrows /\ ~ OriginalInPlace(record, hook))'
              /\ (record.original # Nothing => backup = record.original)'
            BY <1>2, <3>2, <3>a DEF hookVars, RemovalThrows, DriverOwned, OriginalInPlace, MovedOnly
        <3>4. HookPhase(p)'
            BY <2>4, <3>1, <3>3 DEF HookPhase
        <3> QED
            BY <2>5, <2>6, <3>4 DEF HookInv
    <2> QED
        BY <2>7, <2>8
<1> QED
    BY <1>1, <1>3, <1>4 DEF Enter

\* An interrupted installation never moved the user's hook.
LEMMA KeepStep ==
    ASSUME Base, HookInv, NEW p \in Process, KeepHook(p)
    PROVE  HookInv'
<1>1. /\ Others(p) /\ Continues(p) /\ Head(proc'[p].todo) = "remove driver"
      /\ UNCHANGED hookVars /\ lease = Free
    BY SkipMoves DEF KeepHook, Base
<1>2. Kept(p)
    BY <1>1 DEF Kept, Continues
<1>3. /\ \A step : Doing(p, step)' <=> step = "remove driver"
      /\ proc'[p].kind = "setup" => HookPlanInv(proc'[p].plan.hook)
    BY <1>1, <1>2, PhaseAt DEF Continues
<1>4. \A q \in Process \ {p} : HookPhase(q)'
    BY <1>1, HookOthers DEF Base
<1>5. /\ record.phase = "installing" /\ hook = record.original /\ backup = Nothing
    BY DEF KeepHook, OriginalInPlace
<1>6. record # NoRecord /\ hook \notin Wrappers /\ (mine # Nothing => hasty \/ hook = mine)
    BY <1>5, Distinct DEF NoRecord, HookInv, RecordInv, UserHookServed
<1>7. HookPhase(p)'
    BY <1>1, <1>3, <1>5, <1>6 DEF HookPhase, hookVars
<1>8. RecordInv' /\ HookRecorded' /\ UserHookServed'
    BY <1>1 DEF HookInv, RecordInv, HookRecorded, UserHookServed, hookVars
<1> QED
    BY <1>4, <1>7, <1>8 DEF HookInv

\* The user saves the hook, whatever section is entered.
LEMMA HookEdited ==
    ASSUME Base, HookInv, Edit
    PROVE  HookInv'
<1>1. CASE UNCHANGED hookVars
    <2>1. RecordInv' /\ HookRecorded' /\ UserHookServed'
        BY <1>1 DEF HookInv, RecordInv, HookRecorded, UserHookServed, hookVars
    <2>2. ASSUME NEW p \in Process PROVE HookInv'
        BY <1>1, <2>2, HookAside DEF Kept, Others, Edit
    <2>3. Process = {} => HookInv'
        BY <2>1 DEF HookInv
    <2> QED
        BY <2>2, <2>3
<1>2. CASE EditHook(HookCompared)
    <2>1. PICK content \in {Nothing} \cup Owns :
              /\ content # hook /\ hook' = content /\ mine' = content
              /\ hasty' = HookCompared
              /\ UNCHANGED << backup, driver, record, proc >>
        BY <1>2 DEF EditHook, Edit
    <2>2. RecordInv' /\ HookRecorded' /\ UserHookServed'
        BY <2>1, Distinct DEF HookInv, RecordInv, HookRecorded, UserHookServed
    <2>3. hook' \notin Wrappers
        BY <2>1, Distinct
    <2>4. ASSUME NEW q \in Process PROVE HookPhase(q)'
        <3>1. HookPhase(q) /\ proc'[q] = proc[q]
            BY <2>1 DEF HookInv
        <3>2. /\ \A step : Doing(q, step)' <=> Doing(q, step)
              /\ \A owned, before : OriginalInPlace(owned, before)' <=> OriginalInPlace(owned, before)
            BY <2>1, <3>1 DEF Doing, OriginalInPlace
        <3>3. ASSUME NEW step \in {"installing", "move", "driver", "wrapper", "restore"},
                     Doing(q, step)
              PROVE  hasty'
            BY <2>1, <3>3 DEF HookCompared
        <3> QED
            BY <2>1, <2>3, <3>1, <3>2, <3>3 DEF HookPhase
    <2> QED
        BY <2>2, <2>4 DEF HookInv
<1> QED
    BY <1>1, <1>2 DEF Edit

LEMMA HookStarted ==
    ASSUME Base, Base', HookInv, NEW p \in Process, StartSetup(p)
    PROVE  HookInv'
<1>1. /\ Others(p) /\ Head(proc'[p].todo) = "compare" /\ UNCHANGED hookVars
      /\ \E version \in Version : proc'[p].plan = SetupPlan(version)
    BY StartKeeps DEF Base
<1>2. PICK version \in Version : proc'[p].plan.hook = HookPlan(version)
    BY <1>1 DEF SetupPlan
<1>3. HookPlanInv(HookPlan(version))
    BY DEF HookPlanInv, HookPlan, NeedsAction, OriginalInPlace, Runnable, HookInv, HookRecorded
<1>4. ASSUME NEW q \in Process, q # p PROVE HookPhase(q)'
    <2>1. HookPhase(q) /\ proc'[q] = proc[q]
        BY <1>1, <1>4 DEF HookInv, Others
    <2>2. /\ \A step : Doing(q, step)' <=> Doing(q, step)
          /\ (RemovalThrows' <=> RemovalThrows) /\ (Aside' <=> Aside)
        BY <1>1, <2>1 DEF Doing, Aside, RemovalThrows, DriverOwned, MovedOnly, OriginalInPlace, hookVars
    <2>3. \A owned, before : OriginalInPlace(owned, before)' <=> OriginalInPlace(owned, before)
        BY <1>1 DEF OriginalInPlace, hookVars
    <2> QED
        BY <1>1, <2>1, <2>2, <2>3 DEF HookPhase, hookVars
<1>5. HookPhase(p)'
    <2>1. \A step \in HookSection : ~ Doing(p, step)'
        BY <1>1 DEF Doing, HookSection
    <2>2. HookPlanInv(proc'[p].plan.hook)
        BY <1>2, <1>3
    <2> QED
        BY <2>1, <2>2 DEF HookPhase, HookSection
<1>6. RecordInv' /\ HookRecorded' /\ UserHookServed'
    BY <1>1 DEF HookInv, RecordInv, HookRecorded, UserHookServed, hookVars
<1> QED
    BY <1>4, <1>5, <1>6 DEF HookInv

LEMMA HookStep ==
    ASSUME Base, Base', HookInv, [SetupNext]_svars
    PROVE  HookInv'
<1>1. CASE UNCHANGED svars
    <2>1. UNCHANGED hookVars /\ UNCHANGED proc
        BY <1>1 DEF svars
    <2>2. RecordInv' /\ HookRecorded' /\ UserHookServed'
        BY <2>1 DEF HookInv, RecordInv, HookRecorded, UserHookServed, hookVars
    <2>3. ASSUME NEW p \in Process PROVE HookInv'
        BY <2>1, <2>3, HookAside DEF Kept, Others
    <2>4. Process = {} => HookInv'
        BY <2>2 DEF HookInv
    <2> QED
        BY <2>3, <2>4
<1>2. CASE Edit
    BY <1>2, HookEdited
<1>3. ASSUME NEW p \in Process, StartSetup(p) PROVE HookInv'
    BY <1>3, HookStarted
<1>a. ASSUME NEW p \in Process, Kept(p), UNCHANGED hookVars, lease' # p PROVE HookInv'
    <2>1. ~ Within(p)'
        BY <1>a DEF Base, ControlInv
    <2>2. proc'[p].todo = << >> \/ Head(proc'[p].todo) \notin HookSection
        BY <2>1 DEF Within, Section, HookSection
    <2> QED
        BY <1>a, <2>2, HookAside
<1>b. ASSUME NEW p \in Process, NEW a, Doing(p, a), a \notin Section, Kept(p),
             UNCHANGED << hookVars, lease >>
      PROVE  HookInv'
    <2>1. ~ Within(p)
        BY <1>b DEF Within, Doing
    <2>2. lease # p
        BY <2>1 DEF Base, ControlInv
    <2> QED
        BY <1>a, <1>b, <2>2
<1> DEFINE Plain == {"compare", "runtime", "intent", "config", "pin manifest", "pin lock",
                     "ownership", "local", "bootstrap", "clear", "operation",
                     "deactivate", "unlink bootstrap", "forget", "untrack", "remove config",
                     "remove manifest", "remove lock file", "remove ownership"} \cup Locks
<1>c. \A a \in Plain : a \notin Section
    BY DEF Locks, Section
<1> HIDE DEF Plain
<1>d. ASSUME NEW p \in Process, NEW a \in Plain, Doing(p, a), Kept(p), UNCHANGED << hookVars, lease >>
      PROVE  HookInv'
    BY <1>b, <1>c, <1>d
<1>4. ASSUME NEW p \in Process,
             \/ Compare(p) \/ InstallRuntime(p) \/ NoteIntent(p) \/ Approve(p) \/ SwitchBootstrap(p)
             \/ ClearIntent(p) \/ InitialOperation(p) \/ Busy(p) \/ SkipHook(p)
      PROVE  HookInv'
    <2>1. Kept(p)
        BY <1>4, ActionKeeps DEF Base
    <2>2. UNCHANGED << hookVars, lease >> /\ \E a \in Plain : Doing(p, a)
        BY <1>4 DEF Compare, InstallRuntime, NoteIntent, Approve, SwitchBootstrap, ClearIntent,
                    InitialOperation, Busy, SkipHook, Plain, Locks
    <2> QED
        BY <1>d, <2>1, <2>2
<1>5. ASSUME NEW p \in Process, Deactivate(p) \/ UnlinkBootstrap(p) \/ Forget(p) \/ ReadOwnership(p)
      PROVE  HookInv'
    <2>1. Kept(p)
        BY <1>5, ActionKeeps DEF Base
    <2>2. UNCHANGED << hookVars, lease >> /\ \E a \in Plain : Doing(p, a)
        BY <1>5 DEF Deactivate, UnlinkBootstrap, Forget, ReadOwnership, Plain
    <2> QED
        BY <1>d, <2>1, <2>2
<1>6. ASSUME NEW p \in Process, WriteTracked(p) \/ RemoveTracked(p) PROVE HookInv'
    <2>1. Kept(p)
        BY <1>6, ActionKeeps DEF Base
    <2>2. /\ DOMAIN Publishing = {"config", "manifest", "lock"}
          /\ DOMAIN Removing = {"config", "manifest", "lock"}
          /\ \A file \in {"config", "manifest", "lock"} :
                 Publishing[file] \in Plain /\ Removing[file] \in Plain
        BY DEF Publishing, Removing, Plain
    <2>3. "ownership" \in Plain /\ "remove ownership" \in Plain
        BY DEF Plain
    <2>4. UNCHANGED << hookVars, lease >> /\ \E a \in Plain : Doing(p, a)
        BY <1>6, <2>2, <2>3 DEF WriteTracked, RemoveTracked
    <2> QED
        BY <1>d, <2>1, <2>4
<1>7. ASSUME NEW p \in Process, Unlock(p) \/ HookGone(p) \/ ThirdState(p) \/ EntriesStay(p)
      PROVE  HookInv'
    <2>1. Kept(p)
        BY <1>7, ActionKeeps DEF Base
    <2>2. UNCHANGED hookVars /\ lease' # p
        BY <1>7, NameAssumption DEF Unlock, HookGone, ThirdState, EntriesStay
    <2> QED
        BY <1>a, <2>1, <2>2
<1>8. ASSUME NEW p \in Process, StartUninstall(p) PROVE HookInv'
    <2>1. Kept(p)
        BY <1>8, ActionKeeps DEF Base
    <2>2. UNCHANGED << hookVars, lease >> /\ ~ Within(p)
        BY <1>8 DEF StartUninstall, CanStart, Within
    <2>3. lease # p
        BY <2>2 DEF Base, ControlInv
    <2> QED
        BY <1>a, <2>1, <2>2, <2>3
<1>9. ASSUME NEW p \in Process, Crash(p) PROVE HookInv'
    <2>1. Kept(p)
        BY <1>9, ActionKeeps DEF Base
    <2>2. UNCHANGED hookVars /\ lease' # p
        BY <1>9, NameAssumption DEF Crash
    <2> QED
        BY <1>a, <2>1, <2>2
<1>10. ASSUME NEW p \in Process, InstallHook(p) PROVE HookInv'
    BY <1>10, EnterHook, InstallingStep, MoveStep, PlaceStep DEF InstallHook
<1>11. ASSUME NEW p \in Process, RemoveHook(p) PROVE HookInv'
    BY <1>11, EnterHook, RemovalStep DEF RemoveHook
<1>f. ASSUME NEW p \in Process, KeepHook(p) PROVE HookInv'
    BY <1>f, KeepStep
<1>e. ASSUME NEW p \in Process, NEW a \in {"publish", "write", "manifest", "retire", "entries"},
             Doing(p, a), Done(p), Kept(p), UNCHANGED hookVars
      PROVE  HookInv'
    <2>1. a \notin Final
        BY DEF Final
    <2>2. GoesOn(p, a)
        BY <1>e, <2>1, DoneMoves DEF Base
    <2>3. FlowPairs(a, Head(proc'[p].todo))
        BY <2>2, FlowIsPairs DEF GoesOn
    <2>4. Head(proc'[p].todo) \notin HookSection
        BY <2>3 DEF FlowPairs, HookSection
    <2> QED
        BY <1>e, <2>4, HookAside
<1>12. ASSUME NEW p \in Process, EnterProviders(p) \/ EnterEntries(p) PROVE HookInv'
    <2>1. Kept(p)
        BY <1>12, ActionKeeps DEF Base
    <2>2. PICK lock \in {"provider lock", "entries lock"} :
              /\ Doing(p, lock) /\ UNCHANGED hookVars
              /\ UNCHANGED lease \/ Done(p)
        BY <1>12 DEF EnterProviders, EnterEntries, Enter
    <2>3. CASE UNCHANGED lease
        <3>1. lock \in Plain
            BY DEF Plain, Locks
        <3> QED
            BY <1>d, <2>1, <2>2, <2>3, <3>1
    <2>4. CASE Done(p)
        <3>1. lock \notin Final
            BY DEF Final
        <3>2. GoesOn(p, lock)
            BY <2>2, <2>4, <3>1, DoneMoves DEF Base
        <3>3. FlowPairs(lock, Head(proc'[p].todo))
            BY <3>2, FlowIsPairs DEF GoesOn
        <3>4. Head(proc'[p].todo) \notin HookSection
            BY <3>3 DEF FlowPairs, HookSection
        <3> QED
            BY <2>1, <2>2, <3>4, HookAside
    <2> QED
        BY <2>2, <2>3, <2>4
<1>13. ASSUME NEW p \in Process, PublishInstall(p) \/ Finish(p) PROVE HookInv'
    <2>1. Kept(p)
        BY <1>13, ActionKeeps DEF Base
    <2>2. UNCHANGED hookVars
        BY <1>13 DEF PublishInstall, Finish, InProviders
    <2>3. \/ \E a \in {"publish", "write", "manifest", "retire"} : Doing(p, a) /\ Done(p)
          \/ UNCHANGED proc
        BY <1>13 DEF PublishInstall, Finish, InProviders
    <2>4. CASE UNCHANGED proc
        BY <2>1, <2>2, <2>4, HookAside
    <2> QED
        BY <1>e, <2>1, <2>2, <2>3, <2>4
<1>14. ASSUME NEW p \in Process, RemoveEntries(p) PROVE HookInv'
    <2>1. Kept(p)
        BY <1>14, ActionKeeps DEF Base
    <2>2. /\ UNCHANGED hookVars /\ Doing(p, "entries")
          /\ \/ Done(p)
             \/ \E steps \in {Tail(proc[p].todo), proc[p].todo} :
                    Todo(p, << "write", "manifest", "retire" >> \o steps)
        BY <1>14 DEF RemoveEntries, InProviders
    <2>3. ASSUME NEW steps \in {Tail(proc[p].todo), proc[p].todo},
                 Todo(p, << "write", "manifest", "retire" >> \o steps)
          PROVE  HookInv'
        <3>1. Head(proc'[p].todo) = "write"
            BY <2>2, <2>3, EntriesMoves DEF Base
        <3>2. "write" \notin HookSection
            BY DEF HookSection
        <3> QED
            BY <2>1, <2>2, <3>1, <3>2, HookAside
    <2> QED
        BY <1>e, <2>1, <2>2, <2>3
<1> QED
    BY <1>1, <1>2, <1>3, <1>4, <1>5, <1>6, <1>7, <1>8, <1>9, <1>10, <1>11, <1>f, <1>12, <1>13,
       <1>14 DEF SetupNext

LEMMA HookAlways == SetupSpec => []HookInv
<1>1. SetupInit => HookInv
    <2> SUFFICES ASSUME SetupInit PROVE HookInv
        OBVIOUS
    <2>1. \A p \in Process : HookPhase(p)
        BY DEF SetupInit, HookPhase, Idle, Doing
    <2>2. RecordInv
        BY DEF SetupInit, HookInit, RecordInv, NoRecord
    <2>3. HookRecorded /\ UserHookServed
        BY Distinct DEF SetupInit, HookInit, HookRecorded, UserHookServed
    <2> QED
        BY <2>1, <2>2, <2>3 DEF HookInv
<1>2. Base /\ Base' /\ HookInv /\ [SetupNext]_svars => HookInv'
    BY HookStep
<1> QED
    BY <1>1, <1>2, BaseAlways, PTL DEF SetupSpec

\* Nothing of ours is left in the hook directory without the record by which a
\* later setup or uninstall recognises it.
THEOREM HookAlwaysRecorded == SetupSpec => []HookRecorded
<1>1. HookInv => HookRecorded
    BY DEF HookInv
<1> QED
    BY <1>1, HookAlways, PTL

\* Whatever dies or interleaves, the user's last hook is at its path or in the
\* backup, and runs through the wrapper once its installation is recorded, unless
\* it was saved after a section had compared the hook (UserHookServed).
THEOREM UserHookAlwaysServed == SetupSpec => []UserHookServed
<1>1. HookInv => UserHookServed
    BY DEF HookInv
<1> QED
    BY <1>1, HookAlways, PTL

-----------------------------------------------------------------------------
(* The provider entries *)

ProviderSection == {"publish", "write", "manifest", "retire"}

EntriesOK ==
    /\ ProviderEditsKept /\ GroupsRecorded /\ PendingInv
    /\ \A q \in Provider : Sound(files[q])

\* It is about the entries and what the user saved alone.
LEMMA EntriesRest ==
    ASSUME ProviderInv, UNCHANGED << files, manifest, pending, theirs, late >>
    PROVE  EntriesOK'
BY DEF ProviderInv, EntriesOK, ProviderEditsKept, GroupsRecorded, PendingInv, Outcome

\* A file the intent has come to holds what the manifest will list.
LEMMA AfterListed ==
    ASSUME NEW i, IntentInv(i), NEW q \in Touched(i)
    PROVE  Ours(i.after.files[q]) \subseteq {Outcome(i).entry[q]}
BY DEF IntentInv, Touched, Outcome, Ours

\* A step that leaves the entries alone, and does not bring its command into
\* the steps of an intent.
LEMMA ProviderAside ==
    ASSUME ProviderInv, NEW p \in Process, Kept(p), UNCHANGED providerVars,
           \/ UNCHANGED proc
           \/ proc'[p].todo = << >>
           \/ Head(proc'[p].todo) \notin ProviderSection
    PROVE  ProviderInv'
<1>1. EntriesOK'
    BY EntriesRest DEF providerVars
<1>2. ASSUME NEW q \in Process, proc'[q] = proc[q] PROVE ProviderPhase(q)'
    <2>1. ProviderPhase(q)
        BY DEF ProviderInv
    <2>2. \A step : Doing(q, step)' <=> Doing(q, step)
        BY <1>2 DEF Doing
    <2> QED
        BY <1>2, <2>1, <2>2 DEF ProviderPhase, Visiting, Outcome, providerVars
<1>3. ASSUME proc'[p].todo = << >> \/ Head(proc'[p].todo) \notin ProviderSection
      PROVE  ProviderPhase(p)'
    <2>1. \A step \in ProviderSection : ~ Doing(p, step)'
        BY <1>3 DEF Doing
    <2>2. ProviderPhase(p)
        BY DEF ProviderInv
    <2>3. proc'[p].kind = "setup" => ProviderPlanInv(proc'[p].plan.providers)
        BY <2>2 DEF ProviderPhase, Kept
    <2> QED
        BY <2>1, <2>3 DEF ProviderPhase, ProviderSection
<1>4. \A q \in Process : ProviderPhase(q)'
    BY <1>2, <1>3 DEF Kept, Others
<1> QED
    BY <1>1, <1>4 DEF ProviderInv, EntriesOK

\* The others are not in these steps while an entry is changed.
LEMMA ProviderOthers ==
    ASSUME ControlInv, ProviderInv, NEW p \in Process, Others(p), lease = p \/ lease = Free
    PROVE  \A q \in Process \ {p} : ProviderPhase(q)'
<1> SUFFICES ASSUME NEW q \in Process \ {p} PROVE ProviderPhase(q)'
    OBVIOUS
<1>1. ~ Within(q) /\ ProviderPhase(q) /\ proc'[q] = proc[q]
    BY Alone DEF ProviderInv, Others
<1>2. ProviderSection \subseteq Section
    BY DEF ProviderSection, Section
<1>3. \A step \in ProviderSection : ~ Doing(q, step)'
    BY <1>1, <1>2 DEF Doing, Within
<1> QED
    BY <1>1, <1>3 DEF ProviderPhase, ProviderSection

\* The phase of a command that is at one of these steps.
LEMMA ProviderAt ==
    ASSUME ProviderInv, NEW p \in Process, Kept(p), NEW b, proc'[p].todo # << >>,
           Head(proc'[p].todo) = b
    PROVE  /\ \A step : Doing(p, step)' <=> step = b
           /\ proc'[p].kind = "setup" => ProviderPlanInv(proc'[p].plan.providers)
BY DEF Doing, Kept, ProviderInv, ProviderPhase

LEMMA ProviderGoes ==
    ASSUME Base, ProviderInv, NEW p \in Process, NEW step \in ProviderSection \cup {"entries"},
           InProviders(p, step), Done(p)
    PROVE  /\ Kept(p) /\ Continues(p) /\ FlowPairs(step, Head(proc'[p].todo))
           /\ Doing(p, step) /\ lease = p /\ ProviderPhase(p)
           /\ \A q \in Process \ {p} : ProviderPhase(q)'
<1>1. Doing(p, step)
    BY DEF InProviders
<1>2. step \in Section /\ step \notin Final
    BY DEF ProviderSection, Section, Final
<1>3. Others(p) /\ GoesOn(p, step) /\ Kept(p)
    BY <1>1, <1>2, DoneMoves, MovesKeep DEF Base
<1>4. FlowPairs(step, Head(proc'[p].todo))
    BY <1>3, FlowIsPairs DEF GoesOn
<1>5. lease = p
    BY <1>1, <1>2 DEF Base, ControlInv, Within, Doing
<1>6. \A q \in Process \ {p} : ProviderPhase(q)'
    BY <1>3, <1>5, ProviderOthers DEF Base
<1> QED
    BY <1>1, <1>3, <1>4, <1>5, <1>6 DEF GoesOn, ProviderInv

\* An edit of the user takes away groups of ours, and adds none.
LEMMA Shrinks ==
    ASSUME Base, ProviderInv, NEW q \in Provider, NEW w, EditProvider(q, w)
    PROVE  /\ \A x \in Provider : Ours(files'[x]) \subseteq Ours(files[x])
           /\ \A x \in Provider : Sound(files'[x])
           /\ ProviderEditsKept'
           /\ \A x \in Provider \ {q} : files'[x] = files[x] /\ (x \in late' <=> x \in late)
           /\ UNCHANGED << manifest, pending, visit >>
           /\ w /\ q \in visit.compared => q \in late'
<1> DEFINE T == { [files[q] EXCEPT !.exists = TRUE, !.text = text] : text \in Text }
           U == {Missing, [files[q] EXCEPT !.groups = {}]}
           V == { [files[q] EXCEPT !.groups = {Altered}] : g \in files[q].groups \ {Altered} }
<1>1. PICK file \in T \cup U \cup V : /\ files' = [files EXCEPT ![q] = file]
                                     /\ theirs' = [theirs EXCEPT ![q] = file.text]
    BY DEF EditProvider
<1>2. files[q] \in File /\ Sound(files[q])
    BY DEF Base, SetupTypeOK, ProviderTypeOK, ProviderInv
<1>3. Ours(file) \subseteq Ours(files[q]) /\ Sound(file)
    <2>1. CASE file \in T
        BY <1>2, <2>1 DEF File, Ours, Sound
    <2>2. CASE file \in U
        <3>1. CASE file = Missing
            BY <3>1 DEF Missing, Ours, Sound
        <3>2. CASE file = [files[q] EXCEPT !.groups = {}]
            <4>1. file.groups = {}
                BY <1>2, <3>2 DEF File
            <4> HIDE DEF U
            <4> QED
                BY <4>1 DEF Ours, Sound
        <3> QED
            BY <2>2, <3>1, <3>2
    <2>3. CASE file \in V
        BY <1>2, <2>3 DEF File, Ours, Sound
    <2> QED
        BY <2>1, <2>2, <2>3
<1> HIDE DEF T, U, V
<1>4. /\ files' \in [Provider -> File \cup {file}] /\ files'[q] = file
      /\ theirs'[q] = file.text
      /\ \A x \in Provider \ {q} : files'[x] = files[x] /\ theirs'[x] = theirs[x]
    BY <1>1 DEF Base, SetupTypeOK, ProviderTypeOK
<1>8. /\ \A x \in Provider \ {q} : x \in late' <=> x \in late
      /\ w /\ q \in visit.compared => q \in late'
    BY DEF EditProvider
<1>5. ProviderEditsKept'
    BY <1>4, <1>8 DEF ProviderInv, ProviderEditsKept
<1>6. \A x \in Provider : Ours(files'[x]) \subseteq Ours(files[x]) /\ Sound(files'[x])
    BY <1>3, <1>4 DEF ProviderInv
<1>7. UNCHANGED << manifest, pending, visit >>
    BY DEF EditProvider
<1> QED
    BY <1>4, <1>5, <1>6, <1>7, <1>8

LEMMA ProviderEdited ==
    ASSUME Base, ProviderInv, Edit
    PROVE  ProviderInv'
<1>1. CASE UNCHANGED providerVars
    <2>1. EntriesOK'
        BY <1>1, EntriesRest DEF providerVars
    <2>2. ASSUME NEW p \in Process PROVE ProviderInv'
        BY <1>1, <2>2, ProviderAside DEF Kept, Others, Edit
    <2>3. Process = {} => ProviderInv'
        BY <2>1 DEF ProviderInv, EntriesOK
    <2> QED
        BY <2>2, <2>3
<1>2. ASSUME NEW q \in Provider, EditProvider(q, \E p \in Process : Doing(p, "write"))
      PROVE  ProviderInv'
    <2> DEFINE w == \E p \in Process : Doing(p, "write")
    <2>0. EditProvider(q, w)
        BY <1>2
    <2>1. /\ \A x \in Provider : Ours(files'[x]) \subseteq Ours(files[x])
          /\ \A x \in Provider : Sound(files'[x])
          /\ ProviderEditsKept'
          /\ \A x \in Provider \ {q} : files'[x] = files[x] /\ (x \in late' <=> x \in late)
          /\ UNCHANGED << manifest, pending, visit >>
          /\ w /\ q \in visit.compared => q \in late'
        <3> HIDE DEF w
        <3> QED
            BY <2>0, Shrinks
    <2>2. GroupsRecorded'
        BY <2>1 DEF ProviderInv, GroupsRecorded, Ours
    <2>3. PendingInv'
        BY <2>1 DEF ProviderInv, PendingInv, Outcome
    <2>4. ASSUME NEW p \in Process PROVE ProviderPhase(p)'
        <3>1. ProviderPhase(p) /\ proc' = proc
            BY <1>2 DEF ProviderInv, Edit
        <3>2. \A step : Doing(p, step)' <=> Doing(p, step)
            BY <3>1 DEF Doing
        <3>3. Doing(p, "write") => Visiting'
            <4> SUFFICES ASSUME Doing(p, "write") PROVE Visiting'
                OBVIOUS
            <4>1. Visiting /\ w
                BY <3>1 DEF ProviderPhase
            <4>2. visit \in Visit
                BY DEF Base, SetupTypeOK, ProviderTypeOK
            <4>3. /\ pending' # NoIntent /\ visit' = visit /\ Outcome(pending)' = Outcome(pending)
                  /\ Touched(pending') = Touched(pending)
                BY <2>1, <4>1 DEF Visiting, Outcome
            <4>4. \A x \in Touched(pending) : x \in Provider
                BY DEF Touched
            <4> QED
                BY <2>1, <4>1, <4>2, <4>3, <4>4 DEF Visiting, Visit
        <3> QED
            BY <2>1, <3>1, <3>2, <3>3 DEF ProviderPhase, Outcome
    <2> QED
        BY <2>1, <2>2, <2>3, <2>4 DEF ProviderInv
<1> QED
    BY <1>1, <1>2 DEF Edit

\* An intent that may be published.
Publishable(i) ==
    /\ i.kind # "none" /\ IntentInv(i)
    /\ \A q \in Provider \ Touched(i) :
           Ours(files[q]) \subseteq {Outcome(i).entry[q]}

LEMMA Published ==
    ASSUME EntriesOK, NEW i, Publishable(i), Publish(i)
    PROVE  EntriesOK' /\ pending' # NoIntent /\ visit' = NotVisited
<1>1. pending' = i /\ visit' = NotVisited /\ UNCHANGED << files, manifest, theirs, late >>
    BY DEF Publish
<1>2. i # NoIntent
    BY DEF Publishable, NoIntent
<1>3. PendingInv'
    BY <1>1, <1>2 DEF PendingInv, Publishable, Outcome
<1> QED
    BY <1>1, <1>2, <1>3 DEF EntriesOK, ProviderEditsKept, GroupsRecorded

\* Nothing was checked, compared or passed yet.
LEMMA VisitBegins ==
    ASSUME pending' # NoIntent, visit' = NotVisited
    PROVE  Visiting'
BY DEF Visiting, NotVisited

\* A setup enters with the intent it planned, and publishes it.
LEMMA EnterProvidersStep ==
    ASSUME Base, ProviderInv, NEW p \in Process, EnterProviders(p), lease' = p, lease = Free
    PROVE  ProviderInv'
<1> DEFINE plan == proc[p].plan.providers
<1>1. /\ Doing(p, "provider lock") /\ Done(p) /\ UNCHANGED providerVars
      /\ ProvidersAsPlanned(plan) /\ pending = plan.pending
      /\ plan.pending = NoIntent => Changes(plan)
    BY NameAssumption DEF EnterProviders, Enter
<1>a. "provider lock" \notin Final
    BY DEF Final
<1>2. Kept(p) /\ GoesOn(p, "provider lock")
    BY <1>1, <1>a, DoneMoves, MovesKeep DEF Base
<1>3. FlowPairs("provider lock", Head(proc'[p].todo))
    BY <1>2, FlowIsPairs DEF GoesOn
<1>4. Head(proc'[p].todo) = "publish"
    BY <1>3 DEF FlowPairs
<1>5. /\ \A step : Doing(p, step)' <=> step = "publish"
      /\ proc'[p].kind = "setup" => ProviderPlanInv(proc'[p].plan.providers)
      /\ proc'[p].plan.providers = plan
    BY <1>2, <1>4, ProviderAt DEF GoesOn, Continues
<1>6. ProviderPlanInv(plan)
    <2>1. "provider lock" \in SetupStep \ UninstallStep
        BY DEF SetupStep, UninstallStep
    <2> QED
        BY <1>1, <2>1, InSetup DEF Base, ProviderInv, ProviderPhase
<1> HIDE DEF plan
<1>7. pending = NoIntent /\ plan.intent.before.manifest # plan.intent.after.manifest
          => manifest = plan.intent.before.manifest
    BY <1>1 DEF ProvidersAsPlanned
<1>8. ProviderPhase(p)'
    BY <1>1, <1>5, <1>7 DEF ProviderPhase, providerVars
<1>9. \A q \in Process \ {p} : ProviderPhase(q)'
    BY <1>2, ProviderOthers DEF Base, Kept
<1>10. EntriesOK'
    BY <1>1, EntriesRest DEF providerVars
<1> QED
    BY <1>8, <1>9, <1>10 DEF ProviderInv, EntriesOK

LEMMA PublishStep ==
    ASSUME Base, ProviderInv, NEW p \in Process, PublishInstall(p)
    PROVE  ProviderInv'
<1> DEFINE plan == proc[p].plan.providers
<1>1. /\ Kept(p) /\ Continues(p) /\ FlowPairs("publish", Head(proc'[p].todo))
      /\ Doing(p, "publish") /\ ProviderPhase(p)
      /\ \A q \in Process \ {p} : ProviderPhase(q)'
    BY ProviderGoes DEF PublishInstall, ProviderSection
<1>2. Head(proc'[p].todo) = "write"
    BY <1>1 DEF FlowPairs
<1>3. /\ \A step : Doing(p, step)' <=> step = "write"
      /\ proc'[p].kind = "setup" => ProviderPlanInv(proc'[p].plan.providers)
    BY <1>1, <1>2, ProviderAt DEF Continues
<1>4. ProviderPlanInv(plan)
    <2>1. "publish" \in SetupStep \ UninstallStep
        BY DEF SetupStep, UninstallStep
    <2> QED
        BY <1>1, <2>1, InSetup DEF Base, ProviderPhase
<1>5. /\ pending = plan.pending
      /\ pending = NoIntent /\ plan.intent.before.manifest # plan.intent.after.manifest
             => manifest = plan.intent.before.manifest
    BY <1>1 DEF ProviderPhase
<1>6. /\ pending # NoIntent => FinishFound
      /\ pending = NoIntent => Publish(plan.intent)
    BY DEF PublishInstall
<1> HIDE DEF plan
<1>7. EntriesOK' /\ pending' # NoIntent /\ visit' = NotVisited
    <2>1. CASE pending # NoIntent
        BY <1>6, <2>1, EntriesRest DEF FinishFound
    <2>2. CASE pending = NoIntent
        <3>1. Publishable(plan.intent)
            <4>1. plan.intent.kind # "none" /\ IntentInv(plan.intent)
                BY <1>4, <1>5, <2>2 DEF ProviderPlanInv
            <4>2. ASSUME NEW q \in Provider \ Touched(plan.intent)
                  PROVE  Ours(files[q]) \subseteq {Outcome(plan.intent).entry[q]}
                <5>1. plan.intent.before.manifest.entry[q] = plan.intent.after.manifest.entry[q]
                    BY <1>4, <1>5, <2>2 DEF ProviderPlanInv
                <5>2. Ours(files[q]) \subseteq {manifest.entry[q]}
                    BY <2>2 DEF ProviderInv, GroupsRecorded, Ours
                <5> QED
                    BY <1>5, <2>2, <5>1, <5>2 DEF Outcome
            <4> QED
                BY <4>1, <4>2 DEF Publishable
        <3> QED
            BY <1>6, <2>2, <3>1, Published DEF ProviderInv, EntriesOK
    <2> QED
        BY <2>1, <2>2
<1>8. ProviderPhase(p)'
    BY <1>3, <1>7, VisitBegins DEF ProviderPhase
<1> QED
    BY <1>1, <1>7, <1>8 DEF ProviderInv, EntriesOK

\* A command that stays at the files of its intent.
LEMMA VisitStep ==
    ASSUME Base, ProviderInv, NEW p \in Process, InProviders(p, "write"), UNCHANGED proc,
           EntriesOK', Visiting'
    PROVE  ProviderInv'
<1>1. Doing(p, "write") /\ ProviderPhase(p)
    BY DEF InProviders, ProviderInv
<1>2. lease = p
    BY <1>1 DEF Base, ControlInv, Within, Doing, Section
<1>3. \A x \in Process \ {p} : ProviderPhase(x)'
    BY <1>2, ProviderOthers DEF Base, Others
<1>4. \A step : Doing(p, step)' <=> step = "write"
    BY <1>1 DEF Doing
<1>5. ProviderPhase(p)'
    BY <1>1, <1>4 DEF ProviderPhase
<1> QED
    BY <1>3, <1>5 DEF ProviderInv, EntriesOK

\* The files are checked; none was compared.
LEMMA CheckStep ==
    ASSUME Base, ProviderInv, Visiting, CheckFiles
    PROVE  EntriesOK' /\ Visiting'
<1>1. /\ UNCHANGED << files, manifest, pending, theirs, late >>
      /\ visit' = [checked |-> TRUE, ahead |-> Touched(pending), compared |-> {}]
    BY DEF CheckFiles
<1>2. visit'.ahead = Touched(pending) /\ visit'.compared = {}
    BY <1>1
<1>3. Visiting'
    BY <1>1, <1>2 DEF Visiting, Outcome, Touched
<1> QED
    BY <1>1, <1>3, EntriesRest

\* A file is found as it was before the intent, or as it is after it.
LEMMA CompareStep ==
    ASSUME Base, ProviderInv, Visiting, NEW q \in Provider, CompareFile(q)
    PROVE  EntriesOK' /\ Visiting'
<1> DEFINE T == Touched(pending)
<1>1. /\ UNCHANGED << files, manifest, pending, theirs, late >>
      /\ visit.compared = {} /\ q \in visit.ahead
      /\ Known(files[q], pending.before.files[q], pending.after.files[q])
      /\ visit' = [ visit EXCEPT
             !.ahead = @ \ {q},
             !.compared = IF files[q] = pending.after.files[q] THEN {} ELSE {q} ]
    BY DEF CompareFile
<1>2. visit \in Visit
    BY DEF Base, SetupTypeOK, ProviderTypeOK
<1>3. /\ visit'.checked = visit.checked /\ visit'.ahead = visit.ahead \ {q}
      /\ visit'.compared = IF files[q] = pending.after.files[q] THEN {} ELSE {q}
    BY <1>1, <1>2 DEF Visit
<1>4. q \in T /\ visit.ahead \subseteq T
    BY <1>1 DEF Visiting
<1>5. files[q] # pending.after.files[q] => files[q] = pending.before.files[q]
    BY <1>1, <1>4 DEF Known, Touched
<1>6. Ours(pending.after.files[q]) \subseteq {Outcome(pending).entry[q]}
    BY <1>4, AfterListed DEF ProviderInv, PendingInv
<1>7. Outcome(pending)' = Outcome(pending) /\ Touched(pending') = T /\ pending' = pending
    BY <1>1 DEF Outcome
<1>8. \A x \in visit'.compared : /\ x = q /\ visit'.compared = {q}
                                  /\ files[q] # pending.after.files[q]
    BY <1>3
<1>9. ASSUME visit'.checked, NEW x \in T \ (visit'.ahead \cup visit'.compared)
      PROVE  Ours(files[x]) \subseteq {Outcome(pending).entry[x]}
    <2>1. CASE x = q
        BY <1>3, <1>6, <1>9, <2>1
    <2>2. CASE x # q
        BY <1>1, <1>3, <1>9, <2>2 DEF Visiting
    <2> QED
        BY <2>1, <2>2
<1> HIDE DEF T
<1>10. Visiting'
    BY <1>1, <1>3, <1>4, <1>5, <1>7, <1>8, <1>9 DEF Visiting
<1> QED
    BY <1>1, <1>10, EntriesRest

\* What is staged goes over whatever is there; if that was saved since, it is
\* among the late ones.
LEMMA ReplaceStep ==
    ASSUME Base, ProviderInv, Visiting, NEW q \in Provider, ReplaceFile(q)
    PROVE  EntriesOK' /\ Visiting'
<1> DEFINE T == Touched(pending)
<1>1. /\ UNCHANGED << manifest, pending, theirs, late >>
      /\ q \in visit.compared
      /\ files' = [files EXCEPT ![q] = pending.after.files[q]]
      /\ visit' = [visit EXCEPT !.compared = {}]
    BY DEF ReplaceFile
<1>2. visit \in Visit /\ files \in [Provider -> File]
    BY DEF Base, SetupTypeOK, ProviderTypeOK
<1>3. /\ visit'.checked = visit.checked /\ visit'.ahead = visit.ahead
      /\ visit'.compared = {}
    BY <1>1, <1>2 DEF Visit
<1>4. /\ files'[q] = pending.after.files[q]
      /\ \A x \in Provider \ {q} : files'[x] = files[x]
    BY <1>1, <1>2
<1>5. q \in T /\ (q \in late \/ files[q] = pending.before.files[q]) /\ pending # NoIntent
    BY <1>1 DEF Visiting
<1>6. /\ IntentInv(pending)
      /\ Ours(pending.after.files[q]) \subseteq {Outcome(pending).entry[q]}
    BY <1>5, AfterListed DEF ProviderInv, PendingInv
<1>7. ProviderEditsKept'
    BY <1>1, <1>4, <1>5, <1>6 DEF ProviderInv, ProviderEditsKept, IntentInv
<1>8. GroupsRecorded'
    BY <1>1, <1>5 DEF GroupsRecorded
<1>9. \A x \in Provider : Sound(files'[x])
    BY <1>4, <1>6 DEF ProviderInv, IntentInv
<1>10. Outcome(pending)' = Outcome(pending) /\ Touched(pending') = T /\ pending' = pending
    BY <1>1 DEF Outcome
<1>11. PendingInv'
    <2>1. ASSUME NEW x \in Provider \ T PROVE Ours(files'[x]) \subseteq {Outcome(pending).entry[x]}
        <3>1. x # q
            BY <1>5
        <3> QED
            BY <1>4, <1>5, <3>1 DEF ProviderInv, PendingInv
    <2> HIDE DEF T
    <2> QED
        BY <1>10, <2>1 DEF ProviderInv, PendingInv
<1>12. ASSUME visit'.checked, NEW x \in T \ (visit'.ahead \cup visit'.compared)
      PROVE  Ours(files'[x]) \subseteq {Outcome(pending).entry[x]}
    <2>0. x \in Provider
        BY DEF Touched
    <2>1. CASE x = q
        BY <1>4, <1>6, <2>1
    <2>2. CASE x # q
        <3>1. x \notin visit.compared
            BY <1>1, <2>2 DEF Visiting
        <3> QED
            BY <1>3, <1>4, <1>12, <2>0, <2>2, <3>1 DEF Visiting
    <2> QED
        BY <2>1, <2>2
<1> HIDE DEF T
<1>13. Visiting'
    BY <1>1, <1>3, <1>5, <1>10, <1>12 DEF Visiting
<1> QED
    BY <1>7, <1>8, <1>9, <1>11, <1>13 DEF EntriesOK

\* The files, the manifest and the intent, in this order.
LEMMA FinishStep ==
    ASSUME Base, ProviderInv, NEW p \in Process, Finish(p)
    PROVE  ProviderInv'
<1>1. ASSUME InProviders(p, "write"), AllWritten, Done(p), UNCHANGED providerVars
      PROVE  ProviderInv'
    <2>1. /\ Kept(p) /\ Continues(p) /\ FlowPairs("write", Head(proc'[p].todo))
          /\ Doing(p, "write") /\ ProviderPhase(p)
          /\ \A q \in Process \ {p} : ProviderPhase(q)'
        BY <1>1, ProviderGoes DEF ProviderSection
    <2>2. Head(proc'[p].todo) = "manifest"
        BY <2>1 DEF FlowPairs
    <2>3. /\ \A step : Doing(p, step)' <=> step = "manifest"
          /\ proc'[p].kind = "setup" => ProviderPlanInv(proc'[p].plan.providers)
        BY <2>1, <2>2, ProviderAt DEF Continues
    <2>4. Visiting /\ pending # NoIntent
        BY <2>1 DEF ProviderPhase, Visiting
    <2>5. ASSUME NEW q \in Provider PROVE Ours(files[q]) \subseteq {Outcome(pending).entry[q]}
        <3>1. CASE q \notin Touched(pending)
            BY <2>4, <3>1 DEF ProviderInv, PendingInv
        <3>2. CASE q \in Touched(pending)
            BY <1>1, <2>4, <3>2 DEF AllWritten, Visiting
        <3> QED
            BY <3>1, <3>2
    <2>6. EntriesOK'
        BY <1>1, EntriesRest DEF providerVars
    <2>7. ProviderPhase(p)'
        BY <1>1, <2>3, <2>4, <2>5 DEF ProviderPhase, Outcome, providerVars
    <2> QED
        BY <2>1, <2>6, <2>7 DEF ProviderInv, EntriesOK
<1>2. ASSUME InProviders(p, "write"), UNCHANGED proc,
             CheckFiles \/ \E q \in Provider : CompareFile(q) \/ ReplaceFile(q)
      PROVE  ProviderInv'
    <2>1. Visiting
        BY <1>2 DEF InProviders, ProviderInv, ProviderPhase
    <2>2. EntriesOK' /\ Visiting'
        BY <1>2, <2>1, CheckStep, CompareStep, ReplaceStep
    <2> QED
        BY <1>2, <2>2, VisitStep
<1>3. ASSUME InProviders(p, "manifest"), Done(p), WriteManifest PROVE ProviderInv'
    <2>1. /\ Kept(p) /\ Continues(p) /\ FlowPairs("manifest", Head(proc'[p].todo))
          /\ Doing(p, "manifest") /\ ProviderPhase(p)
          /\ \A q \in Process \ {p} : ProviderPhase(q)'
        BY <1>3, ProviderGoes DEF ProviderSection
    <2>2. Head(proc'[p].todo) = "retire"
        BY <2>1 DEF FlowPairs
    <2>3. /\ \A step : Doing(p, step)' <=> step = "retire"
          /\ proc'[p].kind = "setup" => ProviderPlanInv(proc'[p].plan.providers)
        BY <2>1, <2>2, ProviderAt DEF Continues
    <2>4. /\ pending # NoIntent /\ manifest' = Outcome(pending)
          /\ UNCHANGED << files, pending, theirs, late >>
          /\ \A q \in Provider : Ours(files[q]) \subseteq {Outcome(pending).entry[q]}
        BY <1>3, <2>1 DEF ProviderPhase, WriteManifest, Outcome
    <2>5. Outcome(pending)' = Outcome(pending)
        BY <2>4 DEF Outcome
    <2>6. EntriesOK'
        <3>1. PendingInv'
            BY <2>4, <2>5 DEF ProviderInv, PendingInv
        <3> QED
            BY <2>4, <3>1 DEF ProviderInv, EntriesOK, ProviderEditsKept, GroupsRecorded
    <2>7. ProviderPhase(p)'
        BY <2>3, <2>4 DEF ProviderPhase
    <2> QED
        BY <2>1, <2>6, <2>7 DEF ProviderInv, EntriesOK
<1>4. ASSUME InProviders(p, "retire"), Done(p), Retire PROVE ProviderInv'
    <2>1. /\ Kept(p) /\ Continues(p) /\ FlowPairs("retire", Head(proc'[p].todo))
          /\ Doing(p, "retire") /\ ProviderPhase(p)
          /\ \A q \in Process \ {p} : ProviderPhase(q)'
        BY <1>4, ProviderGoes DEF ProviderSection
    <2>2. Head(proc'[p].todo) \in {"unlock", "entries"}
        BY <2>1 DEF FlowPairs
    <2>3. /\ \A step : Doing(p, step)' <=> step = Head(proc'[p].todo)
          /\ proc'[p].kind = "setup" => ProviderPlanInv(proc'[p].plan.providers)
        BY <2>1, ProviderAt DEF Continues
    <2>4. /\ pending' = NoIntent /\ UNCHANGED << files, manifest, theirs, late >>
          /\ \A q \in Provider : Ours(files[q]) \subseteq {manifest.entry[q]}
        BY <1>4, <2>1 DEF ProviderPhase, Retire
    <2>5. IntentInv(NoIntent) /\ NoIntent.kind = "none"
        BY DEF IntentInv, NoIntent, NoneMissing, Missing, Ours, Sound, Touched
    <2>6. PendingInv'
        BY <2>4, <2>5 DEF PendingInv
    <2>7. GroupsRecorded' /\ ProviderEditsKept' /\ \A q \in Provider : Sound(files'[q])
        BY <2>4 DEF ProviderInv, GroupsRecorded, ProviderEditsKept, Ours
    <2>8. ProviderPhase(p)'
        BY <2>2, <2>3 DEF ProviderPhase
    <2> QED
        BY <2>1, <2>6, <2>7, <2>8 DEF ProviderInv
<1> QED
    BY <1>1, <1>2, <1>3, <1>4 DEF Finish, InProviders

\* The intent of a removal, while nothing is pending and no group was edited.
LEMMA RemovalPublishable ==
    ASSUME Base, ProviderInv, pending = NoIntent, Entries # {},
           \A q \in Entries : ~ Edited(q)
    PROVE  Publishable(RemovalIntent)
<1> DEFINE i == RemovalIntent
<1>1. /\ i.kind = "remove"
      /\ \A q \in Provider : /\ i.before.files[q] = files[q]
                             /\ i.after.manifest.entry[q] = 0
                             /\ q \in Entries => i.after.files[q] =
                                    [files[q] EXCEPT !.groups = @ \ {manifest.entry[q]}]
                             /\ q \notin Entries => i.after.files[q] = files[q]
    BY DEF RemovalIntent, Now, NoManifest
<1>7. i.before.manifest # i.after.manifest
    <2>1. i.before.manifest = manifest /\ i.after.manifest = NoManifest
        BY DEF RemovalIntent, Now
    <2>2. PICK q \in Provider : manifest.entry[q] # 0
        BY DEF Entries
    <2>3. NoManifest.entry[q] = 0
        BY DEF NoManifest
    <2> QED
        BY <2>1, <2>2, <2>3
<1> HIDE DEF i
<1>2. ASSUME NEW q \in Provider
      PROVE  /\ files[q] \in File /\ Sound(files[q])
             /\ Ours(files[q]) \subseteq {manifest.entry[q]}
    BY DEF Base, SetupTypeOK, ProviderTypeOK, ProviderInv, GroupsRecorded, Ours
<1>3. ASSUME NEW q \in Provider, q \in Entries
      PROVE  /\ i.after.files[q].text = files[q].text /\ Sound(i.after.files[q])
             /\ Ours(i.after.files[q]) = {}
             /\ i.after.files[q].groups = files[q].groups \ {manifest.entry[q]}
    <2>1. i.after.files[q] = [files[q] EXCEPT !.groups = @ \ {manifest.entry[q]}]
        BY <1>1, <1>3
    <2>2. /\ i.after.files[q].text = files[q].text
          /\ i.after.files[q].exists = files[q].exists
          /\ i.after.files[q].groups = files[q].groups \ {manifest.entry[q]}
        BY <1>2, <2>1 DEF File
    <2> QED
        BY <1>2, <2>2 DEF Sound, Ours
<1>4. ASSUME NEW q \in Provider, q \notin Entries
      PROVE  /\ i.after.files[q] = files[q] /\ Ours(files[q]) \subseteq {0}
    BY <1>1, <1>2, <1>4 DEF Entries
<1>5. IntentInv(i)
    <2> SUFFICES ASSUME NEW q \in Provider
                 PROVE  /\ i.before.files[q].text = i.after.files[q].text
                        /\ Ours(i.after.files[q]) \subseteq {i.after.manifest.entry[q]}
                        /\ Sound(i.after.files[q])
        BY <1>7 DEF IntentInv
    <2> QED
        BY <1>1, <1>2, <1>3, <1>4
<1>6. ASSUME NEW q \in Provider \ Touched(i)
      PROVE  Ours(files[q]) \subseteq {Outcome(i).entry[q]}
    <2>3. i.before.files[q] = i.after.files[q] /\ Outcome(i).entry[q] = 0
        BY <1>1, <1>6, <1>7 DEF Touched, Outcome
    <2>1. CASE q \in Entries
        <3>1. Ours(files[q]) = {}
            BY <1>1, <1>3, <1>6, <2>1, <2>3
        <3> QED
            BY <3>1, <2>3
    <2>2. CASE q \notin Entries
        BY <1>1, <1>4, <2>2, <2>3
    <2> QED
        BY <2>1, <2>2
<1> QED
    BY <1>1, <1>5, <1>6 DEF Publishable, i

\* An uninstall finishes what is pending, and publishes its removal.
LEMMA RemoveEntriesStep ==
    ASSUME Base, ProviderInv, NEW p \in Process, RemoveEntries(p)
    PROVE  ProviderInv'
<1>1. InProviders(p, "entries") /\ Doing(p, "entries")
    BY DEF RemoveEntries, InProviders
<1>2. ASSUME Done(p), UNCHANGED providerVars PROVE ProviderInv'
    <2>1. Kept(p) /\ FlowPairs("entries", Head(proc'[p].todo))
        BY <1>1, <1>2, ProviderGoes
    <2>2. Head(proc'[p].todo) \notin ProviderSection
        BY <2>1 DEF FlowPairs, ProviderSection
    <2> QED
        BY <1>2, <2>1, <2>2, ProviderAside
<1>3. ASSUME NEW steps \in {Tail(proc[p].todo), proc[p].todo},
             Todo(p, << "write", "manifest", "retire" >> \o steps),
             EntriesOK', pending' # NoIntent, visit' = NotVisited
      PROVE  ProviderInv'
    <2>1. Others(p) /\ Continues(p) /\ Head(proc'[p].todo) = "write"
        BY <1>1, <1>3, EntriesMoves DEF Base
    <2>2. Kept(p)
        BY <2>1 DEF Kept, Continues
    <2>3. /\ \A step : Doing(p, step)' <=> step = "write"
          /\ proc'[p].kind = "setup" => ProviderPlanInv(proc'[p].plan.providers)
        BY <2>1, <2>2, ProviderAt DEF Continues
    <2>4. ProviderPhase(p)'
        BY <1>3, <2>3, VisitBegins DEF ProviderPhase
    <2>5. lease = p
        BY <1>1 DEF Base, ControlInv, Within, Doing, Section
    <2>6. \A q \in Process \ {p} : ProviderPhase(q)'
        BY <2>1, <2>5, ProviderOthers DEF Base
    <2> QED
        BY <1>3, <2>4, <2>6 DEF ProviderInv, EntriesOK
<1>4. \/ /\ pending # NoIntent /\ FinishFound
         /\ \E steps \in {Tail(proc[p].todo), proc[p].todo} :
                Todo(p, << "write", "manifest", "retire" >> \o steps)
      \/ Done(p) /\ UNCHANGED providerVars
      \/ /\ pending = NoIntent /\ Entries # {} /\ (\A q \in Entries : ~ Edited(q))
         /\ Publish(RemovalIntent)
         /\ Todo(p, << "write", "manifest", "retire" >> \o Tail(proc[p].todo))
    BY DEF RemoveEntries
<1>5. FinishFound => EntriesOK'
    BY EntriesRest DEF FinishFound
<1>6. CASE pending # NoIntent /\ FinishFound /\
           \E steps \in {Tail(proc[p].todo), proc[p].todo} :
                Todo(p, << "write", "manifest", "retire" >> \o steps)
    <2>1. pending' # NoIntent /\ EntriesOK' /\ visit' = NotVisited
        BY <1>5, <1>6 DEF FinishFound
    <2> QED
        BY <1>3, <1>6, <2>1
<1>7. CASE /\ pending = NoIntent /\ Entries # {} /\ (\A q \in Entries : ~ Edited(q))
           /\ Publish(RemovalIntent)
           /\ Todo(p, << "write", "manifest", "retire" >> \o Tail(proc[p].todo))
    <2>1. Publishable(RemovalIntent) /\ EntriesOK
        BY <1>7, RemovalPublishable DEF ProviderInv, EntriesOK
    <2>2. EntriesOK' /\ pending' # NoIntent /\ visit' = NotVisited
        BY <1>7, <2>1, Published
    <2> QED
        BY <1>3, <1>7, <2>2
<1> QED
    BY <1>2, <1>4, <1>6, <1>7

\* What a setup plans from the files as it finds them.
LEMMA PlannedEntries ==
    ASSUME Base, ProviderInv, NEW version \in Release
    PROVE  ProviderPlanInv(ProviderPlan(version))
<1> DEFINE plan == ProviderPlan(version)
<1>1. CASE pending # NoIntent
    <2>1. plan.pending = pending /\ plan.intent = [pending EXCEPT !.before = Now]
        BY <1>1 DEF ProviderPlan
    <2>2. pending \in Intent /\ pending.kind # "none"
        BY <1>1 DEF Base, SetupTypeOK, ProviderTypeOK, ProviderInv, PendingInv
    <2>3. plan.intent.kind = pending.kind
        BY <2>1, <2>2 DEF Intent
    <2> QED
        BY <1>1, <2>1, <2>2, <2>3 DEF ProviderPlanInv
<1>2. CASE pending = NoIntent
    <2> DEFINE i == plan.intent
    <2>1. /\ plan.pending = NoIntent /\ i.kind = "install"
          /\ i.before = Now /\ i.after = Installed(version)
        BY <1>2 DEF ProviderPlan
    <2>2. /\ i.before.files = files /\ i.before.manifest = manifest
          /\ i.after.files = [q \in Provider |->
                 [ files[q] EXCEPT !.exists = TRUE,
                       !.groups = IF Matches(q) THEN (@ \ {manifest.entry[q]}) \cup {version}
                                  ELSE @ ] ]
          /\ i.after.manifest = [ exists |-> TRUE,
                 entry |-> [q \in Provider |-> IF Matches(q) THEN version ELSE manifest.entry[q]] ]
        <3>1. i.before = Now
            BY <2>1
        <3>2. i.after = Installed(version)
            BY <2>1
        <3> HIDE DEF i
        <3>3. Now.files = files /\ Now.manifest = manifest
            BY DEF Now
        <3>4. Installed(version).files = [q \in Provider |->
                 [ files[q] EXCEPT !.exists = TRUE,
                       !.groups = IF Matches(q) THEN (@ \ {manifest.entry[q]}) \cup {version}
                                  ELSE @ ] ]
            BY Zenon DEF Installed
        <3>5. Installed(version).manifest = [ exists |-> TRUE,
                 entry |-> [q \in Provider |-> IF Matches(q) THEN version ELSE manifest.entry[q]] ]
            BY Zenon DEF Installed
        <3> QED
            BY <3>1, <3>2, <3>3, <3>4, <3>5, Zenon
    <2> HIDE DEF i, plan
    <2>3. ASSUME NEW q \in Provider
          PROVE  i.after.manifest.entry[q] = IF Matches(q) THEN version ELSE manifest.entry[q]
        <3> DEFINE entry == [x \in Provider |-> IF Matches(x) THEN version
                                               ELSE manifest.entry[x]]
        <3>1. entry[q] = IF Matches(q) THEN version ELSE manifest.entry[q]
            BY Zenon
        <3>2. i.after.manifest = [ exists |-> TRUE, entry |-> entry ]
            BY <2>2, Zenon
        <3> HIDE DEF entry
        <3> QED
            BY <3>1, <3>2
    <2>4. ASSUME NEW q \in Provider
          PROVE  /\ files[q] \in File /\ Sound(files[q]) /\ version # 0
                 /\ Ours(files[q]) \subseteq {manifest.entry[q]}
        BY <1>2, ProviderAssumption
        DEF Base, SetupTypeOK, ProviderTypeOK, ProviderInv, GroupsRecorded, Ours
    <2>5. ASSUME NEW q \in Provider
          PROVE  /\ i.after.files[q].text = files[q].text
                 /\ i.after.files[q].exists = TRUE
                 /\ Matches(q) => i.after.files[q].groups =
                        (files[q].groups \ {manifest.entry[q]}) \cup {version}
                 /\ ~ Matches(q) => i.after.files[q].groups = files[q].groups
        <3>1. i.after.files[q] =
                 [ files[q] EXCEPT !.exists = TRUE,
                       !.groups = IF Matches(q) THEN (@ \ {manifest.entry[q]}) \cup {version}
                                  ELSE @ ]
            BY <2>2
        <3> QED
            BY <2>4, <3>1 DEF File
    <2>6. ASSUME NEW q \in Provider, manifest = i.after.manifest, q \in Touched(i)
          PROVE  i.after.files[q].groups = {}
        <3>1. i.after.files[q] # files[q]
            BY <2>2, <2>6 DEF Touched
        <3>2. files[q].exists = TRUE => i.after.files[q].groups # files[q].groups
            <4>1. i.after.files[q] = [files[q] EXCEPT !.exists = TRUE,
                                          !.groups = i.after.files[q].groups]
                <5>1. i.after.files[q] =
                         [ files[q] EXCEPT !.exists = TRUE,
                               !.groups = IF Matches(q)
                                          THEN (@ \ {manifest.entry[q]}) \cup {version}
                                          ELSE @ ]
                    BY <2>2
                <5> QED
                    BY <2>4, <5>1 DEF File
            <4> QED
                BY <2>4, <3>1, <4>1 DEF File
        <3>3. CASE Matches(q)
            <4>1. manifest.entry[q] = version /\ version \in files[q].groups
                BY <2>3, <2>4, <2>6, <3>3 DEF Matches
            <4>2. (files[q].groups \ {manifest.entry[q]}) \cup {version} = files[q].groups
                BY <4>1
            <4>3. files[q].exists = TRUE
                BY <2>4, <4>1 DEF Sound, File
            <4> QED
                BY <2>5, <3>2, <3>3, <4>2, <4>3
        <3>4. CASE ~ Matches(q)
            BY <2>4, <2>5, <3>2, <3>4 DEF Sound
        <3> QED
            BY <3>3, <3>4
    <2>7. IntentInv(i)
        <3> SUFFICES ASSUME NEW q \in Provider
                     PROVE  /\ i.before.files[q].text = i.after.files[q].text
                            /\ Ours(i.after.files[q]) \subseteq {i.after.manifest.entry[q]}
                            /\ Sound(i.after.files[q])
            BY <2>2, <2>6 DEF IntentInv
        <3>1. Ours(i.after.files[q]) \subseteq {i.after.manifest.entry[q]}
            <4>1. CASE Matches(q)
                BY <2>3, <2>4, <2>5, <4>1 DEF Ours
            <4>2. CASE ~ Matches(q)
                BY <2>3, <2>4, <2>5, <4>2 DEF Ours
            <4> QED
                BY <4>1, <4>2
        <3> QED
            BY <2>2, <2>5, <3>1 DEF Sound
    <2>8. ASSUME NEW q \in Provider \ Touched(i)
          PROVE  manifest.entry[q] = i.after.manifest.entry[q]
        <3>1. files[q] = i.after.files[q]
            BY <2>2, <2>8 DEF Touched
        <3>2. CASE Matches(q)
            <4>1. version \in files[q].groups /\ version \in Ours(files[q])
                BY <2>4, <2>5, <3>1, <3>2 DEF Ours, Altered
            <4> QED
                BY <2>3, <2>4, <3>2, <4>1
        <3>3. CASE ~ Matches(q)
            BY <2>3, <3>3
        <3> QED
            BY <3>2, <3>3
    <2>9. ProviderPlanInv(plan)
        BY <2>1, <2>2, <2>7, <2>8 DEF ProviderPlanInv, i
    <2> QED
        BY <2>9 DEF plan
<1> QED
    BY <1>1, <1>2

LEMMA ProviderStarted ==
    ASSUME Base, ProviderInv, NEW p \in Process, StartSetup(p)
    PROVE  ProviderInv'
<1>1. /\ Others(p) /\ Head(proc'[p].todo) = "compare" /\ UNCHANGED providerVars
      /\ \E version \in Version : proc'[p].plan = SetupPlan(version)
    BY StartKeeps DEF Base
<1>2. PICK version \in Version : proc'[p].plan.providers = ProviderPlan(version)
    BY <1>1 DEF SetupPlan
<1>3. ProviderPlanInv(proc'[p].plan.providers)
    BY <1>2, PlannedEntries, SetupAssumption
<1>4. \A step \in ProviderSection : ~ Doing(p, step)'
    BY <1>1 DEF Doing, ProviderSection
<1>5. ProviderPhase(p)'
    BY <1>3, <1>4 DEF ProviderPhase, ProviderSection
<1>6. ASSUME NEW q \in Process, q # p PROVE ProviderPhase(q)'
    <2>1. ProviderPhase(q) /\ proc'[q] = proc[q]
        BY <1>1, <1>6 DEF ProviderInv, Others
    <2>2. \A step : Doing(q, step)' <=> Doing(q, step)
        BY <2>1 DEF Doing
    <2> QED
        BY <1>1, <2>1, <2>2 DEF ProviderPhase, Visiting, Outcome, providerVars
<1>7. EntriesOK'
    BY <1>1, EntriesRest DEF providerVars
<1> QED
    BY <1>5, <1>6, <1>7 DEF ProviderInv, EntriesOK

LEMMA ProviderStep ==
    ASSUME Base, Base', ProviderInv, [SetupNext]_svars
    PROVE  ProviderInv'
<1>1. CASE UNCHANGED svars
    <2>1. UNCHANGED providerVars /\ UNCHANGED proc
        BY <1>1 DEF svars
    <2>2. EntriesOK'
        BY <2>1, EntriesRest DEF providerVars
    <2>3. ASSUME NEW p \in Process PROVE ProviderInv'
        BY <2>1, <2>3, ProviderAside DEF Kept, Others
    <2>4. Process = {} => ProviderInv'
        BY <2>2 DEF ProviderInv, EntriesOK
    <2> QED
        BY <2>3, <2>4
<1>2. CASE Edit
    BY <1>2, ProviderEdited
<1>3. ASSUME NEW p \in Process, StartSetup(p) PROVE ProviderInv'
    BY <1>3, ProviderStarted
<1>a. ASSUME NEW p \in Process, Kept(p), UNCHANGED providerVars, lease' # p PROVE ProviderInv'
    <2>1. ~ Within(p)'
        BY <1>a DEF Base, ControlInv
    <2>2. proc'[p].todo = << >> \/ Head(proc'[p].todo) \notin ProviderSection
        BY <2>1 DEF Within, Section, ProviderSection
    <2> QED
        BY <1>a, <2>2, ProviderAside
<1>b. ASSUME NEW p \in Process, NEW a, Doing(p, a), a \notin Section, Kept(p),
             UNCHANGED << providerVars, lease >>
      PROVE  ProviderInv'
    <2>1. ~ Within(p)
        BY <1>b DEF Within, Doing
    <2>2. lease # p
        BY <2>1 DEF Base, ControlInv
    <2> QED
        BY <1>a, <1>b, <2>2
<1> DEFINE Plain == {"compare", "runtime", "intent", "config", "pin manifest", "pin lock",
                     "ownership", "local", "bootstrap", "clear", "operation",
                     "deactivate", "unlink bootstrap", "forget", "untrack", "remove config",
                     "remove manifest", "remove lock file", "remove ownership"} \cup Locks
<1>c. \A a \in Plain : a \notin Section
    BY DEF Locks, Section
<1> HIDE DEF Plain
<1>d. ASSUME NEW p \in Process, NEW a \in Plain, Doing(p, a), Kept(p),
             UNCHANGED << providerVars, lease >>
      PROVE  ProviderInv'
    BY <1>b, <1>c, <1>d
<1>4. ASSUME NEW p \in Process,
             \/ Compare(p) \/ InstallRuntime(p) \/ NoteIntent(p) \/ Approve(p) \/ SwitchBootstrap(p)
             \/ ClearIntent(p) \/ InitialOperation(p) \/ Busy(p) \/ SkipHook(p)
      PROVE  ProviderInv'
    <2>1. Kept(p)
        BY <1>4, ActionKeeps DEF Base
    <2>2. UNCHANGED << providerVars, lease >> /\ \E a \in Plain : Doing(p, a)
        BY <1>4 DEF Compare, InstallRuntime, NoteIntent, Approve, SwitchBootstrap, ClearIntent,
                    InitialOperation, Busy, SkipHook, Plain, Locks
    <2> QED
        BY <1>d, <2>1, <2>2
<1>5. ASSUME NEW p \in Process, Deactivate(p) \/ UnlinkBootstrap(p) \/ Forget(p) \/ ReadOwnership(p)
      PROVE  ProviderInv'
    <2>1. Kept(p)
        BY <1>5, ActionKeeps DEF Base
    <2>2. UNCHANGED << providerVars, lease >> /\ \E a \in Plain : Doing(p, a)
        BY <1>5 DEF Deactivate, UnlinkBootstrap, Forget, ReadOwnership, Plain
    <2> QED
        BY <1>d, <2>1, <2>2
<1>6. ASSUME NEW p \in Process, WriteTracked(p) \/ RemoveTracked(p) PROVE ProviderInv'
    <2>1. Kept(p)
        BY <1>6, ActionKeeps DEF Base
    <2>2. /\ DOMAIN Publishing = {"config", "manifest", "lock"}
          /\ DOMAIN Removing = {"config", "manifest", "lock"}
          /\ \A file \in {"config", "manifest", "lock"} :
                 Publishing[file] \in Plain /\ Removing[file] \in Plain
        BY DEF Publishing, Removing, Plain
    <2>3. "ownership" \in Plain /\ "remove ownership" \in Plain
        BY DEF Plain
    <2>4. UNCHANGED << providerVars, lease >> /\ \E a \in Plain : Doing(p, a)
        BY <1>6, <2>2, <2>3 DEF WriteTracked, RemoveTracked
    <2> QED
        BY <1>d, <2>1, <2>4
<1>7. ASSUME NEW p \in Process,
             Unlock(p) \/ ThirdState(p) \/ EntriesStay(p) \/ HookGone(p) \/ Crash(p)
      PROVE  ProviderInv'
    <2>1. Kept(p)
        BY <1>7, ActionKeeps DEF Base
    <2>2. UNCHANGED providerVars /\ lease' # p
        BY <1>7, NameAssumption DEF Unlock, ThirdState, EntriesStay, HookGone, Crash
    <2> QED
        BY <1>a, <2>1, <2>2
<1>8. ASSUME NEW p \in Process, StartUninstall(p) PROVE ProviderInv'
    <2>1. Kept(p)
        BY <1>8, ActionKeeps DEF Base
    <2>2. UNCHANGED << providerVars, lease >> /\ ~ Within(p)
        BY <1>8 DEF StartUninstall, CanStart, Within
    <2>3. lease # p
        BY <2>2 DEF Base, ControlInv
    <2> QED
        BY <1>a, <2>1, <2>2, <2>3
<1>e. ASSUME NEW p \in Process,
             NEW a \in {"hook lock", "remove lock", "entries lock", "installing", "move",
                        "driver", "wrapper", "installed", "restore", "remove driver",
                        "remove record"},
             Doing(p, a), Done(p), Kept(p), UNCHANGED providerVars
      PROVE  ProviderInv'
    <2>1. a \notin Final
        BY DEF Final
    <2>2. GoesOn(p, a)
        BY <1>e, <2>1, DoneMoves DEF Base
    <2>3. FlowPairs(a, Head(proc'[p].todo))
        BY <2>2, FlowIsPairs DEF GoesOn
    <2>4. Head(proc'[p].todo) \notin ProviderSection
        BY <2>3 DEF FlowPairs, ProviderSection
    <2> QED
        BY <1>e, <2>4, ProviderAside
<1>f. ASSUME NEW p \in Process, NEW lock \in {"hook lock", "remove lock", "entries lock"},
             NEW enter, NEW fail, Enter(p, lock, enter, fail), Kept(p)
      PROVE  ProviderInv'
    <2>1. /\ Doing(p, lock) /\ UNCHANGED providerVars
          /\ UNCHANGED lease \/ Done(p)
        BY <1>f DEF Enter
    <2>2. lock \in Plain
        BY DEF Plain, Locks
    <2> QED
        BY <1>d, <1>e, <1>f, <2>1, <2>2
<1>9. ASSUME NEW p \in Process, InstallHook(p) \/ RemoveHook(p) PROVE ProviderInv'
    <2>1. Kept(p)
        BY <1>9, ActionKeeps DEF Base
    <2>2. \/ \E lock \in {"hook lock", "remove lock"} : \E enter, fail : Enter(p, lock, enter, fail)
          \/ \E a \in {"installing", "move", "driver", "wrapper", "installed", "restore",
                       "remove driver", "remove record"} : InHooks(p, a)
        BY <1>9 DEF InstallHook, RemoveHook
    <2>3. \A a : InHooks(p, a) => Doing(p, a) /\ Done(p) /\ UNCHANGED providerVars
        BY DEF InHooks
    <2> QED
        BY <1>e, <1>f, <2>1, <2>2, <2>3
<1>10. ASSUME NEW p \in Process, EnterEntries(p) PROVE ProviderInv'
    <2>1. Kept(p)
        BY <1>10, ActionKeeps DEF Base
    <2> QED
        BY <1>f, <1>10, <2>1 DEF EnterEntries
<1>11. ASSUME NEW p \in Process, EnterProviders(p) PROVE ProviderInv'
    <2>1. Kept(p)
        BY <1>11, ActionKeeps DEF Base
    <2>2. /\ Doing(p, "provider lock") /\ UNCHANGED providerVars /\ lease = Free
          /\ lease' = p \/ UNCHANGED lease
        BY <1>11 DEF EnterProviders, Enter
    <2>3. CASE UNCHANGED lease
        <3>1. "provider lock" \in Plain
            BY DEF Plain, Locks
        <3> QED
            BY <1>d, <2>1, <2>2, <2>3, <3>1
    <2> QED
        BY <1>11, <2>2, <2>3, EnterProvidersStep
<1>12. ASSUME NEW p \in Process, PublishInstall(p) \/ Finish(p) \/ RemoveEntries(p)
       PROVE  ProviderInv'
    BY <1>12, PublishStep, FinishStep, RemoveEntriesStep
<1>13. ASSUME NEW p \in Process, KeepHook(p) PROVE ProviderInv'
    <2>1. Kept(p) /\ Doing(p, "remove lock") /\ UNCHANGED providerVars
        BY <1>13, ActionKeeps DEF Base, KeepHook
    <2>2. Head(proc'[p].todo) = "remove driver"
        BY <1>13, <2>1, SkipMoves DEF Base, KeepHook
    <2> QED
        BY <2>1, <2>2, ProviderAside DEF ProviderSection
<1> QED
    BY <1>1, <1>2, <1>3, <1>4, <1>5, <1>6, <1>7, <1>8, <1>9, <1>10, <1>11, <1>12, <1>13
    DEF SetupNext

LEMMA ProviderAlways == SetupSpec => []ProviderInv
<1>1. SetupInit => ProviderInv
    <2> SUFFICES ASSUME SetupInit PROVE ProviderInv
        OBVIOUS
    <2>1. /\ \A q \in Provider : files[q].groups = {} /\ theirs[q] = files[q].text
          /\ manifest = NoManifest /\ pending = NoIntent
        <3> DEFINE F == { [ Missing EXCEPT !.exists = text # Blank, !.text = text ] : text \in Given }
        <3>1. \A file \in F : file.groups = {}
            BY DEF Missing
        <3>2. /\ files \in [Provider -> F] /\ theirs = [p \in Provider |-> files[p].text]
              /\ manifest = NoManifest /\ pending = NoIntent
            BY DEF SetupInit, ProviderInit
        <3> HIDE DEF F
        <3> QED
            BY <3>1, <3>2
    <2>2. \A p \in Process : ProviderPhase(p)
        BY DEF SetupInit, ProviderPhase, Idle, Doing
    <2>3. ProviderEditsKept /\ GroupsRecorded /\ \A q \in Provider : Sound(files[q])
        BY <2>1 DEF ProviderEditsKept, GroupsRecorded, Sound
    <2>4. PendingInv
        BY <2>1 DEF PendingInv, IntentInv, NoIntent, NoneMissing, Missing, Ours, Sound, Touched
    <2> QED
        BY <2>2, <2>3, <2>4 DEF ProviderInv
<1>2. Base /\ Base' /\ ProviderInv /\ [SetupNext]_svars => ProviderInv'
    BY ProviderStep
<1> QED
    BY <1>1, <1>2, BaseAlways, PTL DEF SetupSpec

\* Installing, recovering and removing an entry never undo what the user wrote
\* in the same file, unless it was saved between the comparison of this file and
\* the renaming that follows.
THEOREM ProviderEditsAlwaysKept == SetupSpec => []ProviderEditsKept
<1>1. ProviderInv => ProviderEditsKept
    BY DEF ProviderInv
<1> QED
    BY <1>1, ProviderAlways, PTL

\* While no intent is pending, the manifest lists every group of ours.
THEOREM GroupsAlwaysRecorded == SetupSpec => []GroupsRecorded
<1>1. ProviderInv => GroupsRecorded
    BY DEF ProviderInv
<1> QED
    BY <1>1, ProviderAlways, PTL

-----------------------------------------------------------------------------
(* The founding of a ledger *)

\* A setup has these steps, in these places.
Listed(k) ==
    CASE k = 1 -> "compare" [] k = 2 -> "runtime" [] k = 3 -> "intent"
      [] k = 4 -> "config" [] k = 5 -> "pin manifest" [] k = 6 -> "pin lock"
      [] k = 7 -> "ownership" [] k = 8 -> "provider lock" [] k = 9 -> "publish"
      [] k = 10 -> "write" [] k = 11 -> "manifest" [] k = 12 -> "retire"
      [] k = 13 -> "unlock" [] k = 14 -> "local" [] k = 15 -> "bootstrap"
      [] k = 16 -> "hook lock" [] k = 17 -> "installing" [] k = 18 -> "move"
      [] k = 19 -> "driver" [] k = 20 -> "wrapper" [] k = 21 -> "installed"
      [] k = 22 -> "unlock" [] k = 23 -> "clear" [] OTHER -> "operation"

\* A list of the n steps after a place.
Lists(s, place, n) ==
    /\ s \in Seq(SetupStep) /\ Len(s) = n
    /\ \A k \in 1 .. n : s[k] = Listed(place + k)

LEMMA ConcatLists ==
    ASSUME NEW s, NEW t, NEW m \in Nat, NEW n \in Nat, Lists(s, 0, m), Lists(t, m, n)
    PROVE  Lists(s \o t, 0, m + n)
<1>1. s \in Seq(SetupStep) /\ Len(s) = m /\ t \in Seq(SetupStep) /\ Len(t) = n
    BY DEF Lists
<1>2. s \o t \in Seq(SetupStep) /\ Len(s \o t) = m + n
    BY <1>1
<1>3. ASSUME NEW k \in 1 .. m + n PROVE (s \o t)[k] = Listed(0 + k)
    <2>1. CASE k =< m
        <3>1. k \in 1 .. m /\ 0 + k = k
            BY <2>1
        <3>2. (s \o t)[k] = s[k]
            BY <1>1, <2>1
        <3>3. s[k] = Listed(0 + k)
            BY <3>1 DEF Lists
        <3> QED
            BY <3>2, <3>3
    <2>2. CASE k > m
        <3>1. k - m \in 1 .. n /\ m + (k - m) = 0 + k
            BY <2>2
        <3>2. (s \o t)[k] = t[k - Len(s)]
            BY <1>1, <2>2
        <3>3. t[k - m] = Listed(m + (k - m))
            BY <3>1 DEF Lists
        <3>4. Len(s) = m
            BY <1>1
        <3> QED
            BY <3>1, <3>2, <3>3, <3>4
    <2>3. k =< m \/ k > m
        OBVIOUS
    <2> QED
        BY <2>1, <2>2, <2>3, Zenon
<1> QED
    BY <1>2, <1>3 DEF Lists

LEMMA SetupListed == Lists(SetupSteps, 0, 24)
<1> DEFINE X == << "compare", "runtime", "intent", "config", "pin manifest", "pin lock",
                   "ownership" >>
           Y == << "clear", "operation" >>
           XP == X \o ProviderSteps
           XPA == XP \o Activation
           XPAH == XPA \o HookSteps
<1>1. Lists(X, 0, 7)
    <2>1. X \in Seq(SetupStep) /\ Len(X) = 7 /\ \A k \in 1 .. 7 : X[k] = Listed(0 + k)
        BY DEF SetupStep, Listed
    <2> QED
        BY <2>1 DEF Lists
<1>2. Lists(ProviderSteps, 7, 6)
    <2>1. /\ ProviderSteps \in Seq(SetupStep) /\ Len(ProviderSteps) = 6
          /\ \A k \in 1 .. 6 : ProviderSteps[k] = Listed(7 + k)
        BY DEF SetupStep, ProviderSteps, Listed
    <2> QED
        BY <2>1 DEF Lists
<1>3. Lists(Activation, 13, 2)
    <2>1. /\ Activation \in Seq(SetupStep) /\ Len(Activation) = 2
          /\ \A k \in 1 .. 2 : Activation[k] = Listed(13 + k)
        BY DEF SetupStep, Activation, Listed
    <2> QED
        BY <2>1 DEF Lists
<1>4. Lists(HookSteps, 15, 7)
    <2>1. /\ HookSteps \in Seq(SetupStep) /\ Len(HookSteps) = 7
          /\ \A k \in 1 .. 7 : HookSteps[k] = Listed(15 + k)
        BY DEF SetupStep, HookSteps, Listed
    <2> QED
        BY <2>1 DEF Lists
<1>5. Lists(Y, 22, 2)
    <2>1. Y \in Seq(SetupStep) /\ Len(Y) = 2 /\ \A k \in 1 .. 2 : Y[k] = Listed(22 + k)
        BY DEF SetupStep, Listed
    <2> QED
        BY <2>1 DEF Lists
<1>6. SetupSteps = XPAH \o Y
    BY DEF SetupSteps
<1>7. 7 + 6 = 13 /\ 13 + 2 = 15 /\ 15 + 7 = 22 /\ 22 + 2 = 24
    OBVIOUS
<1> HIDE DEF X, Y
<1>8. Lists(XP, 0, 13)
    <2>1. Lists(XP, 0, 7 + 6)
        BY <1>1, <1>2, ConcatLists
    <2> QED
        BY <1>7, <2>1
<1> HIDE DEF XP
<1>9. Lists(XPA, 0, 15)
    <2>1. Lists(XPA, 0, 13 + 2)
        BY <1>3, <1>8, ConcatLists
    <2> QED
        BY <1>7, <2>1
<1> HIDE DEF XPA
<1>10. Lists(XPAH, 0, 22)
    <2>1. Lists(XPAH, 0, 15 + 7)
        BY <1>4, <1>9, ConcatLists
    <2> QED
        BY <1>7, <2>1
<1> HIDE DEF XPAH
<1>11. Lists(SetupSteps, 0, 22 + 2)
    BY <1>5, <1>6, <1>10, ConcatLists
<1> QED
    BY <1>7, <1>11

LEMMA EmptyList ==
    ASSUME NEW S, NEW s \in Seq(S), Len(s) = 0
    PROVE  s = << >>
OBVIOUS

LEMMA RestLists ==
    ASSUME NEW s, NEW m \in Nat, NEW l \in Nat, NEW n \in Nat, n < l, Lists(s, m, l)
    PROVE  Lists(SubSeq(s, n + 1, Len(s)), m + n, l - n)
<1> DEFINE rest == SubSeq(s, n + 1, Len(s))
<1>1. s \in Seq(SetupStep) /\ Len(s) = l
    BY DEF Lists
<1>2. /\ rest \in Seq(SetupStep) /\ Len(rest) = l - n
      /\ \A k \in 1 .. l - n : rest[k] = s[n + k]
    BY <1>1
<1>3. ASSUME NEW k \in 1 .. l - n PROVE rest[k] = Listed(m + n + k)
    <2>1. n + k \in 1 .. l /\ m + (n + k) = m + n + k
        OBVIOUS
    <2>2. s[n + k] = Listed(m + (n + k))
        BY <2>1 DEF Lists
    <2>3. rest[k] = s[n + k]
        BY <1>2
    <2> HIDE DEF rest
    <2> QED
        BY <2>1, <2>2, <2>3
<1> HIDE DEF rest
<1>4. Lists(rest, m + n, l - n)
    BY <1>2, <1>3 DEF Lists
<1> QED
    BY <1>4 DEF rest

\* A setup whose next step is the k-th.
At(p, k) == Lists(proc[p].todo, k - 1, 25 - k)

LEMMA AtHead ==
    ASSUME NEW p \in Process, NEW k \in 1 .. 24, At(p, k)
    PROVE  proc[p].todo # << >> /\ \A a : Doing(p, a) => a = Listed(k)
<1>1. /\ proc[p].todo \in Seq(SetupStep) /\ Len(proc[p].todo) = 25 - k
      /\ \A i \in 1 .. 25 - k : proc[p].todo[i] = Listed(k - 1 + i)
    BY DEF At, Lists
<1>2. 1 \in 1 .. 25 - k /\ k - 1 + 1 = k
    OBVIOUS
<1>3. proc[p].todo # << >> /\ Head(proc[p].todo) = proc[p].todo[1]
    BY <1>1, <1>2
<1>4. proc[p].todo[1] = Listed(k - 1 + 1)
    BY <1>1, <1>2
<1> QED
    BY <1>2, <1>3, <1>4 DEF Doing

\* A setup that goes on some steps further in its list.
LEMMA Further ==
    ASSUME ProcOK, NEW p \in Process, proc[p].kind = "setup", NEW k \in 1 .. 24, At(p, k),
           NEW n \in Nat, k + n =< 24, NEW rest, Todo(p, rest), OrderInv(rest),
           rest = SubSeq(proc[p].todo, n + 1, Len(proc[p].todo))
    PROVE  At(p, k + n)'
<1>1. k - 1 \in Nat /\ 25 - k \in Nat /\ n < 25 - k
      /\ k - 1 + n = (k + n) - 1 /\ 25 - k - n = 25 - (k + n) /\ 25 - (k + n) >= 1
    OBVIOUS
<1>2. Lists(rest, k - 1 + n, 25 - k - n)
    BY <1>1, RestLists DEF At
<1>3. Lists(rest, (k + n) - 1, 25 - (k + n))
    BY <1>1, <1>2
<1>4. rest \in Seq(SetupStep) /\ rest # << >>
    <2>1. rest \in Seq(SetupStep) /\ Len(rest) = 25 - (k + n)
        BY <1>3 DEF Lists
    <2>2. Len(rest) # 0
        BY <1>1, <2>1
    <2> QED
        BY <2>1, <2>2
<1>5. proc'[p].todo = rest
    <2>1. rest \in Seq(StepOf(p)) /\ proc[p].todo # << >>
        BY <1>4, AtHead DEF StepOf
    <2> QED
        BY <1>4, <2>1, TodoMoves
<1>6. Lists(proc'[p].todo, (k + n) - 1, 25 - (k + n))
    BY <1>3, <1>5, Zenon
<1> QED
    BY <1>6, Zenon DEF At

\* A step of a setup.
LEMMA DoneAt ==
    ASSUME ProcOK, NEW p \in Process, proc[p].kind = "setup", NEW k \in 1 .. 24, At(p, k),
           Done(p), proc'[p].kind = "setup"
    PROVE  k < 24 /\ At(p, k + 1)'
<1> DEFINE todo == proc[p].todo
<1>1. todo \in Seq(SetupStep) /\ Len(todo) = 25 - k /\ todo # << >>
    BY AtHead DEF At, Lists
<1>2. OrderInv(Tail(todo))
    BY <1>1, CommandType, TailMoves
<1>3. Tail(todo) = SubSeq(todo, 1 + 1, Len(todo)) /\ Todo(p, Tail(todo))
    BY <1>1 DEF Done
<1>4. CASE k = 24
    <2>1. Tail(todo) = << >>
        <3> HIDE DEF todo
        <3>1. Len(todo) = 1
            BY <1>1, <1>4
        <3>2. Len(Tail(todo)) = Len(todo) - 1 /\ Tail(todo) \in Seq(SetupStep)
            BY <1>1
        <3>3. Len(Tail(todo)) = 0
            BY <3>1, <3>2
        <3> QED
            BY <3>2, <3>3, EmptyList
    <2>2. Stops(p)
        BY <1>1, <1>3, <2>1, StopMoves
    <2> QED
        BY <2>2 DEF Stops, Idle
<1>5. CASE k < 24
    <2>1. k + 1 =< 24
        BY <1>5
    <2>2. At(p, k + 1)'
        BY <1>2, <1>3, <2>1, Further
    <2> QED
        BY <1>5, <2>2
<1>6. k = 24 \/ k < 24
    OBVIOUS
<1> QED
    BY <1>4, <1>5, <1>6

\* The least element of a set of numbers.
LEMMA LeastIs ==
    ASSUME NEW I, I \subseteq Nat, NEW m \in I, \A n \in I : m =< n
    PROVE  Min(I) = m
<1>1. \A x \in I : (\A n \in I : x =< n) => x = m
    OBVIOUS
<1> QED
    BY <1>1 DEF Min

\* What is left out ends with the first release of the lease.
LEMMA FirstUnlock ==
    ASSUME NEW S, NEW todo \in Seq(S), NEW m \in 1 .. Len(todo), todo[m] = "unlock",
           \A i \in 1 .. m - 1 : todo[i] # "unlock"
    PROVE  AfterSection(todo) = SubSeq(todo, m + 1, Len(todo))
<1>1. /\ { i \in 1 .. Len(todo) : todo[i] = "unlock" } \subseteq Nat
      /\ m \in { i \in 1 .. Len(todo) : todo[i] = "unlock" }
    OBVIOUS
<1>2. ASSUME NEW n \in { i \in 1 .. Len(todo) : todo[i] = "unlock" } PROVE m =< n
    <2>1. n \in 1 .. Len(todo) /\ n \notin 1 .. m - 1 /\ m \in Nat /\ Len(todo) \in Nat
        BY <1>2
    <2> QED
        BY <2>1
<1>3. Min({ i \in 1 .. Len(todo) : todo[i] = "unlock" }) = m
    BY <1>1, <1>2, LeastIs
<1>4. SelectInSeq(todo, LAMBDA step : step = "unlock") = m
    BY <1>1, <1>3 DEF SelectInSeq
<1> QED
    BY <1>4 DEF AfterSection

\* A setup that leaves out a section.
LEMMA LeaveAt ==
    ASSUME ProcOK, NEW p \in Process, proc[p].kind = "setup", NEW k \in 1 .. 24, At(p, k),
           LeaveSection(p), NEW a \in Locks, Doing(p, a)
    PROVE  (k = 8 /\ At(p, 14)') \/ (k = 16 /\ At(p, 23)')
<1> DEFINE todo == proc[p].todo
           rest == AfterSection(todo)
<1>1. /\ todo \in Seq(SetupStep) /\ Len(todo) = 25 - k /\ todo # << >>
      /\ \A i \in 1 .. 25 - k : todo[i] = Listed(k - 1 + i)
    BY AtHead DEF At, Lists
<1>2. Listed(k) \in Locks
    BY AtHead
<1>3. k = 8 \/ k = 16
    BY <1>2 DEF Listed, Locks
<1>4. Todo(p, rest)
    BY DEF LeaveSection
<1>5. OrderInv(rest)
    BY <1>1, CommandType, AfterMoves
<1>6. ASSUME NEW m \in Nat, m >= 1, k + m =< 24, Listed(k - 1 + m) = "unlock",
             \A i \in 1 .. m - 1 : Listed(k - 1 + i) # "unlock"
      PROVE  At(p, k + m)'
    <2> HIDE DEF todo, rest
    <2>a. Len(todo) = 25 - k
        BY <1>1
    <2>b. m >= 1 /\ k + m =< 24
        BY <1>6
    <2>1. m \in 1 .. Len(todo) /\ m \in 1 .. 25 - k
        BY <2>a, <2>b
    <2>2. todo[m] = "unlock" /\ \A i \in 1 .. m - 1 : todo[i] # "unlock"
        <3>1. \A i \in 1 .. m - 1 : i \in 1 .. 25 - k
            BY <1>6
        <3> QED
            BY <1>1, <1>6, <2>1, <3>1
    <2>3. rest = SubSeq(todo, m + 1, Len(todo))
        BY <1>1, <2>1, <2>2, FirstUnlock DEF rest
    <2> QED
        BY <1>4, <1>5, <1>6, <2>3, Further DEF todo
<1>7. CASE k = 8
    <2>1. Listed(8 - 1 + 6) = "unlock" /\ \A i \in 1 .. 6 - 1 : Listed(8 - 1 + i) # "unlock"
        BY DEF Listed
    <2>2. At(p, 8 + 6)'
        BY <1>6, <1>7, <2>1
    <2>3. 8 + 6 = 14
        OBVIOUS
    <2> QED
        BY <1>7, <2>2, <2>3
<1>8. CASE k = 16
    <2>1. Listed(16 - 1 + 7) = "unlock" /\ \A i \in 1 .. 7 - 1 : Listed(16 - 1 + i) # "unlock"
        BY DEF Listed
    <2>2. At(p, 16 + 7)'
        BY <1>6, <1>8, <2>1
    <2>3. 16 + 7 = 23
        OBVIOUS
    <2> QED
        BY <1>8, <2>2, <2>3
<1> QED
    BY <1>3, <1>7, <1>8

\* Setup is one step further, or where it goes on without a section.
Onward(k, l) == l = k \/ l = k + 1 \/ (k = 8 /\ l = 14) \/ (k = 16 /\ l = 23)

LEMMA StartsIdle ==
    ASSUME NEW p \in Process, StartUninstall(p)
    PROVE  proc[p].todo = << >>
BY DEF StartUninstall, CanStart

LEMMA CrashEnds ==
    ASSUME ProcOK, NEW p \in Process, Crash(p)
    PROVE  proc'[p].kind # "setup"
BY DEF Crash, ProcOK, Idle

\* How a setup gets on.
LEMMA Advances ==
    ASSUME ProcOK, NEW p \in Process,
           \/ InstallRuntime(p) \/ NoteIntent(p) \/ WriteTracked(p) \/ Approve(p)
           \/ SwitchBootstrap(p) \/ ClearIntent(p) \/ InitialOperation(p) \/ Compare(p)
           \/ Busy(p) \/ Unlock(p) \/ SkipHook(p) \/ InstallHook(p) \/ RemoveHook(p)
           \/ KeepHook(p) \/ HookGone(p)
           \/ EnterProviders(p) \/ PublishInstall(p) \/ Finish(p) \/ ThirdState(p)
           \/ EnterEntries(p) \/ RemoveEntries(p) \/ EntriesStay(p)
           \/ StartUninstall(p) \/ Deactivate(p) \/ UnlinkBootstrap(p) \/ Forget(p)
           \/ ReadOwnership(p) \/ RemoveTracked(p) \/ Crash(p),
           proc'[p].kind = "setup", NEW k \in 1 .. 24, At(p, k)
    PROVE  \E l \in 1 .. 24 : At(p, l)' /\ Onward(k, l)
<1>1. proc[p].kind = "setup"
    BY ActionKeeps DEF Kept
<1>2. proc[p].todo # << >>
    BY AtHead
<1>a. ASSUME Done(p) PROVE \E l \in 1 .. 24 : At(p, l)' /\ Onward(k, l)
    <2>1. k < 24 /\ At(p, k + 1)'
        BY <1>1, <1>a, DoneAt
    <2> QED
        BY <2>1 DEF Onward
<1>b. ASSUME UNCHANGED proc PROVE \E l \in 1 .. 24 : At(p, l)' /\ Onward(k, l)
    BY <1>b DEF At, Onward
<1>c. ASSUME Todo(p, << >>) PROVE FALSE
    BY <1>2, <1>c, StopMoves DEF Stops, Idle
<1>d. ASSUME NEW a \in Locks, Doing(p, a), LeaveSection(p)
      PROVE  \E l \in 1 .. 24 : At(p, l)' /\ Onward(k, l)
    <2>1. (k = 8 /\ At(p, 14)') \/ (k = 16 /\ At(p, 23)')
        BY <1>1, <1>d, LeaveAt
    <2> QED
        BY <2>1 DEF Onward
<1>e. ASSUME NEW a, Doing(p, a) PROVE a \in SetupStep
    BY <1>1, <1>2, <1>e, CommandType DEF Doing, StepOf
<1>f. ASSUME Throw(p) PROVE FALSE
    <2>1. ~ Doing(p, "remove lock")
        <3>1. "remove lock" \notin SetupStep
            BY DEF SetupStep
        <3> QED
            BY <3>1, <1>e, Zenon
    <2> QED
        BY <1>c, <1>f, <2>1 DEF Throw
<1>g. ASSUME NEW command, proc' = [proc EXCEPT ![p] = command], command.kind # "setup" PROVE FALSE
    BY <1>g DEF ProcOK
<1>h. ASSUME NEW a \in UninstallStep \ SetupStep, Doing(p, a) PROVE FALSE
    BY <1>e, <1>h
<1>3. ASSUME \/ InstallRuntime(p) \/ NoteIntent(p) \/ WriteTracked(p) \/ Approve(p)
             \/ SwitchBootstrap(p) \/ ClearIntent(p) \/ InitialOperation(p) \/ Compare(p)
             \/ Unlock(p)
      PROVE  Done(p) \/ Throw(p)
    BY <1>3 DEF InstallRuntime, NoteIntent, WriteTracked, Approve, SwitchBootstrap, ClearIntent,
                InitialOperation, Compare, Unlock
<1>i. ASSUME NEW lock \in Locks, NEW enter, NEW fail, Enter(p, lock, enter, fail)
      PROVE  \E l \in 1 .. 24 : At(p, l)' /\ Onward(k, l)
    BY <1>i, <1>a, <1>d, <1>f DEF Enter
<1>4. "hook lock" \in Locks /\ "remove lock" \in Locks /\ "provider lock" \in Locks
      /\ "entries lock" \in Locks
    BY DEF Locks
<1>5. ASSUME Busy(p) \/ SkipHook(p) PROVE \E l \in 1 .. 24 : At(p, l)' /\ Onward(k, l)
    BY <1>4, <1>5, <1>d, <1>f DEF Busy, SkipHook
<1>6. ASSUME InstallHook(p) \/ RemoveHook(p) PROVE \E l \in 1 .. 24 : At(p, l)' /\ Onward(k, l)
    BY <1>4, <1>6, <1>a, <1>i DEF InstallHook, RemoveHook, InHooks
<1>7. ASSUME EnterProviders(p) \/ EnterEntries(p)
      PROVE  \E l \in 1 .. 24 : At(p, l)' /\ Onward(k, l)
    BY <1>4, <1>7, <1>i DEF EnterProviders, EnterEntries
<1>8. ASSUME PublishInstall(p) \/ Finish(p) \/ ThirdState(p)
      PROVE  \E l \in 1 .. 24 : At(p, l)' /\ Onward(k, l)
    BY <1>8, <1>a, <1>b, <1>f DEF PublishInstall, Finish, ThirdState
<1>9. ~ StartUninstall(p) /\ ~ Crash(p)
    <2>1. ~ Crash(p)
        BY CrashEnds
    <2>2. ~ StartUninstall(p)
        BY <1>2, StartsIdle
    <2> QED
        BY <2>1, <2>2
<1>10. ~ RemoveEntries(p) /\ ~ EntriesStay(p) /\ ~ Deactivate(p) /\ ~ UnlinkBootstrap(p)
       /\ ~ Forget(p) /\ ~ KeepHook(p) /\ ~ HookGone(p) /\ ~ ReadOwnership(p) /\ ~ RemoveTracked(p)
    <2>1. {"entries", "deactivate", "unlink bootstrap", "forget", "untrack", "remove config",
           "remove lock", "restore",
           "remove manifest", "remove lock file", "remove ownership"} \subseteq UninstallStep \ SetupStep
        BY DEF UninstallStep, SetupStep
    <2>2. /\ DOMAIN Removing = {"config", "manifest", "lock"}
          /\ \A file \in {"config", "manifest", "lock"} :
                 Removing[file] \in {"remove config", "remove manifest", "remove lock file"}
        BY DEF Removing
    <2>3. ~ RemoveTracked(p)
        BY <2>1, <2>2, <1>h DEF RemoveTracked
    <2> QED
        BY <2>1, <2>3, <1>f, <1>h DEF RemoveEntries, InProviders, EntriesStay, Deactivate,
           UnlinkBootstrap, Forget, ReadOwnership, KeepHook, HookGone
<1> QED
    BY <1>3, <1>a, <1>f, <1>5, <1>6, <1>7, <1>8, <1>9, <1>10

\* No two commands are used for setup.
OneSetup == \A p, q \in Process : "setup" \in Kinds[p] \cap Kinds[q] => p = q

\* Founded here, and neither requested nor given up.
Live(i) == i \in 2 .. drawn + 1 /\ i \notin requested \cup dropped

\* The approval of the clone, where it has one, allows the founding.
LocalFounds == local = NoLocal \/ local.init

CloneFounds ==
    /\ Declared = NoConfig \/ Declared.id # 0
    /\ local = NoLocal \/ local.id # 0
    /\ Declared.id =< drawn + 1 /\ local.id =< drawn + 1 /\ intent =< drawn + 1
    /\ intent # 0 => LocalFounds
    /\ Live(Declared.id) => intent = Declared.id \/ (local.id = Declared.id /\ local.init)
    /\ local # NoLocal /\ ~ local.init => ~ Live(local.id)

\* No other repository than the planned one is in the clone, and a plan that
\* may not found it has nothing to found.
PlanFounds(plan) ==
    /\ plan.id >= 1 /\ plan.id =< drawn + 1
    /\ Declared.id \in {0, plan.id} /\ intent \in {0, plan.id}
    /\ plan.init => LocalFounds
    /\ ~ plan.init => intent = 0 /\ ~ Live(plan.id)

\* The intent is kept until the approval takes its place.
PlaceFounds(plan, k) ==
    /\ plan.init /\ k >= 4 /\ k =< 23 => intent = plan.id \/ plan.id \in dropped
    /\ plan.init /\ k >= 15 => (local.id = plan.id /\ local.init) \/ plan.id \in dropped

RunFounds(p) ==
    proc[p].kind = "setup" =>
        /\ "setup" \in Kinds[p]
        /\ PlanFounds(proc[p].plan)
        /\ \E k \in 1 .. 24 : At(p, k) /\ PlaceFounds(proc[p].plan, k)

FoundingInv == CloneFounds /\ \A p \in Process : RunFounds(p)

LEMMA FoundTypes ==
    ASSUME SetupTypeOK
    PROVE  /\ Declared \in Config /\ Declared.id \in Nat
           /\ local \in Local /\ local.id \in Nat /\ local.init \in BOOLEAN
           /\ intent \in Nat /\ drawn \in Nat
           /\ requested \in SUBSET Nat /\ dropped \in SUBSET Nat
<1>1. tracked \in [files : Contents, owned : Contents]
    BY DEF SetupTypeOK, CloneTypeOK
<1>2. Declared \in Config
    BY <1>1 DEF Declared, Contents
<1>3. Declared.id \in Nat
    BY <1>2 DEF Config
<1>4. local \in Local
    BY DEF SetupTypeOK, CloneTypeOK
<1> QED
    BY <1>2, <1>3, <1>4 DEF SetupTypeOK, CloneTypeOK, Local

LEMMA PlanTypes ==
    ASSUME ProcOK, NEW p \in Process, proc[p].kind = "setup"
    PROVE  /\ proc[p].plan \in SetupPlans /\ proc[p].plan.id \in Nat
           /\ proc[p].plan.init \in BOOLEAN
<1>1. proc[p] \in Setups
    BY DEF ProcOK, Idle, Uninstalls
<1>2. proc[p].plan \in SetupPlans
    BY <1>1 DEF Setups
<1> QED
    BY <1>2 DEF SetupPlans

\* What a step keeps for every plan.
PlansStay ==
    \A plan \in SetupPlans : PlanFounds(plan) =>
        /\ PlanFounds(plan)'
        /\ \A k \in 1 .. 24 : PlaceFounds(plan, k) => PlaceFounds(plan, k)'

\* A command that does not move.
LEMMA OthersFound ==
    ASSUME ProcOK, PlansStay, NEW q \in Process, proc'[q] = proc[q], RunFounds(q)
    PROVE  RunFounds(q)'
<1>1. proc'[q] = proc[q]
    OBVIOUS
<1> SUFFICES ASSUME proc'[q].kind = "setup" PROVE RunFounds(q)'
    BY DEF RunFounds
<1> DEFINE plan == proc[q].plan
<1>2. /\ proc[q].kind = "setup" /\ plan \in SetupPlans
    BY <1>1, PlanTypes
<1>3. PICK k \in 1 .. 24 : At(q, k) /\ PlaceFounds(plan, k)
    BY <1>2 DEF RunFounds
<1>4. "setup" \in Kinds[q] /\ PlanFounds(plan)
    BY <1>2 DEF RunFounds
<1>5. At(q, k)'
    BY <1>1, <1>3 DEF At
<1>6. plan' = plan
    BY <1>1
<1>7. ASSUME NEW x \in SetupPlans, x = plan PROVE PlanFounds(x)' /\ PlaceFounds(x, k)'
    BY <1>3, <1>4, <1>7 DEF PlansStay
<1>8. PlanFounds(plan)' /\ PlaceFounds(plan, k)'
    BY <1>2, <1>6, <1>7
<1> QED
    BY <1>3, <1>4, <1>5, <1>8 DEF RunFounds

\* Nothing that a founding depends on changes, but for what was requested and
\* given up.
Calm ==
    /\ Declared' = Declared /\ local' = local /\ intent' = intent /\ drawn' = drawn
    /\ requested \subseteq requested' /\ dropped \subseteq dropped'

LEMMA CalmStays ==
    ASSUME Calm
    PROVE  (CloneFounds => CloneFounds') /\ PlansStay
<1>1. \A i : Live(i)' => Live(i)
    BY DEF Calm, Live
<1>2. LocalFounds' = LocalFounds
    BY DEF Calm, LocalFounds
<1>3. Live(Declared.id)' => Live(Declared.id)
    BY DEF Calm, Live
<1>4. Live(local.id)' => Live(local.id)
    BY DEF Calm, Live
<1>5. CloneFounds => CloneFounds'
    BY <1>2, <1>3, <1>4 DEF Calm, CloneFounds
<1>6. ASSUME NEW plan \in SetupPlans
      PROVE  /\ PlanFounds(plan) => PlanFounds(plan)'
             /\ \A k \in 1 .. 24 : PlaceFounds(plan, k) => PlaceFounds(plan, k)'
    <2>1. Live(plan.id)' => Live(plan.id)
        BY <1>1
    <2>2. PlanFounds(plan) => PlanFounds(plan)'
        BY <1>2, <2>1 DEF Calm, PlanFounds
    <2>3. \A k \in 1 .. 24 : PlaceFounds(plan, k) => PlaceFounds(plan, k)'
        BY DEF Calm, PlaceFounds
    <2> QED
        BY <2>2, <2>3
<1> QED
    BY <1>5, <1>6 DEF PlansStay

\* A setup that goes on where nothing depends on its place.
LEMMA PlaceMoves ==
    ASSUME NEW plan, NEW k \in 1 .. 24, NEW l \in 1 .. 24, Onward(k, l), k # 3, k # 14,
           PlaceFounds(plan, k)
    PROVE  PlaceFounds(plan, l)
<1>1. (l >= 4 /\ l =< 23 => k >= 4 /\ k =< 23) /\ (l >= 15 => k >= 15)
    BY DEF Onward
<1> QED
    BY <1>1 DEF PlaceFounds

\* Nothing moves.
LEMMA Still ==
    ASSUME Base, FoundingInv, Calm, UNCHANGED proc
    PROVE  FoundingInv'
<1>1. CloneFounds'
    BY CalmStays DEF FoundingInv
<1>2. ASSUME NEW q \in Process PROVE RunFounds(q)'
    BY CalmStays, OthersFound DEF Base, FoundingInv
<1> QED
    BY <1>1, <1>2 DEF FoundingInv

\* A command moves where nothing depends on its place.
LEMMA Quiet ==
    ASSUME Base, FoundingInv, NEW p \in Process, Kept(p), Calm,
           \A k \in 1 .. 24 : proc'[p].kind = "setup" /\ At(p, k) =>
               k # 3 /\ k # 14 /\ \E l \in 1 .. 24 : At(p, l)' /\ Onward(k, l)
    PROVE  FoundingInv'
<1>1. CloneFounds'
    BY CalmStays DEF FoundingInv
<1>2. ASSUME NEW q \in Process \ {p} PROVE RunFounds(q)'
    BY CalmStays, OthersFound DEF Base, FoundingInv, Kept, Others
<1>3. RunFounds(p)'
    <2> SUFFICES ASSUME proc'[p].kind = "setup" PROVE RunFounds(p)'
        BY DEF RunFounds
    <2>1. /\ proc[p].kind = "setup" /\ proc'[p].plan = proc[p].plan /\ RunFounds(p)
        BY DEF Kept, FoundingInv
    <2>2. PICK k \in 1 .. 24 : At(p, k) /\ PlaceFounds(proc[p].plan, k)
        BY <2>1 DEF RunFounds
    <2>3. PICK l \in 1 .. 24 : k # 3 /\ k # 14 /\ At(p, l)' /\ Onward(k, l)
        BY <2>2
    <2>4. ASSUME NEW plan, plan = proc[p].plan
          PROVE  PlanFounds(plan)' /\ PlaceFounds(plan, l)'
        <3>1. plan \in SetupPlans
            BY <2>1, <2>4, PlanTypes DEF Base
        <3>2. PlanFounds(plan) /\ PlaceFounds(plan, l)
            BY <2>1, <2>2, <2>3, <2>4, PlaceMoves DEF RunFounds
        <3> QED
            BY <3>1, <3>2, CalmStays DEF PlansStay
    <2>5. PlanFounds(proc[p].plan)' /\ PlaceFounds(proc[p].plan, l)'
        BY <2>1, <2>4
    <2>6. "setup" \in Kinds[p]
        BY <2>1 DEF RunFounds
    <2> QED
        BY <2>3, <2>5, <2>6 DEF RunFounds
<1> QED
    BY <1>1, <1>2, <1>3 DEF FoundingInv

LEMMA ThrowEnds ==
    ASSUME ProcOK, NEW p \in Process, proc[p].kind = "setup", proc[p].todo # << >>, Throw(p)
    PROVE  proc'[p].kind # "setup"
<1>1. Head(proc[p].todo) \in SetupStep
    BY CommandType DEF StepOf
<1>2. "remove lock" \notin SetupStep
    BY DEF SetupStep
<1>3. ~ Doing(p, "remove lock")
    BY <1>1, <1>2, Zenon DEF Doing
<1>4. Todo(p, << >>)
    BY <1>3 DEF Throw
<1> QED
    BY <1>4, StopMoves DEF Stops, Idle

\* The other commands, beside the only setup.
LEMMA Lone ==
    ASSUME Base, OneSetup, FoundingInv, NEW p \in Process, "setup" \in Kinds[p], Others(p),
           NEW q \in Process \ {p}
    PROVE  RunFounds(q)'
<1>1. proc[q].kind # "setup"
    BY DEF FoundingInv, RunFounds, OneSetup
<1>2. proc'[q].kind # "setup"
    BY <1>1 DEF Others
<1> QED
    BY <1>2 DEF RunFounds

\* A step of a setup of its own.
LEMMA OwnStep ==
    ASSUME Base, FoundingInv, NEW p \in Process, NEW a \in SetupStep \ UninstallStep,
           Doing(p, a)
    PROVE  /\ proc[p].kind = "setup" /\ "setup" \in Kinds[p] /\ proc[p].todo # << >>
           /\ proc[p].plan \in SetupPlans /\ proc[p].plan.id \in Nat
           /\ proc[p].plan.init \in BOOLEAN /\ PlanFounds(proc[p].plan)
           /\ \E k \in 1 .. 24 : At(p, k) /\ PlaceFounds(proc[p].plan, k) /\ Listed(k) = a
<1>1. proc[p].kind = "setup" /\ proc[p].todo # << >>
    BY InSetup DEF Base
<1>2. RunFounds(p)
    BY DEF FoundingInv
<1>3. PICK k \in 1 .. 24 : At(p, k) /\ PlaceFounds(proc[p].plan, k)
    BY <1>1, <1>2 DEF RunFounds
<1>4. Listed(k) = a
    BY <1>3, AtHead
<1> QED
    BY <1>1, <1>2, <1>3, <1>4, PlanTypes DEF Base, RunFounds

LEMMA OwnDone ==
    ASSUME Base, OneSetup, FoundingInv, NEW p \in Process, proc[p].kind = "setup",
           "setup" \in Kinds[p], NEW k \in 1 .. 24, At(p, k), Done(p), Kept(p), CloneFounds',
           proc'[p].kind = "setup" /\ k < 24 =>
               PlanFounds(proc[p].plan)' /\ PlaceFounds(proc[p].plan, k + 1)'
    PROVE  FoundingInv'
<1>1. ASSUME NEW q \in Process \ {p} PROVE RunFounds(q)'
    BY Lone DEF Kept
<1>2. RunFounds(p)'
    <2> SUFFICES ASSUME proc'[p].kind = "setup" PROVE RunFounds(p)'
        BY DEF RunFounds
    <2>1. k < 24 /\ At(p, k + 1)'
        BY DoneAt DEF Base
    <2>2. k + 1 \in 1 .. 24
        BY <2>1
    <2> QED
        BY <2>1, <2>2 DEF RunFounds
<1> QED
    BY <1>1, <1>2 DEF FoundingInv

\* The intent is noted.
LEMMA IntentFounds ==
    ASSUME Base, Base', OneSetup, FoundingInv, NEW p \in Process, NoteIntent(p)
    PROVE  FoundingInv'
<1> DEFINE plan == proc[p].plan
<1>1. "intent" \in SetupStep \ UninstallStep /\ Doing(p, "intent")
    BY DEF SetupStep, UninstallStep, NoteIntent
<1>2. /\ proc[p].kind = "setup" /\ "setup" \in Kinds[p] /\ proc[p].todo # << >>
      /\ plan.id \in Nat /\ plan.init \in BOOLEAN /\ PlanFounds(plan)
    BY <1>1, OwnStep
<1>3. PICK k \in 1 .. 24 : At(p, k) /\ PlaceFounds(plan, k) /\ Listed(k) = "intent"
    BY <1>1, OwnStep
<1>4. k = 3
    BY <1>3 DEF Listed
<1>5. Kept(p)
    BY ActionKeeps DEF Base
<1>6. /\ tracked' = tracked /\ local' = local /\ drawn' = drawn /\ requested' = requested
      /\ dropped' = dropped
      /\ \/ Throw(p) /\ intent' = intent
         \/ Done(p) /\ intent' = IF plan.init THEN plan.id ELSE intent
    BY DEF NoteIntent, histVars
<1>7. Declared' = Declared
    BY <1>6 DEF Declared
<1>8. CASE Throw(p) /\ intent' = intent
    <2>1. proc'[p].kind # "setup"
        BY <1>2, <1>8, ThrowEnds DEF Base
    <2> QED
        BY <1>5, <1>6, <1>7, <1>8, <2>1, Quiet DEF Calm
<1>9. CASE Done(p) /\ intent' = IF plan.init THEN plan.id ELSE intent
    <2>1. CloneFounds /\ Declared.id \in Nat
        BY FoundTypes DEF FoundingInv, Base
    <2>2. (\A i : Live(i)' <=> Live(i)) /\ LocalFounds' = LocalFounds
        BY <1>6 DEF Live, LocalFounds
    <2>3. Live(Declared.id)' = Live(Declared.id) /\ Live(local.id)' = Live(local.id)
        BY <1>6, <1>7 DEF Live
    <2>4. Live(Declared.id) => Declared.id # 0
        BY DEF Live
    <2>5. CloneFounds'
        BY <1>2, <1>6, <1>7, <1>9, <2>1, <2>2, <2>3, <2>4 DEF CloneFounds, PlanFounds
    <2>6. ASSUME NEW x, x = plan PROVE PlanFounds(x)' /\ PlaceFounds(x, 4)'
        <3>1. PlanFounds(x)'
            BY <1>2, <1>6, <1>7, <1>9, <2>2, <2>6 DEF PlanFounds
        <3>2. PlaceFounds(x, 4)'
            BY <1>9, <2>6 DEF PlaceFounds
        <3> QED
            BY <3>1, <3>2
    <2>7. proc'[p].kind = "setup" => PlanFounds(plan)' /\ PlaceFounds(plan, 4)'
        BY <1>5, <2>6 DEF Kept
    <2> QED
        BY <1>2, <1>3, <1>4, <1>5, <1>9, <2>5, <2>7, OwnDone
<1> QED
    BY <1>6, <1>8, <1>9

\* The config goes out, for the repository whose intent or approval is there.
LEMMA ConfigFounds ==
    ASSUME Base, Base', OneSetup, FoundingInv, NEW p \in Process, Doing(p, "config"), Done(p),
           Kept(p), UNCHANGED << intent, local, drawn, requested, dropped >>,
           Declared' = [id |-> proc[p].plan.id, version |-> proc[p].plan.version]
    PROVE  FoundingInv'
<1> DEFINE plan == proc[p].plan
<1>1. "config" \in SetupStep \ UninstallStep
    BY DEF SetupStep, UninstallStep
<1>2. /\ proc[p].kind = "setup" /\ "setup" \in Kinds[p]
      /\ plan.id \in Nat /\ plan.init \in BOOLEAN /\ PlanFounds(plan)
    BY <1>1, OwnStep
<1>3. PICK k \in 1 .. 24 : At(p, k) /\ PlaceFounds(plan, k) /\ Listed(k) = "config"
    BY <1>1, OwnStep
<1>4. k = 4
    BY <1>3 DEF Listed
<1>5. Declared'.id = plan.id /\ CloneFounds
    BY DEF FoundingInv
<1>6. (\A i : Live(i)' <=> Live(i)) /\ LocalFounds' = LocalFounds
    BY DEF Live, LocalFounds
<1>7. Live(Declared.id)' = Live(plan.id) /\ Live(local.id)' = Live(local.id)
    BY <1>5 DEF Live
<1>8. Live(plan.id) => intent = plan.id \/ (local.id = plan.id /\ local.init)
    <2>1. Live(plan.id) => plan.id \notin dropped
        BY DEF Live
    <2> QED
        BY <1>2, <1>3, <1>4, <2>1 DEF PlanFounds, PlaceFounds
<1>9. CloneFounds'
    BY <1>2, <1>5, <1>6, <1>7, <1>8 DEF CloneFounds, PlanFounds
<1>10. ASSUME NEW x, x = plan PROVE PlanFounds(x)' /\ PlaceFounds(x, 5)'
    <2>1. PlanFounds(x)'
        BY <1>2, <1>5, <1>6, <1>10 DEF PlanFounds
    <2>2. PlaceFounds(x, 5)'
        BY <1>3, <1>4, <1>10 DEF PlaceFounds
    <2> QED
        BY <2>1, <2>2
<1>11. proc'[p].kind = "setup" => PlanFounds(plan)' /\ PlaceFounds(plan, 5)'
    BY <1>10 DEF Kept
<1> QED
    BY <1>2, <1>3, <1>4, <1>9, <1>11, OwnDone

\* The approval takes the place of the intent.
LEMMA ApprovalFounds ==
    ASSUME Base, Base', OneSetup, FoundingInv, NEW p \in Process, Approve(p)
    PROVE  FoundingInv'
<1> DEFINE plan == proc[p].plan
<1>1. "local" \in SetupStep \ UninstallStep /\ Doing(p, "local")
    BY DEF SetupStep, UninstallStep, Approve
<1>2. /\ proc[p].kind = "setup" /\ "setup" \in Kinds[p]
      /\ plan.id \in Nat /\ plan.init \in BOOLEAN /\ PlanFounds(plan)
    BY <1>1, OwnStep
<1>3. PICK k \in 1 .. 24 : At(p, k) /\ PlaceFounds(plan, k) /\ Listed(k) = "local"
    BY <1>1, OwnStep
<1>4. k = 14
    BY <1>3 DEF Listed
<1>5. Kept(p)
    BY ActionKeeps DEF Base
<1>6. /\ tracked' = tracked /\ intent' = intent /\ drawn' = drawn /\ requested' = requested
      /\ dropped' = dropped /\ Done(p)
      /\ local' = [id |-> plan.id, version |-> plan.version, init |-> plan.init]
    BY DEF Approve
<1>7. local'.id = plan.id /\ local'.init = plan.init
    BY <1>6
<1>8. Declared' = Declared /\ CloneFounds /\ Declared.id \in Nat
    BY <1>6, FoundTypes DEF Declared, FoundingInv, Base
<1>9. \A i : Live(i)' <=> Live(i)
    BY <1>6 DEF Live
<1>10. /\ Live(Declared.id)' = Live(Declared.id) /\ Live(local.id)' = Live(plan.id)
       /\ (Live(Declared.id) => Declared.id # 0)
    BY <1>6, <1>7, <1>8 DEF Live
<1>11. plan.init => LocalFounds'
    BY <1>7 DEF LocalFounds
<1>12. CloneFounds'
    <2>1. Declared.id = 0 \/ Declared.id = plan.id
        BY <1>2 DEF PlanFounds
    <2>2. Live(Declared.id)' => intent' = Declared'.id \/ (local'.id = Declared'.id /\ local'.init)
        <3>1. ASSUME Live(Declared.id) PROVE Declared.id = plan.id /\ plan.init
            <4>1. Declared.id = plan.id /\ Live(plan.id)
                BY <1>10, <2>1, <3>1
            <4> QED
                BY <1>2, <4>1 DEF PlanFounds
        <3> QED
            BY <1>7, <1>8, <1>10, <3>1
    <2>3. intent' # 0 => LocalFounds'
        BY <1>2, <1>6, <1>11 DEF PlanFounds
    <2>4. local' # NoLocal /\ ~ local'.init => ~ Live(local.id)'
        BY <1>2, <1>7, <1>10 DEF PlanFounds
    <2> QED
        BY <1>2, <1>6, <1>7, <1>8, <2>2, <2>3, <2>4 DEF CloneFounds, PlanFounds
<1>13. ASSUME NEW x, x = plan PROVE PlanFounds(x)' /\ PlaceFounds(x, 15)'
    <2>1. PlanFounds(x)'
        BY <1>2, <1>6, <1>8, <1>9, <1>11, <1>13 DEF PlanFounds
    <2>2. PlaceFounds(x, 15)'
        BY <1>3, <1>4, <1>6, <1>7, <1>13 DEF PlaceFounds
    <2> QED
        BY <2>1, <2>2
<1>14. proc'[p].kind = "setup" => PlanFounds(plan)' /\ PlaceFounds(plan, 15)'
    BY <1>5, <1>13 DEF Kept
<1> QED
    BY <1>2, <1>3, <1>4, <1>5, <1>6, <1>12, <1>14, OwnDone

\* The intent goes when the approval is there.
LEMMA ClearFounds ==
    ASSUME Base, Base', OneSetup, FoundingInv, NEW p \in Process, ClearIntent(p)
    PROVE  FoundingInv'
<1> DEFINE plan == proc[p].plan
<1>1. "clear" \in SetupStep \ UninstallStep /\ Doing(p, "clear")
    BY DEF SetupStep, UninstallStep, ClearIntent
<1>2. /\ proc[p].kind = "setup" /\ "setup" \in Kinds[p]
      /\ plan.id \in Nat /\ plan.init \in BOOLEAN /\ PlanFounds(plan)
    BY <1>1, OwnStep
<1>3. PICK k \in 1 .. 24 : At(p, k) /\ PlaceFounds(plan, k) /\ Listed(k) = "clear"
    BY <1>1, OwnStep
<1>4. k = 23
    BY <1>3 DEF Listed
<1>5. Kept(p)
    BY ActionKeeps DEF Base
<1>6. /\ tracked' = tracked /\ local' = local /\ drawn' = drawn /\ requested' = requested
      /\ dropped' = dropped /\ Done(p) /\ intent' = 0
    BY DEF ClearIntent, histVars
<1>7. Declared' = Declared /\ CloneFounds /\ Declared.id \in Nat /\ drawn \in Nat
    BY <1>6, FoundTypes DEF Declared, FoundingInv, Base
<1>8. (\A i : Live(i)' <=> Live(i)) /\ LocalFounds' = LocalFounds
    BY <1>6 DEF Live, LocalFounds
<1>9. Live(Declared.id)' = Live(Declared.id) /\ Live(local.id)' = Live(local.id)
    BY <1>6, <1>7 DEF Live
<1>10. Live(Declared.id) => local.id = Declared.id /\ local.init
    <2>1. ASSUME Live(Declared.id) PROVE Declared.id = plan.id /\ plan.id \notin dropped
        BY <1>2, <2>1 DEF Live, PlanFounds
    <2>2. ASSUME Live(Declared.id) PROVE plan.init
        <3>1. Live(plan.id)
            BY <2>1, <2>2
        <3> QED
            BY <1>2, <3>1 DEF PlanFounds
    <2> QED
        BY <1>3, <1>4, <2>1, <2>2 DEF PlaceFounds
<1>11. CloneFounds'
    BY <1>6, <1>7, <1>8, <1>9, <1>10 DEF CloneFounds
<1>12. ASSUME NEW x, x = plan PROVE PlanFounds(x)' /\ PlaceFounds(x, 24)'
    <2>1. PlanFounds(x)'
        BY <1>2, <1>6, <1>7, <1>8, <1>12 DEF PlanFounds
    <2>2. PlaceFounds(x, 24)'
        BY <1>3, <1>4, <1>6, <1>12 DEF PlaceFounds
    <2> QED
        BY <2>1, <2>2
<1>13. proc'[p].kind = "setup" => PlanFounds(plan)' /\ PlaceFounds(plan, 24)'
    BY <1>5, <1>12 DEF Kept
<1> QED
    BY <1>2, <1>3, <1>4, <1>5, <1>6, <1>11, <1>13, OwnDone

\* An uninstall of another command moves, and the setups stay where they are.
LEMMA UninstallFounds ==
    ASSUME Base, FoundingInv, NEW p \in Process, Kept(p), proc'[p].kind # "setup",
           CloneFounds', PlansStay
    PROVE  FoundingInv'
<1>1. ASSUME NEW q \in Process \ {p} PROVE RunFounds(q)'
    BY OthersFound DEF Base, FoundingInv, Kept, Others
<1>2. RunFounds(p)'
    BY DEF RunFounds
<1> QED
    BY <1>1, <1>2 DEF FoundingInv

LEMMA UninstallRuns ==
    ASSUME Base, NEW p \in Process, Kept(p), NEW a \in UninstallStep \ SetupStep, Doing(p, a)
    PROVE  proc'[p].kind # "setup"
<1>1. proc[p] \in Uninstalls
    BY InUninstall DEF Base
<1> QED
    BY <1>1 DEF Kept, Uninstalls

\* The approval goes, and what it could have founded is given up.
LEMMA DeactivateFounds ==
    ASSUME Base, Base', FoundingInv, NEW p \in Process, Deactivate(p)
    PROVE  FoundingInv'
<1>1. "deactivate" \in UninstallStep \ SetupStep /\ Doing(p, "deactivate")
    BY DEF SetupStep, UninstallStep, Deactivate
<1>2. Kept(p)
    BY ActionKeeps DEF Base
<1>3. proc'[p].kind # "setup"
    BY <1>1, <1>2, UninstallRuns
<1>4. /\ tracked' = tracked /\ intent' = intent /\ drawn' = drawn /\ requested' = requested
      /\ local' = NoLocal /\ dropped' = dropped \cup ({local.id} \ {0})
    BY DEF Deactivate
<1>5. Declared' = Declared /\ CloneFounds /\ Declared.id \in Nat /\ drawn \in Nat
    BY <1>4, FoundTypes DEF Declared, FoundingInv, Base
<1>6. LocalFounds' /\ local'.id = 0
    BY <1>4 DEF LocalFounds, NoLocal
<1>7. /\ \A i : Live(i)' => Live(i)
      /\ \A i : Live(i)' /\ i = local.id => i = 0
      /\ \A i : Live(i)' => i # 0
    BY <1>4 DEF Live
<1>8. Live(Declared.id)' => Live(Declared.id) /\ (Declared.id = local.id => Declared.id = 0)
                            /\ Declared.id # 0
    BY <1>4, <1>5 DEF Live
<1>9. CloneFounds'
    BY <1>4, <1>5, <1>6, <1>8 DEF CloneFounds
<1>10. ASSUME NEW plan \in SetupPlans, PlanFounds(plan) PROVE PlanFounds(plan)'
    <2>1. Live(plan.id)' => Live(plan.id)
        BY <1>7
    <2> QED
        BY <1>4, <1>5, <1>6, <1>10, <2>1 DEF PlanFounds
<1>11. ASSUME NEW plan \in SetupPlans, PlanFounds(plan), NEW k \in 1 .. 24, PlaceFounds(plan, k)
       PROVE  PlaceFounds(plan, k)'
    <2>1. plan.id # 0
        BY <1>11 DEF PlanFounds
    <2> QED
        BY <1>4, <1>11, <2>1 DEF PlaceFounds
<1> QED
    BY <1>2, <1>3, <1>9, <1>10, <1>11, UninstallFounds DEF PlansStay

\* The intent goes, and what it could have founded is given up.
LEMMA ForgetFounds ==
    ASSUME Base, Base', FoundingInv, NEW p \in Process, Forget(p)
    PROVE  FoundingInv'
<1>1. "forget" \in UninstallStep \ SetupStep /\ Doing(p, "forget")
    BY DEF SetupStep, UninstallStep, Forget
<1>2. Kept(p)
    BY ActionKeeps DEF Base
<1>3. proc'[p].kind # "setup"
    BY <1>1, <1>2, UninstallRuns
<1>4. /\ tracked' = tracked /\ local' = local /\ drawn' = drawn /\ requested' = requested
      /\ intent' = 0 /\ dropped' = dropped \cup ({intent} \ {0})
    BY DEF Forget
<1>5. Declared' = Declared /\ CloneFounds /\ Declared.id \in Nat /\ drawn \in Nat
    BY <1>4, FoundTypes DEF Declared, FoundingInv, Base
<1>6. LocalFounds' = LocalFounds
    BY <1>4 DEF LocalFounds
<1>7. \A i : Live(i)' => Live(i)
    BY <1>4 DEF Live
<1>8. /\ Live(Declared.id)' => Live(Declared.id) /\ intent # Declared.id
      /\ Live(local.id)' => Live(local.id)
    BY <1>4, <1>5 DEF Live
<1>9. CloneFounds'
    BY <1>4, <1>5, <1>6, <1>8 DEF CloneFounds
<1>10. ASSUME NEW plan \in SetupPlans, PlanFounds(plan) PROVE PlanFounds(plan)'
    <2>1. Live(plan.id)' => Live(plan.id)
        BY <1>7
    <2> QED
        BY <1>4, <1>5, <1>6, <1>10, <2>1 DEF PlanFounds
<1>11. ASSUME NEW plan \in SetupPlans, PlanFounds(plan), NEW k \in 1 .. 24, PlaceFounds(plan, k)
       PROVE  PlaceFounds(plan, k)'
    <2>1. plan.id # 0
        BY <1>11 DEF PlanFounds
    <2> QED
        BY <1>4, <1>11, <2>1 DEF PlaceFounds
<1> QED
    BY <1>2, <1>3, <1>9, <1>10, <1>11, UninstallFounds DEF PlansStay

\* The config goes out of the checkout.
LEMMA RemovalFounds ==
    ASSUME Base, Base', FoundingInv, NEW p \in Process, Kept(p), proc'[p].kind # "setup",
           UNCHANGED << intent, local, drawn, requested, dropped >>, Declared' = NoConfig
    PROVE  FoundingInv'
<1>1. Declared'.id = 0 /\ CloneFounds /\ drawn \in Nat
    BY FoundTypes DEF FoundingInv, Base, NoConfig
<1>2. (\A i : Live(i)' <=> Live(i)) /\ LocalFounds' = LocalFounds
    BY DEF Live, LocalFounds
<1>3. ~ Live(Declared.id)' /\ (Live(local.id)' <=> Live(local.id))
    BY <1>1 DEF Live
<1>4. CloneFounds'
    BY <1>1, <1>2, <1>3 DEF CloneFounds
<1>5. ASSUME NEW plan \in SetupPlans, PlanFounds(plan) PROVE PlanFounds(plan)'
    <2>1. Live(plan.id)' <=> Live(plan.id)
        BY <1>2
    <2> QED
        BY <1>1, <1>2, <1>5, <2>1 DEF PlanFounds
<1>6. ASSUME NEW plan \in SetupPlans, NEW k \in 1 .. 24, PlaceFounds(plan, k)
      PROVE  PlaceFounds(plan, k)'
    BY <1>6 DEF PlaceFounds
<1> QED
    BY <1>4, <1>5, <1>6, UninstallFounds DEF PlansStay

\* The repository a setup is planned for.
LEMMA PlannedId ==
    /\ Declared # NoConfig => Identity = Declared.id
    /\ Declared = NoConfig /\ local # NoLocal => Identity = local.id
    /\ Declared = NoConfig /\ local = NoLocal /\ intent # 0 => Identity = intent
    /\ Declared = NoConfig /\ local = NoLocal /\ intent = 0 => Identity = drawn + 2
BY DEF Identity

\* An id is drawn only where there is nothing to go by.
LEMMA DrawnFresh ==
    ASSUME SetupTypeOK, CloneFounds
    PROVE  /\ Identity \in Nat /\ Identity >= 1 /\ Identity =< drawn + 2 /\ Declared.id \in {0, Identity}
           /\ Identity > drawn + 1 =>
                  Declared = NoConfig /\ local = NoLocal /\ intent = 0 /\ Identity = drawn + 2
<1>1. /\ Declared.id \in Nat /\ local.id \in Nat /\ intent \in Nat /\ drawn \in Nat
    BY FoundTypes
<1>2. NoConfig.id = 0
    BY DEF NoConfig
<1>3. CASE Declared # NoConfig
    BY <1>1, <1>3, PlannedId DEF CloneFounds
<1>4. CASE Declared = NoConfig /\ local # NoLocal
    BY <1>1, <1>2, <1>4, PlannedId DEF CloneFounds
<1>5. CASE Declared = NoConfig /\ local = NoLocal /\ intent # 0
    BY <1>1, <1>2, <1>5, PlannedId DEF CloneFounds
<1>6. CASE Declared = NoConfig /\ local = NoLocal /\ intent = 0
    BY <1>1, <1>2, <1>6, PlannedId
<1> QED
    BY <1>3, <1>4, <1>5, <1>6

\* What may not be founded is not waiting to be.
LEMMA NotAllowed ==
    ASSUME SetupTypeOK, CloneFounds
    PROVE  /\ InitializeAllowed => LocalFounds
           /\ ~ InitializeAllowed => intent = 0 /\ ~ Live(Identity) /\ Identity =< drawn + 1
<1>1. /\ Declared.id \in Nat /\ local.id \in Nat /\ intent \in Nat /\ drawn \in Nat
      /\ local.init \in BOOLEAN
    BY FoundTypes
<1>2. InitializeAllowed => LocalFounds
    BY DEF InitializeAllowed, LocalFounds
<1>3. ASSUME ~ InitializeAllowed PROVE intent = 0 /\ ~ Live(Identity) /\ Identity =< drawn + 1
    <2>1. CASE local # NoLocal
        <3>1. ~ local.init /\ intent = 0
            BY <1>1, <1>3, <2>1 DEF InitializeAllowed, CloneFounds, LocalFounds
        <3>2. CASE Declared # NoConfig
            <4>1. Identity = Declared.id /\ Declared.id # 0
                BY <3>2, PlannedId DEF CloneFounds
            <4> QED
                BY <1>1, <3>1, <4>1 DEF CloneFounds
        <3>3. CASE Declared = NoConfig
            <4>1. Identity = local.id
                BY <2>1, <3>3, PlannedId
            <4> QED
                BY <1>1, <2>1, <3>1, <4>1 DEF CloneFounds
        <3> QED
            BY <3>2, <3>3
    <2>2. CASE local = NoLocal
        <3>1. intent = 0 /\ Declared # NoConfig
            BY <1>3, <2>2 DEF InitializeAllowed
        <3>2. Identity = Declared.id /\ Declared.id # 0
            BY <3>1, PlannedId DEF CloneFounds
        <3>3. local.init = FALSE
            BY <2>2 DEF NoLocal
        <3> QED
            BY <1>1, <3>1, <3>2, <3>3 DEF CloneFounds
    <2> QED
        BY <2>1, <2>2
<1> QED
    BY <1>2, <1>3

\* A setup is planned.
LEMMA StartFounds ==
    ASSUME Base, Base', OneSetup, FoundingInv, NEW p \in Process, StartSetup(p)
    PROVE  FoundingInv'
<1>1. PICK version \in Version :
          /\ ~ PlanThrows(version)
          /\ proc' = [proc EXCEPT ![p] = [kind |-> "setup", todo |-> SetupSteps,
                                          plan |-> SetupPlan(version)]]
    BY DEF StartSetup
<1>2. /\ tracked' = tracked /\ intent' = intent /\ local' = local /\ requested' = requested
      /\ dropped' = dropped /\ "setup" \in Kinds[p]
      /\ drawn' = IF Identity > drawn + 1 THEN drawn + 1 ELSE drawn
    BY DEF StartSetup, cloneVars
<1>3. Others(p)
    BY StartKeeps DEF Base
<1> DEFINE plan == SetupPlan(version)
<1>4. proc'[p].todo = SetupSteps /\ proc'[p].plan = plan
    <2> DEFINE command == [kind |-> "setup", todo |-> SetupSteps, plan |-> plan]
    <2>1. proc' = [proc EXCEPT ![p] = command] /\ command.todo = SetupSteps /\ command.plan = plan
        BY <1>1
    <2> HIDE DEF command
    <2> QED
        BY <2>1 DEF Base, ProcOK
<1>5. plan.id = Identity /\ plan.init = InitializeAllowed /\ intent \in {0, Identity}
    BY <1>1 DEF SetupPlan, PlanThrows
<1>6. /\ Declared' = Declared /\ LocalFounds' = LocalFounds /\ CloneFounds
      /\ Declared.id \in Nat /\ local.id \in Nat /\ intent \in Nat /\ drawn \in Nat
    BY <1>2, FoundTypes DEF Declared, LocalFounds, FoundingInv, Base
<1>7. /\ Identity >= 1 /\ Identity =< drawn' + 1 /\ Declared.id \in {0, Identity}
      /\ drawn' = drawn \/ (drawn' = drawn + 1 /\ Declared = NoConfig /\ local = NoLocal
                            /\ intent = 0 /\ Identity = drawn + 2)
    BY <1>2, <1>6, DrawnFresh DEF Base
<1>8. drawn' = drawn => \A i : Live(i)' <=> Live(i)
    BY <1>2 DEF Live
<1>9. /\ Live(Declared.id)' => Live(Declared.id)
      /\ Live(local.id)' => Live(local.id)
    <2>1. CASE drawn' = drawn
        BY <1>2, <1>6, <2>1 DEF Live
    <2>2. CASE Declared = NoConfig /\ local = NoLocal
        BY <1>2, <1>6, <2>2 DEF Live, NoConfig, NoLocal
    <2> QED
        BY <1>7, <2>1, <2>2
<1>10. CloneFounds'
    <2>1. Declared.id =< drawn' + 1 /\ local.id =< drawn' + 1 /\ intent =< drawn' + 1
        BY <1>6, <1>7 DEF CloneFounds
    <2> QED
        BY <1>2, <1>6, <1>9, <2>1 DEF CloneFounds
<1>11. /\ InitializeAllowed => LocalFounds
       /\ ~ InitializeAllowed => intent = 0 /\ ~ Live(Identity) /\ Identity =< drawn + 1
    BY <1>6, NotAllowed DEF Base
<1>12. ASSUME NEW x, x = plan PROVE PlanFounds(x)' /\ PlaceFounds(x, 1)'
    <2>1. x.id = Identity /\ x.init = InitializeAllowed
        BY <1>5, <1>12
    <2>2. ~ x.init => ~ Live(x.id)'
        <3>1. ASSUME ~ x.init PROVE drawn' = drawn
            BY <1>6, <1>7, <1>11, <2>1, <3>1
        <3> QED
            BY <1>8, <1>11, <2>1, <3>1
    <2>3. PlanFounds(x)'
        BY <1>2, <1>5, <1>6, <1>7, <1>11, <2>1, <2>2 DEF PlanFounds
    <2>4. PlaceFounds(x, 1)'
        BY DEF PlaceFounds
    <2> QED
        BY <2>3, <2>4
<1>13. At(p, 1)'
    <2>1. 1 - 1 = 0 /\ 25 - 1 = 24
        OBVIOUS
    <2>2. Lists(SetupSteps, 1 - 1, 25 - 1)
        BY <2>1, SetupListed
    <2> QED
        BY <1>4, <2>2 DEF At
<1>14. RunFounds(p)'
    <2>1. PlanFounds(proc[p].plan)' /\ PlaceFounds(proc[p].plan, 1)'
        BY <1>4, <1>12
    <2>2. 1 \in 1 .. 24
        OBVIOUS
    <2> QED
        BY <1>2, <1>13, <2>1, <2>2 DEF RunFounds
<1>15. ASSUME NEW q \in Process \ {p} PROVE RunFounds(q)'
    BY <1>2, <1>3, Lone
<1> QED
    BY <1>10, <1>14, <1>15 DEF FoundingInv

\* A step of a command that is neither the note of the intent nor the approval.
LEMMA Goes ==
    ASSUME Base, FoundingInv, NEW p \in Process,
           \/ InstallRuntime(p) \/ NoteIntent(p) \/ WriteTracked(p) \/ Approve(p)
           \/ SwitchBootstrap(p) \/ ClearIntent(p) \/ InitialOperation(p) \/ Compare(p)
           \/ Busy(p) \/ Unlock(p) \/ SkipHook(p) \/ InstallHook(p) \/ RemoveHook(p)
           \/ KeepHook(p) \/ HookGone(p)
           \/ EnterProviders(p) \/ PublishInstall(p) \/ Finish(p) \/ ThirdState(p)
           \/ EnterEntries(p) \/ RemoveEntries(p) \/ EntriesStay(p)
           \/ StartUninstall(p) \/ Deactivate(p) \/ UnlinkBootstrap(p) \/ Forget(p)
           \/ ReadOwnership(p) \/ RemoveTracked(p) \/ Crash(p),
           Calm, proc'[p].kind = "setup" =>
               ~ Doing(p, "intent") /\ ~ Doing(p, "local")
    PROVE  FoundingInv'
<1>1. Kept(p)
    BY ActionKeeps DEF Base
<1>2. ASSUME NEW k \in 1 .. 24, proc'[p].kind = "setup", At(p, k)
      PROVE  k # 3 /\ k # 14 /\ \E l \in 1 .. 24 : At(p, l)' /\ Onward(k, l)
    <2>1. \E l \in 1 .. 24 : At(p, l)' /\ Onward(k, l)
        BY <1>2, Advances DEF Base
    <2>2. Doing(p, Listed(k))
        <3>1. proc[p].todo # << >>
            BY <1>2, AtHead
        <3>2. Doing(p, Head(proc[p].todo))
            BY <3>1 DEF Doing
        <3>3. Head(proc[p].todo) = Listed(k)
            BY <1>2, <3>2, AtHead
        <3> QED
            BY <3>2, <3>3
    <2>3. Listed(3) = "intent" /\ Listed(14) = "local"
        BY DEF Listed
    <2> QED
        BY <1>2, <2>1, <2>2, <2>3
<1> QED
    BY <1>1, <1>2, Quiet

\* What is no step of the founding.
LEMMA CalmActions ==
    ASSUME Base, NEW p \in Process,
           \/ InstallRuntime(p) \/ SwitchBootstrap(p) \/ InitialOperation(p) \/ Compare(p)
           \/ Busy(p) \/ Unlock(p) \/ SkipHook(p) \/ UnlinkBootstrap(p) \/ ReadOwnership(p)
           \/ ThirdState(p) \/ EntriesStay(p) \/ KeepHook(p) \/ HookGone(p)
    PROVE  Calm /\ \E a : Doing(p, a) /\ a \notin {"intent", "local"}
<1>1. ASSUME UNCHANGED << tracked, intent, local, drawn, dropped >>, requested \subseteq requested'
      PROVE  Calm
    BY <1>1 DEF Calm, Declared
<1>2. \A a \in Locks : a \notin {"intent", "local"}
    BY DEF Locks
<1>3. CASE InstallRuntime(p) \/ SwitchBootstrap(p) \/ InitialOperation(p) \/ Compare(p)
    BY <1>1, <1>3 DEF InstallRuntime, SwitchBootstrap, InitialOperation, Compare, cloneVars,
                      histVars
<1>4. CASE Busy(p)
    BY <1>1, <1>2, <1>4 DEF Busy, cloneVars, histVars
<1>5. CASE SkipHook(p)
    <2>1. "hook lock" \in Locks
        BY DEF Locks
    <2> QED
        BY <1>1, <1>2, <1>5, <2>1 DEF SkipHook, cloneVars, histVars
<1>6. CASE Unlock(p) \/ ThirdState(p) \/ EntriesStay(p) \/ KeepHook(p) \/ HookGone(p)
    <2>1. Calm
        BY <1>1, <1>6 DEF Unlock, ThirdState, EntriesStay, KeepHook, HookGone, cloneVars, histVars
    <2>2. \E a \in {"unlock", "write", "entries", "remove lock", "move", "restore"} : Doing(p, a)
        BY <1>6 DEF Unlock, ThirdState, EntriesStay, KeepHook, HookGone
    <2> QED
        BY <2>1, <2>2
<1>7. CASE UnlinkBootstrap(p) \/ ReadOwnership(p)
    <2>1. Calm
        BY <1>1, <1>7 DEF UnlinkBootstrap, ReadOwnership, cloneVars, histVars
    <2>2. \E a \in {"unlink bootstrap", "untrack"} : Doing(p, a)
        BY <1>7 DEF UnlinkBootstrap, ReadOwnership
    <2> QED
        BY <2>1, <2>2
<1> QED
    BY <1>3, <1>4, <1>5, <1>6, <1>7

LEMMA CalmSections ==
    ASSUME Base, NEW p \in Process,
           \/ InstallHook(p) \/ RemoveHook(p) \/ EnterProviders(p) \/ PublishInstall(p)
           \/ Finish(p) \/ EnterEntries(p) \/ RemoveEntries(p)
    PROVE  Calm /\ \E a : Doing(p, a) /\ a \notin {"intent", "local"}
<1>1. ASSUME UNCHANGED << cloneVars, histVars >> PROVE Calm
    BY <1>1 DEF Calm, Declared, cloneVars, histVars
<1>2. ASSUME NEW lock \in Locks, NEW enter, NEW fail, Enter(p, lock, enter, fail)
      PROVE  Calm /\ \E a : Doing(p, a) /\ a \notin {"intent", "local"}
    <2>1. lock \notin {"intent", "local"}
        BY DEF Locks
    <2> QED
        BY <1>1, <1>2, <2>1 DEF Enter
<1>3. ASSUME NEW step, InHooks(p, step) \/ InProviders(p, step)
      PROVE  Calm /\ Doing(p, step)
    BY <1>1, <1>3 DEF InHooks, InProviders
<1>4. "hook lock" \in Locks /\ "remove lock" \in Locks /\ "provider lock" \in Locks
      /\ "entries lock" \in Locks
    BY DEF Locks
<1>5. ASSUME InstallHook(p) \/ RemoveHook(p)
      PROVE  \/ \E lock \in Locks : \E enter, fail : Enter(p, lock, enter, fail)
             \/ \E step \in {"installing", "move", "driver", "wrapper", "installed", "restore",
                             "remove driver", "remove record"} : InHooks(p, step)
    BY <1>4, <1>5 DEF InstallHook, RemoveHook
<1>6. ASSUME EnterProviders(p) \/ EnterEntries(p)
      PROVE  \E lock \in Locks : \E enter, fail : Enter(p, lock, enter, fail)
    BY <1>4, <1>6 DEF EnterProviders, EnterEntries
<1>7. ASSUME PublishInstall(p) \/ Finish(p) \/ RemoveEntries(p)
      PROVE  \E step \in {"publish", "write", "manifest", "retire", "entries"} : InProviders(p, step)
    BY <1>7 DEF PublishInstall, Finish, RemoveEntries
<1>8. CASE InstallHook(p) \/ RemoveHook(p)
    BY <1>2, <1>3, <1>5, <1>8
<1>9. CASE EnterProviders(p) \/ EnterEntries(p)
    BY <1>2, <1>6, <1>9
<1>10. CASE PublishInstall(p) \/ Finish(p) \/ RemoveEntries(p)
    BY <1>3, <1>7, <1>10
<1> QED
    BY <1>8, <1>9, <1>10

LEMMA OneStep ==
    ASSUME NEW p \in Process, NEW a, NEW b, Doing(p, a), Doing(p, b)
    PROVE  a = b
BY DEF Doing

\* The files of the checkout.
LEMMA TrackedFounds ==
    ASSUME Base, Base', OneSetup, FoundingInv, NEW p \in Process, WriteTracked(p)
    PROVE  FoundingInv'
<1> DEFINE plan == proc[p].plan
           files3 == {"config", "manifest", "lock"}
<1>1. Kept(p)
    BY ActionKeeps DEF Base
<1>2. /\ Done(p) /\ UNCHANGED << intent, local, drawn, requested, dropped >>
      /\ DOMAIN Publishing = files3
    BY DEF WriteTracked, histVars, Publishing
<1>3. tracked \in [files : Contents, owned : Contents]
    BY DEF Base, SetupTypeOK, CloneTypeOK
<1>a. ASSUME NEW a \in {"config", "pin manifest", "pin lock", "ownership"}, Doing(p, a)
      PROVE  ~ Doing(p, "intent") /\ ~ Doing(p, "local")
    BY <1>a, OneStep
<1>4. CASE UNCHANGED Declared
    <2>1. \E a \in {"config", "pin manifest", "pin lock", "ownership"} : Doing(p, a)
        <3>1. /\ Publishing["config"] = "config" /\ Publishing["manifest"] = "pin manifest"
              /\ Publishing["lock"] = "pin lock"
            BY DEF Publishing
        <3> QED
            BY <1>2, <3>1 DEF WriteTracked
    <2> QED
        BY <1>2, <1>4, <1>a, <2>1, Goes DEF Calm
<1>5. ASSUME NEW file \in files3, Doing(p, Publishing[file]),
             tracked' = IF plan.before.files[file] = Wanted(plan)[file] THEN tracked
                        ELSE [tracked EXCEPT !.files[file] = Wanted(plan)[file]]
      PROVE  FoundingInv'
    <2>1. CASE file # "config"
        <3>1. UNCHANGED Declared
            BY <1>3, <1>5, <2>1 DEF Declared, Contents
        <3> QED
            BY <1>4, <3>1
    <2>2. CASE file = "config" /\ tracked' # tracked
        <3>1. Doing(p, "config")
            BY <1>5, <2>2 DEF Publishing
        <3>2. Declared' = Wanted(plan).config
            BY <1>3, <1>5, <2>2 DEF Declared, Contents
        <3>3. Declared' = [id |-> plan.id, version |-> plan.version]
            BY <3>2 DEF Wanted, Files
        <3> QED
            BY <1>1, <1>2, <3>1, <3>3, ConfigFounds
    <2>3. CASE tracked' = tracked
        <3>1. UNCHANGED Declared
            BY <2>3 DEF Declared
        <3> QED
            BY <1>4, <3>1
    <2> QED
        BY <2>1, <2>2, <2>3
<1>6. ASSUME tracked' = IF plan.before.owned = Wanted(plan) THEN tracked
                        ELSE [tracked EXCEPT !.owned = Wanted(plan)]
      PROVE  FoundingInv'
    <2>1. UNCHANGED Declared
        BY <1>3, <1>6 DEF Declared
    <2> QED
        BY <1>4, <2>1
<1> QED
    BY <1>2, <1>5, <1>6 DEF WriteTracked

LEMMA UntrackedFounds ==
    ASSUME Base, Base', FoundingInv, NEW p \in Process, RemoveTracked(p)
    PROVE  FoundingInv'
<1> DEFINE read == proc[p].plan
           files3 == {"config", "manifest", "lock"}
<1>1. Kept(p)
    BY ActionKeeps DEF Base
<1>2. UNCHANGED << intent, local, drawn, requested, dropped >> /\ DOMAIN Removing = files3
    BY DEF RemoveTracked, histVars, Removing
<1>3. tracked \in [files : Contents, owned : Contents]
    BY DEF Base, SetupTypeOK, CloneTypeOK
<1>4. proc'[p].kind # "setup"
    <2>1. \E a \in {"remove config", "remove manifest", "remove lock file", "remove ownership"} :
              Doing(p, a)
        <3>1. /\ Removing["config"] = "remove config" /\ Removing["manifest"] = "remove manifest"
              /\ Removing["lock"] = "remove lock file"
            BY DEF Removing
        <3> QED
            BY <1>2, <3>1 DEF RemoveTracked
    <2>2. {"remove config", "remove manifest", "remove lock file", "remove ownership"}
              \subseteq UninstallStep \ SetupStep
        BY DEF UninstallStep, SetupStep
    <2> QED
        BY <1>1, <2>1, <2>2, UninstallRuns
<1>5. CASE UNCHANGED Declared
    <2>1. Calm
        BY <1>2, <1>5 DEF Calm
    <2> QED
        BY <1>4, <2>1, Goes
<1>6. ASSUME NEW file \in files3,
             tracked' = IF tracked.files[file] = read.owned[file]
                        THEN [tracked EXCEPT !.files[file] = NoFiles[file]] ELSE tracked
      PROVE  FoundingInv'
    <2>1. CASE file # "config" \/ tracked' = tracked
        <3>1. UNCHANGED Declared
            BY <1>3, <1>6, <2>1 DEF Declared, Contents
        <3> QED
            BY <1>5, <3>1
    <2>2. CASE file = "config" /\ tracked' # tracked
        <3>1. Declared' = NoConfig
            BY <1>3, <1>6, <2>2 DEF Declared, Contents, NoFiles
        <3> QED
            BY <1>1, <1>2, <1>4, <3>1, RemovalFounds
    <2> QED
        BY <2>1, <2>2
<1>7. ASSUME tracked' = IF read.kept THEN tracked ELSE [tracked EXCEPT !.owned = NoFiles]
      PROVE  FoundingInv'
    <2>1. UNCHANGED Declared
        BY <1>3, <1>7 DEF Declared
    <2> QED
        BY <1>5, <2>1
<1> QED
    BY <1>2, <1>6, <1>7 DEF RemoveTracked

\* A command dies, or an uninstall starts.
LEMMA EndsFound ==
    ASSUME Base, FoundingInv, NEW p \in Process, StartUninstall(p) \/ Crash(p)
    PROVE  FoundingInv'
<1>1. CASE StartUninstall(p)
    <2>1. Calm
        BY <1>1 DEF StartUninstall, Calm, Declared, cloneVars, histVars
    <2>2. ~ Doing(p, "intent") /\ ~ Doing(p, "local")
        BY <1>1, StartsIdle DEF Doing
    <2> QED
        BY <1>1, <2>1, <2>2, Goes
<1>2. CASE Crash(p)
    <2>1. Calm
        BY <1>2 DEF Crash, Calm, Declared, cloneVars, histVars
    <2>2. proc'[p].kind # "setup"
        BY <1>2, CrashEnds DEF Base
    <2> QED
        BY <1>2, <2>1, <2>2, Goes
<1> QED
    BY <1>1, <1>2

LEMMA CalmFounds ==
    ASSUME Base, FoundingInv, NEW p \in Process,
           \/ InstallRuntime(p) \/ SwitchBootstrap(p) \/ InitialOperation(p) \/ Compare(p)
           \/ Busy(p) \/ Unlock(p) \/ SkipHook(p) \/ UnlinkBootstrap(p) \/ ReadOwnership(p)
           \/ ThirdState(p) \/ EntriesStay(p) \/ InstallHook(p) \/ RemoveHook(p)
           \/ KeepHook(p) \/ HookGone(p)
           \/ EnterProviders(p) \/ PublishInstall(p) \/ Finish(p) \/ EnterEntries(p)
           \/ RemoveEntries(p)
    PROVE  FoundingInv'
<1>1. Calm /\ \E a : Doing(p, a) /\ a \notin {"intent", "local"}
    BY CalmActions, CalmSections
<1>2. ~ Doing(p, "intent") /\ ~ Doing(p, "local")
    BY <1>1, OneStep
<1> QED
    BY <1>1, <1>2, Goes

LEMMA FoundingStep ==
    ASSUME Base, Base', OneSetup, FoundingInv, [SetupNext]_svars
    PROVE  FoundingInv'
<1>1. CASE UNCHANGED svars
    <2>1. Calm /\ UNCHANGED proc
        BY <1>1 DEF svars, cloneVars, histVars, Calm, Declared
    <2> QED
        BY <2>1, Still
<1>2. CASE Edit
    <2>1. Calm /\ UNCHANGED proc
        BY <1>2 DEF Edit, cloneVars, histVars, Calm, Declared
    <2> QED
        BY <2>1, Still
<1>3. ASSUME NEW p \in Process, StartSetup(p) PROVE FoundingInv'
    BY <1>3, StartFounds
<1>4. ASSUME NEW p \in Process, NoteIntent(p) \/ WriteTracked(p) \/ Approve(p) \/ ClearIntent(p)
      PROVE  FoundingInv'
    BY <1>4, IntentFounds, TrackedFounds, ApprovalFounds, ClearFounds
<1>5. ASSUME NEW p \in Process, Deactivate(p) \/ Forget(p) \/ RemoveTracked(p)
      PROVE  FoundingInv'
    BY <1>5, DeactivateFounds, ForgetFounds, UntrackedFounds
<1>6. ASSUME NEW p \in Process, StartUninstall(p) \/ Crash(p) PROVE FoundingInv'
    BY <1>6, EndsFound
<1>7. ASSUME NEW p \in Process,
             \/ InstallRuntime(p) \/ SwitchBootstrap(p) \/ InitialOperation(p) \/ Compare(p)
             \/ Busy(p) \/ Unlock(p) \/ SkipHook(p) \/ UnlinkBootstrap(p) \/ ReadOwnership(p)
             \/ ThirdState(p) \/ EntriesStay(p) \/ InstallHook(p) \/ RemoveHook(p)
             \/ KeepHook(p) \/ HookGone(p)
             \/ EnterProviders(p) \/ PublishInstall(p) \/ Finish(p) \/ EnterEntries(p)
             \/ RemoveEntries(p)
      PROVE  FoundingInv'
    BY <1>7, CalmFounds
<1> QED
    BY <1>1, <1>2, <1>3, <1>4, <1>5, <1>6, <1>7 DEF SetupNext

LEMMA FoundingInit == SetupInit => FoundingInv
<1> SUFFICES ASSUME SetupInit PROVE FoundingInv
    OBVIOUS
<1>1. Base
    BY BaseInit
<1>2. /\ tracked = Nowhere \/ \E v \in Shared : tracked = Tracked(Files(Theirs, v), Files(Theirs, v))
      /\ intent = 0 /\ local = NoLocal /\ drawn = 0
      /\ \A p \in Process : proc[p] = Idle
    BY DEF SetupInit
<1>3. Declared = NoConfig \/ \E v \in Shared : Declared = [id |-> 1, version |-> v]
    BY <1>2 DEF Declared, Nowhere, Tracked, NoFiles, Files, Theirs
<1>4. Declared.id = 0 \/ (Declared.id = 1 /\ Declared # NoConfig)
    BY <1>3 DEF NoConfig
<1>5. local.id = 0
    BY <1>2 DEF NoLocal
<1>6. ~ Live(Declared.id) /\ ~ Live(local.id)
    BY <1>2, <1>4, <1>5 DEF Live
<1>7. CloneFounds
    BY <1>2, <1>3, <1>4, <1>5, <1>6 DEF CloneFounds
<1>8. \A p \in Process : RunFounds(p)
    BY <1>2 DEF RunFounds, Idle
<1> QED
    BY <1>7, <1>8 DEF FoundingInv

\* Where no two commands set a clone up, a repository that was founded here and
\* published in the checkout is still to be initialized, unless that was
\* requested or an uninstall gave it up, whatever dies and whatever an
\* uninstall does beside the setup.
THEOREM FoundingNeverForgotten ==
    ASSUME OneSetup
    PROVE  SetupSpec => []FoundingNotForgotten
<1>1. FoundingInv => FoundingNotForgotten
    BY DEF FoundingInv, CloneFounds, FoundingNotForgotten, Live
<1>2. Base /\ Base' /\ FoundingInv /\ [SetupNext]_svars => FoundingInv'
    BY OneSetup, FoundingStep
<1> QED
    BY <1>1, <1>2, FoundingInit, BaseAlways, PTL DEF SetupSpec

=============================================================================
