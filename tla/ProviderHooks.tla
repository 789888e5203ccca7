------------------------------ MODULE ProviderHooks ------------------------------
(***************************************************************************)
(* Wakeup entries in the configuration files of the coding agents          *)
(* (integration/agent-hooks.ts).                                           *)
(*                                                                         *)
(* .codex/hooks.json, .claude/settings.json and .gemini/settings.json are  *)
(* the user's; setup adds a group to each and lists its groups in          *)
(* .agent-badge/agent-hooks.json.  These files change together: a pending  *)
(* intent with the content of each before and after is published first,    *)
(* and whoever finds one finishes it, unless a file is in a third state.   *)
(***************************************************************************)
EXTENDS Integers

CONSTANTS
    Provider,  \* agents with a configuration file
    Text,      \* what a user writes in one, apart from the group
    Blank,     \* the text of an empty file
    Given,     \* texts the files may have at first
    Release    \* releases of the program: contents of its group

ASSUME ProviderAssumption ==
    /\ Blank \in Text /\ Given \subseteq Text
    /\ Release \subseteq Nat \ {0}

VARIABLES
    files,     \* the configuration file of each provider
    manifest,  \* agent-hooks.json: the group recorded for each provider
    pending,   \* agent-hooks.pending.json
    visit,     \* how far finishTransaction() is with the files of the intent
    theirs,    \* history: the text the user last gave each file
    late       \* history: the files last saved between comparison and rename

providerVars == << files, manifest, pending, visit, theirs, late >>

\* A group the user changed; it is nobody's.
Altered == 0

File == [ exists : BOOLEAN, text : Text, groups : SUBSET (Release \cup {Altered}) ]

Missing == [ exists |-> FALSE, text |-> Blank, groups |-> {} ]

\* The manifest may be missing; 0 stands for no entry.
Manifest == [ exists : BOOLEAN, entry : [Provider -> Release \cup {0}] ]

NoManifest == [ exists |-> FALSE, entry |-> [p \in Provider |-> 0] ]

Snapshots == [ files : [Provider -> File], manifest : Manifest ]

Intent == [ kind : {"none", "install", "remove"}, before : Snapshots, after : Snapshots ]

Now == [ files |-> files, manifest |-> manifest ]

NoneMissing == [ files |-> [p \in Provider |-> Missing], manifest |-> NoManifest ]

NoIntent == [ kind |-> "none", before |-> NoneMissing, after |-> NoneMissing ]

\* The files are checked together, then compared and replaced one by one.
Visit == [ checked : BOOLEAN, ahead : SUBSET Provider, compared : SUBSET Provider ]

NotVisited == [ checked |-> FALSE, ahead |-> {}, compared |-> {} ]

ProviderTypeOK ==
    /\ files \in [Provider -> File]
    /\ manifest \in Manifest
    /\ pending \in Intent
    /\ visit \in Visit
    /\ theirs \in [Provider -> Text]
    /\ late \subseteq Provider

ProviderInit ==
    /\ files \in [Provider -> { [ Missing EXCEPT !.exists = text # Blank, !.text = text ] :
                                    text \in Given }]
    /\ theirs = [p \in Provider |-> files[p].text]
    /\ manifest = NoManifest
    /\ pending = NoIntent
    /\ visit = NotVisited
    /\ late = {}

-----------------------------------------------------------------------------
(* Recovery *)

\* Mutant of Known: the content at the time of the write is not compared.
Unchecked(actual, before, after) == TRUE

\* A file that does not change is not part of the intent.
Known(actual, before, after) == before = after \/ actual \in {before, after}

\* recoverable(): no file of the intent is in a third state.
Recoverable(intent) ==
    /\ \A p \in Provider :
         Known(files[p], intent.before.files[p], intent.after.files[p])
    /\ Known(manifest, intent.before.manifest, intent.after.manifest)

-----------------------------------------------------------------------------
(* planAgentHooks() and the plan of removeAgentHooksLocked() *)

\* The owned group is there once, unchanged, or there is no owned group.
Matches(p) == manifest.entry[p] = 0 \/ manifest.entry[p] \in files[p].groups

\* Mutant of Installed: the group of another release is not replaced.
InstalledBeside(version) ==
    [ files |-> [p \in Provider |->
          [ files[p] EXCEPT !.exists = TRUE,
                            !.groups = IF Matches(p) THEN @ \cup {version} ELSE @ ] ],
      manifest |->
          [ exists |-> TRUE,
            entry |-> [p \in Provider |-> IF Matches(p) THEN version
                                          ELSE manifest.entry[p]] ] ]

\* A group is added, or replaces the recorded one; an edited one is left alone,
\* but a missing file is created in any case.
Installed(version) ==
    [ files |-> [p \in Provider |->
          [ files[p] EXCEPT !.exists = TRUE,
                            !.groups = IF Matches(p)
                                       THEN (@ \ {manifest.entry[p]}) \cup {version}
                                       ELSE @ ] ],
      manifest |->
          [ exists |-> TRUE,
            entry |-> [p \in Provider |-> IF Matches(p) THEN version
                                          ELSE manifest.entry[p]] ] ]

\* What setup intends; `action` says that it will ask the user to act.
ProviderPlan(version) ==
    IF pending = NoIntent
    THEN [ pending |-> NoIntent,
           intent  |-> [kind |-> "install", before |-> Now, after |-> Installed(version)],
           action  |-> \E p \in Provider : ~Matches(p) ]
    ELSE [ pending |-> pending,
           intent  |-> [pending EXCEPT !.before = Now],
           action  |-> pending.kind = "remove" \/ ~Recoverable(pending) ]

\* A plan that asks the user to act on an interrupted intent lists no change.
Changes(plan) ==
    /\ plan.intent.before # plan.intent.after
    /\ plan.pending # NoIntent => ~plan.action

\* The files a plan will change are as they were when it was made.
ProvidersAsPlanned(plan) ==
    Changes(plan) =>
        /\ \A p \in Provider :
             \/ plan.intent.before.files[p] = plan.intent.after.files[p]
             \/ files[p] = plan.intent.before.files[p]
        /\ \/ plan.intent.before.manifest = plan.intent.after.manifest
           \/ manifest = plan.intent.before.manifest

Entries == { p \in Provider : manifest.entry[p] # 0 }

\* An owned group the user edited: its entry stays until it is reconciled.
Edited(p) == files[p].groups # {} /\ manifest.entry[p] \notin files[p].groups

RemovalIntent ==
    [ kind |-> "remove", before |-> Now,
      after |-> [ files |-> [p \in Provider |->
                      IF p \in Entries
                      THEN [files[p] EXCEPT !.groups = @ \ {manifest.entry[p]}]
                      ELSE files[p] ],
                  manifest |-> NoManifest ] ]

-----------------------------------------------------------------------------
(* finishTransaction() *)

\* link() publishes an intent only where there is none.
Publish(intent) ==
    /\ pending = NoIntent
    /\ pending' = intent
    /\ visit' = NotVisited
    /\ UNCHANGED << files, manifest, theirs, late >>

FinishFound == visit' = NotVisited /\ UNCHANGED << files, manifest, pending, theirs, late >>

Touched(intent) == { p \in Provider : intent.before.files[p] # intent.after.files[p] }

\* All files of the intent are read once before the first is touched.
CheckFiles ==
    /\ ~visit.checked
    /\ Recoverable(pending)
    /\ visit' = [ checked |-> TRUE, ahead |-> Touched(pending), compared |-> {} ]
    /\ UNCHANGED << files, manifest, pending, theirs, late >>

\* Then each is read again, and skipped if it was written before ...
CompareFile(p) ==
    /\ visit.compared = {} /\ p \in visit.ahead
    /\ Known(files[p], pending.before.files[p], pending.after.files[p])
    /\ visit' = [ visit EXCEPT
           !.ahead = @ \ {p},
           !.compared = IF files[p] = pending.after.files[p] THEN {} ELSE {p} ]
    /\ UNCHANGED << files, manifest, pending, theirs, late >>

\* ... or else staged, and renamed over what is there by then.
ReplaceFile(p) ==
    /\ p \in visit.compared
    /\ files' = [files EXCEPT ![p] = pending.after.files[p]]
    /\ visit' = [visit EXCEPT !.compared = {}]
    /\ UNCHANGED << manifest, pending, theirs, late >>

AllWritten == visit.checked /\ visit.ahead = {} /\ visit.compared = {}

\* A file in a third state, at the check or when its turn comes.
StrangeFile ==
    \/ ~visit.checked /\ ~Recoverable(pending)
    \/ /\ visit.compared = {}
       /\ \E p \in visit.ahead :
            ~Known(files[p], pending.before.files[p], pending.after.files[p])

\* A manifest that does not change is not part of the intent either.
WriteManifest ==
    /\ manifest' = IF pending.before.manifest = pending.after.manifest THEN manifest
                   ELSE pending.after.manifest
    /\ UNCHANGED << files, pending, visit, theirs, late >>

Retire ==
    /\ pending' = NoIntent
    /\ UNCHANGED << files, manifest, visit, theirs, late >>

-----------------------------------------------------------------------------
(* The user *)

\* A command that is writing may have compared the file already.
EditProvider(p, writing) ==
    /\ \E file \in { [files[p] EXCEPT !.exists = TRUE, !.text = text] : text \in Text }
                   \cup {Missing, [files[p] EXCEPT !.groups = {}]}
                   \cup { [files[p] EXCEPT !.groups = {Altered}] :
                              g \in files[p].groups \ {Altered} } :
         /\ file # files[p]
         /\ files' = [files EXCEPT ![p] = file]
         /\ theirs' = [theirs EXCEPT ![p] = file.text]
    /\ late' = IF writing /\ p \in visit.compared THEN late \cup {p} ELSE late \ {p}
    /\ UNCHANGED << manifest, pending, visit >>

=============================================================================
