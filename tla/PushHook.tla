-------------------------------- MODULE PushHook --------------------------------
(***************************************************************************)
(* The pre-push hook of a clone (integration/hooks.ts).                    *)
(*                                                                         *)
(* Setup moves the user's executable to .agent-badge-user-pre-push in the  *)
(* same directory and puts a wrapper in its place that runs a driver and   *)
(* delegates to the backup; uninstall puts it back.  hooks.json, written   *)
(* before the first of these files and removed after the last one, says    *)
(* what was installed.  The steps of both are operators here; Setup says   *)
(* which process takes them, and when.                                     *)
(*                                                                         *)
(* A version stands for the approved Node and the template a release of    *)
(* the program writes: the content of the wrapper and of the driver.       *)
(***************************************************************************)
EXTENDS Integers

CONSTANTS
    Script,      \* contents a user gives the hook
    Executable,  \* those with the execute permission
    Refused,     \* legacy markers, hook managers and shared links
    Version      \* releases of the program

ASSUME HookAssumption ==
    /\ Executable \subseteq Script
    /\ Refused \subseteq Script
    /\ Version \subseteq Nat \ {0}

VARIABLES
    hook,    \* what is at hooks/pre-push
    backup,  \* what is at hooks/.agent-badge-user-pre-push
    driver,  \* the version of git-hook.cjs, or 0
    record,  \* hooks.json
    mine,    \* history: what the user last put at hooks/pre-push
    hasty    \* history: and whether a section had compared the hook by then,
             \* to move or to replace it

hookVars == << hook, backup, driver, record, mine, hasty >>

Nothing == << "nothing" >>
Own(script) == << "user", script >>
Wrapper(version, delegate) == << "wrapper", version, delegate >>

Owns == { Own(script) : script \in Script }
Wrappers == { Wrapper(version, delegate) : version \in Version, delegate \in BOOLEAN }
Content == {Nothing} \cup Owns \cup Wrappers

\* `original` is not Nothing exactly when the record names a backup.
Record == [ phase    : {"none", "installing", "installed"},
            original : Content,
            delegate : BOOLEAN,
            version  : Version \cup {0},
            previous : Version \cup {0} ]

NoRecord == [ phase |-> "none", original |-> Nothing, delegate |-> FALSE,
              version |-> 0, previous |-> 0 ]

HookTypeOK ==
    /\ hook \in Content
    /\ backup \in Content
    /\ driver \in Version \cup {0}
    /\ record \in Record
    /\ mine \in {Nothing} \cup Owns
    /\ hasty \in BOOLEAN

HookInit ==
    /\ hook \in {Nothing} \cup Owns
    /\ mine = hook /\ hasty = FALSE
    /\ backup = Nothing
    /\ driver = 0
    /\ record = NoRecord

-----------------------------------------------------------------------------
(* What a record recognises *)

\* While an installation is under way the version it replaces is owned too.
OwnedVersions(owned) ==
    {owned.version} \cup (IF owned.phase = "installing" THEN {owned.previous} ELSE {})

\* matchesOwned()
Recognised(file, owned) ==
    file \in { Wrapper(version, owned.delegate) :
                   version \in OwnedVersions(owned) \ {0} }

DriverOwned(owned) == driver = 0 \/ driver \in OwnedVersions(owned)

\* The installation was interrupted before the user's file was moved.
OriginalInPlace(owned, before) ==
    owned.phase = "installing" /\ before = owned.original /\ backup = Nothing

-----------------------------------------------------------------------------
(* planHooks() *)

\* The action items of a plan: nothing is applied while there is one.
NeedsAction ==
    \/ record = NoRecord /\ backup # Nothing
    \/ record = NoRecord /\ hook \in { Own(script) : script \in Refused }
    \/ /\ record # NoRecord
       /\ hook # Nothing
       /\ ~OriginalInPlace(record, hook)
       /\ ~Recognised(hook, record)
    \/ /\ record.phase = "installing"
       /\ ~OriginalInPlace(record, hook)
       /\ record.original # Nothing
       /\ backup # record.original

HookPlan(version) ==
    [ version  |-> version,
      before   |-> hook,
      record   |-> record,
      action   |-> NeedsAction,
      delegate |-> IF record = NoRecord
                   THEN hook \in { Own(script) : script \in Executable }
                   ELSE record.delegate ]

-----------------------------------------------------------------------------
(* applyHookPlanLocked() *)

\* Anything that changed since the plan makes it throw.
HookPlanStale(plan) ==
    \/ hook # plan.before
    \/ record # plan.record
    \/ /\ plan.record.original # Nothing
       /\ ~OriginalInPlace(plan.record, plan.before)
       /\ backup # plan.record.original
    \/ ~DriverOwned(plan.record)

HookUnchanged(plan) ==
    /\ record.phase = "installed"
    /\ plan.before = Wrapper(plan.version, plan.delegate)
    /\ driver = plan.version

\* The recovery intent, durable before the user's only hook path moves.
RecordInstalling(plan) ==
    /\ record' = [ phase    |-> "installing",
                   original |-> IF plan.record = NoRecord THEN plan.before
                                ELSE plan.record.original,
                   delegate |-> plan.delegate,
                   version  |-> plan.version,
                   previous |-> IF plan.record.previous # 0 THEN plan.record.previous
                                ELSE plan.record.version ]
    /\ UNCHANGED << hook, backup, driver, mine, hasty >>

\* Mutant of Moves: whatever is at the hook path is taken for the user's.
MovesAnything(plan) == plan.before # Nothing

\* Only the user's own file is moved, and only once, going by the plan.
Moves(plan) ==
    /\ plan.record = NoRecord \/ OriginalInPlace(plan.record, plan.before)
    /\ plan.before # Nothing

\* rename() of what is at the hook path by now.
MoveAside(plan) ==
    /\ IF Moves(plan) THEN hook # Nothing /\ backup' = hook /\ hook' = Nothing
                      ELSE UNCHANGED << backup, hook >>
    /\ UNCHANGED << driver, record, mine, hasty >>

WriteDriver(plan) ==
    /\ driver' = plan.version
    /\ UNCHANGED << hook, backup, record, mine, hasty >>

\* rename() of the staged wrapper over whatever is there.
WriteWrapper(plan) ==
    /\ hook' = Wrapper(plan.version, plan.delegate)
    /\ UNCHANGED << backup, driver, record, mine, hasty >>

RecordInstalled ==
    /\ record' = [record EXCEPT !.phase = "installed", !.previous = 0]
    /\ UNCHANGED << hook, backup, driver, mine, hasty >>

-----------------------------------------------------------------------------
(* removeHooksLocked() *)

\* An interrupted installation that has moved the file, and put nothing there.
MovedOnly ==
    /\ record.phase = "installing"
    /\ hook = Nothing
    /\ record.original # Nothing
    /\ backup = record.original

RemovalThrows ==
    \/ ~DriverOwned(record)
    \/ /\ ~OriginalInPlace(record, hook)
       /\ ~MovedOnly
       /\ \/ ~Recognised(hook, record)
          \/ record.original # Nothing /\ backup # record.original

\* rename() of the backup over what is there by now; without a backup the file
\* is removed, and it must be there.
RestoreHook ==
    /\ IF record.original = Nothing
       THEN hook # Nothing /\ hook' = Nothing /\ UNCHANGED backup
       ELSE hook' = backup /\ backup' = Nothing
    /\ UNCHANGED << driver, record, mine, hasty >>

RemoveDriver ==
    /\ driver' = 0
    /\ UNCHANGED << hook, backup, record, mine, hasty >>

RemoveRecord ==
    /\ record' = NoRecord
    /\ UNCHANGED << hook, backup, driver, mine, hasty >>

-----------------------------------------------------------------------------
(* The user *)

\* The user takes no lease: a section may have compared the hook already.
EditHook(compared) ==
    \E content \in {Nothing} \cup Owns :
        /\ content # hook
        /\ hook' = content
        /\ mine' = content
        /\ hasty' = compared
        /\ UNCHANGED << backup, driver, record >>

=============================================================================
