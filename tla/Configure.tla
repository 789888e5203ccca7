------------------------------- MODULE Configure -------------------------------
(***************************************************************************)
(* Metadata changes and the declaration of a checkout                      *)
(* (operations/configure.ts, operations/status.ts and the policy part of   *)
(* integration/setup.ts), over the synchronization of LedgerSync.          *)
(*                                                                         *)
(* The remote acceptance of a change and the write of its policy to        *)
(* .agent-badge/config.json cannot be one step.  configureRepository notes *)
(* the change in pending-configuration.json before anything is sent and    *)
(* removes the note once the declaration is written.  It holds the lease   *)
(* of the store all along; setup, which repairs a declaration from the     *)
(* accepted metadata, does not take that lease.                            *)
(***************************************************************************)
EXTENDS LedgerSync

VARIABLES
    marker,    \* pending-configuration.json
    previous,  \* the note configureRepository read before it wrote its own
    stage,     \* what it still has to do once the transaction has returned
    declared,  \* the policy in .agent-badge/config.json of each clone
    repair,    \* the declaration a running setup is about to write
    sent       \* history: changes of metadata each clone has sent

noteVars  == << marker, previous, stage >>
checkoutVars == << declared, repair >>
configVars == << noteVars, checkoutVars, sent >>
cvars == << vars, configVars >>

None == "none"

ASSUME NoneAssumption == None \notin Meta

NoRepair == [policy |-> None, before |-> None, checked |-> FALSE]

ConfigureTypeOK ==
    /\ marker \in [Clone -> Meta \cup {None}]
    /\ previous \in [Clone -> Meta \cup {None}]
    /\ stage \in [Clone -> {"none", "declare", "clear"}]
    /\ declared \in [Clone -> Meta]
    /\ repair \in [Clone -> [policy : Meta \cup {None},
                             before : Meta \cup {None}, checked : BOOLEAN]]
    /\ sent \in [Clone -> SUBSET History]

CInit ==
    /\ Init
    /\ marker = [c \in Clone |-> None]
    /\ previous = [c \in Clone |-> None]
    /\ stage = [c \in Clone |-> "none"]
    /\ declared = [c \in Clone |-> SeedMeta]
    /\ repair = [c \in Clone |-> NoRepair]
    /\ sent = [c \in Clone |-> {}]

-----------------------------------------------------------------------------
(* configureRepository *)

\* The note is durable before the transaction reads or sends anything.
Note(c) ==
    /\ stage[c] = "none"
    /\ StartConfigure(c)
    /\ previous' = [previous EXCEPT ![c] = marker[c]]
    /\ marker' = [marker EXCEPT ![c] = op'[c].target]
    /\ UNCHANGED << stage, checkoutVars, sent >>

\* Nothing was sent and nothing will be: the change is definitely rejected.
Rejected(o) == o.status \in {"conflict", "unsupported"} /\ ~o.attempted

\* Mutant of NoteLeft: whatever did not succeed is taken for rejected.
NoteTakenBack(c) ==
    IF op[c].status \in {"synced", "unchanged"} THEN marker[c] ELSE previous[c]

\* A definite rejection restores the note of an earlier change.
NoteLeft(c) == IF Rejected(op[c]) THEN previous[c] ELSE marker[c]

\* The transaction has returned: declare what was accepted, take the note of a
\* definite rejection back, or keep it because the change may still be applied.
Conclude(c) ==
    /\ op[c].kind = "configure"
    /\ Return(c)
    /\ stage' = [stage EXCEPT ![c] =
           IF op[c].status \in {"synced", "unchanged"} THEN "declare" ELSE "none"]
    /\ marker' = [marker EXCEPT ![c] = NoteLeft(c)]
    /\ previous' = [previous EXCEPT ![c] = None]
    /\ UNCHANGED << checkoutVars, sent >>

\* writeAcceptedDeclaration(); the accepted snapshot is the transport's commit.
Declare(c) ==
    /\ stage[c] = "declare"
    /\ declared' = [declared EXCEPT ![c] = MetaOf(transport[c].commit)]
    /\ stage' = [stage EXCEPT ![c] = "clear"]
    /\ UNCHANGED << vars, marker, previous, repair, sent >>

Clear(c) ==
    /\ stage[c] = "clear"
    /\ marker' = [marker EXCEPT ![c] = None]
    /\ stage' = [stage EXCEPT ![c] = "none"]
    /\ UNCHANGED << vars, previous, checkoutVars, sent >>

\* The write fails, is cancelled or out of time, or the process dies: "drift".
Drift(c) ==
    /\ stage[c] # "none"
    /\ faults < MaxFaults
    /\ faults' = faults + 1
    /\ stage' = [stage EXCEPT ![c] = "none"]
    /\ UNCHANGED << remoteVars, storeVars, pc, op, creations, tampers,
                    marker, previous, checkoutVars, sent >>

-----------------------------------------------------------------------------
(* The transaction itself, and the synchronizations of the clone *)

\* The lease is taken for the whole call, its declaration included.  Usage,
\* imports and initialization are the subject of LedgerSync.
Synchronize(c) ==
    /\ stage[c] = "none"
    /\ StartManual(c, FALSE)
    /\ UNCHANGED configVars

Transact(c) ==
    /\ Proceed(c)
    /\ ~(pc[c] = "done" /\ op[c].kind = "configure")
    /\ sent' = [sent EXCEPT ![c] =
           IF pc[c] = "send" /\ inflight' # inflight /\ op[c].kind = "configure"
           THEN @ \cup {op[c].candidate} ELSE @]
    /\ UNCHANGED << noteVars, checkoutVars >>

Interrupt(c) ==
    /\ Fail(c)
    /\ previous' = [previous EXCEPT ![c] = IF pc'[c] = "idle" THEN None ELSE @]
    /\ UNCHANGED << marker, stage, checkoutVars, sent >>

Remote ==
    /\ \E request \in inflight : Deliver(request) \/ Lose(request)
    /\ UNCHANGED configVars

-----------------------------------------------------------------------------
(* Setup repairs the declaration from the accepted metadata *)

\* Mutant of AcceptedPolicy: setup trusts the policy it finds in the checkout.
DeclaredPolicy(c) == declared[c]

\* planSetup(): the accepted anchor outranks the declaration of the checkout.
AcceptedPolicy(c) ==
    IF transport[c].commit = Absent THEN declared[c] ELSE MetaOf(transport[c].commit)

PlanRepair(c) ==
    /\ repair[c] = NoRepair
    /\ AcceptedPolicy(c) # declared[c]
    /\ repair' = [repair EXCEPT ![c] =
           [policy |-> AcceptedPolicy(c), before |-> declared[c], checked |-> FALSE]]
    /\ UNCHANGED << vars, noteVars, declared, sent >>

\* applySetup(): the files are compared once, before a runtime is installed.
CheckRepair(c) ==
    /\ repair[c] # NoRepair
    /\ ~repair[c].checked
    /\ repair' = [repair EXCEPT ![c] =
           IF declared[c] = @.before THEN [@ EXCEPT !.checked = TRUE] ELSE NoRepair]
    /\ UNCHANGED << vars, noteVars, declared, sent >>

WriteRepair(c) ==
    /\ repair[c].checked
    /\ declared' = [declared EXCEPT ![c] = repair[c].policy]
    /\ repair' = [repair EXCEPT ![c] = NoRepair]
    /\ UNCHANGED << vars, noteVars, sent >>

Setup(c) == PlanRepair(c) \/ CheckRepair(c) \/ WriteRepair(c)

-----------------------------------------------------------------------------
(* The specification *)

CNext ==
    \/ \E c \in Clone :
         \/ Note(c) \/ Conclude(c) \/ Declare(c) \/ Clear(c) \/ Drift(c)
         \/ Synchronize(c) \/ Transact(c) \/ Interrupt(c)
         \/ PlanRepair(c) \/ CheckRepair(c) \/ WriteRepair(c)
    \/ Remote

CSpec == CInit /\ [][CNext]_cvars

\* Clones that keep being asked to synchronize.
Syncing == { c \in Clone : "manual" \in Kinds[c] }

\* A started operation takes its steps and is declared, a request reaches the
\* remote or is lost, a clone is synchronized again and again, as retried sync
\* and setup commands do, and setup is run where the declaration has drifted.
FairCSpec ==
    /\ CSpec
    /\ \A c \in Clone : WF_cvars(Transact(c) \/ Conclude(c) \/ Declare(c) \/ Clear(c))
    /\ \A c \in Syncing : SF_cvars(Synchronize(c))
    /\ \A c \in Clone : WF_cvars(Setup(c))
    /\ WF_cvars(Remote)

-----------------------------------------------------------------------------
(* Properties *)

\* Changes this clone sent that it has not seen accepted and that are public
\* or may still become so.
Unsettled(c) ==
    { change \in sent[c] :
        /\ ~Ancestor(change, transport[c].commit)
        /\ \/ Ancestor(change, tip)
           \/ \E request \in inflight :
                request.from = c /\ request.new = change /\ request.old = tip }

\* A change that was sent and may still be applied keeps its note, whatever came
\* between: a rejection of a later change, a crash, or another synchronization.
UncertaintyKept == \A c \in Clone : Unsettled(c) # {} => marker[c] # None

Drifted(c) ==
    /\ transport[c].commit # Absent
    /\ declared[c] # MetaOf(transport[c].commit)

\* A declaration that differs from the accepted metadata, because its write
\* failed or another clone won, is brought back in line by configure or setup.
DriftRepaired == \A c \in Clone : Drifted(c) ~> ~Drifted(c)

=============================================================================
