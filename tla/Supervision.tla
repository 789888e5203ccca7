------------------------------ MODULE Supervision ------------------------------
(***************************************************************************)
(* Supervised operations: a launcher spawns a worker in a process group of *)
(* its own, and answers its caller after a race of the worker's summary,   *)
(* its exit, two timers and the cleanup of the lease (StoreLease).         *)
(* Source: packages/core/src/operations/supervisor.ts, worker-host.ts.     *)
(*                                                                         *)
(* A SIGKILL stops a worker and the Git processes of its group at once;    *)
(* the pid of the worker is free again when the launcher has reaped it.    *)
(***************************************************************************)
EXTENDS StoreLease

CONSTANT MaxCalls  \* bound: operations supervised

ASSUME CallAssumption == MaxCalls \in Nat

VARIABLES
    call,   \* what each launcher knows of its operation
    group,  \* whether a Git process of the group runs
    mail,   \* the summary a worker has sent and its launcher has not read
    did,    \* workers that have completed a task under the lease
    calls   \* how many operations were supervised

callVars == << call, group, mail, did, calls >>
leaseVars == << lease, guard, pc, mine, seen, given, sup, overtaken >>
allVars == << vars, callVars >>

\* "queued" also stands for every other summary that is not a success.
Summary == {"queued", "synced"}

Call == [answer : {"none", "open"} \cup Summary, summary : SUBSET Summary, stopped : BOOLEAN]

NoCall == [answer |-> "none", summary |-> {}, stopped |-> FALSE]

CallsTypeOK ==
    /\ TypeOK
    /\ call \in [Supervisor -> Call]
    /\ group \in [Supervisor -> BOOLEAN]
    /\ mail \in [Supervisor -> SUBSET Summary]
    /\ did \in SUBSET Pid
    /\ calls \in 0 .. MaxCalls

SInit ==
    /\ Init
    /\ call = [s \in Supervisor |-> NoCall]
    /\ group = [s \in Supervisor |-> FALSE]
    /\ mail = [s \in Supervisor |-> {}]
    /\ did = {}
    /\ calls = 0

-----------------------------------------------------------------------------
(* Helpers *)

Open(s) == call[s].answer = "open"

Watching(s, p) == \E w \in sup[s] : w.at = "watching" /\ w.pid = p

\* A worker that was sent SIGKILL does nothing any more.
Doomed(p) == \E s \in Supervisor : Watching(s, p) /\ call[s].stopped

\* Its launcher is gone: the worker exits on "disconnect".
Deserted(p) == given[p] # {} /\ \A s \in Supervisor : ~ Watching(s, p)

Posted(p) == \E s \in Supervisor : Watching(s, p) /\ (mail[s] # {} \/ call[s].summary # {})

\* killTree(): the whole group, children of the worker included.
KillTree(s) == group' = [group EXCEPT ![s] = FALSE]

-----------------------------------------------------------------------------
(* The launcher *)

Launch(s, p) ==
    /\ calls < MaxCalls /\ ~ Open(s) /\ ~ group[s]
    /\ Supervise(s, p)
    /\ call' = [call EXCEPT ![s] = [NoCall EXCEPT !.answer = "open"]]
    /\ mail' = [mail EXCEPT ![s] = {}]
    /\ did' = did \ {p}
    /\ calls' = calls + 1
    /\ UNCHANGED group

\* on "message": the group has nothing left to do.
Receive(s) ==
    /\ Open(s) /\ mail[s] # {} /\ call[s].summary = {}
    /\ call' = [call EXCEPT ![s].summary = mail[s]]
    /\ mail' = [mail EXCEPT ![s] = {}]
    /\ KillTree(s)
    /\ UNCHANGED << vars, did, calls >>

\* The stop timer leaves time to observe the exit and to clean up.
Stop(s) ==
    /\ Open(s) /\ ~ call[s].stopped
    /\ call' = [call EXCEPT ![s].stopped = TRUE]
    /\ KillTree(s)
    /\ UNCHANGED << vars, mail, did, calls >>

\* Mutant of Abort: the caller is answered, the worker goes on.
AbortAnswer(s) ==
    /\ Open(s)
    /\ call' = [call EXCEPT ![s].answer = "queued"]
    /\ UNCHANGED << vars, group, mail, did, calls >>

\* The hard timer, an abort of the budget or a request that could not be sent:
\* the caller does not wait for the exit.
Abort(s) ==
    /\ Open(s)
    /\ call' = [call EXCEPT ![s] = [@ EXCEPT !.stopped = TRUE, !.answer = "queued"]]
    /\ KillTree(s)
    /\ UNCHANGED << vars, mail, did, calls >>

\* The kernel ends a worker that was sent SIGKILL, wherever it stands.
Killed(p) ==
    /\ Doomed(p) /\ pc[p] # "absent"
    /\ Gone(p)
    /\ UNCHANGED << deaths, callVars >>

\* Mutant of Exited: the lease is looked at first.
ExitedBeforeKill(s) == OpenGuardFor(s) /\ UNCHANGED callVars

\* on "exit": what is left of the group is killed before its lease is touched.
Exited(s) ==
    /\ OpenGuardFor(s)
    /\ KillTree(s)
    /\ UNCHANGED << call, mail, did, calls >>

Clean(s) ==
    /\ InspectFor(s) \/ RemoveFor(s) \/ UnguardFor(s)
    /\ UNCHANGED callVars

\* A stopped operation is queued, whatever its worker managed to say.
Result(c) == IF c.summary = {"synced"} /\ ~ c.stopped THEN "synced" ELSE "queued"

\* done() after the cleanup.  A summary that was read meanwhile counts.
Done(s) ==
    /\ Open(s) /\ sup[s] = {}
    /\ call' = [call EXCEPT ![s].answer = Result(call[s])]
    /\ UNCHANGED << vars, group, mail, did, calls >>

LauncherDies(s) ==
    /\ ParentDies(s)
    /\ call' = [call EXCEPT ![s] = NoCall]
    /\ mail' = [mail EXCEPT ![s] = {}]
    /\ UNCHANGED << group, did, calls >>

-----------------------------------------------------------------------------
(* The worker and the other processes *)

\* runOperation has returned; afterwards the worker only exits.
Post(s, p) ==
    /\ Watching(s, p) /\ pc[p] = "running" /\ ~ Doomed(p) /\ ~ Posted(p)
    /\ \E summary \in IF p \in did THEN Summary ELSE {"queued"} :
          mail' = [mail EXCEPT ![s] = {summary}]
    /\ UNCHANGED << vars, call, group, did, calls >>

\* A worker runs Git while it holds the lease; it may die before Git does.
Fork(s, p) ==
    /\ Watching(s, p) /\ ~ Doomed(p) /\ pc[p] = "hold" /\ ~ group[s]
    /\ group' = [group EXCEPT ![s] = TRUE]
    /\ UNCHANGED << vars, call, mail, did, calls >>

Reap(s) ==
    /\ group[s] /\ KillTree(s)
    /\ UNCHANGED << vars, call, mail, did, calls >>

\* The lease is given back only after the Git processes of the task have ended.
Waits(p) == pc[p] = "hold" => \A s \in Supervisor : Watching(s, p) => ~ group[s]

Works(p) ==
    /\ ~ Doomed(p) /\ Waits(p) /\ Step(p)
    /\ did' = IF Holding(p) /\ pc'[p] = "running" THEN did \cup {p} ELSE did
    /\ UNCHANGED << call, group, mail, calls >>

Enters(p) == Start(p) /\ UNCHANGED callVars

Begins(p, known) ==
    /\ ~ Doomed(p) /\ ~ Posted(p) /\ Begin(p, known)
    /\ UNCHANGED callVars

Ends(p) ==
    /\ Exit(p) \/ Die(p) \/ (Deserted(p) /\ pc[p] # "absent" /\ Gone(p) /\ UNCHANGED deaths)
    /\ UNCHANGED callVars

-----------------------------------------------------------------------------

Launcher(s) ==
    \/ \E p \in Pid : Launch(s, p)
    \/ Receive(s) \/ Stop(s) \/ Abort(s)
    \/ Exited(s) \/ Clean(s) \/ Done(s) \/ Reap(s)
    \/ LauncherDies(s)

Worker(p) ==
    \/ Enters(p) \/ (\E known \in BOOLEAN : Begins(p, known)) \/ Works(p)
    \/ Ends(p) \/ Killed(p)
    \/ \E s \in Supervisor : Post(s, p) \/ Fork(s, p)

SNext == (\E s \in Supervisor : Launcher(s)) \/ (\E p \in Pid : Worker(p))

SSpec == SInit /\ [][SNext]_allVars

\* Commands keep being run, what runs takes its steps, an acquisition ends by its
\* deadline, some probes of the namespace succeed, some of the polls that could take
\* the free guard do, a launcher handles its events and its hard timer fires.
SFairness ==
    /\ \A p \in Pid : WF_allVars(Enters(p) \/ Works(p) \/ Killed(p))
    /\ SF_allVars(\E p \in Pid : (OpenGuard(p) \/ Unguard(p)) /\ Works(p) /\ pc'[p] = "running")
    /\ SF_allVars(\E p \in Pid : Begins(p, TRUE))
    /\ SF_allVars(\E p \in Pid : Polls(p) /\ ~guard /\ OpenGuard(p) /\ Works(p))
    /\ \A s \in Supervisor :
         /\ WF_allVars(Receive(s) \/ Exited(s) \/ Clean(s) \/ Done(s) \/ Reap(s))
         /\ WF_allVars(Abort(s))

FairSSpec == SSpec /\ SFairness

-----------------------------------------------------------------------------
(* Properties *)

\* Once the caller has its answer, whichever of the racing events gave it, the
\* worker takes no step any more and none of its Git processes runs.
AnswerIsFinal ==
    [][\A s \in Supervisor : call[s].answer \in Summary =>
          /\ ~ group'[s]
          /\ \A p \in Pid : Watching(s, p) => pc'[p] \in {pc[p], "absent"}]_allVars

\* A launcher takes away the lease of its worker only when no Git process of the
\* group can still write to the store.
GroupGoneFirst ==
    \A s \in Supervisor : (\E w \in sup[s] : w.at \in {"inspect", "remove"}) => ~ group[s]

=============================================================================
