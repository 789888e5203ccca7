------------------------------- MODULE StoreLease -------------------------------
(***************************************************************************)
(* The operation lease of a private store (storage/lock.ts) and its        *)
(* cleanup by the parent of a supervised worker (operations/supervisor.ts).*)
(*                                                                         *)
(* Two files decide who works: locks/operation.lock, published whole by    *)
(* link(2), and locks/recovery.lock, created exclusively around every      *)
(* removal of a lease by somebody else than its owner.  Each system call   *)
(* on them is one action.  Processes are named by their pid, which a later *)
(* process may get again, and die between any two calls.                   *)
(***************************************************************************)
EXTENDS Naturals, FiniteSets

CONSTANTS
    Pid,         \* process identifiers of the host
    Supervisor,  \* parents that may supervise one worker at a time
    Token,       \* random nonces of leases
    Reused,      \* pids that may be given out again while a lease names them
    MaxDeaths    \* bound: processes and parents killed

ASSUME LeaseAssumption ==
    Reused \subseteq Pid /\ MaxDeaths \in Nat

VARIABLES
    lease,   \* content of operation.lock: no owner, or one
    guard,   \* whether recovery.lock exists
    pc,      \* where each process stands; "absent" when no process has the pid
    mine,    \* the owner record a process publishes, while it acquires or holds
    seen,    \* the owner a recovering process has read and not probed yet
    given,   \* the lease token a supervised worker was given
    sup,     \* what each parent knows of its worker, when it has one
    deaths,  \* how many were killed
    overtaken  \* history: a recovery found dead the owner of a lease given back meanwhile

vars == << lease, guard, pc, mine, seen, given, sup, deaths, overtaken >>

\* `known`: the boot and pid namespace was established when it was recorded.
Owner == [pid : Pid, token : Token, known : BOOLEAN]

Guarded == {"inspect", "judge", "remove", "unguard"}

Location == {"absent", "running", "link", "guard", "hold", "release"} \cup Guarded

Watch == [at : {"watching", "exited", "inspect", "remove", "unguard"}, pid : Pid, token : Token]

TypeOK ==
    /\ lease \in SUBSET Owner
    /\ guard \in BOOLEAN
    /\ pc \in [Pid -> Location]
    /\ mine \in [Pid -> SUBSET Owner]
    /\ seen \in [Pid -> SUBSET Owner]
    /\ given \in [Pid -> SUBSET Token]
    /\ sup \in [Supervisor -> SUBSET Watch]
    /\ deaths \in Nat
    /\ overtaken \in BOOLEAN

Init ==
    /\ lease = {}
    /\ guard = FALSE
    /\ pc = [p \in Pid |-> "absent"]
    /\ mine = [p \in Pid |-> {}]
    /\ seen = [p \in Pid |-> {}]
    /\ given = [p \in Pid |-> {}]
    /\ sup = [s \in Supervisor |-> {}]
    /\ deaths = 0
    /\ overtaken = FALSE

-----------------------------------------------------------------------------
(* What is read *)

Holding(p) == pc[p] \in {"hold", "release"}

\* randomUUID never returns a token that is still in use somewhere.
InUse ==
    UNION ( {{ o.token : o \in lease }}
            \cup { given[p] : p \in Pid }
            \cup { { o.token : o \in mine[p] } : p \in Pid }
            \cup { { w.token : w \in sup[s] } : s \in Supervisor } )

Fresh == Token \ InUse

\* Mutant of Dead: the answers of the probe are swapped.
DeadSwapped(p, o) ==
    /\ o.known
    /\ \A own \in mine[p] : own.known
    /\ pc[o.pid] # "absent"

\* Only ESRCH in the recorded namespace, itself known to the reader, is proof.
Dead(p, o) ==
    /\ o.known
    /\ \A own \in mine[p] : own.known
    /\ pc[o.pid] = "absent"

\* Mutant of Observed: whoever has the pid of the worker is the worker.
ObservedPid(s, o) == \E w \in sup[s] : o.pid = w.pid

\* The lease of exactly the child this parent saw exit.
Observed(s, o) == \E w \in sup[s] : o.pid = w.pid /\ o.token = w.token

\* Mutant of GuardFree: the exclusive creation is not exclusive.
GuardIgnored == TRUE

\* open(O_CREAT | O_EXCL) of recovery.lock succeeds.
GuardFree == ~guard

-----------------------------------------------------------------------------
(* A process *)

Goto(p, from, to) == pc[p] = from /\ pc' = [pc EXCEPT ![p] = to]

\* A new process gets a free pid.
Free(p) == pc[p] = "absent" /\ (p \in Reused \/ \A o \in lease : o.pid # p)

Start(p) ==
    /\ Free(p)
    /\ Goto(p, "absent", "running")
    /\ UNCHANGED << lease, guard, mine, seen, given, sup, deaths, overtaken >>

\* acquireLock(): probe the namespace, which may take too long, and name an
\* owner; a supervised worker uses the token of its parent for every lease.
Begin(p, known) ==
    /\ Goto(p, "running", "link")
    /\ \E token \in IF given[p] = {} THEN Fresh ELSE given[p] :
         mine' = [mine EXCEPT ![p] = {[pid |-> p, token |-> token, known |-> known]}]
    /\ UNCHANGED << lease, guard, seen, given, sup, deaths, overtaken >>

\* link(staging, operation.lock)
Link(p) ==
    /\ IF lease = {}
       THEN Goto(p, "link", "hold") /\ lease' = mine[p]
       ELSE Goto(p, "link", "guard") /\ UNCHANGED lease
    /\ UNCHANGED << guard, mine, seen, given, sup, deaths, overtaken >>

\* The loop of acquireLock goes on, or its two seconds are over.
Retry(p, from) ==
    \/ Goto(p, from, "link") /\ UNCHANGED mine
    \/ Goto(p, from, "running") /\ mine' = [mine EXCEPT ![p] = {}]

\* reclaim(): one recovery at a time.
OpenGuard(p) ==
    /\ IF GuardFree
       THEN Goto(p, "guard", "inspect") /\ guard' = TRUE /\ UNCHANGED mine
       ELSE Retry(p, "guard") /\ UNCHANGED guard
    /\ UNCHANGED << lease, seen, given, sup, deaths, overtaken >>

\* The owner is read, unless the lease is gone again ...
Inspect(p) ==
    /\ Goto(p, "inspect", IF lease = {} THEN "unguard" ELSE "judge")
    /\ seen' = [seen EXCEPT ![p] = lease]
    /\ UNCHANGED << lease, guard, mine, given, sup, deaths, overtaken >>

\* ... then its pid is probed, and only then is the path unlinked.  The owner may
\* have given back the lease and ended between the two: the probe is then right
\* about the process and says nothing of the lease.
Judge(p) ==
    /\ Goto(p, "judge", IF \E o \in seen[p] : Dead(p, o) THEN "remove" ELSE "unguard")
    /\ overtaken' = (overtaken \/ \E o \in seen[p] : Dead(p, o) /\ lease # {o})
    /\ seen' = [seen EXCEPT ![p] = {}]
    /\ UNCHANGED << lease, guard, mine, given, sup, deaths >>

Remove(p) ==
    /\ Goto(p, "remove", "unguard")
    /\ lease' = {}
    /\ UNCHANGED << guard, mine, seen, given, sup, deaths, overtaken >>

Unguard(p) ==
    /\ Retry(p, "unguard")
    /\ guard' = FALSE
    /\ UNCHANGED << lease, seen, given, sup, deaths, overtaken >>

\* The task is over: release() reads the token of the file ...
Verify(p) ==
    /\ IF { o.token : o \in lease } = { o.token : o \in mine[p] }
       THEN Goto(p, "hold", "release") /\ UNCHANGED mine
       ELSE Goto(p, "hold", "running") /\ mine' = [mine EXCEPT ![p] = {}]
    /\ UNCHANGED << lease, guard, seen, given, sup, deaths, overtaken >>

\* ... and then unlinks the path, whatever it holds by now.  When that fails
\* the lease stays behind, its owner alive and done with it.
Release(p) ==
    /\ Goto(p, "release", "running")
    /\ lease' \in {{}, lease}
    /\ mine' = [mine EXCEPT ![p] = {}]
    /\ UNCHANGED << guard, seen, given, sup, deaths, overtaken >>

\* A process is gone; a parent that watches it will be told.
Gone(p) ==
    /\ pc' = [pc EXCEPT ![p] = "absent"]
    /\ mine' = [mine EXCEPT ![p] = {}]
    /\ seen' = [seen EXCEPT ![p] = {}]
    /\ given' = [given EXCEPT ![p] = {}]
    /\ sup' = [s \in Supervisor |->
                 { IF w.at = "watching" /\ w.pid = p THEN [w EXCEPT !.at = "exited"] ELSE w
                   : w \in sup[s] }]
    /\ UNCHANGED << lease, guard, overtaken >>

Exit(p) == pc[p] = "running" /\ Gone(p) /\ UNCHANGED deaths

\* SIGKILL by a deadline, a crash or a power cut, between any two calls.
Die(p) ==
    /\ pc[p] \notin {"absent", "running"}
    /\ deaths < MaxDeaths
    /\ Gone(p)
    /\ deaths' = deaths + 1

-----------------------------------------------------------------------------
(* The parent of a worker *)

Move(s, from, to) ==
    \E w \in sup[s] : w.at = from /\ sup' = [sup EXCEPT ![s] = {[w EXCEPT !.at = to]}]

Leave(s, from) ==
    (\E w \in sup[s] : w.at = from) /\ sup' = [sup EXCEPT ![s] = {}]

\* superviseOperation(): spawn a worker and give it a token of its own.
Supervise(s, p) ==
    /\ sup[s] = {}
    /\ Free(p)
    /\ pc' = [pc EXCEPT ![p] = "running"]
    /\ \E token \in Fresh :
         /\ given' = [given EXCEPT ![p] = {token}]
         /\ sup' = [sup EXCEPT ![s] = {[at |-> "watching", pid |-> p, token |-> token]}]
    /\ UNCHANGED << lease, guard, mine, seen, deaths, overtaken >>

\* After the exit event; a recovery that is under way is left to itself.
OpenGuardFor(s) ==
    /\ IF GuardFree
       THEN Move(s, "exited", "inspect") /\ guard' = TRUE
       ELSE Leave(s, "exited") /\ UNCHANGED guard
    /\ UNCHANGED << lease, pc, mine, seen, given, deaths, overtaken >>

InspectFor(s) ==
    /\ Move(s, "inspect",
            IF \E o \in lease : Observed(s, o) THEN "remove" ELSE "unguard")
    /\ UNCHANGED << lease, guard, pc, mine, seen, given, deaths, overtaken >>

RemoveFor(s) ==
    /\ Move(s, "remove", "unguard")
    /\ lease' = {}
    /\ UNCHANGED << guard, pc, mine, seen, given, deaths, overtaken >>

UnguardFor(s) ==
    /\ Leave(s, "unguard")
    /\ guard' = FALSE
    /\ UNCHANGED << lease, pc, mine, seen, given, deaths, overtaken >>

\* The parent dies, and what it observed with it; its worker may live on.
ParentDies(s) ==
    /\ sup[s] # {}
    /\ deaths < MaxDeaths
    /\ sup' = [sup EXCEPT ![s] = {}]
    /\ deaths' = deaths + 1
    /\ UNCHANGED << lease, guard, pc, mine, seen, given, overtaken >>

-----------------------------------------------------------------------------
(* The specification *)

Step(p) ==
    \/ Link(p)
    \/ OpenGuard(p)
    \/ Inspect(p)
    \/ Judge(p)
    \/ Remove(p)
    \/ Unguard(p)
    \/ Verify(p)
    \/ Release(p)

Process(p) ==
    \/ Start(p)
    \/ \E known \in BOOLEAN : Begin(p, known)
    \/ Step(p)
    \/ Exit(p)
    \/ Die(p)

Cleanup(s) ==
    \/ OpenGuardFor(s)
    \/ InspectFor(s)
    \/ RemoveFor(s)
    \/ UnguardFor(s)

Parent(s) ==
    \/ \E p \in Pid : Supervise(s, p)
    \/ Cleanup(s)
    \/ ParentDies(s)

Next == (\E p \in Pid : Process(p)) \/ (\E s \in Supervisor : Parent(s))

Spec == Init /\ [][Next]_vars

\* A process that could prove a death is about to try the guard.
Polls(p) == pc[p] = "guard" /\ \A o \in mine[p] : o.known

-----------------------------------------------------------------------------
(* Properties *)

\* Two processes never work on one store at a time.
MutualExclusion ==
    \A p, q \in Pid : Holding(p) /\ Holding(q) => p = q

\* The lease of a process that holds it is never removed or replaced: no reaper
\* or parent that decided on an older lease hits the new one, and release()
\* never finds a foreign token.  This is what the comment on the guard of
\* reclaim() promises, and an overtaken recovery breaks it.
HolderKeepsLease == \A p \in Pid : Holding(p) => lease = mine[p]

\* Nothing else does: however removals by reapers and parents, exits, deaths and
\* the reuse of pids interleave, a holder loses its lease only after a recovery
\* has probed an owner that gave its lease back and ended since it was read.
KeptUnlessOvertaken == ~overtaken => HolderKeepsLease

\* Somebody died inside a recovery: the guard stays for good.
Orphaned ==
    /\ guard
    /\ \A p \in Pid : pc[p] \notin Guarded
    /\ \A s \in Supervisor : \A w \in sup[s] : w.at \notin Guarded

\* The store is blocked by a dead owner whose namespace was recorded.
Stale == \E o \in lease : o.known /\ pc[o.pid] = "absent"

\* The lease of such an owner is removed in the end, so that the store is of
\* use again without a repair by hand, unless a recovery died half way.
DeadOwnerReclaimed == Stale ~> (~Stale \/ Orphaned)

=============================================================================
