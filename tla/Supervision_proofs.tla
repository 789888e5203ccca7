--------------------------- MODULE Supervision_proofs ---------------------------
(***************************************************************************)
(* Proofs about Supervision for any number of processes, launchers and     *)
(* supervised operations.  On the lease a launcher and its worker do what  *)
(* StoreLease allows, so that its invariant carries over; what is new is   *)
(* the race of a call against its timers and its process group.            *)
(* The first part is about StoreLease alone, with and without reuse of     *)
(* pids.                                                                   *)
(***************************************************************************)
EXTENDS Supervision, TLAPS

\* At most one owner is recorded at a path.
LeaseInv == lease = {} \/ \E o \in Owner : lease = {o}

\* A process names itself, publishes one record from the link on, and leaves
\* nothing behind in memory.
OwnerInv(p) ==
    /\ \A o \in mine[p] : o.pid = p
    /\ pc[p] \notin {"absent", "running"} => \E o \in Owner : mine[p] = {o}
    /\ pc[p] = "absent" => mine[p] = {} /\ given[p] = {}

\* The lease of a holder is its own.
HoldInv(p) == ~overtaken /\ Holding(p) => lease = mine[p]

InRecovery(p) == pc[p] \in Guarded

Recovers(s) == \E w \in sup[s] : w.at \in Guarded

\* The guard exists during a recovery, and one recovery runs at a time.
GuardInv ==
    /\ \A p \in Pid : InRecovery(p) => guard
    /\ \A s \in Supervisor : Recovers(s) => guard
    /\ \A p, q \in Pid : InRecovery(p) /\ InRecovery(q) => p = q
    /\ \A s, t \in Supervisor : Recovers(s) /\ Recovers(t) => s = t
    /\ \A p \in Pid, s \in Supervisor : ~(InRecovery(p) /\ Recovers(s))

\* The lease is a dead one.
Abandoned == ~overtaken => lease # {} /\ \A p \in Pid : ~Holding(p)

RemoveInv(p) == pc[p] = "remove" => Abandoned

\* A parent has one worker, and nobody uses the token of one that exited.
ParentInv(s) ==
    /\ \A v, w \in sup[s] : v = w
    /\ \A w \in sup[s] :
         /\ w.at = "remove" => Abandoned
         /\ w.at # "watching" =>
              w.token \notin given[w.pid] /\ \A o \in mine[w.pid] : o.token # w.token

ProcessesInv == \A p \in Pid : OwnerInv(p) /\ HoldInv(p) /\ RemoveInv(p)

ParentsInv == \A s \in Supervisor : ParentInv(s)

LeaseInvariant == TypeOK /\ LeaseInv /\ GuardInv /\ ProcessesInv /\ ParentsInv

-----------------------------------------------------------------------------
(* Types *)

\* Every step is well typed.
LEMMA TypeStep == TypeOK /\ [Next]_vars => TypeOK'
<1> SUFFICES ASSUME TypeOK, [Next]_vars PROVE TypeOK'
    OBVIOUS
<1>1. ASSUME NEW p \in Pid, Start(p) PROVE TypeOK'
    BY <1>1 DEF TypeOK, Location, Start, Goto
<1>2. ASSUME NEW p \in Pid, NEW known \in BOOLEAN, Begin(p, known) PROVE TypeOK'
    BY <1>2 DEF TypeOK, Location, Owner, Begin, Goto, Fresh
<1>3. ASSUME NEW p \in Pid, Link(p) PROVE TypeOK'
    BY <1>3 DEF TypeOK, Location, Link, Goto
<1>4. ASSUME NEW p \in Pid, OpenGuard(p) PROVE TypeOK'
    BY <1>4 DEF TypeOK, Location, Guarded, Owner, Watch, OpenGuard, GuardFree, Goto,
        Retry
<1>5. ASSUME NEW p \in Pid, Inspect(p) PROVE TypeOK'
    BY <1>5 DEF TypeOK, Location, Guarded, Inspect, Goto
<1>6. ASSUME NEW p \in Pid, Judge(p) PROVE TypeOK'
    BY <1>6 DEF TypeOK, Location, Guarded, Judge, Goto
<1>7. ASSUME NEW p \in Pid, Remove(p) PROVE TypeOK'
    BY <1>7 DEF TypeOK, Location, Guarded, Remove, Goto
<1>8. ASSUME NEW p \in Pid, Unguard(p) PROVE TypeOK'
    BY <1>8 DEF TypeOK, Location, Guarded, Owner, Watch, Unguard, Goto, Retry
<1>9. ASSUME NEW p \in Pid, Verify(p) PROVE TypeOK'
    BY <1>9 DEF TypeOK, Location, Guarded, Owner, Watch, Verify, Goto
<1>10. ASSUME NEW p \in Pid, Release(p) PROVE TypeOK'
    BY <1>10 DEF TypeOK, Location, Release, Goto
<1>11. ASSUME NEW p \in Pid, Exit(p) PROVE TypeOK'
    BY <1>11 DEF TypeOK, Location, Watch, Exit, Gone
<1>12. ASSUME NEW p \in Pid, Die(p) PROVE TypeOK'
    BY <1>12 DEF TypeOK, Location, Watch, Die, Gone
<1>13. ASSUME NEW s \in Supervisor, NEW p \in Pid, Supervise(s, p) PROVE TypeOK'
    BY <1>13 DEF TypeOK, Location, Watch, Supervise, Fresh
<1>14. ASSUME NEW s \in Supervisor, OpenGuardFor(s) PROVE TypeOK'
    <2>1. sup' \in [Supervisor -> SUBSET Watch]
        <3>1. \A at \in {"inspect"} : \A w \in sup[s] : [w EXCEPT !.at = at] \in Watch
            BY DEF TypeOK, Watch
        <3> QED
            BY <1>14, <3>1 DEF TypeOK, OpenGuardFor, Move, Leave
    <2> QED
        BY <1>14, <2>1 DEF TypeOK, OpenGuardFor
<1>15. ASSUME NEW s \in Supervisor, InspectFor(s) PROVE TypeOK'
    BY <1>15 DEF TypeOK, Watch, InspectFor, Move
<1>16. ASSUME NEW s \in Supervisor, RemoveFor(s) PROVE TypeOK'
    BY <1>16 DEF TypeOK, Watch, RemoveFor, Move
<1>17. ASSUME NEW s \in Supervisor, UnguardFor(s) PROVE TypeOK'
    BY <1>17 DEF TypeOK, Location, Guarded, Owner, Watch, UnguardFor, Leave
<1>18. ASSUME NEW s \in Supervisor, ParentDies(s) PROVE TypeOK'
    BY <1>18 DEF TypeOK, ParentDies
<1>19. CASE UNCHANGED vars
    BY <1>19 DEF TypeOK, vars
<1> QED
    BY <1>1, <1>2, <1>3, <1>4, <1>5, <1>6, <1>7, <1>8, <1>9, <1>10, <1>11, <1>12, <1>13,
        <1>14, <1>15, <1>16, <1>17, <1>18, <1>19 DEF Next, Process, Step, Parent,
        Cleanup

-----------------------------------------------------------------------------
(* The invariant, action by action *)

\* The token a parent remembers is never drawn again.
LEMMA ParentTokenInUse ==
    ASSUME NEW t \in Supervisor, NEW v \in sup[t]
    PROVE  v.token \notin Fresh
<1>1. v.token \in { w.token : w \in sup[t] }
    OBVIOUS
<1>2. { w.token : w \in sup[t] } \in { { w.token : w \in sup[s] } : s \in Supervisor }
    OBVIOUS
<1>3. v.token \in InUse
    BY <1>1, <1>2, Zenon DEF InUse
<1> QED
    BY <1>3 DEF Fresh

LEMMA StartStep ==
    ASSUME LeaseInvariant, TypeOK', NEW p \in Pid, Start(p)
    PROVE  LeaseInvariant'
<1>1. LeaseInv'
    BY DEF LeaseInvariant, LeaseInv, Start
<1>2. GuardInv'
    BY DEF LeaseInvariant, GuardInv, InRecovery, Recovers, Guarded, Start, Goto
<1>3. ProcessesInv'
    BY DEF LeaseInvariant, ProcessesInv, OwnerInv, HoldInv, RemoveInv,
        Abandoned, Holding, Start, Goto
<1>4. ParentsInv'
    BY DEF LeaseInvariant, Abandoned, Holding, ParentsInv, ParentInv, Start, Goto
<1> QED
    BY <1>1, <1>2, <1>3, <1>4 DEF LeaseInvariant

LEMMA BeginStep ==
    ASSUME LeaseInvariant, TypeOK', NEW p \in Pid, NEW known \in BOOLEAN, Begin(p, known)
    PROVE  LeaseInvariant'
<1>1. LeaseInv'
    BY DEF LeaseInvariant, LeaseInv, Begin
<1>2. GuardInv'
    BY DEF LeaseInvariant, GuardInv, InRecovery, Recovers, Guarded, Begin, Goto
<1>3. PICK token \in Token :
        /\ token \in given[p] \/ token \in Fresh
        /\ mine' = [mine EXCEPT ![p] = {[pid |-> p, token |-> token, known |-> known]}]
    BY DEF LeaseInvariant, TypeOK, Begin, Fresh
<1>4. ProcessesInv'
    <2> DEFINE record == [pid |-> p, token |-> token, known |-> known]
    <2>1. record \in Owner /\ record.pid = p
        BY DEF Owner
    <2>2. mine'[p] = {record} /\ pc'[p] = "link" /\ pc[p] = "running"
        BY <1>3 DEF TypeOK, Begin, Goto
    <2>3. \A q \in Pid : q # p => mine'[q] = mine[q] /\ pc'[q] = pc[q]
        BY <1>3 DEF Begin, Goto
    <2>4. lease' = lease /\ given' = given /\ overtaken' = overtaken
        BY DEF Begin
    <2> HIDE DEF record
    <2>5. \A q \in Pid : OwnerInv(q)'
        BY <2>1, <2>2, <2>3, <2>4 DEF LeaseInvariant, ProcessesInv, OwnerInv
    <2>6. \A q \in Pid : HoldInv(q)'
        BY <2>2, <2>3, <2>4 DEF LeaseInvariant, ProcessesInv, HoldInv, Holding
    <2>8. \A q \in Pid : RemoveInv(q)'
        BY <2>2, <2>3, <2>4 DEF LeaseInvariant, ProcessesInv, RemoveInv, Abandoned,
            Holding
    <2> QED
        BY <2>5, <2>6, <2>8 DEF ProcessesInv
<1>5. ParentsInv'
    <2>1. \A s \in Supervisor : \A w \in sup[s] : w.token \notin Fresh
        BY ParentTokenInUse
    <2>2. sup' = sup /\ given' = given /\ lease' = lease /\ overtaken' = overtaken
        BY DEF Begin
    <2>3. \A q \in Pid : Holding(q)' => Holding(q)
        BY DEF Begin, Goto, Holding
    <2>4. ASSUME NEW s \in Supervisor, NEW w \in sup[s], w.at # "watching",
                 NEW o \in mine'[w.pid]
          PROVE  o.token # w.token
        BY <1>3, <2>1, <2>4 DEF LeaseInvariant, ParentsInv, ParentInv
    <2> QED
        BY <2>2, <2>3, <2>4 DEF LeaseInvariant, ParentsInv, ParentInv, Abandoned
<1> QED
    BY <1>1, <1>2, <1>5, <1>4 DEF LeaseInvariant

LEMMA LinkStep ==
    ASSUME LeaseInvariant, TypeOK', NEW p \in Pid, Link(p)
    PROVE  LeaseInvariant'
<1>1. LeaseInv'
    BY DEF LeaseInvariant, LeaseInv, ProcessesInv, OwnerInv, Link, Goto
<1>2. GuardInv'
    BY DEF LeaseInvariant, GuardInv, InRecovery, Recovers, Guarded, TypeOK, Link, Goto
<1>3. ProcessesInv'
    <2>1. CASE lease = {}
        <3>1. ~overtaken => \A q \in Pid : ~Holding(q) /\ pc[q] # "remove"
            BY <2>1 DEF LeaseInvariant, ProcessesInv, OwnerInv, HoldInv, RemoveInv,
                Abandoned, Holding
        <3>2. lease' = mine[p] /\ mine' = mine /\ given' = given /\ overtaken' = overtaken
            BY <2>1 DEF Link
        <3>3. pc'[p] = "hold" /\ \A q \in Pid : q # p => pc'[q] = pc[q]
            BY <2>1 DEF Link, Goto, TypeOK
        <3>4. pc[p] = "link"
            BY <2>1 DEF Link, Goto
        <3>5. \A q \in Pid : OwnerInv(q)' /\ RemoveInv(q)'
            BY <3>1, <3>2, <3>3, <3>4 DEF LeaseInvariant, ProcessesInv, OwnerInv,
                RemoveInv, Abandoned
        <3>6. \A q \in Pid : HoldInv(q)'
            BY <3>1, <3>2, <3>3 DEF HoldInv, Holding
        <3> QED
            BY <3>5, <3>6 DEF ProcessesInv
    <2>2. CASE lease # {}
        BY <2>2 DEF LeaseInvariant, ProcessesInv, OwnerInv, HoldInv, RemoveInv,
            Abandoned, Holding, TypeOK, Owner, Link, Goto
    <2> QED
        BY <2>1, <2>2
<1>4. ParentsInv'
    BY DEF LeaseInvariant, Abandoned, Holding, ParentsInv, ParentInv, TypeOK, Link, Goto
<1> QED
    BY <1>1, <1>2, <1>3, <1>4 DEF LeaseInvariant

LEMMA OpenGuardStep ==
    ASSUME LeaseInvariant, TypeOK', NEW p \in Pid, OpenGuard(p)
    PROVE  LeaseInvariant'
<1>1. LeaseInv'
    BY DEF LeaseInvariant, LeaseInv, OpenGuard
<1>2. GuardInv'
    BY DEF LeaseInvariant, GuardInv, InRecovery, Recovers, Guarded, TypeOK, OpenGuard,
        GuardFree, Goto, Retry
<1>3. ProcessesInv'
    <2>1. mine' \in [Pid -> SUBSET Owner] /\ pc[p] = "guard"
        BY DEF TypeOK, OpenGuard, Goto, Retry
    <2>2. pc'[p] \in {"inspect", "link", "running"} /\ \A q \in Pid : q # p => pc'[q] = pc[q]
        BY DEF OpenGuard, Goto, Retry, TypeOK
    <2>3. /\ mine'[p] = mine[p] \/ (pc'[p] = "running" /\ mine'[p] = {})
          /\ \A q \in Pid : q # p => mine'[q] = mine[q]
        <3>1. \/ mine' = mine
              \/ pc' = [pc EXCEPT ![p] = "running"] /\ mine' = [mine EXCEPT ![p] = {}]
            BY DEF OpenGuard, Goto, Retry
        <3> QED
            <4>1. CASE mine' = mine
                BY <4>1
            <4>2. CASE pc' = [pc EXCEPT ![p] = "running"] /\ mine' = [mine EXCEPT ![p] = {}]
                BY <4>2 DEF TypeOK
            <4> QED
                BY <3>1, <4>1, <4>2
    <2>4. lease' = lease /\ given' = given /\ overtaken' = overtaken
        BY DEF OpenGuard
    <2>5. \A q \in Pid : OwnerInv(q)'
        BY <2>1, <2>2, <2>3, <2>4 DEF LeaseInvariant, ProcessesInv, OwnerInv
    <2>6. \A q \in Pid : HoldInv(q)' /\ RemoveInv(q)'
        BY <2>1, <2>2, <2>3, <2>4 DEF LeaseInvariant, ProcessesInv, HoldInv, RemoveInv,
            Abandoned, Holding
    <2> QED
        BY <2>5, <2>6 DEF ProcessesInv
<1>4. ParentsInv'
    BY DEF LeaseInvariant, Abandoned, Holding, ParentsInv, ParentInv, TypeOK, Watch,
        OpenGuard, Goto, Retry
<1> QED
    BY <1>1, <1>2, <1>3, <1>4 DEF LeaseInvariant

LEMMA InspectStep ==
    ASSUME LeaseInvariant, TypeOK', NEW p \in Pid, Inspect(p)
    PROVE  LeaseInvariant'
<1>1. LeaseInv'
    BY DEF LeaseInvariant, LeaseInv, Inspect
<1>2. GuardInv'
    BY DEF LeaseInvariant, GuardInv, InRecovery, Recovers, Guarded, Inspect, Goto
<1>3. ProcessesInv'
    BY DEF LeaseInvariant, LeaseInv, ProcessesInv, OwnerInv, HoldInv,
        RemoveInv, Abandoned, Holding, TypeOK, Inspect, Goto
<1>4. ParentsInv'
    BY DEF LeaseInvariant, Abandoned, Holding, ParentsInv, ParentInv, Inspect, Goto
<1> QED
    BY <1>1, <1>2, <1>3, <1>4 DEF LeaseInvariant

LEMMA JudgeStep ==
    ASSUME LeaseInvariant, TypeOK', NEW p \in Pid, Judge(p)
    PROVE  LeaseInvariant'
<1>1. LeaseInv'
    BY DEF LeaseInvariant, LeaseInv, Judge
<1>2. GuardInv'
    BY DEF LeaseInvariant, GuardInv, InRecovery, Recovers, Guarded, Judge, Goto
<1>3. ProcessesInv'
    <2>1. /\ pc[p] = "judge" /\ pc'[p] \in {"remove", "unguard"}
          /\ \A q \in Pid : q # p => pc'[q] = pc[q]
        BY DEF TypeOK, Judge, Goto
    <2>2. lease' = lease /\ mine' = mine /\ given' = given /\ (~overtaken' => ~overtaken)
        BY DEF Judge
    <2>3. \A q \in Pid : OwnerInv(q)' /\ HoldInv(q)'
        BY <2>1, <2>2 DEF LeaseInvariant, ProcessesInv, OwnerInv, HoldInv, Holding
    <2>4. ASSUME pc'[p] = "remove", ~overtaken'
          PROVE  lease # {} /\ \A q \in Pid : ~Holding(q)
        <3>1. PICK o \in seen[p] : Dead(p, o)
            BY <2>4 DEF Judge, Goto, TypeOK
        <3>2. lease = {o} /\ ~overtaken
            BY <2>4, <3>1 DEF Judge
        <3>3. pc[o.pid] = "absent"
            BY <3>1 DEF Dead
        <3> QED
            BY <3>2, <3>3 DEF LeaseInvariant, ProcessesInv, OwnerInv, HoldInv, Holding
    <2>5. \A q \in Pid : RemoveInv(q)'
        BY <2>1, <2>2, <2>4 DEF LeaseInvariant, ProcessesInv, RemoveInv, Abandoned,
            Holding
    <2> QED
        BY <2>3, <2>5 DEF ProcessesInv
<1>4. ParentsInv'
    <2>1. UNCHANGED << lease, mine, given, sup >> /\ (~overtaken' => ~overtaken)
        BY DEF Judge
    <2>2. \A q \in Pid : Holding(q)' => Holding(q)
        BY DEF Judge, Goto, Holding
    <2> QED
        BY <2>1, <2>2 DEF LeaseInvariant, Abandoned, ParentsInv, ParentInv
<1> QED
    BY <1>1, <1>2, <1>3, <1>4 DEF LeaseInvariant

LEMMA RemoveStep ==
    ASSUME LeaseInvariant, TypeOK', NEW p \in Pid, Remove(p)
    PROVE  LeaseInvariant'
<1>1. LeaseInv'
    BY DEF LeaseInv, Remove
<1>2. GuardInv'
    BY DEF LeaseInvariant, GuardInv, InRecovery, Recovers, Guarded, Remove, Goto
<1>3. ProcessesInv'
    BY DEF LeaseInvariant, GuardInv, InRecovery, Guarded, ProcessesInv, OwnerInv,
        HoldInv, RemoveInv, Abandoned, Holding, TypeOK, Remove, Goto
<1>4. ParentsInv'
    BY DEF LeaseInvariant, GuardInv, InRecovery, Recovers, Guarded, ParentsInv,
        ParentInv, Remove, Goto
<1> QED
    BY <1>1, <1>2, <1>3, <1>4 DEF LeaseInvariant

LEMMA UnguardStep ==
    ASSUME LeaseInvariant, TypeOK', NEW p \in Pid, Unguard(p)
    PROVE  LeaseInvariant'
<1>1. LeaseInv'
    BY DEF LeaseInvariant, LeaseInv, Unguard
<1>2. GuardInv'
    BY DEF LeaseInvariant, GuardInv, InRecovery, Recovers, Guarded, TypeOK, Unguard,
        Goto, Retry
<1>3. ProcessesInv'
    BY DEF LeaseInvariant, GuardInv, InRecovery, Guarded, ProcessesInv, OwnerInv,
        HoldInv, RemoveInv, Holding, TypeOK, Unguard, Goto, Retry
<1>4. ParentsInv'
    BY DEF LeaseInvariant, Abandoned, Holding, ParentsInv, ParentInv, TypeOK, Watch,
        Unguard, Goto, Retry
<1> QED
    BY <1>1, <1>2, <1>3, <1>4 DEF LeaseInvariant

LEMMA VerifyStep ==
    ASSUME LeaseInvariant, TypeOK', NEW p \in Pid, Verify(p)
    PROVE  LeaseInvariant'
<1>1. LeaseInv'
    BY DEF LeaseInvariant, LeaseInv, Verify
<1>2. GuardInv'
    <2>1. sup' = sup /\ guard' = guard /\ \A q \in Pid : InRecovery(q)' => InRecovery(q)
        BY DEF LeaseInvariant, TypeOK, InRecovery, Guarded, Verify, Goto
    <2> QED
        BY <2>1 DEF LeaseInvariant, GuardInv, Recovers
<1>3. ProcessesInv'
    <2>1. pc[p] = "hold" /\ lease' = lease /\ given' = given /\ overtaken' = overtaken
        BY DEF Verify, Goto
    <2>2. pc'[p] \in {"release", "running"} /\ \A q \in Pid : q # p => pc'[q] = pc[q]
        BY DEF Verify, Goto, LeaseInvariant, TypeOK
    <2>3. /\ mine'[p] = mine[p] \/ (pc'[p] = "running" /\ mine'[p] = {})
          /\ \A q \in Pid : q # p => mine'[q] = mine[q]
        <3>1. \/ pc' = [pc EXCEPT ![p] = "release"] /\ mine' = mine
              \/ pc' = [pc EXCEPT ![p] = "running"] /\ mine' = [mine EXCEPT ![p] = {}]
            BY DEF Verify, Goto
        <3> QED
            <4>1. CASE mine' = mine
                BY <4>1
            <4>2. CASE pc' = [pc EXCEPT ![p] = "running"] /\ mine' = [mine EXCEPT ![p] = {}]
                BY <4>2 DEF TypeOK
            <4> QED
                BY <3>1, <4>1, <4>2
    <2>5. \A q \in Pid : OwnerInv(q)'
        BY <2>1, <2>2, <2>3 DEF LeaseInvariant, ProcessesInv, OwnerInv
    <2>6. \A q \in Pid : HoldInv(q)' /\ RemoveInv(q)'
        BY <2>1, <2>2, <2>3 DEF LeaseInvariant, ProcessesInv, HoldInv, RemoveInv,
            Abandoned, Holding
    <2> QED
        BY <2>5, <2>6 DEF ProcessesInv
<1>4. ParentsInv'
    <2>1. sup' = sup /\ given' = given /\ lease' = lease /\ overtaken' = overtaken
        BY DEF Verify
    <2>2. \A q \in Pid : (Holding(q)' => Holding(q)) /\ mine'[q] \subseteq mine[q]
        BY DEF LeaseInvariant, TypeOK, Verify, Goto, Holding
    <2> QED
        BY <2>1, <2>2 DEF LeaseInvariant, ParentsInv, ParentInv, Abandoned, TypeOK,
            Watch
<1> QED
    BY <1>1, <1>2, <1>3, <1>4 DEF LeaseInvariant

LEMMA ReleaseStep ==
    ASSUME LeaseInvariant, TypeOK', NEW p \in Pid, Release(p)
    PROVE  LeaseInvariant'
<1>1. LeaseInv'
    BY DEF LeaseInvariant, LeaseInv, Release
<1>2. GuardInv'
    BY DEF LeaseInvariant, GuardInv, InRecovery, Recovers, Guarded, Release, Goto
<1>3. ProcessesInv'
    BY DEF LeaseInvariant, LeaseInv, GuardInv, InRecovery, Recovers, Guarded,
        ProcessesInv, OwnerInv, HoldInv, RemoveInv, Abandoned, Holding,
        ParentsInv, ParentInv, TypeOK, Release, Goto
<1>4. ParentsInv'
    BY DEF LeaseInvariant, Abandoned, Holding, ParentsInv, ParentInv, Release, Goto
<1> QED
    BY <1>1, <1>2, <1>3, <1>4 DEF LeaseInvariant

\* Whatever ends a process, a killing launcher included.
LEMMA GoneStep ==
    ASSUME LeaseInvariant, TypeOK', NEW p \in Pid, Gone(p)
    PROVE  LeaseInvariant'
<1>1. LeaseInv'
    BY DEF LeaseInvariant, LeaseInv, Gone
<1>2. GuardInv'
    <2>1. \A q \in Pid : InRecovery(q)' => InRecovery(q)
        BY DEF InRecovery, Guarded, Gone
    <2>2. \A s \in Supervisor : Recovers(s)' => Recovers(s)
        BY DEF TypeOK, Recovers, Guarded, Watch, Gone
    <2> QED
        BY <2>1, <2>2 DEF LeaseInvariant, GuardInv, Gone
<1>3. ProcessesInv'
    BY DEF LeaseInvariant, ProcessesInv, OwnerInv, HoldInv, RemoveInv,
        Abandoned, Holding, TypeOK, Gone
<1>4. ParentsInv'
    BY DEF LeaseInvariant, Abandoned, Holding, ParentsInv, ParentInv, TypeOK, Watch,
        Gone
<1> QED
    BY <1>1, <1>2, <1>3, <1>4 DEF LeaseInvariant

LEMMA SuperviseStep ==
    ASSUME LeaseInvariant, TypeOK', NEW s \in Supervisor, NEW p \in Pid, Supervise(s, p)
    PROVE  LeaseInvariant'
<1>1. LeaseInv'
    BY DEF LeaseInvariant, LeaseInv, Supervise
<1>2. GuardInv'
    BY DEF LeaseInvariant, GuardInv, InRecovery, Recovers, Guarded, Supervise
<1>3. ProcessesInv'
    BY DEF LeaseInvariant, ProcessesInv, OwnerInv, HoldInv, RemoveInv,
        Abandoned, Holding, TypeOK, Supervise, Free
<1>4. PICK token \in Fresh :
        /\ given' = [given EXCEPT ![p] = {token}]
        /\ sup' = [sup EXCEPT ![s] = {[at |-> "watching", pid |-> p, token |-> token]}]
    BY DEF Supervise
<1>5. ParentsInv'
    <2>1. \A t \in Supervisor : \A w \in sup[t] : w.token # token
        BY ParentTokenInUse, <1>4
    <2>2. lease' = lease /\ mine' = mine /\ overtaken' = overtaken
        BY DEF Supervise
    <2>3. \A q \in Pid : Holding(q)' => Holding(q)
        BY DEF Supervise, Holding
    <2>4. ParentInv(s)'
        BY <1>4 DEF TypeOK, ParentInv
    <2>5. ASSUME NEW t \in Supervisor, t # s PROVE ParentInv(t)'
        <3>1. sup'[t] = sup[t]
            BY <1>4, <2>5
        <3>2. \A w \in sup[t] : w.token \notin given'[w.pid] \/ w.token \in given[w.pid]
            BY <1>4, <2>1
        <3> QED
            BY <2>2, <2>3, <3>1, <3>2 DEF LeaseInvariant, ParentsInv, ParentInv,
                Abandoned
    <2> QED
        BY <2>4, <2>5 DEF ParentsInv
<1> QED
    BY <1>1, <1>2, <1>3, <1>5 DEF LeaseInvariant

LEMMA OpenGuardForStep ==
    ASSUME LeaseInvariant, TypeOK', NEW s \in Supervisor, OpenGuardFor(s)
    PROVE  LeaseInvariant'
<1>1. LeaseInv'
    BY DEF LeaseInvariant, LeaseInv, OpenGuardFor
<1>2. GuardInv'
    BY DEF LeaseInvariant, GuardInv, InRecovery, Recovers, TypeOK, OpenGuardFor,
        GuardFree, Move, Leave
<1>3. ProcessesInv'
    BY DEF LeaseInvariant, ProcessesInv, OwnerInv, HoldInv, RemoveInv,
        Abandoned, Holding, OpenGuardFor
<1>4. ParentsInv'
    BY DEF LeaseInvariant, Abandoned, Holding, ParentsInv, ParentInv, TypeOK, Watch,
        OpenGuardFor, Move, Leave
<1> QED
    BY <1>1, <1>2, <1>3, <1>4 DEF LeaseInvariant

LEMMA InspectForStep ==
    ASSUME LeaseInvariant, TypeOK', NEW s \in Supervisor, InspectFor(s)
    PROVE  LeaseInvariant'
<1>1. LeaseInv'
    BY DEF LeaseInvariant, LeaseInv, InspectFor
<1>2. GuardInv'
    BY DEF LeaseInvariant, GuardInv, InRecovery, Recovers, Guarded, InspectFor, Move
<1>3. ProcessesInv'
    BY DEF LeaseInvariant, ProcessesInv, OwnerInv, HoldInv, RemoveInv,
        Abandoned, Holding, InspectFor
<1>4. ParentsInv'
    BY DEF LeaseInvariant, ProcessesInv, OwnerInv, HoldInv, Abandoned, Holding,
        ParentsInv, ParentInv, TypeOK, Watch, InspectFor, Observed, Move
<1> QED
    BY <1>1, <1>2, <1>3, <1>4 DEF LeaseInvariant

LEMMA RemoveForStep ==
    ASSUME LeaseInvariant, TypeOK', NEW s \in Supervisor, RemoveFor(s)
    PROVE  LeaseInvariant'
<1>1. LeaseInv'
    BY DEF LeaseInv, RemoveFor
<1>2. GuardInv'
    BY DEF LeaseInvariant, GuardInv, InRecovery, Recovers, Guarded, RemoveFor, Move
<1>3. ProcessesInv'
    BY DEF LeaseInvariant, GuardInv, InRecovery, Recovers, Guarded, ProcessesInv,
        OwnerInv, HoldInv, RemoveInv, Abandoned, Holding, ParentsInv,
        ParentInv, RemoveFor, Move
<1>4. ParentsInv'
    BY DEF LeaseInvariant, GuardInv, Recovers, Guarded, ParentsInv, ParentInv, TypeOK,
        Watch, RemoveFor, Move
<1> QED
    BY <1>1, <1>2, <1>3, <1>4 DEF LeaseInvariant

LEMMA UnguardForStep ==
    ASSUME LeaseInvariant, TypeOK', NEW s \in Supervisor, UnguardFor(s)
    PROVE  LeaseInvariant'
<1>1. LeaseInv'
    BY DEF LeaseInvariant, LeaseInv, UnguardFor
<1>2. GuardInv'
    BY DEF LeaseInvariant, GuardInv, InRecovery, Recovers, Guarded, TypeOK, UnguardFor,
        Leave
<1>3. ProcessesInv'
    BY DEF LeaseInvariant, ProcessesInv, OwnerInv, HoldInv, RemoveInv,
        Abandoned, Holding, UnguardFor
<1>4. ParentsInv'
    BY DEF LeaseInvariant, Abandoned, Holding, ParentsInv, ParentInv, UnguardFor, Leave
<1> QED
    BY <1>1, <1>2, <1>3, <1>4 DEF LeaseInvariant

LEMMA ParentDiesStep ==
    ASSUME LeaseInvariant, TypeOK', NEW s \in Supervisor, ParentDies(s)
    PROVE  LeaseInvariant'
<1>1. LeaseInv'
    BY DEF LeaseInvariant, LeaseInv, ParentDies
<1>2. GuardInv'
    BY DEF LeaseInvariant, GuardInv, InRecovery, Recovers, ParentDies
<1>3. ProcessesInv'
    BY DEF LeaseInvariant, ProcessesInv, OwnerInv, HoldInv, RemoveInv,
        Abandoned, Holding, ParentDies
<1>4. ParentsInv'
    BY DEF LeaseInvariant, Abandoned, Holding, ParentsInv, ParentInv, ParentDies
<1> QED
    BY <1>1, <1>2, <1>3, <1>4 DEF LeaseInvariant

-----------------------------------------------------------------------------
(* The theorems *)

\* The invariant survives every step.
LEMMA LeaseInvariantStep == LeaseInvariant /\ [Next]_vars => LeaseInvariant'
<1> SUFFICES ASSUME LeaseInvariant, [Next]_vars PROVE LeaseInvariant'
    OBVIOUS
<1>1. TypeOK'
    BY TypeStep DEF LeaseInvariant
<1>2. CASE UNCHANGED vars
    BY <1>1, <1>2 DEF LeaseInvariant, LeaseInv, GuardInv, ProcessesInv, ParentsInv,
        OwnerInv, HoldInv, RemoveInv, ParentInv, InRecovery, Recovers,
        Abandoned, Holding, vars
<1>3. ASSUME NEW p \in Pid, Process(p) PROVE LeaseInvariant'
    BY <1>1, <1>3, StartStep, BeginStep, LinkStep, OpenGuardStep, InspectStep,
        JudgeStep, RemoveStep, UnguardStep, VerifyStep, ReleaseStep, GoneStep
        DEF Process, Step, Exit, Die
<1>4. ASSUME NEW s \in Supervisor, Parent(s) PROVE LeaseInvariant'
    BY <1>1, <1>4, SuperviseStep, OpenGuardForStep, InspectForStep, RemoveForStep,
        UnguardForStep, ParentDiesStep DEF Parent, Cleanup
<1> QED
    BY <1>2, <1>3, <1>4 DEF Next

\* It holds in the initial state.
LEMMA LeaseInvariantInit == Init => LeaseInvariant
<1> SUFFICES ASSUME Init PROVE LeaseInvariant
    OBVIOUS
<1>1. TypeOK
    BY DEF Init, TypeOK, Location
<1>2. LeaseInv /\ ProcessesInv /\ ParentsInv
    BY DEF Init, LeaseInv, ProcessesInv, ParentsInv, OwnerInv, HoldInv,
        RemoveInv, ParentInv
<1>3. GuardInv
    BY DEF Init, GuardInv, InRecovery, Recovers, Guarded
<1> QED
    BY <1>1, <1>2, <1>3 DEF LeaseInvariant

LEMMA LeaseInvariantHolds == Spec => []LeaseInvariant
BY LeaseInvariantInit, LeaseInvariantStep, PTL DEF Spec

\* Every reachable state is well typed.
THEOREM LeaseTypeCorrect == Spec => []TypeOK
<1>1. Init => TypeOK
    BY LeaseInvariantInit DEF LeaseInvariant
<1> QED
    BY <1>1, TypeStep, PTL DEF Spec

\* What the invariant says of a holder, and of two.
LEMMA InvariantKeepsLease == LeaseInvariant => KeptUnlessOvertaken
BY DEF LeaseInvariant, ProcessesInv, HoldInv, HolderKeepsLease, KeptUnlessOvertaken

LEMMA InvariantExcludes == LeaseInvariant => (~overtaken => MutualExclusion)
<1> SUFFICES ASSUME LeaseInvariant, ~overtaken, NEW p \in Pid, NEW q \in Pid,
                    Holding(p), Holding(q)
             PROVE  p = q
    BY DEF MutualExclusion
<1>1. lease = mine[p] /\ lease = mine[q]
    BY DEF LeaseInvariant, ProcessesInv, HoldInv
<1>2. \E o \in Owner : mine[p] = {o}
    BY DEF LeaseInvariant, ProcessesInv, OwnerInv, Holding
<1>3. \A o \in mine[p] : o.pid = p /\ o.pid = q
    BY <1>1 DEF LeaseInvariant, ProcessesInv, OwnerInv
<1> QED
    BY <1>2, <1>3

\* Only an overtaken recovery takes the lease from a process that holds it: no
\* other order of recoveries, cleanups, exits, deaths and reuses of pids does.
THEOREM LeaseKept == Spec => []KeptUnlessOvertaken
BY LeaseInvariantHolds, InvariantKeepsLease, PTL

\* Until a recovery is overtaken, two processes never work on the store at a time.
THEOREM OneHolder == Spec => [](~overtaken => MutualExclusion)
BY LeaseInvariantHolds, InvariantExcludes, PTL

-----------------------------------------------------------------------------
(* Supervised operations *)

\* A parent has one worker.
WorkersInv == \A s \in Supervisor : \A v, w \in sup[s] : v = w

\* A process that is watched is there: its parent is told when it has gone.
WatchedInv ==
    \A s \in Supervisor : \A w \in sup[s] : w.at = "watching" => pc[w.pid] # "absent"

\* Git processes of a call are left only while its worker is watched or its exit
\* has not been handled.
GroupInv(s) ==
    group[s] => /\ \A w \in sup[s] : w.at \in {"watching", "exited"}
                /\ Open(s) => sup[s] # {}

\* Whoever was answered has a group without processes, and its worker was sent
\* SIGKILL if it is still watched.
AnsweredInv(s) ==
    call[s].answer \in Summary => ~ group[s] /\ (sup[s] # {} => call[s].stopped)

CallInv(s) == GroupInv(s) /\ AnsweredInv(s)

RaceInvariant ==
    CallsTypeOK /\ WorkersInv /\ WatchedInv /\ \A s \in Supervisor : CallInv(s)

-----------------------------------------------------------------------------
(* The lease under supervision *)

\* A worker that was sent SIGKILL ends like one that dies.
LEMMA GoneIsTyped ==
    ASSUME TypeOK, NEW p \in Pid, Gone(p), deaths' = deaths
    PROVE  TypeOK'
BY DEF TypeOK, Location, Watch, Gone

\* Every step of Supervision is a step of StoreLease, leaves the lease alone, or
\* ends a process.
LEMMA LeaseOfStep ==
    ASSUME SNext
    PROVE  \/ [Next]_vars
           \/ \E p \in Pid : Gone(p) /\ deaths' = deaths
<1>1. ASSUME NEW s \in Supervisor, Launcher(s) PROVE [Next]_vars
    <2>1. ASSUME NEW p \in Pid, Launch(s, p) PROVE Next
        BY <2>1 DEF Launch, Next, Parent
    <2>2. CASE Receive(s) \/ Stop(s) \/ Abort(s) \/ Done(s) \/ Reap(s)
        BY <2>2 DEF Receive, Stop, Abort, Done, Reap
    <2>3. CASE Exited(s) \/ Clean(s)
        BY <2>3 DEF Exited, Clean, Next, Parent, Cleanup
    <2>4. CASE LauncherDies(s)
        BY <2>4 DEF LauncherDies, Next, Parent
    <2> QED
        BY <1>1, <2>1, <2>2, <2>3, <2>4 DEF Launcher
<1>2. ASSUME NEW p \in Pid, Worker(p)
      PROVE  [Next]_vars \/ (Gone(p) /\ deaths' = deaths)
    <2>1. CASE Enters(p) \/ Works(p)
        BY <2>1 DEF Enters, Works, Next, Process
    <2>2. ASSUME NEW known \in BOOLEAN, Begins(p, known) PROVE Next
        BY <2>2 DEF Begins, Next, Process
    <2>3. CASE Ends(p) \/ Killed(p)
        BY <2>3 DEF Ends, Killed, Next, Process
    <2>4. ASSUME NEW s \in Supervisor, Post(s, p) \/ Fork(s, p) PROVE UNCHANGED vars
        BY <2>4 DEF Post, Fork
    <2> QED
        BY <1>2, <2>1, <2>2, <2>3, <2>4 DEF Worker
<1> QED
    BY <1>1, <1>2 DEF SNext

LEMMA LeaseInvariantKept ==
    ASSUME LeaseInvariant, [SNext]_allVars
    PROVE  LeaseInvariant'
<1>1. CASE [Next]_vars
    BY <1>1, LeaseInvariantStep
<1>2. ASSUME NEW p \in Pid, Gone(p), deaths' = deaths PROVE LeaseInvariant'
    BY <1>2, GoneIsTyped, GoneStep DEF LeaseInvariant
<1>3. CASE UNCHANGED allVars
    BY <1>1, <1>3 DEF allVars
<1> QED
    BY <1>1, <1>2, <1>3, LeaseOfStep

-----------------------------------------------------------------------------
(* Calls *)

\* Every step keeps the calls well typed.
LEMMA CallsTypeStep == CallsTypeOK /\ [SNext]_allVars => CallsTypeOK'
<1> SUFFICES ASSUME CallsTypeOK, [SNext]_allVars PROVE CallsTypeOK'
    OBVIOUS
<1>1. TypeOK'
    <2>1. CASE [Next]_vars
        BY <2>1, TypeStep DEF CallsTypeOK
    <2>2. ASSUME NEW p \in Pid, Gone(p), deaths' = deaths PROVE TypeOK'
        BY <2>2, GoneIsTyped DEF CallsTypeOK
    <2>3. CASE UNCHANGED allVars
        BY <2>1, <2>3 DEF allVars
    <2> QED
        BY <2>1, <2>2, <2>3, LeaseOfStep
<1> USE CallAssumption DEF CallsTypeOK, Call, NoCall, Summary
<1>2. ASSUME NEW s \in Supervisor, Launcher(s) PROVE CallsTypeOK'
    <2>1. ASSUME NEW p \in Pid, Launch(s, p) PROVE CallsTypeOK'
        <3>1. [NoCall EXCEPT !.answer = "open"] \in Call
            OBVIOUS
        <3>2. calls' \in 0 .. MaxCalls
            BY <2>1 DEF Launch
        <3> QED
            BY <1>1, <2>1, <3>1, <3>2 DEF Launch
    <2>2. CASE Receive(s)
        BY <1>1, <2>2 DEF Receive, KillTree
    <2>3. CASE Stop(s)
        <3>1. [call[s] EXCEPT !.stopped = TRUE] \in Call
            OBVIOUS
        <3> QED
            BY <1>1, <2>3, <3>1 DEF Stop, KillTree
    <2>4. CASE Abort(s)
        <3>1. [call[s] EXCEPT !.stopped = TRUE, !.answer = "queued"] \in Call
            OBVIOUS
        <3> QED
            BY <1>1, <2>4, <3>1 DEF Abort, KillTree
    <2>5. CASE Exited(s)
        BY <1>1, <2>5 DEF Exited, KillTree
    <2>6. CASE Clean(s)
        BY <1>1, <2>6 DEF Clean, callVars
    <2>7. CASE Done(s)
        BY <1>1, <2>7 DEF Done, Result
    <2>8. CASE Reap(s)
        BY <1>1, <2>8 DEF Reap, KillTree
    <2>9. CASE LauncherDies(s)
        BY <1>1, <2>9 DEF LauncherDies
    <2> QED
        BY <1>2, <2>1, <2>2, <2>3, <2>4, <2>5, <2>6, <2>7, <2>8, <2>9 DEF Launcher
<1>3. ASSUME NEW p \in Pid, Worker(p) PROVE CallsTypeOK'
    <2>1. CASE Enters(p) \/ Ends(p) \/ Killed(p) \/ \E known \in BOOLEAN : Begins(p, known)
        BY <1>1, <2>1 DEF Enters, Ends, Killed, Begins, callVars
    <2>2. CASE Works(p)
        BY <1>1, <2>2 DEF Works
    <2>3. ASSUME NEW s \in Supervisor, Post(s, p) \/ Fork(s, p) PROVE CallsTypeOK'
        <3>1. CASE Fork(s, p)
            BY <1>1, <3>1 DEF Fork
        <3>2. CASE Post(s, p)
            BY <1>1, <3>2 DEF Post
        <3> QED
            BY <2>3, <3>1, <3>2
    <2> QED
        BY <1>3, <2>1, <2>2, <2>3 DEF Worker
<1>4. CASE UNCHANGED allVars
    BY <1>1, <1>4 DEF allVars, callVars
<1> QED
    BY <1>2, <1>3, <1>4 DEF SNext

-----------------------------------------------------------------------------
(* The race of a call *)

\* A step leaves every call a single worker.
LEMMA WorkersStep ==
    ASSUME CallsTypeOK, WorkersInv, [SNext]_allVars
    PROVE  WorkersInv'
<1> USE DEF WorkersInv
<1>1. ASSUME NEW p \in Pid, Gone(p) PROVE WorkersInv'
    BY <1>1 DEF Gone
<1>2. CASE UNCHANGED sup
    BY <1>2
<1>3. ASSUME NEW s \in Supervisor, Parent(s) PROVE WorkersInv'
    BY <1>3 DEF Parent, Supervise, Cleanup, OpenGuardFor, InspectFor, RemoveFor, UnguardFor,
        Move, Leave, ParentDies, CallsTypeOK, TypeOK
<1>4. ASSUME NEW p \in Pid, Process(p) PROVE Gone(p) \/ UNCHANGED sup
    BY <1>4 DEF Process, Start, Begin, Step, Link, OpenGuard, Inspect, Judge, Remove,
        Unguard, Verify, Release, Exit, Die
<1>5. CASE [Next]_vars
    BY <1>1, <1>2, <1>3, <1>4, <1>5 DEF Next, vars
<1>6. CASE UNCHANGED allVars
    BY <1>2, <1>6 DEF allVars, vars
<1> QED
    BY <1>1, <1>5, <1>6, LeaseOfStep

\* Nobody is watched after it has gone.
LEMMA WatchedStep ==
    ASSUME CallsTypeOK, WatchedInv, [SNext]_allVars
    PROVE  WatchedInv'
<1> USE DEF WatchedInv
<1>1. ASSUME NEW p \in Pid, Gone(p) PROVE WatchedInv'
    BY <1>1 DEF Gone, CallsTypeOK, TypeOK, Watch
<1>2. CASE UNCHANGED << pc, sup >>
    BY <1>2
<1>3. ASSUME NEW p \in Pid, NEW to \in Location \ {"absent"}, UNCHANGED sup,
             pc' = [pc EXCEPT ![p] = to]
      PROVE  WatchedInv'
    BY <1>3 DEF CallsTypeOK, TypeOK, Watch
<1>4. ASSUME NEW s \in Supervisor, UNCHANGED pc, sup' = [sup EXCEPT ![s] = sup'[s]],
             \A w \in sup'[s] : w.at # "watching"
      PROVE  WatchedInv'
    BY <1>4 DEF CallsTypeOK, TypeOK
<1>5. ASSUME NEW s \in Supervisor, NEW p \in Pid, Supervise(s, p) PROVE WatchedInv'
    BY <1>5 DEF Supervise, CallsTypeOK, TypeOK, Watch
<1>6. ASSUME NEW p \in Pid, Process(p) PROVE WatchedInv'
    <2>1. CASE Start(p) \/ \E known \in BOOLEAN : Begin(p, known)
        BY <2>1, <1>3 DEF Start, Begin, Goto, Location
    <2>2. CASE Link(p) \/ OpenGuard(p) \/ Unguard(p)
        BY <2>2, <1>3 DEF Link, OpenGuard, Unguard, Retry, Goto, Location, Guarded
    <2>3. CASE Inspect(p) \/ Judge(p) \/ Remove(p)
        BY <2>3, <1>3 DEF Inspect, Judge, Remove, Goto, Location, Guarded
    <2>4. CASE Verify(p) \/ Release(p)
        BY <2>4, <1>3 DEF Verify, Release, Goto, Location
    <2> QED
        BY <1>1, <1>6, <2>1, <2>2, <2>3, <2>4 DEF Process, Step, Exit, Die
<1>7. ASSUME NEW s \in Supervisor, Parent(s) PROVE WatchedInv'
    <2>1. CASE Cleanup(s)
        BY <2>1, <1>4 DEF Cleanup, OpenGuardFor, InspectFor, RemoveFor, UnguardFor,
            Move, Leave, CallsTypeOK, TypeOK, Watch
    <2>2. CASE ParentDies(s)
        BY <2>2, <1>4 DEF ParentDies, CallsTypeOK, TypeOK
    <2> QED
        BY <1>5, <1>7, <2>1, <2>2 DEF Parent
<1>8. CASE [Next]_vars
    BY <1>2, <1>6, <1>7, <1>8 DEF Next, vars
<1>9. CASE UNCHANGED allVars
    BY <1>2, <1>9 DEF allVars, vars
<1> QED
    BY <1>1, <1>8, <1>9, LeaseOfStep

\* A step that gives a call no worker it had not, and changes nothing else, keeps
\* what is known of the call.
LEMMA CallKept ==
    ASSUME NEW s \in Supervisor, CallInv(s), sup'[s] = sup[s], group'[s] = group[s],
           call'[s] = call[s]
    PROVE  CallInv(s)'
BY DEF CallInv, GroupInv, AnsweredInv, Open

\* The launcher of a call.
LEMMA LauncherStep ==
    ASSUME RaceInvariant, NEW s \in Supervisor, Launcher(s)
    PROVE  \A t \in Supervisor : CallInv(t)'
<1> USE DEF RaceInvariant, CallsTypeOK, TypeOK
<1>1. CallInv(s) /\ \A v, w \in sup[s] : v = w
    BY DEF WorkersInv
<1> DEFINE Others == \A t \in Supervisor \ {s} :
                        sup'[t] = sup[t] /\ group'[t] = group[t] /\ call'[t] = call[t]
<1>2. ASSUME Others, CallInv(s)' PROVE \A t \in Supervisor : CallInv(t)'
    BY <1>2, CallKept
<1> HIDE DEF RaceInvariant
<1> SUFFICES Others /\ CallInv(s)'
    BY <1>2
<1>3. call[s] \in Call /\ call \in [Supervisor -> Call] /\ group \in [Supervisor -> BOOLEAN]
      /\ sup \in [Supervisor -> SUBSET Watch]
    BY DEF RaceInvariant
<1> USE DEF CallInv, GroupInv, AnsweredInv, Open
<1>4. ASSUME NEW p \in Pid, Launch(s, p) PROVE Others /\ CallInv(s)'
    <2>1. PICK token \in Token :
             sup' = [sup EXCEPT ![s] = {[at |-> "watching", pid |-> p, token |-> token]}]
        BY <1>4 DEF Launch, Supervise, Fresh
    <2>2. group' = group /\ ~ group[s]
        BY <1>4 DEF Launch
    <2>3. call' = [call EXCEPT ![s] = call'[s]] /\ call'[s].answer = "open"
        BY <1>3, <1>4 DEF Launch, NoCall
    <2> QED
        BY <2>1, <2>2, <2>3, <1>3 DEF Summary
<1>5. CASE Receive(s)
    BY <1>1, <1>3, <1>5 DEF Receive, KillTree, vars, Summary, Call
<1>6. CASE Stop(s)
    BY <1>1, <1>3, <1>6 DEF Stop, KillTree, vars, Summary, Call
<1>7. CASE Abort(s)
    BY <1>1, <1>3, <1>7 DEF Abort, KillTree, vars, Summary, Call
<1>8. CASE Exited(s)
    BY <1>1, <1>3, <1>8 DEF Exited, OpenGuardFor, Move, Leave, KillTree, Summary
<1>9. CASE Clean(s)
    <2>1. UNCHANGED << call, group >>
        BY <1>9 DEF Clean, callVars
    <2>2. sup' = [sup EXCEPT ![s] = sup'[s]] /\ sup[s] # {}
          /\ \E w \in sup[s] : w.at \notin {"watching", "exited"}
        BY <1>3, <1>9 DEF Clean, InspectFor, RemoveFor, UnguardFor, Move, Leave
    <2>3. ~ group[s]
        BY <1>1, <2>2
    <2> QED
        BY <1>1, <1>3, <2>1, <2>2, <2>3
<1>10. CASE Done(s)
    <2>1. ~ group[s] /\ sup[s] = {} /\ sup' = sup /\ group' = group
        BY <1>1, <1>3, <1>10 DEF Done, vars
    <2>2. call' = [call EXCEPT ![s].answer = Result(call[s])]
        BY <1>10 DEF Done
    <2> QED
        BY <1>3, <2>1, <2>2
<1>11. CASE Reap(s)
    BY <1>1, <1>3, <1>11 DEF Reap, KillTree, vars
<1>12. CASE LauncherDies(s)
    BY <1>1, <1>3, <1>12 DEF LauncherDies, ParentDies, NoCall, Summary
<1> QED
    BY <1>4, <1>5, <1>6, <1>7, <1>8, <1>9, <1>10, <1>11, <1>12 DEF Launcher

\* The worker of a call, and every other process.
LEMMA WorkerStep ==
    ASSUME RaceInvariant, NEW p \in Pid, Worker(p)
    PROVE  \A t \in Supervisor : CallInv(t)'
<1>1. /\ \A t \in Supervisor : CallInv(t) /\ \A v, w \in sup[t] : v = w
      /\ sup \in [Supervisor -> SUBSET Watch] /\ group \in [Supervisor -> BOOLEAN]
      /\ call \in [Supervisor -> Call]
    BY DEF RaceInvariant, WorkersInv, CallsTypeOK, TypeOK
<1>2. ASSUME UNCHANGED << sup, group, call >> PROVE \A t \in Supervisor : CallInv(t)'
    BY <1>1, <1>2, CallKept
<1>3. ASSUME Gone(p), UNCHANGED << group, call >> PROVE \A t \in Supervisor : CallInv(t)'
    <2>1. ASSUME NEW t \in Supervisor
          PROVE  /\ sup'[t] = {} <=> sup[t] = {}
                 /\ \A w \in sup'[t] : w \in sup[t] \/ w.at = "exited"
        <3> DEFINE Told(w) == IF w.at = "watching" /\ w.pid = p
                              THEN [w EXCEPT !.at = "exited"] ELSE w
        <3>1. sup'[t] = { Told(w) : w \in sup[t] }
            BY <1>3 DEF Gone
        <3>2. \A w \in sup[t] : Told(w) = w \/ Told(w).at = "exited"
            BY <1>1 DEF Watch
        <3> HIDE DEF Told
        <3> QED
            BY <3>1, <3>2
    <2> QED
        BY <1>1, <1>3, <2>1 DEF CallInv, GroupInv, AnsweredInv, Open
<1>4. CASE Enters(p) \/ \E known \in BOOLEAN : Begins(p, known)
    BY <1>2, <1>4 DEF Enters, Begins, Start, Begin, callVars
<1>5. CASE Works(p)
    BY <1>2, <1>5 DEF Works, Step, Link, OpenGuard, Inspect, Judge, Remove, Unguard,
        Verify, Release
<1>6. CASE Ends(p) \/ Killed(p)
    BY <1>3, <1>6 DEF Ends, Exit, Die, Killed, callVars
<1>7. ASSUME NEW s \in Supervisor, Post(s, p) PROVE \A t \in Supervisor : CallInv(t)'
    BY <1>2, <1>7 DEF Post, vars
<1>8. ASSUME NEW s \in Supervisor, Fork(s, p) PROVE \A t \in Supervisor : CallInv(t)'
    <2>1. PICK w \in sup[s] : w.at = "watching" /\ w.pid = p
        BY <1>8 DEF Fork, Watching
    <2>2. ~ call[s].stopped /\ sup' = sup /\ call' = call
        BY <1>8 DEF Fork, Doomed, vars
    <2>3. CallInv(s)'
        BY <1>1, <2>1, <2>2 DEF CallInv, GroupInv, AnsweredInv
    <2>4. ASSUME NEW t \in Supervisor \ {s} PROVE CallInv(t)'
        BY <1>1, <1>8, <2>2, CallKept DEF Fork
    <2> QED
        BY <2>3, <2>4
<1> QED
    BY <1>4, <1>5, <1>6, <1>7, <1>8 DEF Worker

\* The race invariant is there from the start ...
LEMMA RaceInit == SInit => RaceInvariant
<1> SUFFICES ASSUME SInit PROVE RaceInvariant
    OBVIOUS
<1>1. TypeOK
    BY LeaseInvariantInit DEF SInit, LeaseInvariant
<1>2. CallsTypeOK
    BY <1>1, CallAssumption DEF SInit, CallsTypeOK, Call, NoCall, Summary
<1>3. WorkersInv /\ WatchedInv
    BY DEF SInit, Init, WorkersInv, WatchedInv
<1>4. \A s \in Supervisor : CallInv(s)
    BY DEF SInit, Init, CallInv, GroupInv, AnsweredInv, NoCall, Summary
<1> QED
    BY <1>2, <1>3, <1>4 DEF RaceInvariant

\* ... and every step keeps it.
LEMMA RaceStep == RaceInvariant /\ [SNext]_allVars => RaceInvariant'
<1> SUFFICES ASSUME RaceInvariant, [SNext]_allVars PROVE RaceInvariant'
    OBVIOUS
<1>1. CallsTypeOK' /\ WorkersInv' /\ WatchedInv'
    BY CallsTypeStep, WorkersStep, WatchedStep DEF RaceInvariant
<1>2. \A s \in Supervisor : CallInv(s)'
    <2>1. CASE UNCHANGED allVars
        BY <2>1, CallKept DEF allVars, vars, callVars, RaceInvariant
    <2> QED
        BY <2>1, LauncherStep, WorkerStep DEF SNext
<1> QED
    BY <1>1, <1>2 DEF RaceInvariant

LEMMA RaceHolds == SSpec => []RaceInvariant
BY RaceInit, RaceStep, PTL DEF SSpec

-----------------------------------------------------------------------------
(* The theorems *)

\* Every reachable state of supervised operations is well typed.
THEOREM CallsTypeCorrect == SSpec => []CallsTypeOK
BY RaceHolds, PTL DEF RaceInvariant

\* A launcher cleans up the lease of its worker only when the group has ended.
THEOREM GroupsGoneFirst == SSpec => []GroupGoneFirst
<1>1. RaceInvariant => GroupGoneFirst
    BY DEF RaceInvariant, CallInv, GroupInv, GroupGoneFirst
<1> QED
    BY <1>1, RaceHolds, PTL

\* A step of a process that is watched is one of its own, or its end.
LEMMA WatchedMoves ==
    ASSUME RaceInvariant, [SNext]_allVars, NEW s \in Supervisor, NEW p \in Pid,
           Watching(s, p), call[s].stopped
    PROVE  pc'[p] \in {pc[p], "absent"}
<1>1. Doomed(p) /\ pc[p] # "absent" /\ pc \in [Pid -> Location]
    BY DEF Doomed, RaceInvariant, WatchedInv, Watching, CallsTypeOK, TypeOK
<1>2. ASSUME NEW q \in Pid, Gone(q) PROVE pc'[p] \in {pc[p], "absent"}
    BY <1>1, <1>2 DEF Gone
<1>3. ASSUME NEW q \in Pid, NEW to, q # p, pc' = [pc EXCEPT ![q] = to]
      PROVE  pc'[p] \in {pc[p], "absent"}
    BY <1>1, <1>3
<1>4. ASSUME NEW q \in Pid, Worker(q) PROVE pc'[p] \in {pc[p], "absent"}
    <2>1. CASE Enters(q)
        BY <2>1, <1>1, <1>3 DEF Enters, Start, Goto
    <2>2. ASSUME NEW known \in BOOLEAN, Begins(q, known) PROVE pc'[p] \in {pc[p], "absent"}
        BY <2>2, <1>1, <1>3 DEF Begins, Begin, Goto
    <2>3. CASE Works(q)
        <3>1. q # p
            BY <2>3, <1>1 DEF Works
        <3>2. \E to : pc' = [pc EXCEPT ![q] = to]
            BY <2>3 DEF Works, Step, Link, OpenGuard, Inspect, Judge, Remove, Unguard,
                Verify, Release, Retry, Goto
        <3> QED
            BY <3>1, <3>2, <1>3
    <2>4. CASE Ends(q) \/ Killed(q)
        BY <2>4, <1>2 DEF Ends, Exit, Die, Killed
    <2>5. ASSUME NEW t \in Supervisor, Post(t, q) \/ Fork(t, q) PROVE pc' = pc
        BY <2>5 DEF Post, Fork, vars
    <2> QED
        BY <1>4, <2>1, <2>2, <2>3, <2>4, <2>5 DEF Worker
<1>5. ASSUME NEW t \in Supervisor, Launcher(t) PROVE pc'[p] \in {pc[p], "absent"}
    <2>1. ASSUME NEW q \in Pid, Launch(t, q) PROVE pc'[p] \in {pc[p], "absent"}
        BY <2>1, <1>1, <1>3 DEF Launch, Supervise, Free
    <2>2. CASE Receive(t) \/ Stop(t) \/ Abort(t) \/ Done(t) \/ Reap(t)
        BY <2>2 DEF Receive, Stop, Abort, Done, Reap, vars
    <2>3. CASE Exited(t) \/ Clean(t) \/ LauncherDies(t)
        BY <2>3 DEF Exited, Clean, OpenGuardFor, InspectFor, RemoveFor, UnguardFor,
            LauncherDies, ParentDies
    <2> QED
        BY <1>5, <2>1, <2>2, <2>3 DEF Launcher
<1>6. CASE UNCHANGED allVars
    BY <1>6 DEF allVars, vars
<1> QED
    BY <1>4, <1>5, <1>6 DEF SNext

\* An answered call starts no Git process.
LEMMA NoFork ==
    ASSUME RaceInvariant, [SNext]_allVars, NEW s \in Supervisor,
           call[s].answer \in Summary
    PROVE  ~ group'[s]
<1>1. ~ group[s] /\ (sup[s] # {} => call[s].stopped) /\ group \in [Supervisor -> BOOLEAN]
    BY DEF RaceInvariant, CallInv, AnsweredInv, CallsTypeOK
<1>2. ASSUME NEW t \in Supervisor, Launcher(t) PROVE ~ group'[s]
    BY <1>1, <1>2 DEF Launcher, Launch, Receive, Stop, Abort, Exited, Clean, Done, Reap,
        LauncherDies, KillTree, callVars
<1>3. ASSUME NEW q \in Pid, Worker(q) PROVE ~ group'[s]
    <2>1. ASSUME NEW t \in Supervisor, Fork(t, q) PROVE t # s
        BY <2>1, <1>1 DEF Fork, Watching, Doomed
    <2>2. ASSUME NEW t \in Supervisor, Fork(t, q) PROVE ~ group'[s]
        BY <2>1, <2>2, <1>1 DEF Fork
    <2> QED
        BY <1>1, <1>3, <2>2 DEF Worker, Enters, Begins, Works, Ends, Killed, Post, callVars
<1>4. CASE UNCHANGED allVars
    BY <1>1, <1>4 DEF allVars, callVars
<1> QED
    BY <1>2, <1>3, <1>4 DEF SNext

\* An answer is final, whichever event of the race gave it: no step of the worker
\* and no Git process of its group comes after it.
THEOREM AnswersAreFinal == SSpec => AnswerIsFinal
<1>1. ASSUME RaceInvariant, [SNext]_allVars
      PROVE  \A s \in Supervisor : call[s].answer \in Summary =>
                /\ ~ group'[s]
                /\ \A p \in Pid : Watching(s, p) => pc'[p] \in {pc[p], "absent"}
    <2> SUFFICES ASSUME NEW s \in Supervisor, call[s].answer \in Summary
                 PROVE  /\ ~ group'[s]
                        /\ \A p \in Pid : Watching(s, p) => pc'[p] \in {pc[p], "absent"}
        OBVIOUS
    <2>1. sup[s] # {} => call[s].stopped
        BY <1>1 DEF RaceInvariant, CallInv, AnsweredInv
    <2> QED
        BY <1>1, <2>1, NoFork, WatchedMoves DEF Watching
<1> QED
    BY <1>1, RaceHolds, PTL DEF SSpec, AnswerIsFinal

LEMMA SupervisedLeaseHolds == SSpec => []LeaseInvariant
<1>1. SInit => LeaseInvariant
    BY LeaseInvariantInit DEF SInit
<1>2. LeaseInvariant /\ [SNext]_allVars => LeaseInvariant'
    BY LeaseInvariantKept
<1> QED
    BY <1>1, <1>2, PTL DEF SSpec

\* Supervision adds no way to lose the lease: its timers, its kills and the cleanup
\* after an exit take it from no holder, while no recovery was overtaken.
THEOREM SupervisedLeaseKept == SSpec => []KeptUnlessOvertaken
BY SupervisedLeaseHolds, InvariantKeepsLease, PTL

\* Until then two processes never work on the store at a time, supervised or not.
THEOREM SupervisedOneHolder == SSpec => [](~overtaken => MutualExclusion)
BY SupervisedLeaseHolds, InvariantExcludes, PTL

=============================================================================
