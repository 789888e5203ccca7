---------------------------- MODULE Configure_proofs ----------------------------
(***************************************************************************)
(* Proofs about Configure for any clones, edits, retries and faults: the   *)
(* note of a change of metadata outlives every state in which the change   *)
(* may still become public unseen.                                         *)
(***************************************************************************)
EXTENDS Configure, LedgerSync_proofs

-----------------------------------------------------------------------------
(* The invariant *)

\* The confirmed commit is as long as every change the clone has sent: a change
\* that is not in it has lost, or never arrived, for good.
Overtaken(c) == \A change \in sent[c] : Len(change) <= Len(transport[c].commit)

Sending == {"mark", "check", "send"}

\* A change of metadata while it runs: its note stays, an attempt is marked before
\* anything is sent, and success means that everything sent before is overtaken.
ChangeInv(c) ==
    /\ marker[c] # None
    /\ op[c].attempted \/ previous[c] # None \/ Overtaken(c)
    /\ pc[c] # "open"
    /\ pc[c] \in Sending =>
         op[c].attempted /\ Len(op[c].candidate) = Len(op[c].accepted) + 1
    /\ op[c].candidate # Absent =>
         \A change \in sent[c] : Len(change) <= Len(op[c].candidate)
    /\ pc[c] = "verify" => op[c].candidate # Absent
    /\ pc[c] \in {"acknowledge", "done"} /\ op[c].status \in {"synced", "unchanged"} =>
         Overtaken(c)

NoteInv(c) ==
    /\ sent[c] \subseteq History
    /\ \A change \in sent[c] : Len(change) <= Len(transport[c].commit) + 1
    /\ marker[c] = None => Overtaken(c)
    /\ stage[c] # "none" => pc[c] = "idle" /\ Overtaken(c)
    /\ pc[c] = "idle" => op[c].kind # "configure"
    /\ op[c].kind = "configure" => ChangeInv(c)

\* Whoever sends builds on what it sends.
GrowsInv ==
    /\ \A c \in Clone : pc[c] \in Sending => Len(op[c].accepted) < Len(op[c].candidate)
    /\ \A request \in inflight : Len(request.old) < Len(request.new)

NotesTyped ==
    /\ marker \in [Clone -> Meta \cup {None}]
    /\ previous \in [Clone -> Meta \cup {None}]
    /\ stage \in [Clone -> {"none", "declare", "clear"}]
    /\ sent \in [Clone -> SUBSET History]

NotesInvariant ==
    /\ SharedInvariant /\ tampers = 0
    /\ NotesTyped /\ GrowsInv
    /\ \A c \in Clone : NoteInv(c)

-----------------------------------------------------------------------------
(* The steps of LedgerSync that Configure takes *)

\* Every step is one of LedgerSync, a stutter of it, or the fault of a declaration.
LEMMA StepOfSync ==
    ASSUME [CNext]_cvars
    PROVE  [Next]_vars \/ (\E c \in Clone : Drift(c))
<1>1. ASSUME NEW c \in Clone, Note(c) \/ Synchronize(c) PROVE Start(c)
    BY <1>1 DEF Note, Synchronize, Start
<1>2. ASSUME NEW c \in Clone, Conclude(c) \/ Transact(c) PROVE Proceed(c)
    BY <1>2 DEF Conclude, Transact, Proceed
<1>3. ASSUME NEW c \in Clone, Interrupt(c) PROVE Fail(c)
    BY <1>3 DEF Interrupt
<1>4. ASSUME NEW c \in Clone,
             Declare(c) \/ Clear(c) \/ PlanRepair(c) \/ CheckRepair(c) \/ WriteRepair(c)
      PROVE  UNCHANGED vars
    BY <1>4 DEF Declare, Clear, PlanRepair, CheckRepair, WriteRepair
<1>5. Remote => Next
    BY DEF Remote, Next
<1>6. UNCHANGED cvars => UNCHANGED vars
    BY DEF cvars
<1> QED
    BY <1>1, <1>2, <1>3, <1>4, <1>5, <1>6 DEF CNext, Next

LEMMA SharedKept ==
    ASSUME SharedInvariant, tampers = 0, [CNext]_cvars
    PROVE  /\ SharedInvariant' /\ tampers' = 0
           /\ \A c \in Clone : Retains(transport[c].commit, transport'[c].commit)
<1>1. CASE [Next]_vars
    <2>1. AcceptanceInvariant
        BY DEF SharedInvariant
    <2>2. SharedInvariant'
        BY <1>1, TypeStep, AllAcceptanceStep, SharedStep DEF SharedInvariant, AcceptanceInvariant
    <2>3. \A c \in Clone : Retains(transport[c].commit, transport'[c].commit)
        BY <1>1, <2>1, AcceptedRetained
    <2>4. UNCHANGED tampers
        <3>1. ASSUME NEW c \in Clone, Start(c) \/ Proceed(c) \/ Fail(c) PROVE UNCHANGED tampers
            BY <3>1, SendOnly
        <3>2. ASSUME NEW c \in Clone,
                     Declare(c) \/ Clear(c) \/ PlanRepair(c) \/ CheckRepair(c) \/ WriteRepair(c)
              PROVE  UNCHANGED tampers
            BY <3>2 DEF Declare, Clear, PlanRepair, CheckRepair, WriteRepair, vars, countVars
        <3>3. ASSUME NEW c \in Clone, Note(c) \/ Synchronize(c) \/ Conclude(c) \/ Transact(c) \/ Interrupt(c)
              PROVE  Start(c) \/ Proceed(c) \/ Fail(c)
            BY <3>3 DEF Note, Synchronize, Conclude, Transact, Interrupt, Start, Proceed
        <3>4. ASSUME NEW c \in Clone, Drift(c) PROVE UNCHANGED tampers
            BY <3>4 DEF Drift
        <3>5. Remote => UNCHANGED tampers
            BY DEF Remote, Deliver, Lose, countVars
        <3>6. UNCHANGED cvars => UNCHANGED tampers
            BY DEF cvars, vars, countVars
        <3> QED
            BY <3>1, <3>2, <3>3, <3>4, <3>5, <3>6 DEF CNext
    <2> QED
        BY <2>2, <2>3, <2>4
<1>2. ASSUME NEW c \in Clone, Drift(c)
      PROVE  /\ SharedInvariant' /\ tampers' = 0
             /\ \A d \in Clone : Retains(transport[d].commit, transport'[d].commit)
    <2>1. UNCHANGED << remoteVars, storeVars, pc, op, creations, tampers >> /\ faults' = faults + 1
        BY <1>2 DEF Drift
    <2>2. AcceptanceInvariant /\ SharedInv
        BY DEF SharedInvariant
    <2>3. TypeOK'
        BY <2>1, <2>2 DEF AcceptanceInvariant, TypeOK, remoteVars, storeVars
    <2>4. AllAcceptanceInv'
        BY <2>1, <2>2 DEF AcceptanceInvariant, AllAcceptanceInv, AcceptanceInv, storeVars
    <2>5. SharedInv'
        BY <2>1, <2>2 DEF SharedInv, SendInv, KnownInv, storeVars, remoteVars
    <2>6. \A d \in Clone : transport[d].commit \in History
        BY <2>2 DEF AcceptanceInvariant, TypeOK, Transport
    <2>7. \A d \in Clone : Retains(transport[d].commit, transport'[d].commit)
        BY <2>1, <2>6, RetainsPreorder DEF storeVars
    <2> QED
        BY <2>1, <2>3, <2>4, <2>5, <2>7 DEF SharedInvariant, AcceptanceInvariant
<1> QED
    BY <1>1, <1>2, StepOfSync

\* What was overtaken stays so, whatever is confirmed next.
LEMMA OvertakenStays ==
    ASSUME NEW c \in Clone, transport[c].commit \in History, transport'[c].commit \in History,
           Retains(transport[c].commit, transport'[c].commit), sent[c] \subseteq History
    PROVE  /\ Len(transport[c].commit) <= Len(transport'[c].commit)
           /\ sent'[c] = sent[c] /\ Overtaken(c) => Overtaken(c)'
           /\ sent'[c] = sent[c] /\ (\A change \in sent[c] : Len(change) <= Len(transport[c].commit) + 1)
                => \A change \in sent'[c] : Len(change) <= Len(transport'[c].commit) + 1
<1>1. Len(transport[c].commit) \in Nat /\ Len(transport'[c].commit) \in Nat
    BY HistoryType
<1>2. Len(transport[c].commit) <= Len(transport'[c].commit)
    BY DEF Retains, Ancestor
<1>3. \A change \in sent[c] : Len(change) \in Nat
    BY HistoryType
<1> QED
    BY <1>1, <1>2, <1>3 DEF Overtaken

-----------------------------------------------------------------------------
(* A change of metadata *)

\* A step to a place from which nothing is sent and nothing is concluded.
LEMMA ChangePlain ==
    ASSUME NEW c \in Clone, ChangeInv(c), UNCHANGED << marker, previous >>,
           sent'[c] = sent[c], Overtaken(c) => Overtaken(c)',
           op'[c].attempted = op[c].attempted, op'[c].candidate = op[c].candidate,
           pc'[c] \in {"lookup", "fetch", "confirm", "record", "select", "build", "await"}
    PROVE  ChangeInv(c)'
BY DEF ChangeInv, Sending

\* A change that ends without success, or with what is overtaken.
LEMMA ChangeEnds ==
    ASSUME TypeOK, NEW c \in Clone, ChangeInv(c), UNCHANGED << marker, previous >>,
           sent'[c] = sent[c], Overtaken(c) => Overtaken(c)',
           NEW status, op'[c] = Outcome(op[c], status), pc'[c] = "done",
           status \in {"synced", "unchanged"} => Overtaken(c)'
    PROVE  ChangeInv(c)'
<1>1. /\ op'[c].attempted = op[c].attempted /\ op'[c].candidate = Absent
      /\ op'[c].status = status
    BY DEF TypeOK, Operation, Outcome
<1> QED
    BY <1>1 DEF ChangeInv, Sending

\* A selection of a change builds, or ends without success: no edit asks for the
\* metadata it expects.
LEMMA ChangeSelects ==
    ASSUME TypeOK, NEW c \in Clone, Select(c), op[c].kind = "configure",
           << op[c].expected, op[c].target >> \in Edits,
           \A edit \in Edits : edit[1] # edit[2]
    PROVE  /\ pc'[c] = "build" /\ op'[c].attempted = op[c].attempted
           /\ op'[c].candidate = op[c].candidate
<1>1. op[c].expected # op[c].target
    BY DEF TypeOK
<1>2. MetaOf(op[c].accepted) = op[c].expected
    BY DEF Select, StaleEdit
<1>3. ~ Bounded(c)
    BY DEF Bounded
<1>4. PICK outbox : \E local \in Selections(c, outbox) : Decide(c, local, outbox)
    BY DEF Select
<1>5. PICK local \in Selections(c, outbox) : Decide(c, local, outbox)
    BY <1>4
<1>6. ~ Includes(c, local, op[c].accepted)
    BY <1>1, <1>2 DEF Includes
<1>7. /\ Goto(c, "select", "build")
      /\ op' = [op EXCEPT ![c].local = local, ![c].status = "unchanged"]
    BY <1>3, <1>5, <1>6 DEF Decide
<1> QED
    BY <1>7 DEF Goto, TypeOK, Operation

\* A new attempt is one longer than what is confirmed, and it is marked.
LEMMA ChangeBuilds ==
    ASSUME TypeOK, NEW c \in Clone, AcceptanceInv(c), Build(c), ~ StaleEdit(c)
    PROVE  /\ op'[c].candidate \in History
           /\ Len(op'[c].candidate) = Len(transport[c].commit) + 1
           /\ op'[c].accepted = op[c].accepted /\ op[c].accepted = transport[c].commit
           /\ op'[c].kind = op[c].kind
           /\ op'[c].attempted = (op[c].kind = "configure")
           /\ pc[c] = "build" /\ pc'[c] \in {"mark", "check"}
<1>1. PICK R, m : /\ R = RecordsFor(c) /\ m = MetaFor(c)
                  /\ op' = [op EXCEPT ![c].candidate = Extend(op[c].accepted, R, m),
                                      ![c].attempted = op[c].kind = "configure"]
    BY DEF Build
<1>2. pc[c] = "build" /\ pc'[c] \in {"mark", "check"}
    BY DEF Build, Goto, TypeOK
<1>3. op[c].accepted = transport[c].commit
    BY <1>2 DEF AcceptanceInv, Working
<1>4. R \in SUBSET Record /\ m \in Meta \cup {Foreign, Malformed}
    BY <1>1, ReadTypes DEF RecordsFor, MetaFor
<1>5. op[c].accepted \in History
    BY ReadTypes
<1>6. Extend(op[c].accepted, R, m) \in History
      /\ Len(Extend(op[c].accepted, R, m)) = Len(op[c].accepted) + 1
    BY <1>4, <1>5, ExtendFacts
<1>7. /\ op'[c].candidate = Extend(op[c].accepted, R, m)
      /\ op'[c].accepted = op[c].accepted /\ op'[c].kind = op[c].kind
      /\ op'[c].attempted = (op[c].kind = "configure")
    BY <1>1 DEF TypeOK, Operation
<1> QED
    BY <1>2, <1>3, <1>6, <1>7

\* What an attempt to send a change adds to what was sent.
Sent(c) ==
    \/ sent'[c] = sent[c]
    \/ pc[c] = "send" /\ sent'[c] = sent[c] \cup {op[c].candidate}

LEMMA ChangeStep ==
    ASSUME TypeOK, NEW c \in Clone, AcceptanceInv(c), SendInv(c), NoteInv(c),
           \A edit \in Edits : edit[1] # edit[2],
           op[c].kind = "configure", Proceed(c), ~ Return(c),
           UNCHANGED << marker, previous >>, Sent(c),
           pc[c] # "send" => sent'[c] = sent[c],
           sent'[c] = sent[c] => (Overtaken(c) => Overtaken(c)')
    PROVE  ChangeInv(c)'
<1> USE DEF Goto, Finish
<1>1. ChangeInv(c) /\ << op[c].expected, op[c].target >> \in Edits
    BY DEF NoteInv, SendInv
<1>2. pc[c] # "open" /\ ~ Bounded(c)
    BY <1>1 DEF ChangeInv, Bounded
<1>3. CASE SeeRef(c) \/ Answer(c)
    <2>1. UNCHANGED op /\ pc[c] \in {"lookup", "await"} /\ pc'[c] \in {"fetch", "lookup"}
        BY <1>3 DEF SeeRef, Answer, TypeOK
    <2> QED
        BY <2>1, <1>1, ChangePlain
<1>4. CASE MissRef(c)
    <2>1. pc[c] = "lookup"
        BY <1>4 DEF MissRef
    <2>2. CASE EverSeen(c)
        <3>1. op'[c] = Outcome(op[c], "conflict") /\ pc'[c] = "done"
            BY <1>4, <2>2 DEF MissRef, TypeOK
        <3> QED
            BY <2>1, <3>1, <1>1, ChangeEnds
    <2>3. CASE ~ EverSeen(c)
        <3>1. /\ op'[c].attempted = op[c].attempted /\ op'[c].candidate = op[c].candidate
              /\ pc'[c] = "select"
            BY <1>4, <2>3 DEF MissRef, TypeOK, Operation
        <3> QED
            BY <2>1, <3>1, <1>1, ChangePlain
    <2> QED
        BY <2>2, <2>3
<1>5. CASE Fetch(c)
    <2>1. pc[c] = "fetch"
        BY <1>5 DEF Fetch
    <2>2. CASE Valid(tip)
        <3>1. /\ op'[c].attempted = op[c].attempted /\ op'[c].candidate = op[c].candidate
              /\ pc'[c] = "confirm"
            BY <1>5, <2>2 DEF Fetch, TypeOK, Operation
        <3> QED
            BY <2>1, <3>1, <1>1, ChangePlain
    <2>3. CASE ~ Valid(tip)
        <3>1. PICK status \in {"queued", "conflict", "unsupported"} : Finish(c, "fetch", status)
            BY <1>5, <2>3 DEF Fetch
        <3>2. op'[c] = Outcome(op[c], status) /\ pc'[c] = "done" /\ status \notin {"synced", "unchanged"}
            BY <3>1 DEF TypeOK
        <3> QED
            BY <2>1, <3>2, <1>1, ChangeEnds
    <2> QED
        BY <2>2, <2>3
<1>6. CASE Confirm(c)
    <2>1. pc[c] = "confirm"
        BY <1>6 DEF Confirm
    <2>2. \/ pc'[c] = "record" /\ UNCHANGED op
          \/ \E status \in {"queued", "conflict"} : op'[c] = Outcome(op[c], status) /\ pc'[c] = "done"
        BY <1>6 DEF Confirm, TypeOK
    <2>3. CASE pc'[c] = "record" /\ UNCHANGED op
        BY <2>1, <2>3, <1>1, ChangePlain
    <2>4. ASSUME NEW status \in {"queued", "conflict"},
                 op'[c] = Outcome(op[c], status), pc'[c] = "done"
          PROVE  ChangeInv(c)'
        <3>1. status \notin {"synced", "unchanged"}
            OBVIOUS
        <3> QED
            BY <2>1, <2>4, <3>1, <1>1, ChangeEnds
    <2> QED
        BY <2>2, <2>3, <2>4
<1>7. CASE Accept(c)
    <2>1. /\ op'[c].attempted = op[c].attempted /\ op'[c].candidate = op[c].candidate
          /\ pc[c] = "record" /\ pc'[c] = IF op[c].candidate = Absent THEN "select" ELSE "verify"
        BY <1>7 DEF Accept, TypeOK, Operation
    <2>2. CASE op[c].candidate = Absent
        BY <2>1, <2>2, <1>1, ChangePlain
    <2>3. CASE op[c].candidate # Absent
        BY <2>1, <2>3, <1>1 DEF ChangeInv, Sending
    <2> QED
        BY <2>2, <2>3
<1>8. CASE Refuse(c)
    <2>1. PICK status \in {"queued", "conflict"} : Finish(c, "select", status)
        BY <1>8 DEF Refuse
    <2>2. /\ pc[c] = "select" /\ op'[c] = Outcome(op[c], status) /\ pc'[c] = "done"
          /\ status \notin {"synced", "unchanged"}
        BY <2>1 DEF TypeOK
    <2> QED
        BY <2>2, <1>1, ChangeEnds
<1>9. CASE Select(c)
    <2>1. pc[c] = "select"
        BY <1>9 DEF Select, Decide
    <2> QED
        BY <1>9, <2>1, <1>1, ChangeSelects, ChangePlain
<1>10. CASE Build(c)
    <2>1. CASE StaleEdit(c)
        <3>1. pc[c] = "build" /\ op'[c] = Outcome(op[c], "conflict") /\ pc'[c] = "done"
            BY <1>10, <2>1 DEF Build, TypeOK
        <3> QED
            BY <3>1, <1>1, ChangeEnds
    <2>2. CASE ~ StaleEdit(c)
        <3>1. /\ Len(op'[c].candidate) = Len(transport[c].commit) + 1
              /\ op'[c].accepted = transport[c].commit
              /\ op'[c].attempted /\ pc[c] = "build" /\ pc'[c] \in {"mark", "check"}
            BY <1>10, <2>2, ChangeBuilds
        <3>2. \A change \in sent'[c] : Len(change) <= Len(op'[c].candidate)
            BY <3>1 DEF NoteInv
        <3> QED
            BY <3>1, <3>2, <1>1 DEF ChangeInv, Sending
    <2> QED
        BY <2>1, <2>2
<1>11. CASE Mark(c)
    <2>1. UNCHANGED op /\ pc[c] = "mark" /\ pc'[c] = "check"
        BY <1>11 DEF Mark, TypeOK
    <2> QED
        BY <2>1, <1>1 DEF ChangeInv, Sending
<1>12. CASE Check(c)
    <2>1. /\ pc[c] = "check"
          /\ \/ UNCHANGED op /\ pc'[c] = "lookup"
             \/ UNCHANGED op /\ pc'[c] = "send"
             \/ \E status \in {"unsupported", "conflict"} :
                    op'[c] = Outcome(op[c], status) /\ pc'[c] = "done"
        BY <1>12 DEF Check, TypeOK
    <2>2. CASE UNCHANGED op /\ pc'[c] = "lookup"
        BY <2>1, <2>2, <1>1, ChangePlain
    <2>3. CASE UNCHANGED op /\ pc'[c] = "send"
        BY <2>1, <2>3, <1>1 DEF ChangeInv, Sending
    <2>4. ASSUME NEW status \in {"unsupported", "conflict"},
                 op'[c] = Outcome(op[c], status), pc'[c] = "done"
          PROVE  ChangeInv(c)'
        <3>1. status \notin {"synced", "unchanged"}
            OBVIOUS
        <3> QED
            BY <2>1, <2>4, <3>1, <1>1, ChangeEnds
    <2> QED
        BY <2>1, <2>2, <2>3, <2>4
<1>13. CASE Send(c)
    <2>1. UNCHANGED op /\ pc[c] = "send" /\ pc'[c] = "await"
        BY <1>13 DEF Send, TypeOK
    <2>2. op[c].attempted
        BY <2>1, <1>1 DEF ChangeInv, Sending
    <2>3. op[c].candidate \in History /\ Len(op[c].candidate) \in Nat
        BY ReadTypes, HistoryType
    <2>4. op[c].candidate # Absent => \A change \in sent'[c] : Len(change) <= Len(op[c].candidate)
        BY <2>3, <1>1 DEF ChangeInv, Sent
    <2> QED
        BY <2>1, <2>2, <2>4, <1>1 DEF ChangeInv, Sending
<1>14. CASE Verify(c)
    <2>1. pc[c] = "verify"
        BY <1>14 DEF Verify
    <2>2. \/ pc'[c] = "build" /\ op'[c].attempted = op[c].attempted /\ op'[c].candidate = op[c].candidate
          \/ \E status \in {"queued", "conflict"} : op'[c] = Outcome(op[c], status) /\ pc'[c] = "done"
          \/ /\ pc'[c] = "acknowledge" /\ op'[c].attempted = op[c].attempted
             /\ op'[c].candidate = op[c].candidate /\ Landed(c)
        BY <1>14 DEF Verify, TypeOK, Operation
    <2>3. CASE pc'[c] = "build" /\ op'[c].attempted = op[c].attempted /\ op'[c].candidate = op[c].candidate
        BY <2>1, <2>3, <1>1, ChangePlain
    <2>4. ASSUME NEW status \in {"queued", "conflict"},
                 op'[c] = Outcome(op[c], status), pc'[c] = "done"
          PROVE  ChangeInv(c)'
        <3>1. status \notin {"synced", "unchanged"}
            OBVIOUS
        <3> QED
            BY <2>1, <2>4, <3>1, <1>1, ChangeEnds
    <2>5. CASE /\ pc'[c] = "acknowledge" /\ op'[c].attempted = op[c].attempted
               /\ op'[c].candidate = op[c].candidate /\ Landed(c)
        <3>1. op[c].accepted = transport[c].commit
            BY <2>1 DEF AcceptanceInv, Working
        <3>2. Len(op[c].candidate) <= Len(transport[c].commit)
            BY <2>5, <3>1 DEF Landed, Ancestor
        <3>3. op[c].candidate # Absent
            BY <2>1, <1>1 DEF ChangeInv
        <3>4. Len(op[c].candidate) \in Nat /\ Len(transport[c].commit) \in Nat
            BY <3>1, ReadTypes, HistoryType
        <3>5. \A change \in sent[c] : Len(change) \in Nat
            BY HistoryType DEF NoteInv
        <3>6. Overtaken(c)
            BY <3>2, <3>3, <3>4, <3>5, <1>1 DEF Overtaken, ChangeInv
        <3>7. Overtaken(c)' /\ sent'[c] = sent[c]
            BY <2>1, <3>6
        <3> QED
            BY <2>1, <2>5, <3>7, <1>1 DEF ChangeInv, Sending
    <2> QED
        BY <2>2, <2>3, <2>4, <2>5
<1>15. CASE Acknowledge(c)
    <2>1. pc[c] = "acknowledge" /\ Finish(c, "acknowledge", op[c].status)
        BY <1>15, <1>2 DEF Acknowledge
    <2>2. op'[c] = Outcome(op[c], op[c].status) /\ pc'[c] = "done"
        BY <2>1 DEF TypeOK
    <2>3. op[c].status \in {"synced", "unchanged"} => Overtaken(c)'
        BY <1>15, <2>1, <1>1 DEF ChangeInv, Acknowledge
    <2> QED
        BY <2>1, <2>2, <2>3, <1>1, ChangeEnds
<1>16. ~ Summarize(c) /\ ~ Open(c)
    BY <1>2 DEF Summarize, Open
<1> QED
    BY <1>3, <1>4, <1>5, <1>6, <1>7, <1>8, <1>9, <1>10, <1>11, <1>12, <1>13, <1>14,
       <1>15, <1>16 DEF Proceed

-----------------------------------------------------------------------------
(* Every step *)

\* An operation that proceeds stays of its kind and does not end.
LEMMA KindStays ==
    ASSUME TypeOK, NEW c \in Clone, Proceed(c), ~ Return(c)
    PROVE  op'[c].kind = op[c].kind /\ pc[c] # "idle" /\ pc'[c] # "idle"
<1> USE DEF Goto, Finish
<1>0. \A status : Outcome(op[c], status).kind = op[c].kind
    BY DEF TypeOK, Operation, Outcome
<1>1. CASE Summarize(c) \/ Open(c) \/ SeeRef(c) \/ MissRef(c) \/ Answer(c) \/ Mark(c) \/ Send(c)
    BY <1>0, <1>1 DEF Summarize, Open, SeeRef, MissRef, Answer, Mark, Send, TypeOK, Operation
<1>2. CASE Fetch(c)
    BY <1>0, <1>2 DEF Fetch, TypeOK, Operation
<1>3. CASE Confirm(c) \/ Accept(c) \/ Refuse(c)
    BY <1>0, <1>3 DEF Confirm, Accept, Refuse, TypeOK, Operation
<1>4. CASE Select(c)
    <2>1. pc[c] = "select"
        BY <1>4 DEF Select, Decide
    <2>2. PICK outbox : \E local \in Selections(c, outbox) : Decide(c, local, outbox)
        BY <1>4 DEF Select
    <2>3. PICK local \in Selections(c, outbox) : Decide(c, local, outbox)
        BY <2>2
    <2>4. \/ Finish(c, "select", "queued")
          \/ \E l : \E to \in {"acknowledge", "build"} :
                 /\ Goto(c, "select", to)
                 /\ op' = [op EXCEPT ![c].local = l, ![c].status = "unchanged"]
        BY <2>3 DEF Decide
    <2> QED
        BY <1>0, <2>1, <2>4 DEF TypeOK, Operation
<1>5. CASE Build(c)
    BY <1>0, <1>5 DEF Build, TypeOK, Operation
<1>6. CASE Check(c)
    BY <1>0, <1>6 DEF Check, TypeOK, Operation
<1>7. CASE Verify(c)
    BY <1>0, <1>7 DEF Verify, TypeOK, Operation
<1>8. CASE Acknowledge(c)
    BY <1>0, <1>8 DEF Acknowledge, TypeOK, Operation
<1> QED
    BY <1>1, <1>2, <1>3, <1>4, <1>5, <1>6, <1>7, <1>8 DEF Proceed

\* What a clone is about to send is longer than what it builds on.
LEMMA GrowsStep ==
    ASSUME TypeOK, NEW c \in Clone, AcceptanceInv(c),
           pc[c] \in Sending => Len(op[c].accepted) < Len(op[c].candidate),
           Start(c) \/ Proceed(c) \/ Fail(c), pc'[c] \in Sending
    PROVE  Len(op'[c].accepted) < Len(op'[c].candidate)
<1> USE DEF Goto, Finish
<1>1. Proceed(c)
    <2>1. CASE Start(c)
        BY <2>1 DEF Start, StartManual, StartAutomatic, StartConfigure, StartImport, Begin,
                    TypeOK, Sending
    <2>2. CASE Fail(c)
        BY <2>2 DEF Fail, Expire, Disconnect, Crash, TypeOK, Sending
    <2> QED
        BY <2>1, <2>2
<1>2. CASE Build(c)
    <2>1. ~ StaleEdit(c)
        BY <1>2 DEF Build, TypeOK, Sending
    <2>2. Len(op'[c].candidate) = Len(op[c].accepted) + 1 /\ op'[c].accepted = op[c].accepted
        BY <1>2, <2>1, ChangeBuilds
    <2>3. Len(op[c].accepted) \in Nat
        BY ReadTypes, HistoryType
    <2> QED
        BY <2>2, <2>3
<1>3. CASE Mark(c) \/ Check(c)
    <2>1. pc[c] \in {"mark", "check"} /\ UNCHANGED op
        BY <1>3 DEF Mark, Check, TypeOK, Sending
    <2> QED
        BY <2>1 DEF Sending
<1>4. CASE Select(c)
    BY <1>4, SelectEnds DEF Sending
<1>5. ~ (Summarize(c) \/ Open(c) \/ SeeRef(c) \/ MissRef(c) \/ Fetch(c) \/ Confirm(c))
    BY DEF Summarize, Open, SeeRef, MissRef, Fetch, Confirm, TypeOK, Sending
<1>6. ~ (Accept(c) \/ Refuse(c) \/ Send(c) \/ Answer(c) \/ Verify(c) \/ Acknowledge(c) \/ Return(c))
    BY DEF Accept, Refuse, Send, Answer, Verify, Acknowledge, Return, TypeOK, Sending
<1> QED
    BY <1>1, <1>2, <1>3, <1>4, <1>5, <1>6 DEF Proceed

LEMMA AllGrowStep ==
    ASSUME SharedInvariant, GrowsInv, [CNext]_cvars
    PROVE  GrowsInv'
<1>1. TypeOK /\ \A c \in Clone : AcceptanceInv(c)
    BY DEF SharedInvariant, AcceptanceInvariant, AllAcceptanceInv
<1>2. ASSUME NEW c \in Clone, Start(c) \/ Proceed(c) \/ Fail(c)
      PROVE  GrowsInv'
    <2>1. ASSUME NEW d \in Clone, pc'[d] \in Sending
          PROVE  Len(op'[d].accepted) < Len(op'[d].candidate)
        <3>1. CASE d = c
            BY <1>1, <1>2, <2>1, <3>1, GrowsStep DEF GrowsInv
        <3>2. CASE d # c
            BY <1>1, <1>2, <2>1, <3>2, OthersKeep DEF GrowsInv
        <3> QED
            BY <3>1, <3>2
    <2>2. ASSUME NEW request \in inflight', request \notin inflight
          PROVE  Len(request.old) < Len(request.new)
        <3>1. /\ pc[c] = "send" /\ request.old = op[c].accepted
              /\ request.new = op[c].candidate
            BY <1>2, <2>2, SendOnly
        <3> QED
            BY <3>1 DEF GrowsInv, Sending
    <2> QED
        BY <2>1, <2>2 DEF GrowsInv
<1>3. ASSUME UNCHANGED << pc, op >>, inflight' \subseteq inflight
      PROVE  GrowsInv'
    BY <1>3 DEF GrowsInv
<1>4. ASSUME NEW c \in Clone, Note(c) \/ Synchronize(c) \/ Conclude(c) \/ Transact(c) \/ Interrupt(c)
      PROVE  GrowsInv'
    <2>1. Start(c) \/ Proceed(c) \/ Fail(c)
        BY <1>4 DEF Note, Synchronize, Conclude, Transact, Interrupt, Start, Proceed
    <2> QED
        BY <1>2, <2>1
<1>5. ASSUME NEW c \in Clone, Declare(c) \/ Clear(c) \/ Drift(c) \/ PlanRepair(c) \/ CheckRepair(c) \/ WriteRepair(c)
      PROVE  GrowsInv'
    BY <1>3, <1>5 DEF Declare, Clear, Drift, PlanRepair, CheckRepair, WriteRepair, vars, remoteVars
<1>6. CASE Remote
    BY <1>3, <1>6 DEF Remote, Deliver, Lose
<1>7. CASE UNCHANGED cvars
    BY <1>3, <1>7 DEF cvars, vars, remoteVars
<1> QED
    BY <1>4, <1>5, <1>6, <1>7 DEF CNext

\* A step that leaves everything of a clone but its confirmed commit alone.
LEMMA NoteQuiet ==
    ASSUME NEW c \in Clone, NoteInv(c),
           pc'[c] = pc[c], op'[c] = op[c], marker'[c] = marker[c], previous'[c] = previous[c],
           stage'[c] \in {stage[c], "none"}, sent'[c] = sent[c],
           transport'[c].commit = transport[c].commit
    PROVE  NoteInv(c)'
BY DEF NoteInv, ChangeInv, Overtaken, Sending

\* An operation begins, when nothing is left to declare.
LEMMA NoteBegins ==
    ASSUME TypeOK, NotesTyped, NEW c \in Clone, NoteInv(c), stage[c] = "none",
           NEW o, o \in Operation, Begin(c, o), o.candidate = Absent, ~ o.attempted,
           UNCHANGED << stage, sent >>,
           \/ o.kind # "configure" /\ UNCHANGED << marker, previous >>
           \/ /\ o.kind = "configure"
              /\ marker'[c] # None /\ previous'[c] = marker[c]
    PROVE  NoteInv(c)'
<1>1. /\ op'[c] = o /\ pc'[c] \in {"open", "lookup"} /\ UNCHANGED transport
      /\ o.kind # "automatic" => pc'[c] = "lookup"
    BY DEF Begin, Goto, TypeOK, storeVars
<1>2. UNCHANGED << stage, sent, transport >>
    BY <1>1
<1>3. Overtaken(c)' <=> Overtaken(c)
    BY <1>2 DEF Overtaken
<1>4. CASE o.kind # "configure"
    BY <1>1, <1>2, <1>3, <1>4 DEF NoteInv
<1>5. CASE o.kind = "configure"
    <2>1. ChangeInv(c)'
        BY <1>1, <1>2, <1>3, <1>5 DEF NoteInv, ChangeInv, Sending
    <2> QED
        BY <2>1, <1>1, <1>2, <1>3, <1>5 DEF NoteInv
<1> QED
    BY <1>4, <1>5

\* The transaction of any kind of operation.
LEMMA TransactStep ==
    ASSUME SharedInvariant, NotesTyped, NEW c \in Clone, NoteInv(c), Transact(c),
           \A edit \in Edits : edit[1] # edit[2],
           TypeOK', Retains(transport[c].commit, transport'[c].commit)
    PROVE  NoteInv(c)'
<1>1. TypeOK /\ AcceptanceInv(c) /\ SendInv(c)
    BY DEF SharedInvariant, AcceptanceInvariant, AllAcceptanceInv, SharedInv
<1>2. transport[c].commit \in History /\ transport'[c].commit \in History
      /\ sent[c] \subseteq History
    BY <1>1 DEF TypeOK, Transport, NotesTyped
<1>3. Proceed(c) /\ UNCHANGED << marker, previous, stage >>
    BY DEF Transact, noteVars
<1>4. \/ sent'[c] = sent[c]
      \/ pc[c] = "send" /\ op[c].kind = "configure" /\ sent'[c] = sent[c] \cup {op[c].candidate}
    BY DEF Transact, NotesTyped
<1>5. /\ Len(transport[c].commit) <= Len(transport'[c].commit)
      /\ sent'[c] = sent[c] /\ Overtaken(c) => Overtaken(c)'
      /\ sent'[c] = sent[c] => \A change \in sent'[c] : Len(change) <= Len(transport'[c].commit) + 1
    BY <1>2, OvertakenStays DEF NoteInv
<1>6. CASE op[c].kind # "configure"
    <2>1. sent'[c] = sent[c]
        BY <1>4, <1>6
    <2>2. op'[c].kind # "configure" /\ pc[c] # "idle"
        <3>1. CASE Return(c)
            BY <1>1, <3>1 DEF Return, Goto, TypeOK, NoOperation, NewOperation
        <3>2. CASE ~ Return(c)
            BY <1>1, <1>3, <1>6, <3>2, KindStays
        <3> QED
            BY <3>1, <3>2
    <2> QED
        BY <1>2, <1>3, <1>5, <2>1, <2>2 DEF NoteInv
<1>7. CASE op[c].kind = "configure"
    <2>1. ~ Return(c)
        BY <1>7 DEF Transact, Return, Goto
    <2>2. op'[c].kind = "configure" /\ pc[c] # "idle" /\ pc'[c] # "idle"
        BY <1>1, <1>3, <1>7, <2>1, KindStays
    <2>3. ChangeInv(c)'
        BY <1>1, <1>3, <1>4, <1>5, <1>7, <2>1, ChangeStep DEF Sent
    <2>4. stage'[c] = "none" /\ marker'[c] # None
        BY <1>3, <1>7, <2>2 DEF NoteInv, ChangeInv, NotesTyped
    <2>5. sent'[c] \subseteq History
        BY <1>1, <1>2, <1>4, ReadTypes
    <2>6. \A change \in sent'[c] : Len(change) <= Len(transport'[c].commit) + 1
        <3>1. CASE sent'[c] = sent[c]
            BY <1>5, <3>1
        <3>2. CASE pc[c] = "send" /\ sent'[c] = sent[c] \cup {op[c].candidate}
            <4>1. /\ Len(op[c].candidate) = Len(op[c].accepted) + 1
                  /\ op[c].accepted = transport[c].commit
                BY <1>1, <1>7, <3>2 DEF NoteInv, ChangeInv, Sending, AcceptanceInv, Working
            <4>2. \A change \in sent[c] : Len(change) \in Nat
                BY <1>2, HistoryType
            <4>3. Len(transport[c].commit) \in Nat /\ Len(transport'[c].commit) \in Nat
                BY <1>2, HistoryType
            <4> QED
                BY <1>5, <3>2, <4>1, <4>2, <4>3 DEF NoteInv
        <3> QED
            BY <1>4, <3>1, <3>2
    <2> QED
        BY <2>2, <2>3, <2>4, <2>5, <2>6, <1>7 DEF NoteInv
<1> QED
    BY <1>6, <1>7

\* The note is written before the transaction reads anything.
LEMMA NoteStarts ==
    ASSUME TypeOK, NotesTyped, NEW c \in Clone, NoteInv(c), Note(c)
    PROVE  NoteInv(c)'
<1>1. PICK edit \in Edits : Begin(c, NewOperation("configure", FALSE, edit, {}))
    BY DEF Note, StartConfigure
<1>2. edit \in Meta \X Meta /\ edit[2] \in Meta
    BY ConstantsAssumption
<1>3. PICK o : o = NewOperation("configure", FALSE, edit, {})
    OBVIOUS
<1>4. o \in Operation
    BY <1>2, <1>3, OperationType DEF Kind
<1>5. o.candidate = Absent /\ ~ o.attempted /\ o.kind = "configure" /\ o.target = edit[2]
    BY <1>3 DEF NewOperation
<1>6. Begin(c, o)
    BY <1>1, <1>3
<1>7. op'[c] = o
    BY <1>6 DEF Begin, TypeOK
<1>8. marker'[c] = o.target /\ previous'[c] = marker[c]
    BY <1>7 DEF Note, NotesTyped
<1>9. marker'[c] # None
    BY <1>2, <1>5, <1>8, NoneAssumption
<1>10. stage[c] = "none" /\ UNCHANGED << stage, sent >>
    BY DEF Note, checkoutVars
<1> QED
    BY <1>4, <1>5, <1>6, <1>8, <1>9, <1>10, NoteBegins

LEMMA SynchronizeStarts ==
    ASSUME TypeOK, NotesTyped, NEW c \in Clone, NoteInv(c), Synchronize(c)
    PROVE  NoteInv(c)'
<1>1. PICK o : o = NewOperation("manual", FALSE, NoEdit, {})
    OBVIOUS
<1>2. o \in Operation
    BY <1>1, OperationType, ConstantsAssumption DEF Kind, NoEdit
<1>3. o.candidate = Absent /\ ~ o.attempted /\ o.kind # "configure"
    BY <1>1 DEF NewOperation
<1>4. Begin(c, o) /\ stage[c] = "none" /\ UNCHANGED << marker, previous, stage, sent >>
    BY <1>1 DEF Synchronize, StartManual, configVars, noteVars
<1> QED
    BY <1>2, <1>3, <1>4, NoteBegins

\* A rejection gives back the note that was there, which was needed only if
\* something sent before was not overtaken; a success has overtaken everything.
LEMMA Concludes ==
    ASSUME TypeOK, NotesTyped, NEW c \in Clone, NoteInv(c), Conclude(c)
    PROVE  NoteInv(c)'
<1>1. /\ pc[c] = "done" /\ pc'[c] = "idle" /\ op'[c].kind = "manual"
      /\ UNCHANGED << transport, sent >>
    BY DEF Conclude, Return, Goto, TypeOK, storeVars, NoOperation, NewOperation
<1>2. op[c].kind = "configure" /\ ChangeInv(c)
    BY DEF Conclude, NoteInv
<1>3. /\ marker'[c] = NoteLeft(c)
      /\ stage'[c] = IF op[c].status \in {"synced", "unchanged"} THEN "declare" ELSE "none"
    BY DEF Conclude, NotesTyped
<1>4. Overtaken(c)' <=> Overtaken(c)
    BY <1>1 DEF Overtaken
<1>5. marker'[c] = None => Overtaken(c)
    BY <1>2, <1>3 DEF NoteLeft, Rejected, ChangeInv
<1>6. stage'[c] # "none" => Overtaken(c)
    BY <1>1, <1>2, <1>3 DEF ChangeInv
<1> QED
    BY <1>1, <1>4, <1>5, <1>6 DEF NoteInv

LEMMA NoteInterrupted ==
    ASSUME TypeOK, NotesTyped, NEW c \in Clone, NoteInv(c), Interrupt(c)
    PROVE  NoteInv(c)'
<1>1. UNCHANGED << transport, marker, stage, sent >> /\ Fail(c) /\ pc[c] # "idle"
    BY DEF Interrupt, Fail, Expire, Disconnect, Crash, Goto, storeVars, checkoutVars
<1>2. Overtaken(c)' <=> Overtaken(c)
    BY <1>1 DEF Overtaken
<1>3. CASE Crash(c)
    <2>1. pc'[c] = "idle" /\ op'[c].kind = "manual"
        BY <1>3 DEF Crash, Goto, TypeOK, NoOperation, NewOperation
    <2> QED
        BY <1>1, <1>2, <2>1 DEF NoteInv
<1>4. CASE Expire(c)
    <2>1. op'[c] = Outcome(op[c], "queued") /\ pc'[c] = "done"
        BY <1>4 DEF Expire, Finish, Goto, TypeOK
    <2>2. previous'[c] = previous[c] /\ op'[c].kind = op[c].kind
        BY <2>1 DEF Interrupt, NotesTyped, TypeOK, Operation, Outcome
    <2>3. /\ op'[c].attempted = op[c].attempted /\ op'[c].candidate = Absent
          /\ op'[c].status = "queued"
        BY <2>1 DEF TypeOK, Operation, Outcome
    <2>4. ChangeInv(c) => ChangeInv(c)'
        BY <1>1, <1>2, <2>1, <2>2, <2>3 DEF ChangeInv, Sending
    <2> QED
        BY <1>1, <1>2, <2>1, <2>2, <2>4 DEF NoteInv
<1>5. CASE Disconnect(c)
    <2>1. UNCHANGED op /\ pc'[c] = "lookup"
        BY <1>5 DEF Disconnect, Goto, TypeOK
    <2>2. previous'[c] = previous[c]
        BY <2>1 DEF Interrupt, NotesTyped
    <2>3. ChangeInv(c) => ChangeInv(c)'
        BY <1>1, <1>2, <2>1, <2>2 DEF ChangeInv, Sending
    <2> QED
        BY <1>1, <1>2, <2>1, <2>2, <2>3 DEF NoteInv
<1> QED
    BY <1>1, <1>3, <1>4, <1>5 DEF Fail

\* Declaring and clearing: what was sent is overtaken, so that the note may go.
LEMMA NoteDeclares ==
    ASSUME TypeOK, NotesTyped, NEW c \in Clone, NoteInv(c), Declare(c) \/ Clear(c) \/ Drift(c)
    PROVE  NoteInv(c)'
<1>1. UNCHANGED << transport, pc, op, sent >> /\ stage[c] # "none"
    BY DEF Declare, Clear, Drift, vars, storeVars, checkoutVars
<1>2. pc[c] = "idle" /\ Overtaken(c) /\ op[c].kind # "configure"
    BY <1>1 DEF NoteInv
<1>3. Overtaken(c)'
    BY <1>1, <1>2 DEF Overtaken
<1> QED
    BY <1>1, <1>2, <1>3 DEF NoteInv

\* A step of one clone leaves the notes of the others alone.
LEMMA OthersNotes ==
    ASSUME TypeOK, NotesTyped, NEW c \in Clone, NEW d \in Clone, d # c, NoteInv(d),
           \/ Note(c) \/ Conclude(c) \/ Declare(c) \/ Clear(c) \/ Drift(c)
           \/ Synchronize(c) \/ Transact(c) \/ Interrupt(c)
    PROVE  NoteInv(d)'
<1>1. /\ transport'[d] = transport[d] /\ pc'[d] = pc[d] /\ op'[d] = op[d]
    <2>1. CASE Note(c) \/ Conclude(c) \/ Synchronize(c) \/ Transact(c) \/ Interrupt(c)
        <3>1. Start(c) \/ Proceed(c) \/ Fail(c)
            BY <2>1 DEF Note, Synchronize, Conclude, Transact, Interrupt, Start, Proceed
        <3> QED
            BY <3>1, OthersKeep
    <2>2. CASE Declare(c) \/ Clear(c) \/ Drift(c)
        BY <2>2 DEF Declare, Clear, Drift, vars, storeVars
    <2> QED
        BY <2>1, <2>2
<1>2. /\ marker'[d] = marker[d] /\ previous'[d] = previous[d] /\ stage'[d] = stage[d]
      /\ sent'[d] = sent[d]
    <2>1. CASE Note(c) \/ Conclude(c)
        BY <2>1 DEF Note, Conclude, NotesTyped, checkoutVars
    <2>2. CASE Declare(c) \/ Clear(c) \/ Drift(c)
        BY <2>2 DEF Declare, Clear, Drift, NotesTyped, checkoutVars
    <2>3. CASE Synchronize(c) \/ Transact(c) \/ Interrupt(c)
        BY <2>3 DEF Synchronize, Transact, Interrupt, NotesTyped, configVars, noteVars, checkoutVars
    <2> QED
        BY <2>1, <2>2, <2>3
<1> QED
    BY <1>1, <1>2, NoteQuiet

LEMMA NotesTypedStep ==
    ASSUME TypeOK, TypeOK', NotesTyped, [CNext]_cvars
    PROVE  NotesTyped'
<1>1. ASSUME NEW c \in Clone, Note(c) PROVE NotesTyped'
    <2>1. op'[c].target \in Meta
        BY DEF TypeOK, Operation
    <2> QED
        BY <1>1, <2>1 DEF Note, NotesTyped
<1>2. ASSUME NEW c \in Clone, Conclude(c) PROVE NotesTyped'
    <2>1. NoteLeft(c) \in Meta \cup {None}
        BY DEF NoteLeft, NotesTyped
    <2> QED
        BY <1>2, <2>1 DEF Conclude, NotesTyped
<1>3. ASSUME NEW c \in Clone, Declare(c) \/ Clear(c) \/ Drift(c) PROVE NotesTyped'
    BY <1>3 DEF Declare, Clear, Drift, NotesTyped, checkoutVars
<1>4. ASSUME NEW c \in Clone, Transact(c) PROVE NotesTyped'
    <2>1. op[c].candidate \in History
        BY ReadTypes
    <2> QED
        BY <1>4, <2>1 DEF Transact, NotesTyped, noteVars
<1>5. ASSUME NEW c \in Clone, Interrupt(c) PROVE NotesTyped'
    BY <1>5 DEF Interrupt, NotesTyped, checkoutVars
<1>6. ASSUME NEW c \in Clone, Synchronize(c) PROVE NotesTyped'
    BY <1>6 DEF Synchronize, NotesTyped, configVars, noteVars
<1>7. ASSUME NEW c \in Clone, PlanRepair(c) \/ CheckRepair(c) \/ WriteRepair(c) PROVE NotesTyped'
    BY <1>7 DEF PlanRepair, CheckRepair, WriteRepair, NotesTyped, noteVars
<1>8. CASE Remote \/ UNCHANGED cvars
    BY <1>8 DEF Remote, NotesTyped, cvars, configVars, noteVars
<1> QED
    BY <1>1, <1>2, <1>3, <1>4, <1>5, <1>6, <1>7, <1>8 DEF CNext

LEMMA NotesStep ==
    ASSUME NotesInvariant, [CNext]_cvars, \A edit \in Edits : edit[1] # edit[2]
    PROVE  NotesInvariant'
<1>1. /\ SharedInvariant' /\ tampers' = 0
      /\ \A c \in Clone : Retains(transport[c].commit, transport'[c].commit)
    BY SharedKept DEF NotesInvariant
<1>2. TypeOK /\ TypeOK'
    BY <1>1 DEF NotesInvariant, SharedInvariant, AcceptanceInvariant
<1>3. NotesTyped /\ NotesTyped'
    BY <1>2, NotesTypedStep DEF NotesInvariant
<1>4. GrowsInv'
    BY AllGrowStep DEF NotesInvariant
<1>5. ASSUME NEW d \in Clone PROVE NoteInv(d)'
    <2>1. NoteInv(d) /\ SharedInvariant
        BY DEF NotesInvariant
    <2>2. ASSUME NEW c \in Clone, d # c,
                 \/ Note(c) \/ Conclude(c) \/ Declare(c) \/ Clear(c) \/ Drift(c)
                 \/ Synchronize(c) \/ Transact(c) \/ Interrupt(c)
          PROVE  NoteInv(d)'
        BY <1>2, <1>3, <2>1, <2>2, OthersNotes
    <2>3. CASE Note(d) \/ Conclude(d) \/ Declare(d) \/ Clear(d) \/ Drift(d) \/ Synchronize(d) \/ Interrupt(d)
        BY <1>2, <1>3, <2>1, <2>3, NoteStarts, Concludes, NoteDeclares, SynchronizeStarts, NoteInterrupted
    <2>4. CASE Transact(d)
        BY <1>1, <1>2, <1>3, <2>1, <2>4, TransactStep
    <2>5. ASSUME NEW c \in Clone, PlanRepair(c) \/ CheckRepair(c) \/ WriteRepair(c)
          PROVE  NoteInv(d)'
        BY <2>1, <2>5, NoteQuiet
           DEF PlanRepair, CheckRepair, WriteRepair, noteVars, vars, storeVars
    <2>6. CASE Remote
        BY <2>1, <2>6, NoteQuiet DEF Remote, Deliver, Lose, storeVars, configVars, noteVars
    <2>7. CASE UNCHANGED cvars
        BY <2>1, <2>7, NoteQuiet DEF cvars, vars, storeVars, configVars, noteVars
    <2> QED
        BY <2>2, <2>3, <2>4, <2>5, <2>6, <2>7 DEF CNext
<1> QED
    BY <1>1, <1>3, <1>4, <1>5 DEF NotesInvariant

LEMMA NotesInit == CInit => NotesInvariant
<1> SUFFICES ASSUME CInit PROVE NotesInvariant
    OBVIOUS
<1>1. SharedInvariant
    BY InitTypeOK, AcceptanceInit, SharedInit DEF CInit, SharedInvariant, AcceptanceInvariant
<1>2. tampers = 0 /\ GrowsInv
    BY DEF CInit, Init, GrowsInv, Sending
<1>3. NotesTyped
    BY DEF CInit, NotesTyped
<1>4. ASSUME NEW c \in Clone PROVE NoteInv(c)
    BY DEF CInit, Init, NoteInv, Overtaken, NoOperation, NewOperation
<1> QED
    BY <1>1, <1>2, <1>3, <1>4 DEF NotesInvariant

\* What has been overtaken is neither public unseen nor on its way.
LEMMA OvertakenIsSettled ==
    ASSUME NotesInvariant, NEW c \in Clone, Overtaken(c)
    PROVE  Unsettled(c) = {}
<1> SUFFICES ASSUME NEW change \in Unsettled(c) PROVE FALSE
    OBVIOUS
<1>1. TypeOK /\ Ancestor(transport[c].commit, tip) /\ change \in History
    BY DEF NotesInvariant, SharedInvariant, AcceptanceInvariant, SharedInv, KnownInv, Retains,
           NoteInv, Unsettled
<1>2. /\ change \in sent[c] /\ ~ Ancestor(change, transport[c].commit)
      /\ \/ Ancestor(change, tip)
         \/ \E request \in inflight : request.new = change /\ request.old = tip
    BY DEF Unsettled
<1>3. Len(change) <= Len(transport[c].commit)
    BY <1>2 DEF Overtaken
<1>4. /\ Len(change) \in Nat /\ Len(tip) \in Nat /\ Len(transport[c].commit) \in Nat
    BY <1>1, HistoryType DEF TypeOK, Transport
<1>5. Len(transport[c].commit) <= Len(tip)
      /\ \A i \in 1 .. Len(transport[c].commit) : transport[c].commit[i] = tip[i]
    BY <1>1 DEF Ancestor
<1>6. CASE Ancestor(change, tip)
    <2>1. \A i \in 1 .. Len(change) : change[i] = transport[c].commit[i]
        BY <1>3, <1>4, <1>5, <1>6 DEF Ancestor
    <2> QED
        BY <1>2, <1>3, <2>1 DEF Ancestor
<1>7. ASSUME NEW request \in inflight, request.new = change, request.old = tip
      PROVE  FALSE
    <2>1. Len(tip) < Len(change)
        BY <1>7 DEF NotesInvariant, GrowsInv
    <2> QED
        BY <1>3, <1>4, <1>5, <2>1
<1> QED
    BY <1>2, <1>6, <1>7

\* A change that was sent and may still be applied unseen keeps its note, for any
\* number of clones and of changes, whatever fails (pending-configuration.json in
\* configure.ts), provided that no edit asks for the metadata it expects.
THEOREM UncertaintyAlwaysKept ==
    ASSUME \A edit \in Edits : edit[1] # edit[2]
    PROVE  CSpec => []UncertaintyKept
<1>1. NotesInvariant /\ [CNext]_cvars => NotesInvariant'
    BY NotesStep
<1>2. NotesInvariant => UncertaintyKept
    BY OvertakenIsSettled DEF NotesInvariant, NoteInv, UncertaintyKept
<1> QED
    BY <1>1, <1>2, NotesInit, PTL DEF CSpec

-----------------------------------------------------------------------------
(* Types *)

\* What is fetched and confirmed holds a policy that validates.
PolicyInv(c) ==
    /\ transport[c].commit # Absent => MetaOf(transport[c].commit) \in Meta
    /\ pc[c] \in {"confirm", "record"} => MetaOf(op[c].fetched) \in Meta

Repair == [policy : Meta \cup {None}, before : Meta \cup {None}, checked : BOOLEAN]

\* Whoever succeeds has something confirmed to declare.
SuccessInv(c) ==
    /\ pc[c] = "acknowledge" => transport[c].commit # Absent
    /\ pc[c] = "done" /\ op[c].status \in {"synced", "unchanged"} =>
         transport[c].commit # Absent

DeclaredInv ==
    /\ AcceptanceInvariant /\ AllRootInv
    /\ \A c \in Clone : SuccessInv(c) /\ (stage[c] # "none" => transport[c].commit # Absent)
    /\ NotesTyped
    /\ declared \in [Clone -> Meta]
    /\ repair \in [Clone -> Repair]
    /\ \A c \in Clone : PolicyInv(c) /\ (repair[c] # NoRepair => repair[c].policy \in Meta)

LEMMA PolicyStep ==
    ASSUME TypeOK, NEW c \in Clone, PolicyInv(c), Start(c) \/ Proceed(c) \/ Fail(c)
    PROVE  PolicyInv(c)'
<1> USE DEF Goto, Finish
<1>1. CASE Start(c) \/ Fail(c)
    <2>1. UNCHANGED transport /\ pc'[c] \in {"idle", "open", "lookup", "done"}
        <3>1. CASE Start(c)
            BY <3>1 DEF Start, StartManual, StartAutomatic, StartConfigure, StartImport, Begin,
                        TypeOK, storeVars
        <3>2. CASE Fail(c)
            BY <3>2 DEF Fail, Expire, Disconnect, Crash, TypeOK, storeVars
        <3> QED
            BY <1>1, <3>1, <3>2
    <2> QED
        BY <2>1 DEF PolicyInv
<1>2. CASE Fetch(c)
    <2>1. UNCHANGED transport
        BY <1>2 DEF Fetch, storeVars
    <2>2. pc'[c] = "done" \/ (pc'[c] = "confirm" /\ Valid(tip) /\ op'[c].fetched = tip)
        BY <1>2 DEF Fetch, TypeOK, Operation
    <2> QED
        BY <2>1, <2>2 DEF PolicyInv, Valid
<1>3. CASE Confirm(c)
    <2>1. UNCHANGED transport /\ pc[c] = "confirm"
        BY <1>3 DEF Confirm
    <2>2. pc'[c] = "done" \/ (pc'[c] = "record" /\ UNCHANGED op)
        BY <1>3 DEF Confirm, TypeOK
    <2> QED
        BY <2>1, <2>2 DEF PolicyInv
<1>4. CASE Accept(c)
    <2>1. /\ pc[c] = "record" /\ pc'[c] \in {"select", "verify"}
          /\ transport'[c].commit = op[c].fetched
        BY <1>4 DEF Accept, TypeOK, Transport
    <2> QED
        BY <2>1 DEF PolicyInv
<1>5. CASE SeeRef(c) \/ Mark(c)
    <2>1. transport'[c].commit = transport[c].commit /\ pc'[c] \in {"fetch", "check"}
        BY <1>5 DEF SeeRef, Mark, TypeOK, Transport
    <2> QED
        BY <2>1 DEF PolicyInv
<1>6. CASE Select(c)
    <2>1. UNCHANGED transport
        BY <1>6 DEF Select
    <2>2. pc'[c] \in {"done", "build", "acknowledge"}
        BY <1>6, SelectEnds
    <2> QED
        BY <2>1, <2>2 DEF PolicyInv
<1>7. CASE Build(c) \/ Check(c) \/ Verify(c)
    <2>1. UNCHANGED transport /\ pc'[c] \notin {"confirm", "record"}
        BY <1>7 DEF Build, Check, Verify, TypeOK, storeVars
    <2> QED
        BY <2>1 DEF PolicyInv
<1>8. CASE \/ Summarize(c) \/ Open(c) \/ MissRef(c) \/ Refuse(c)
           \/ Send(c) \/ Answer(c) \/ Acknowledge(c) \/ Return(c)
    <2>1. UNCHANGED transport /\ pc'[c] \notin {"confirm", "record"}
        BY <1>8 DEF Summarize, Open, MissRef, Refuse, Send, Answer, Acknowledge, Return, TypeOK, storeVars
    <2> QED
        BY <2>1 DEF PolicyInv
<1> QED
    BY <1>1, <1>2, <1>3, <1>4, <1>5, <1>6, <1>7, <1>8 DEF Proceed

LEMMA SuccessStep ==
    ASSUME TypeOK, NEW c \in Clone, AcceptanceInv(c), RootInv(c), SuccessInv(c),
           Start(c) \/ Proceed(c) \/ Fail(c)
    PROVE  SuccessInv(c)'
<1> USE DEF Goto, Finish
<1>0. ASSUME NEW status, op'[c] = Outcome(op[c], status), pc'[c] = "done",
             status \notin {"synced", "unchanged"}
      PROVE  SuccessInv(c)'
    <2>1. op'[c].status = status
        BY <1>0 DEF TypeOK, Operation, Outcome
    <2> QED
        BY <1>0, <2>1 DEF SuccessInv
<1>1. ASSUME pc'[c] \notin {"acknowledge", "done"} PROVE SuccessInv(c)'
    BY <1>1 DEF SuccessInv
<1>2. CASE Start(c)
    BY <1>1, <1>2 DEF Start, StartManual, StartAutomatic, StartConfigure, StartImport, Begin, TypeOK
<1>3. CASE Fail(c)
    <2>1. pc'[c] \in {"idle", "lookup"} \/ (op'[c] = Outcome(op[c], "queued") /\ pc'[c] = "done")
        BY <1>3 DEF Fail, Expire, Disconnect, Crash, TypeOK
    <2> QED
        BY <1>0, <1>1, <2>1
<1>4. CASE Summarize(c)
    BY <1>4 DEF Summarize, SuccessInv, storeVars
<1>5. CASE Open(c) \/ SeeRef(c) \/ Accept(c) \/ Mark(c) \/ Send(c) \/ Answer(c) \/ Return(c)
    BY <1>1, <1>5 DEF Open, SeeRef, Accept, Mark, Send, Answer, Return, TypeOK
<1>6. CASE MissRef(c)
    <2>1. pc'[c] = "select" \/ (op'[c] = Outcome(op[c], "conflict") /\ pc'[c] = "done")
        BY <1>6 DEF MissRef, TypeOK
    <2> QED
        BY <1>0, <1>1, <2>1
<1>7. CASE Fetch(c)
    <2>1. \/ pc'[c] = "confirm"
          \/ \E status \in {"queued", "conflict", "unsupported"} :
                 op'[c] = Outcome(op[c], status) /\ pc'[c] = "done"
        BY <1>7 DEF Fetch, TypeOK
    <2> QED
        BY <1>0, <1>1, <2>1
<1>8. CASE Confirm(c)
    <2>1. \/ pc'[c] = "record"
          \/ \E status \in {"queued", "conflict"} :
                 op'[c] = Outcome(op[c], status) /\ pc'[c] = "done"
        BY <1>8 DEF Confirm, TypeOK
    <2> QED
        BY <1>0, <1>1, <2>1
<1>9. CASE Refuse(c)
    <2>1. \E status \in {"queued", "conflict"} : op'[c] = Outcome(op[c], status) /\ pc'[c] = "done"
        BY <1>9 DEF Refuse, TypeOK
    <2> QED
        BY <1>0, <2>1
<1>10. CASE Select(c)
    <2>1. pc[c] = "select" /\ UNCHANGED transport /\ op[c].accepted = transport[c].commit
        BY <1>10 DEF Select, Decide, AcceptanceInv, Working
    <2>2. PICK outbox : \E local \in Selections(c, outbox) : Decide(c, local, outbox)
        BY <1>10 DEF Select
    <2>3. PICK local \in Selections(c, outbox) : Decide(c, local, outbox)
        BY <2>2
    <2>4. \/ op'[c] = Outcome(op[c], "queued") /\ pc'[c] = "done"
          \/ pc'[c] = "build"
          \/ pc'[c] = "acknowledge" /\ local \cap RecordsOf(op[c].accepted) # {}
          \/ pc'[c] = "acknowledge" /\ Includes(c, local, op[c].accepted)
        BY <2>3 DEF Decide, TypeOK
    <2>5. CASE pc'[c] = "acknowledge"
        <3>1. op[c].accepted # Absent
            BY <2>4, <2>5 DEF Includes, RecordsOf
        <3> QED
            BY <2>1, <2>5, <3>1 DEF SuccessInv
    <2> QED
        BY <1>0, <1>1, <2>4, <2>5
<1>11. CASE Build(c)
    <2>1. pc'[c] \in {"check", "mark"} \/ (op'[c] = Outcome(op[c], "conflict") /\ pc'[c] = "done")
        BY <1>11 DEF Build, TypeOK
    <2> QED
        BY <1>0, <1>1, <2>1
<1>12. CASE Check(c)
    <2>1. \/ pc'[c] \in {"lookup", "send"}
          \/ \E status \in {"unsupported", "conflict"} :
                 op'[c] = Outcome(op[c], status) /\ pc'[c] = "done"
        BY <1>12 DEF Check, TypeOK
    <2> QED
        BY <1>0, <1>1, <2>1
<1>13. CASE Verify(c)
    <2>1. pc[c] = "verify" /\ UNCHANGED transport
        BY <1>13 DEF Verify, storeVars
    <2>2. transport[c].commit # Absent
        BY <2>1 DEF AcceptanceInv, Working, RootInv
    <2> QED
        BY <2>1, <2>2 DEF SuccessInv
<1>14. CASE Acknowledge(c)
    BY <1>14 DEF Acknowledge, SuccessInv
<1> QED
    BY <1>2, <1>3, <1>4, <1>5, <1>6, <1>7, <1>8, <1>9, <1>10, <1>11, <1>12, <1>13,
       <1>14 DEF Proceed

\* What the types rest on is kept by every step.
LEMMA SyncKept ==
    ASSUME AcceptanceInvariant, AllRootInv, [CNext]_cvars
    PROVE  /\ AcceptanceInvariant' /\ AllRootInv'
           /\ \A c \in Clone : Retains(transport[c].commit, transport'[c].commit)
<1>1. CASE [Next]_vars
    BY <1>1, TypeStep, AllAcceptanceStep, AllRootStep, AcceptedRetained DEF AcceptanceInvariant
<1>2. ASSUME NEW c \in Clone, Drift(c)
      PROVE  /\ AcceptanceInvariant' /\ AllRootInv'
             /\ \A d \in Clone : Retains(transport[d].commit, transport'[d].commit)
    <2>1. UNCHANGED << remoteVars, storeVars, pc, op, creations, tampers >> /\ faults' = faults + 1
        BY <1>2 DEF Drift
    <2>2. TypeOK'
        BY <2>1 DEF AcceptanceInvariant, TypeOK, remoteVars, storeVars
    <2>3. AllAcceptanceInv'
        BY <2>1 DEF AcceptanceInvariant, AllAcceptanceInv, AcceptanceInv, storeVars
    <2>4. AllRootInv'
        BY <2>1 DEF AllRootInv, RootInv, storeVars
    <2>5. \A d \in Clone : transport[d].commit \in History
        BY DEF AcceptanceInvariant, TypeOK, Transport
    <2> QED
        BY <2>1, <2>2, <2>3, <2>4, <2>5, RetainsPreorder DEF AcceptanceInvariant, storeVars
<1> QED
    BY <1>1, <1>2, StepOfSync

LEMMA DeclaredStep ==
    ASSUME DeclaredInv, [CNext]_cvars
    PROVE  DeclaredInv'
<1>1. /\ AcceptanceInvariant' /\ AllRootInv' /\ TypeOK /\ TypeOK'
      /\ \A c \in Clone : AcceptanceInv(c) /\ RootInv(c)
      /\ \A c \in Clone : Retains(transport[c].commit, transport'[c].commit)
    BY SyncKept DEF DeclaredInv, AcceptanceInvariant, AllAcceptanceInv, AllRootInv
<1>2. ASSUME NEW d \in Clone PROVE PolicyInv(d)' /\ SuccessInv(d)'
    <2>1. PolicyInv(d) /\ SuccessInv(d)
        BY DEF DeclaredInv
    <2>2. ASSUME UNCHANGED << transport, pc, op >> PROVE PolicyInv(d)' /\ SuccessInv(d)'
        BY <2>1, <2>2 DEF PolicyInv, SuccessInv
    <2>3. ASSUME NEW c \in Clone, Note(c) \/ Synchronize(c) \/ Conclude(c) \/ Transact(c) \/ Interrupt(c)
          PROVE  PolicyInv(d)' /\ SuccessInv(d)'
        <3>1. Start(c) \/ Proceed(c) \/ Fail(c)
            BY <2>3 DEF Note, Synchronize, Conclude, Transact, Interrupt, Start, Proceed
        <3>2. CASE d = c
            BY <1>1, <2>1, <3>1, <3>2, PolicyStep, SuccessStep
        <3>3. CASE d # c
            <4>1. transport'[d] = transport[d] /\ pc'[d] = pc[d] /\ op'[d] = op[d]
                BY <1>1, <3>1, <3>3, OthersKeep
            <4> QED
                BY <2>1, <4>1 DEF PolicyInv, SuccessInv
        <3> QED
            BY <3>2, <3>3
    <2>4. ASSUME NEW c \in Clone, Declare(c) \/ Clear(c) \/ Drift(c) \/ PlanRepair(c) \/ CheckRepair(c) \/ WriteRepair(c)
          PROVE  PolicyInv(d)' /\ SuccessInv(d)'
        BY <2>2, <2>4 DEF Declare, Clear, Drift, PlanRepair, CheckRepair, WriteRepair, vars, storeVars
    <2>5. CASE Remote
        BY <2>2, <2>5 DEF Remote, Deliver, Lose, storeVars
    <2>6. CASE UNCHANGED cvars
        BY <2>2, <2>6 DEF cvars, vars, storeVars
    <2> QED
        BY <2>3, <2>4, <2>5, <2>6 DEF CNext
<1>3. NotesTyped /\ NotesTyped'
    BY <1>1, NotesTypedStep DEF DeclaredInv
<1>4. ASSUME NEW d \in Clone, stage'[d] # "none" PROVE transport'[d].commit # Absent
    <2>1. transport[d].commit # Absent => transport'[d].commit # Absent
        <3>1. transport[d].commit \in History /\ transport'[d].commit \in History
            BY <1>1 DEF TypeOK, Transport
        <3>2. Len(transport[d].commit) <= Len(transport'[d].commit)
            BY <1>1 DEF Retains, Ancestor
        <3> QED
            BY <3>1, <3>2, HistoryType
    <2>2. CASE stage[d] # "none"
        BY <2>1, <2>2 DEF DeclaredInv
    <2>3. CASE stage[d] = "none"
        <3>1. Conclude(d)
            <4>1. PICK c \in Clone : Conclude(c) \/ Declare(c) \/ Clear(c) \/ Drift(c)
                BY <1>4, <2>3 DEF CNext, Note, Synchronize, Transact, Interrupt, PlanRepair,
                   CheckRepair, WriteRepair, Remote, cvars, configVars, noteVars
            <4> QED
                BY <1>3, <1>4, <2>3, <4>1 DEF Conclude, Declare, Clear, Drift, NotesTyped
        <3>2. pc[d] = "done" /\ op[d].status \in {"synced", "unchanged"}
            BY <1>3, <1>4, <3>1 DEF Conclude, Return, Goto, NotesTyped
        <3> QED
            BY <2>1, <3>2 DEF DeclaredInv, SuccessInv
    <2> QED
        BY <2>2, <2>3
<1>5. ASSUME UNCHANGED checkoutVars PROVE DeclaredInv'
    BY <1>1, <1>2, <1>5, <1>3, <1>4 DEF DeclaredInv, checkoutVars
<1>6. ASSUME NEW c \in Clone, Declare(c) PROVE DeclaredInv'
    <2>1. MetaOf(transport[c].commit) \in Meta
        BY <1>6 DEF Declare, DeclaredInv, PolicyInv
    <2> QED
        BY <1>1, <1>2, <1>6, <1>3, <1>4, <2>1 DEF Declare, DeclaredInv
<1>7. ASSUME NEW c \in Clone, PlanRepair(c) PROVE DeclaredInv'
    <2>1. PICK p : p = AcceptedPolicy(c)
        OBVIOUS
    <2>2. p \in Meta
        BY <2>1 DEF AcceptedPolicy, DeclaredInv, PolicyInv
    <2>3. /\ repair' = [repair EXCEPT ![c] = [policy |-> p, before |-> declared[c], checked |-> FALSE]]
          /\ UNCHANGED declared
        BY <1>7, <2>1 DEF PlanRepair
    <2>4. [policy |-> p, before |-> declared[c], checked |-> FALSE] \in Repair
        BY <2>2 DEF DeclaredInv, Repair
    <2> QED
        BY <1>1, <1>2, <1>3, <1>4, <2>2, <2>3, <2>4 DEF DeclaredInv
<1>8. NoRepair \in Repair
    BY DEF NoRepair, Repair
<1>9. ASSUME NEW c \in Clone, CheckRepair(c) PROVE DeclaredInv'
    <2>1. UNCHANGED declared /\ repair[c] # NoRepair /\ repair[c].policy \in Meta /\ repair[c] \in Repair
        BY <1>9 DEF CheckRepair, DeclaredInv
    <2>2. PICK n : /\ repair' = [repair EXCEPT ![c] = n]
                   /\ n = NoRepair \/ n = [repair[c] EXCEPT !.checked = TRUE]
        BY <1>9 DEF CheckRepair, DeclaredInv
    <2>3. n \in Repair /\ (n # NoRepair => n.policy \in Meta)
        BY <1>8, <2>1, <2>2 DEF Repair
    <2> QED
        BY <1>1, <1>2, <1>3, <1>4, <2>1, <2>2, <2>3 DEF DeclaredInv
<1>10. ASSUME NEW c \in Clone, WriteRepair(c) PROVE DeclaredInv'
    <2>1. repair[c].policy \in Meta
        BY <1>10 DEF WriteRepair, DeclaredInv, NoRepair
    <2> QED
        BY <1>1, <1>2, <1>8, <1>10, <1>3, <1>4, <2>1 DEF WriteRepair, DeclaredInv
<1>11. ASSUME NEW c \in Clone,
             \/ Note(c) \/ Conclude(c) \/ Clear(c) \/ Drift(c)
             \/ Synchronize(c) \/ Transact(c) \/ Interrupt(c)
      PROVE  DeclaredInv'
    BY <1>5, <1>11 DEF Note, Conclude, Clear, Drift, Synchronize, Transact, Interrupt, configVars
<1>12. CASE Remote \/ UNCHANGED cvars
    BY <1>5, <1>12 DEF Remote, cvars, configVars
<1> QED
    BY <1>6, <1>7, <1>9, <1>10, <1>11, <1>12 DEF CNext

\* The notes and the declarations are well typed: no setup or configuration writes
\* a policy into a checkout that does not validate.
THEOREM ConfigureTypeCorrect == CSpec => []ConfigureTypeOK
<1>1. CInit => DeclaredInv
    <2> SUFFICES ASSUME CInit PROVE DeclaredInv
        OBVIOUS
    <2>1. NoRepair \in Repair
        BY DEF NoRepair, Repair
    <2>2. AcceptanceInvariant /\ AllRootInv
        BY InitTypeOK, AcceptanceInit, RootInit DEF CInit, AcceptanceInvariant
    <2>3. NotesTyped
        BY DEF CInit, NotesTyped
    <2>4. \A c \in Clone : PolicyInv(c) /\ SuccessInv(c)
        BY DEF CInit, Init, PolicyInv, SuccessInv, NeverSeen
    <2> QED
        BY <2>1, <2>2, <2>3, <2>4, ConstantsAssumption DEF CInit, DeclaredInv
<1>2. DeclaredInv /\ [CNext]_cvars => DeclaredInv'
    BY DeclaredStep
<1>3. DeclaredInv => ConfigureTypeOK
    BY DEF NotesTyped, DeclaredInv, Repair, ConfigureTypeOK
<1> QED
    BY <1>1, <1>2, <1>3, PTL DEF CSpec

=============================================================================
