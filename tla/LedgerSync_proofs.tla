--------------------------- MODULE LedgerSync_proofs ---------------------------
(***************************************************************************)
(* Proofs about LedgerSync for any number of clones, records, retries,     *)
(* faults and external changes of the ref: what a clone accepts and        *)
(* acknowledges, and what the clones do to the ref they share.  They seed  *)
(* it once, they never drop a record from it, they replace its metadata    *)
(* only as users asked, and each step is a publication, an acknowledgement *)
(* or a stutter of PublicLedger.                                           *)
(***************************************************************************)
EXTENDS LedgerSync, CommitHistory_proofs

\* A clone's operation is replaced by a well typed one and moves on.
LEMMA OperationType ==
    ASSUME NEW kind \in Kind, NEW initialize \in BOOLEAN,
           NEW edit \in Meta \X Meta, NEW imported \in SUBSET Record
    PROVE  NewOperation(kind, initialize, edit, imported) \in Operation
BY AbsentType, ConstantsAssumption DEF NewOperation, Operation, Status

LEMMA NoOperationType == NoOperation \in Operation
BY OperationType, ConstantsAssumption DEF NoOperation, NoEdit, Kind

LEMMA OutcomeType ==
    ASSUME NEW o \in Operation, NEW status \in Status
    PROVE  Outcome(o, status) \in Operation
<1>1. 0 \in 0 .. MaxRetries /\ Absent \in History
    BY AbsentType, ConstantsAssumption
<1> QED
    BY <1>1 DEF Outcome, Operation

\* The states the program starts from are well typed.
LEMMA InitTypeOK == Init => TypeOK
<1> SUFFICES ASSUME Init PROVE TypeOK
    OBVIOUS
<1>1. tip \in History
    BY AbsentType, ExtendFacts, ConstantsAssumption DEF Init
<1>2. NeverSeen \in Transport
    BY AbsentType DEF NeverSeen, Transport
<1> QED
    BY <1>1, <1>2, NoOperationType DEF Init, TypeOK, Location

\* Steps of an operation keep the types of its location and its state.
LEMMA StepTypes ==
    ASSUME TypeOK, NEW c \in Clone, NEW from
    PROVE  /\ \A to \in Location : Goto(c, from, to) => pc' \in [Clone -> Location]
           /\ \A status \in Status :
                Finish(c, from, status) =>
                    pc' \in [Clone -> Location] /\ op' \in [Clone -> Operation]
<1>1. \A to \in Location : Goto(c, from, to) => pc' \in [Clone -> Location]
    BY DEF Goto, TypeOK
<1>2. "done" \in Location
    BY DEF Location
<1>3. ASSUME NEW status \in Status, Finish(c, from, status)
      PROVE  pc' \in [Clone -> Location] /\ op' \in [Clone -> Operation]
    <2>1. pc' \in [Clone -> Location]
        BY <1>1, <1>2, <1>3 DEF Finish
    <2>2. Outcome(op[c], status) \in Operation
        BY OutcomeType DEF TypeOK
    <2> QED
        BY <1>3, <2>1, <2>2 DEF Finish, TypeOK
<1> QED
    BY <1>1, <1>3

\* Assigning well typed fields of a clone's operation keeps the type of op.
LEMMA FieldTypes ==
    ASSUME TypeOK, NEW c \in Clone
    PROVE  /\ \A h \in History :
                /\ [op EXCEPT ![c].fetched = h] \in [Clone -> Operation]
                /\ [op EXCEPT ![c].accepted = h] \in [Clone -> Operation]
                /\ \A g \in History :
                     [op EXCEPT ![c].accepted = h, ![c].fetched = g]
                        \in [Clone -> Operation]
                /\ \A b \in BOOLEAN :
                     [op EXCEPT ![c].candidate = h, ![c].attempted = b]
                        \in [Clone -> Operation]
           /\ \A local \in SUBSET Record, status \in Status :
                [op EXCEPT ![c].local = local, ![c].status = status]
                    \in [Clone -> Operation]
           /\ \A status \in Status :
                [op EXCEPT ![c].status = status] \in [Clone -> Operation]
           /\ op[c].attempt < MaxRetries =>
                [op EXCEPT ![c].attempt = @ + 1] \in [Clone -> Operation]
<1>1. op \in [Clone -> Operation] /\ op[c] \in Operation
    BY DEF TypeOK
<1>2. ASSUME NEW h \in History
      PROVE  /\ [op EXCEPT ![c].fetched = h] \in [Clone -> Operation]
             /\ [op EXCEPT ![c].accepted = h] \in [Clone -> Operation]
    BY <1>1 DEF Operation
<1>3. ASSUME NEW h \in History, NEW g \in History
      PROVE  [op EXCEPT ![c].accepted = h, ![c].fetched = g] \in [Clone -> Operation]
    BY <1>1 DEF Operation
<1>4. ASSUME NEW h \in History, NEW b \in BOOLEAN
      PROVE  [op EXCEPT ![c].candidate = h, ![c].attempted = b]
                \in [Clone -> Operation]
    BY <1>1 DEF Operation
<1>5. ASSUME NEW local \in SUBSET Record, NEW status \in Status
      PROVE  [op EXCEPT ![c].local = local, ![c].status = status]
                \in [Clone -> Operation]
    BY <1>1 DEF Operation
<1>6. ASSUME NEW status \in Status
      PROVE  [op EXCEPT ![c].status = status] \in [Clone -> Operation]
    BY <1>1 DEF Operation
<1>7. ASSUME op[c].attempt < MaxRetries
      PROVE  [op EXCEPT ![c].attempt = @ + 1] \in [Clone -> Operation]
    BY <1>1, <1>7, ConstantsAssumption DEF Operation
<1> QED
    BY <1>2, <1>3, <1>4, <1>5, <1>6, <1>7

\* Records and metadata an operation reads or builds with are well typed.
LEMMA ReadTypes ==
    ASSUME TypeOK, NEW c \in Clone
    PROVE  /\ RecordsOf(op[c].accepted) \subseteq Record
           /\ MetaOf(op[c].accepted) \in Meta \cup {Foreign, Malformed}
           /\ op[c].local \subseteq Record
           /\ op[c].imported \subseteq Record
           /\ op[c].target \in Meta
           /\ op[c].fetched \in History
           /\ op[c].accepted \in History
           /\ op[c].candidate \in History
           /\ BootMeta[c] \in Meta
           /\ Local[c] \subseteq Record
<1>1. op[c] \in Operation
    BY DEF TypeOK
<1>2. op[c].accepted \in History
    BY <1>1 DEF Operation
<1>3. RecordsOf(op[c].accepted) \subseteq Record
      /\ MetaOf(op[c].accepted) \in Meta \cup {Foreign, Malformed}
    BY <1>2, HistoryType
<1> QED
    BY <1>1, <1>3, ConstantsAssumption DEF Operation

-----------------------------------------------------------------------------
(* Type correctness *)

\* Starting, collecting and returning.
LEMMA StartTypes ==
    ASSUME TypeOK, NEW c \in Clone, Start(c)
    PROVE  TypeOK'
<1> USE DEF remoteVars, storeVars, countVars
<1>1. ASSUME NEW kind \in Kind, NEW initialize \in BOOLEAN,
             NEW edit \in Meta \X Meta, NEW imported \in SUBSET Record,
             Begin(c, NewOperation(kind, initialize, edit, imported))
      PROVE  TypeOK'
    <2>1. NewOperation(kind, initialize, edit, imported) \in Operation
        BY OperationType
    <2>2. op' \in [Clone -> Operation]
        BY <1>1, <2>1 DEF Begin, TypeOK
    <2>3. pc' \in [Clone -> Location]
        BY <1>1, StepTypes DEF Begin, Location
    <2> QED
        BY <1>1, <2>2, <2>3 DEF Begin, TypeOK
<1>2. NoEdit \in Meta \X Meta /\ {} \in SUBSET Record /\ FALSE \in BOOLEAN
      /\ "automatic" \in Kind /\ "configure" \in Kind
    BY ConstantsAssumption DEF NoEdit, Kind
<1>3. CASE \E initialize \in BOOLEAN : StartManual(c, initialize)
    BY <1>1, <1>2, <1>3 DEF StartManual, Kind
<1>4. CASE StartAutomatic(c)
    <2>1. Begin(c, NewOperation("automatic", FALSE, NoEdit, {}))
        BY <1>4 DEF StartAutomatic
    <2> QED
        BY <1>1, <1>2, <2>1
<1>5. CASE StartConfigure(c)
    <2>1. PICK edit \in Edits : Begin(c, NewOperation("configure", FALSE, edit, {}))
        BY <1>5 DEF StartConfigure
    <2>2. edit \in Meta \X Meta
        BY ConstantsAssumption
    <2> QED
        BY <1>1, <1>2, <2>1, <2>2
<1>6. CASE StartImport(c)
    BY <1>1, <1>2, <1>6, ConstantsAssumption DEF StartImport, Kind
<1> QED
    BY <1>3, <1>4, <1>5, <1>6 DEF Start

\* accept(): from the unchanged summary to the recorded commit.
LEMMA AcceptTypes ==
    ASSUME TypeOK, NEW c \in Clone,
           Summarize(c) \/ Open(c) \/ SeeRef(c) \/ MissRef(c) \/ Fetch(c)
               \/ Confirm(c) \/ Accept(c)
    PROVE  TypeOK'
<1> USE DEF remoteVars, storeVars, countVars
<1>1. CASE Summarize(c)
    <2>1. pc' \in [Clone -> Location] /\ op' \in [Clone -> Operation]
        BY <1>1, StepTypes DEF Summarize, Status
    <2> QED
        BY <1>1, <2>1 DEF Summarize, TypeOK
<1>2. CASE Open(c)
    <2>1. pc' \in [Clone -> Location]
        BY <1>2, StepTypes DEF Open, Location
    <2> QED
        BY <1>2, <2>1 DEF Open, TypeOK
<1>3. CASE SeeRef(c)
    <2>1. pc' \in [Clone -> Location]
        BY <1>3, StepTypes DEF SeeRef, Location
    <2>2. transport' \in [Clone -> Transport]
        BY <1>3 DEF SeeRef, TypeOK, Transport
    <2> QED
        BY <1>3, <2>1, <2>2 DEF SeeRef, TypeOK
<1>4. CASE MissRef(c)
    <2>1. "conflict" \in Status /\ "select" \in Location
        BY DEF Status, Location
    <2>2. [op EXCEPT ![c].accepted = Absent] \in [Clone -> Operation]
        BY FieldTypes, AbsentType
    <2>3. pc' \in [Clone -> Location] /\ op' \in [Clone -> Operation]
        BY <1>4, <2>1, <2>2, StepTypes DEF MissRef
    <2> QED
        BY <1>4, <2>3 DEF MissRef, TypeOK
<1>5. CASE Fetch(c)
    <2>1. pc' \in [Clone -> Location] /\ op' \in [Clone -> Operation]
        <3>1. CASE Valid(tip)
            <4>1. pc' \in [Clone -> Location]
                BY <1>5, <3>1, StepTypes DEF Fetch, Location
            <4>2. tip \in History
                BY DEF TypeOK
            <4>3. [op EXCEPT ![c].fetched = tip] \in [Clone -> Operation]
                BY <4>2, FieldTypes
            <4>4. op' \in [Clone -> Operation]
                BY <1>5, <3>1, <4>3 DEF Fetch
            <4> QED
                BY <4>1, <4>4
        <3>2. CASE ~Valid(tip)
            <4>1. PICK status \in Status : Finish(c, "fetch", status)
                BY <1>5, <3>2 DEF Fetch, Status
            <4> QED
                BY <4>1, StepTypes
        <3> QED
            BY <3>1, <3>2
    <2> QED
        BY <1>5, <2>1 DEF Fetch, TypeOK
<1>6. CASE Confirm(c)
    <2>1. "record" \in Location /\ {"conflict", "queued"} \subseteq Status
        BY DEF Location, Status
    <2>2. pc' \in [Clone -> Location] /\ op' \in [Clone -> Operation]
        BY <1>6, <2>1, StepTypes DEF Confirm, TypeOK
    <2>3. anchors' \in [Clone -> SUBSET History]
        BY <1>6, ReadTypes DEF Confirm, AnchorsWith, TypeOK
    <2> QED
        BY <1>6, <2>2, <2>3 DEF Confirm, TypeOK
<1>7. CASE Accept(c)
    <2>1. pc' \in [Clone -> Location]
        BY <1>7, StepTypes DEF Accept, Location
    <2>2. op' \in [Clone -> Operation]
        BY <1>7, ReadTypes, FieldTypes, AbsentType DEF Accept
    <2>3. transport' \in [Clone -> Transport]
        BY <1>7, ReadTypes DEF Accept, TypeOK, Transport
    <2> QED
        BY <1>7, <2>1, <2>2, <2>3 DEF Accept, TypeOK
<1> QED
    BY <1>1, <1>2, <1>3, <1>4, <1>5, <1>6, <1>7

\* Selecting what an operation publishes.
LEMMA SelectTypes ==
    ASSUME TypeOK, NEW c \in Clone, Refuse(c) \/ Select(c)
    PROVE  TypeOK'
<1> USE DEF remoteVars, storeVars, countVars
<1>1. CASE Refuse(c)
    <2>1. pc' \in [Clone -> Location] /\ op' \in [Clone -> Operation]
        BY <1>1, StepTypes DEF Refuse, Status
    <2> QED
        BY <1>1, <2>1 DEF Refuse, TypeOK
<1>2. CASE Select(c)
    <2>1. PICK found \in SUBSET (Local[c] \ journaled[c]) :
            journaled' = [journaled EXCEPT ![c] = @ \cup found]
        BY <1>2 DEF Select
    <2>2. journaled' \in [Clone -> SUBSET Record] /\ journaled'[c] \subseteq Record
        BY <2>1, ReadTypes DEF TypeOK
    <2> DEFINE outbox == journaled'[c] \ acked[c]
    <2>3. PICK local \in Selections(c, outbox) : Decide(c, local, outbox)
        BY <1>2 DEF Select
    <2>4. local \in SUBSET Record
        BY <2>2, <2>3 DEF Selections, Batches
    <2> DEFINE present == local \cap RecordsOf(op[c].accepted)
    <2>5. present \in SUBSET Record
        BY <2>4
    <2>6. {"acknowledge", "build"} \subseteq Location /\ {"queued", "unchanged"} \subseteq Status
        BY DEF Location, Status
    <2>7. /\ [op EXCEPT ![c].local = present, ![c].status = "unchanged"]
                \in [Clone -> Operation]
          /\ [op EXCEPT ![c].local = local, ![c].status = "unchanged"]
                \in [Clone -> Operation]
        BY <2>4, <2>5, <2>6, FieldTypes
    <2> HIDE DEF outbox
    <2>8. pc' \in [Clone -> Location] /\ op' \in [Clone -> Operation]
        <3>1. CASE Bounded(c) /\ local = {} /\ outbox # {}
            <4>1. Finish(c, "select", "queued")
                BY <2>3, <3>1 DEF Decide
            <4> QED
                BY <2>6, <4>1, StepTypes
        <3>2. CASE Bounded(c) /\ present # {}
            <4>1. /\ Goto(c, "select", "acknowledge")
                  /\ op' = [op EXCEPT ![c].local = present, ![c].status = "unchanged"]
                BY <2>3, <3>2 DEF Decide
            <4> QED
                BY <2>6, <2>7, <4>1, StepTypes
        <3>3. CASE ~(Bounded(c) /\ (present # {} \/ (local = {} /\ outbox # {})))
            <4>1. PICK to \in {"acknowledge", "build"} : Goto(c, "select", to)
                BY <2>3, <3>3 DEF Decide
            <4>2. op' = [op EXCEPT ![c].local = local, ![c].status = "unchanged"]
                BY <2>3, <3>3 DEF Decide
            <4> QED
                BY <2>6, <2>7, <4>1, <4>2, StepTypes
        <3> QED
            BY <3>1, <3>2, <3>3
    <2> QED
        BY <1>2, <2>2, <2>8 DEF Select, TypeOK
<1> QED
    BY <1>1, <1>2

\* The commit an attempt builds is well typed.
LEMMA BuildType ==
    ASSUME TypeOK, NEW c \in Clone, Build(c), ~StaleEdit(c)
    PROVE  \E R \in SUBSET Record, m \in Meta \cup {Foreign, Malformed} :
             /\ R = RecordsOf(op[c].accepted) \cup op[c].local \cup op[c].imported
             /\ m = IF op[c].kind = "configure" THEN op[c].target
                    ELSE IF op[c].accepted = Absent THEN BootMeta[c]
                    ELSE MetaOf(op[c].accepted)
             /\ op' = [op EXCEPT ![c].candidate = Extend(op[c].accepted, R, m),
                                 ![c].attempted = op[c].kind = "configure"]
<1> DEFINE R == RecordsOf(op[c].accepted) \cup op[c].local \cup op[c].imported
           m == IF op[c].kind = "configure" THEN op[c].target
                ELSE IF op[c].accepted = Absent THEN BootMeta[c]
                ELSE MetaOf(op[c].accepted)
<1>1. R \in SUBSET Record
    BY ReadTypes
<1>2. m \in Meta \cup {Foreign, Malformed}
    BY ReadTypes
<1>3. op' = [op EXCEPT ![c].candidate = Extend(op[c].accepted, R, m),
                       ![c].attempted = op[c].kind = "configure"]
    BY DEF Build, RecordsFor, MetaFor
<1> HIDE DEF R, m
<1> QED
    BY <1>1, <1>2, <1>3 DEF R, m

\* Building, sending and confirming a commit.
LEMMA PublishTypes ==
    ASSUME TypeOK, NEW c \in Clone,
           Build(c) \/ Mark(c) \/ Check(c) \/ Send(c) \/ Answer(c) \/ Verify(c)
               \/ Acknowledge(c) \/ Return(c)
    PROVE  TypeOK'
<1> USE DEF remoteVars, storeVars, countVars
<1>0. {"lookup", "build", "mark", "check", "send", "await", "acknowledge", "done", "idle"} \subseteq Location
      /\ {"synced", "unchanged", "queued", "conflict", "unsupported"} \subseteq Status
    BY DEF Location, Status
<1>1. CASE Build(c)
    <2>1. pc' \in [Clone -> Location] /\ op' \in [Clone -> Operation]
        <3>1. CASE StaleEdit(c)
            BY <1>0, <1>1, <3>1, StepTypes DEF Build
        <3>2. CASE ~StaleEdit(c)
            <4>1. pc' \in [Clone -> Location]
                BY <1>0, <1>1, <3>2, StepTypes DEF Build
            <4>2. PICK R \in SUBSET Record, m \in Meta \cup {Foreign, Malformed} :
                    op' = [op EXCEPT ![c].candidate = Extend(op[c].accepted, R, m),
                                     ![c].attempted = op[c].kind = "configure"]
                BY <1>1, <3>2, BuildType, SMTT(30)
            <4>3. Extend(op[c].accepted, R, m) \in History
                BY ReadTypes, ExtendFacts
            <4>4. (op[c].kind = "configure") \in BOOLEAN
                OBVIOUS
            <4>5. [op EXCEPT ![c].candidate = Extend(op[c].accepted, R, m),
                             ![c].attempted = op[c].kind = "configure"]
                    \in [Clone -> Operation]
                BY <4>3, <4>4, FieldTypes
            <4> QED
                BY <4>1, <4>2, <4>5
        <3> QED
            BY <3>1, <3>2
    <2> QED
        BY <1>1, <2>1 DEF Build, TypeOK
<1>2. CASE Mark(c)
    <2>1. pc' \in [Clone -> Location]
        BY <1>0, <1>2, StepTypes DEF Mark
    <2>2. transport' \in [Clone -> Transport]
        BY <1>2 DEF Mark, TypeOK, Transport
    <2> QED
        BY <1>2, <2>1, <2>2 DEF Mark, TypeOK
<1>3. CASE Check(c)
    <2>1. \/ \E status \in {"conflict", "unsupported"} : Finish(c, "check", status)
          \/ \E to \in {"lookup", "send"} : Goto(c, "check", to) /\ UNCHANGED op
        BY <1>3 DEF Check
    <2>2. pc' \in [Clone -> Location] /\ op' \in [Clone -> Operation]
        BY <1>0, <2>1, StepTypes DEF TypeOK
    <2> QED
        BY <1>3, <2>2 DEF Check, TypeOK
<1>4. CASE Send(c)
    <2>1. pc' \in [Clone -> Location]
        BY <1>0, <1>4, StepTypes DEF Send
    <2>2. [from |-> c, old |-> op[c].accepted, new |-> op[c].candidate] \in Request
        BY ReadTypes DEF Request
    <2>3. inflight' \subseteq Request
        BY <1>4, <2>2 DEF Send, TypeOK
    <2>4. creations' \in [Clone -> Nat]
        BY <1>4 DEF Send, TypeOK
    <2> QED
        BY <1>4, <2>1, <2>3, <2>4 DEF Send, TypeOK
<1>5. CASE Answer(c)
    <2>1. pc' \in [Clone -> Location]
        BY <1>0, <1>5, StepTypes DEF Answer
    <2> QED
        BY <1>5, <2>1 DEF Answer, TypeOK
<1>6. CASE Verify(c)
    <2>1. \/ \E status \in {"conflict", "queued"} : Finish(c, "verify", status)
          \/ /\ \E to \in {"build", "acknowledge"} : Goto(c, "verify", to)
             /\ \/ op' = [op EXCEPT ![c].status = "synced"]
                \/ op[c].attempt < MaxRetries /\ op' = [op EXCEPT ![c].attempt = @ + 1]
        BY <1>6 DEF Verify, RetriesLeft
    <2>2. pc' \in [Clone -> Location]
        BY <1>0, <2>1, StepTypes
    <2>4. [op EXCEPT ![c].status = "synced"] \in [Clone -> Operation]
        BY <1>0, FieldTypes
    <2>5. op[c].attempt < MaxRetries =>
             [op EXCEPT ![c].attempt = @ + 1] \in [Clone -> Operation]
        BY FieldTypes
    <2>3. op' \in [Clone -> Operation]
        BY <1>0, <2>1, <2>4, <2>5, StepTypes
    <2> QED
        BY <1>6, <2>2, <2>3 DEF Verify, TypeOK
<1>7. CASE Acknowledge(c)
    <2>1. op[c].status \in Status
        BY DEF TypeOK, Operation
    <2>2. \E status \in Status : Finish(c, "acknowledge", status)
        BY <1>0, <1>7, <2>1 DEF Acknowledge
    <2>3. pc' \in [Clone -> Location] /\ op' \in [Clone -> Operation]
        BY <2>2, StepTypes
    <2>4. acked' \in [Clone -> SUBSET Record]
        BY <1>7, ReadTypes DEF Acknowledge, Confirmed, TypeOK
    <2> QED
        BY <1>7, <2>3, <2>4 DEF Acknowledge, TypeOK
<1>8. CASE Return(c)
    <2>1. pc' \in [Clone -> Location]
        BY <1>0, <1>8, StepTypes DEF Return
    <2>2. op' \in [Clone -> Operation]
        BY <1>8, NoOperationType DEF Return, TypeOK
    <2> QED
        BY <1>8, <2>1, <2>2 DEF Return, TypeOK
<1> QED
    BY <1>1, <1>2, <1>3, <1>4, <1>5, <1>6, <1>7, <1>8

\* Collecting outside an operation, and failures of a clone.
LEMMA FailTypes ==
    ASSUME TypeOK, NEW c \in Clone, Capture(c) \/ Fail(c)
    PROVE  TypeOK'
<1> USE DEF remoteVars, storeVars, countVars
<1>0. "lookup" \in Location /\ "idle" \in Location /\ "queued" \in Status /\ pc[c] \in Location
    BY DEF Location, Status, TypeOK
<1>1. CASE Capture(c)
    <2>1. journaled' \in [Clone -> SUBSET Record]
        BY <1>1, ReadTypes DEF Capture, TypeOK
    <2> QED
        BY <1>1, <2>1 DEF Capture, TypeOK
<1>2. CASE Expire(c)
    <2>1. pc' \in [Clone -> Location] /\ op' \in [Clone -> Operation]
        BY <1>0, <1>2, StepTypes DEF Expire
    <2> QED
        BY <1>2, <2>1, ConstantsAssumption DEF Expire, TypeOK
<1>3. CASE Disconnect(c)
    <2>1. pc' \in [Clone -> Location]
        BY <1>0, <1>3, StepTypes DEF Disconnect
    <2> QED
        BY <1>3, <2>1, ConstantsAssumption DEF Disconnect, TypeOK
<1>4. CASE Crash(c)
    <2>1. pc' \in [Clone -> Location]
        BY <1>0, <1>4, StepTypes DEF Crash
    <2>2. op' \in [Clone -> Operation]
        BY <1>4, NoOperationType DEF Crash, TypeOK
    <2> QED
        BY <1>4, <2>1, <2>2, ConstantsAssumption DEF Crash, TypeOK
<1> QED
    BY <1>1, <1>2, <1>3, <1>4 DEF Fail

\* What reaches the ref is a history.
LEMMA RemoteTypes ==
    ASSUME TypeOK,
           (\E request \in inflight : Deliver(request) \/ Lose(request)) \/ Tamper
    PROVE  TypeOK'
<1> USE DEF remoteVars, storeVars, countVars
<1>1. ASSUME NEW request \in inflight, Deliver(request)
      PROVE  TypeOK'
    <2>1. request \in Request
        BY DEF TypeOK
    <2>2. tip' \in History
        BY <1>1, <2>1 DEF Deliver, TypeOK, Request
    <2> QED
        BY <1>1, <2>2 DEF Deliver, TypeOK
<1>2. ASSUME NEW request \in inflight, Lose(request)
      PROVE  TypeOK'
    BY <1>2, ConstantsAssumption DEF Lose, TypeOK
<1>3. CASE Tamper
    <2>1. tip \in History
        BY DEF TypeOK
    <2>2. \A m \in {SeedMeta, Malformed} : Extend(tip, {}, m) \in History
        BY <2>1, ExtendFacts, ConstantsAssumption
    <2>3. Extend(Absent, {}, Foreign) \in History
        BY AbsentType, ExtendFacts
    <2>4. Tampered(tip) \subseteq History
        BY <2>1, <2>2, <2>3, AbsentType, PrefixType DEF Tampered
    <2>5. tip' \in History
        BY <1>3, <2>4 DEF Tamper
    <2> QED
        BY <1>3, <2>5, ConstantsAssumption DEF Tamper, TypeOK
<1> QED
    BY <1>1, <1>2, <1>3

\* Every step keeps the types.
LEMMA TypeStep == TypeOK /\ [Next]_vars => TypeOK'
<1> SUFFICES ASSUME TypeOK, [Next]_vars PROVE TypeOK'
    OBVIOUS
<1>1. ASSUME NEW c \in Clone, Start(c) PROVE TypeOK'
    BY <1>1, StartTypes
<1>2. ASSUME NEW c \in Clone, Proceed(c) PROVE TypeOK'
    BY <1>2, AcceptTypes, SelectTypes, PublishTypes DEF Proceed
<1>3. ASSUME NEW c \in Clone, Capture(c) \/ Fail(c) PROVE TypeOK'
    BY <1>3, FailTypes
<1>4. CASE (\E request \in inflight : Deliver(request) \/ Lose(request)) \/ Tamper
    BY <1>4, RemoteTypes
<1>5. CASE UNCHANGED vars
    BY <1>5 DEF vars, remoteVars, storeVars, countVars, TypeOK
<1> QED
    BY <1>1, <1>2, <1>3, <1>4, <1>5 DEF Next

\* Every variable keeps its type in every behaviour.
THEOREM TypeCorrect == Spec => []TypeOK
    BY InitTypeOK, TypeStep, PTL DEF Spec

-----------------------------------------------------------------------------
(* What a clone accepts and acknowledges *)

\* The locations from which an operation works on its accepted commit.
Working == {"select", "build", "mark", "check", "send", "await", "verify",
            "acknowledge"}

\* `accepted` is the commit of transport.json while it is worked on; what is
\* about to be recorded is anchored and retains it; what is about to be
\* acknowledged is in it.
AcceptanceInv(c) ==
    /\ acked[c] \subseteq RecordsOf(transport[c].commit)
    /\ transport[c].commit # Absent =>
         transport[c].seen /\ transport[c].commit \in anchors[c]
    /\ pc[c] \in Working => op[c].accepted = transport[c].commit
    /\ pc[c] = "record" =>
         op[c].fetched \in anchors[c] /\ Retains(transport[c].commit, op[c].fetched)
    /\ pc[c] = "acknowledge" => op[c].local \subseteq RecordsOf(transport[c].commit)

AllAcceptanceInv == \A c \in Clone : AcceptanceInv(c)

LEMMA AcceptanceInit == Init => AllAcceptanceInv
    BY DEF Init, AllAcceptanceInv, AcceptanceInv, NeverSeen, Absent, RecordsOf, Working

\* A step of one clone leaves alone what belongs to the others.
LEMMA OthersKeep ==
    ASSUME TypeOK, NEW c \in Clone, NEW d \in Clone, d # c,
           Capture(c) \/ Start(c) \/ Proceed(c) \/ Fail(c)
    PROVE  /\ transport'[d] = transport[d]
           /\ anchors'[d] = anchors[d]
           /\ journaled'[d] = journaled[d]
           /\ acked'[d] = acked[d]
           /\ pc'[d] = pc[d]
           /\ op'[d] = op[d]
           /\ creations'[d] = creations[d]
<1> USE DEF TypeOK, remoteVars, storeVars, countVars, Goto, Finish
<1>1. CASE Capture(c)
    BY <1>1 DEF Capture
<1>2. CASE Start(c)
    BY <1>2 DEF Start, StartManual, StartAutomatic, StartConfigure, StartImport, Begin
<1>3. CASE Fail(c)
    BY <1>3 DEF Fail, Expire, Disconnect, Crash
<1>4. CASE Summarize(c) \/ Open(c) \/ SeeRef(c) \/ MissRef(c) \/ Fetch(c)
    BY <1>4 DEF Summarize, Open, SeeRef, MissRef, Fetch
<1>5. CASE Confirm(c) \/ Accept(c) \/ Refuse(c) \/ Mark(c) \/ Return(c)
    BY <1>5 DEF Confirm, Accept, Refuse, Mark, Return
<1>6. CASE Select(c)
    BY <1>6 DEF Select, Decide
<1>7. CASE Build(c) \/ Check(c) \/ Send(c) \/ Answer(c)
    BY <1>7 DEF Build, Check, Send, Answer
<1>8. CASE Verify(c) \/ Acknowledge(c)
    BY <1>8 DEF Verify, Acknowledge
<1> QED
    BY <1>1, <1>2, <1>3, <1>4, <1>5, <1>6, <1>7, <1>8 DEF Proceed

\* A step that returns, starts or fails keeps nothing that could be wrong.
LEMMA IdleKeeps ==
    ASSUME TypeOK, NEW c \in Clone, AcceptanceInv(c),
           UNCHANGED << transport, anchors, acked >>,
           pc'[c] \notin Working \cup {"record"}
    PROVE  AcceptanceInv(c)'
    BY DEF AcceptanceInv, Working

\* The three ways a selection ends; what is acknowledged at once is there.
LEMMA SelectEnds ==
    ASSUME TypeOK, NEW c \in Clone, Select(c)
    PROVE  \/ pc'[c] = "done"
           \/ /\ pc'[c] \in {"build", "acknowledge"}
              /\ op'[c].accepted = op[c].accepted
              /\ op'[c].candidate = op[c].candidate
              /\ op'[c].kind = op[c].kind
              /\ op'[c].expected = op[c].expected
              /\ op'[c].target = op[c].target
              /\ pc'[c] = "acknowledge" =>
                    op'[c].local \subseteq RecordsOf(op[c].accepted)
<1> USE DEF Goto, Finish
<1>1. PICK outbox : \E local \in Selections(c, outbox) : Decide(c, local, outbox)
    BY DEF Select
<1>2. PICK local \in Selections(c, outbox) : Decide(c, local, outbox)
    BY <1>1
<1> DEFINE present == local \cap RecordsOf(op[c].accepted)
<1>3. CASE Bounded(c) /\ local = {} /\ outbox # {}
    BY <1>2, <1>3 DEF Decide, TypeOK
<1>4. CASE Bounded(c) /\ present # {}
    <2>1. /\ pc' = [pc EXCEPT ![c] = "acknowledge"]
          /\ op' = [op EXCEPT ![c].local = present, ![c].status = "unchanged"]
        BY <1>2, <1>4 DEF Decide
    <2> HIDE DEF present
    <2>2. pc'[c] = "acknowledge" /\ op'[c].local = present
          /\ op'[c].accepted = op[c].accepted /\ op'[c].candidate = op[c].candidate
          /\ op'[c].kind = op[c].kind /\ op'[c].expected = op[c].expected
          /\ op'[c].target = op[c].target
        BY <2>1 DEF TypeOK, Operation
    <2> QED
        BY <2>2 DEF present
<1>5. CASE ~(Bounded(c) /\ (present # {} \/ (local = {} /\ outbox # {})))
    <2>1. /\ pc' = [pc EXCEPT ![c] = IF Includes(c, local, op[c].accepted)
                                     THEN "acknowledge" ELSE "build"]
          /\ op' = [op EXCEPT ![c].local = local, ![c].status = "unchanged"]
        BY <1>2, <1>5 DEF Decide
    <2>2. op'[c].local = local
          /\ op'[c].accepted = op[c].accepted /\ op'[c].candidate = op[c].candidate
          /\ op'[c].kind = op[c].kind /\ op'[c].expected = op[c].expected
          /\ op'[c].target = op[c].target
        BY <2>1 DEF TypeOK, Operation
    <2>3. pc'[c] = IF Includes(c, local, op[c].accepted) THEN "acknowledge" ELSE "build"
        BY <2>1 DEF TypeOK
    <2> QED
        BY <2>2, <2>3 DEF Includes
<1> QED
    BY <1>3, <1>4, <1>5

LEMMA AcceptanceStep ==
    ASSUME TypeOK, NEW c \in Clone, AcceptanceInv(c),
           Capture(c) \/ Start(c) \/ Proceed(c) \/ Fail(c)
    PROVE  AcceptanceInv(c)'
<1> USE DEF storeVars, Goto, Finish
<1>0. {"idle", "open", "lookup", "fetch", "confirm", "done"} \cap
        (Working \cup {"record"}) = {}
    BY DEF Working
<1>1. CASE Capture(c)
    BY <1>1 DEF Capture, AcceptanceInv, Working
<1>2. CASE Start(c)
    <2>1. pc'[c] \in {"open", "lookup"} /\ UNCHANGED << transport, anchors, acked >>
        BY <1>2 DEF Start, StartManual, StartAutomatic, StartConfigure, StartImport,
                    Begin, TypeOK
    <2> QED
        BY <1>0, <2>1, IdleKeeps
<1>3. CASE Fail(c)
    <2>1. pc'[c] \in {"idle", "lookup", "done"} /\ UNCHANGED << transport, anchors, acked >>
        BY <1>3 DEF Fail, Expire, Disconnect, Crash, TypeOK
    <2> QED
        BY <1>0, <2>1, IdleKeeps
<1>4. CASE Summarize(c) \/ Open(c) \/ Fetch(c) \/ Refuse(c) \/ Return(c) \/ Answer(c)
    <2>1. /\ pc'[c] \in {"idle", "lookup", "confirm", "done"}
          /\ UNCHANGED << transport, anchors, acked >>
        BY <1>4 DEF Summarize, Open, Fetch, Refuse, Return, Answer, TypeOK
    <2> QED
        BY <1>0, <2>1, IdleKeeps
<1>5. CASE SeeRef(c)
    <2>1. pc'[c] = "fetch" /\ transport'[c].commit = transport[c].commit
          /\ transport'[c].seen /\ UNCHANGED << anchors, acked >>
        BY <1>5 DEF SeeRef, TypeOK, Transport
    <2> QED
        BY <1>0, <2>1 DEF AcceptanceInv
<1>6. CASE MissRef(c)
    <2>1. CASE EverSeen(c)
        BY <1>0, <1>6, <2>1, IdleKeeps DEF MissRef, TypeOK
    <2>2. CASE ~EverSeen(c)
        <3>1. pc'[c] = "select" /\ op'[c].accepted = Absent
            BY <1>6, <2>2 DEF MissRef, TypeOK, Operation
        <3>2. transport[c].commit = Absent
            BY <2>2 DEF EverSeen, AcceptanceInv
        <3> QED
            BY <1>6, <3>1, <3>2 DEF MissRef, AcceptanceInv, Working
    <2> QED
        BY <2>1, <2>2
<1>7. CASE Confirm(c)
    <2>1. CASE pc'[c] = "done"
        <3>1. UNCHANGED << transport, anchors, acked >>
            BY <1>7, <2>1 DEF Confirm, TypeOK
        <3> QED
            BY <1>0, <2>1, <3>1, IdleKeeps
    <2>2. CASE pc'[c] # "done"
        <3>1. /\ pc'[c] = "record" /\ UNCHANGED << transport, acked, op >>
              /\ Retains(transport[c].commit, op[c].fetched)
              /\ anchors'[c] = anchors[c] \cup {op[c].fetched}
            BY <1>7, <2>2 DEF Confirm, KeepsAccepted, AnchorsWith, TypeOK
        <3> QED
            BY <1>0, <3>1 DEF AcceptanceInv, Working
    <2> QED
        BY <2>1, <2>2
<1>8. CASE Accept(c)
    <2>1. /\ pc[c] = "record" /\ pc'[c] \in {"select", "verify"}
          /\ transport'[c] = [seen |-> TRUE, commit |-> op[c].fetched]
          /\ op'[c].accepted = op[c].fetched
          /\ UNCHANGED << anchors, acked >>
        BY <1>8 DEF Accept, TypeOK, Operation
    <2>2. RecordsOf(transport[c].commit) \subseteq RecordsOf(op[c].fetched)
        BY <2>1 DEF AcceptanceInv, Retains
    <2> QED
        BY <2>1, <2>2 DEF AcceptanceInv, Working
<1>9. CASE Select(c)
    <2>1. UNCHANGED << transport, anchors, acked >> /\ pc[c] = "select"
        BY <1>9 DEF Select, Decide
    <2> QED
        BY <1>0, <1>9, <2>1, SelectEnds DEF AcceptanceInv, Working
<1>10. CASE Build(c) \/ Check(c) \/ Send(c)
    <2>1. /\ UNCHANGED << transport, anchors, acked >>
          /\ pc[c] \in Working /\ pc'[c] \in {"done", "mark", "check", "send", "await", "lookup"}
          /\ pc'[c] # "done" => op'[c].accepted = op[c].accepted
        BY <1>10 DEF Build, Check, Send, TypeOK, Operation, Working
    <2> QED
        BY <1>0, <2>1 DEF AcceptanceInv, Working
<1>11. CASE Mark(c)
    <2>1. /\ pc[c] = "mark" /\ pc'[c] = "check" /\ UNCHANGED << anchors, acked, op >>
          /\ transport'[c].commit = transport[c].commit /\ transport'[c].seen
        BY <1>11 DEF Mark, TypeOK, Transport
    <2> QED
        BY <1>0, <2>1 DEF AcceptanceInv, Working
<1>12. CASE Verify(c)
    <2>1. /\ UNCHANGED << transport, anchors, acked >>
          /\ pc[c] = "verify" /\ pc'[c] \in {"done", "build", "acknowledge"}
          /\ pc'[c] # "done" => /\ op'[c].accepted = op[c].accepted
                                /\ op'[c].local = op[c].local
          /\ pc'[c] = "acknowledge" => op[c].local \subseteq RecordsOf(op[c].accepted)
        BY <1>12 DEF Verify, Includes, TypeOK, Operation
    <2> QED
        BY <1>0, <2>1 DEF AcceptanceInv, Working
<1>13. CASE Acknowledge(c)
    <2>1. /\ UNCHANGED << transport, anchors >> /\ pc[c] = "acknowledge"
          /\ pc'[c] = "done" /\ acked'[c] = acked[c] \cup op[c].local
        BY <1>13 DEF Acknowledge, Confirmed, TypeOK
    <2> QED
        BY <1>0, <2>1 DEF AcceptanceInv
<1> QED
    BY <1>1, <1>2, <1>3, <1>4, <1>5, <1>6, <1>7, <1>8, <1>9, <1>10, <1>11, <1>12,
       <1>13 DEF Proceed

\* The inductive invariant, with the types it relies on.
AcceptanceInvariant == TypeOK /\ AllAcceptanceInv

LEMMA AllAcceptanceStep ==
    AcceptanceInvariant /\ [Next]_vars => AllAcceptanceInv'
<1> SUFFICES ASSUME AcceptanceInvariant, [Next]_vars, NEW d \in Clone
             PROVE  AcceptanceInv(d)'
    BY DEF AllAcceptanceInv
<1> USE DEF AcceptanceInvariant, AllAcceptanceInv
<1>1. ASSUME UNCHANGED << transport, anchors, acked, pc, op >>
      PROVE  AcceptanceInv(d)'
    BY <1>1 DEF AcceptanceInv
<1>2. ASSUME NEW c \in Clone, Capture(c) \/ Start(c) \/ Proceed(c) \/ Fail(c)
      PROVE  AcceptanceInv(d)'
    <2>1. CASE d = c
        BY <1>2, <2>1, AcceptanceStep
    <2>2. CASE d # c
        <3>1. /\ transport'[d] = transport[d] /\ anchors'[d] = anchors[d]
              /\ acked'[d] = acked[d] /\ pc'[d] = pc[d] /\ op'[d] = op[d]
            BY <1>2, <2>2, OthersKeep
        <3> QED
            BY <3>1 DEF AcceptanceInv
    <2> QED
        BY <2>1, <2>2
<1>3. CASE (\E request \in inflight : Deliver(request) \/ Lose(request)) \/ Tamper
    BY <1>1, <1>3 DEF Deliver, Lose, Tamper, storeVars
<1>4. CASE UNCHANGED vars
    BY <1>1, <1>4 DEF vars, storeVars
<1> QED
    BY <1>2, <1>3, <1>4 DEF Next

LEMMA AcceptanceInvariantHolds == Spec => []AcceptanceInvariant
<1>1. Init => AcceptanceInvariant
    BY InitTypeOK, AcceptanceInit DEF AcceptanceInvariant
<1>2. AcceptanceInvariant /\ [Next]_vars => AcceptanceInvariant'
    BY TypeStep, AllAcceptanceStep DEF AcceptanceInvariant
<1> QED
    BY <1>1, <1>2, PTL DEF Spec

\* Receipts only ever name records of the accepted commit.
THEOREM AcknowledgementsConfirmed == Spec => []AcknowledgedIsAccepted
<1>1. AcceptanceInvariant => AcknowledgedIsAccepted
    BY DEF AcceptanceInvariant, AllAcceptanceInv, AcceptanceInv, AcknowledgedIsAccepted
<1> QED
    BY <1>1, AcceptanceInvariantHolds, PTL

\* No crash leaves an accepted commit without its anchor.
THEOREM AnchorsFirst == Spec => []AcceptedIsAnchored
<1>1. AcceptanceInvariant => AcceptedIsAnchored
    BY DEF AcceptanceInvariant, AllAcceptanceInv, AcceptanceInv, AcceptedIsAnchored
<1> QED
    BY <1>1, AcceptanceInvariantHolds, PTL

\* The only steps that write transport.json.
LEMMA TransportWrites ==
    ASSUME NEW c \in Clone, Capture(c) \/ Start(c) \/ Proceed(c) \/ Fail(c),
           ~SeeRef(c), ~Accept(c), ~Mark(c)
    PROVE  UNCHANGED transport
<1> USE DEF remoteVars, storeVars, countVars
<1>1. CASE Capture(c) \/ Start(c)
    BY <1>1 DEF Capture, Start, StartManual, StartAutomatic, StartConfigure,
                StartImport, Begin
<1>2. CASE Fail(c)
    BY <1>2 DEF Fail, Expire, Disconnect, Crash
<1>3. CASE Proceed(c)
    BY <1>3 DEF Proceed, Summarize, Open, MissRef, Fetch, Confirm, Refuse, Select,
                Build, Check, Send, Answer, Verify, Acknowledge, Return
<1> QED
    BY <1>1, <1>2, <1>3

\* The accepted commit of a clone is replaced by one that retains it.
LEMMA AcceptedRetained ==
    ASSUME AcceptanceInvariant, [Next]_vars, NEW d \in Clone
    PROVE  Retains(transport[d].commit, transport'[d].commit)
<1>1. TypeOK /\ AllAcceptanceInv
    BY DEF AcceptanceInvariant
<1>2. transport[d].commit \in History
    BY <1>1 DEF TypeOK, Transport
<1>3. CASE transport'[d].commit = transport[d].commit
    BY <1>2, <1>3, RetainsPreorder
<1>4. CASE transport'[d].commit # transport[d].commit
    <2>1. PICK c \in Clone : SeeRef(c) \/ Accept(c) \/ Mark(c)
        <3>1. \E c \in Clone : Capture(c) \/ Start(c) \/ Proceed(c) \/ Fail(c)
            BY <1>4 DEF Next, Deliver, Lose, Tamper, vars, storeVars
        <3> QED
            BY <1>4, <3>1, TransportWrites
    <2>2. Accept(c) /\ c = d
        BY <1>1, <1>4, <2>1 DEF SeeRef, Accept, Mark, TypeOK, Transport
    <2>3. pc[c] = "record" /\ transport'[c].commit = op[c].fetched
        BY <1>1, <2>2 DEF Accept, Goto, TypeOK, Transport
    <2> QED
        BY <1>1, <2>2, <2>3 DEF AllAcceptanceInv, AcceptanceInv
<1> QED
    BY <1>3, <1>4

\* Whatever the ref becomes, a clone's accepted commit never loses a record.
THEOREM AcceptedNeverRewinds == Spec => AcceptanceAdvances
<1>1. AcceptanceInvariant /\ [Next]_vars =>
        [\A c \in Clone : Retains(transport[c].commit, transport'[c].commit)]_transport
    BY AcceptedRetained
<1> QED
    BY <1>1, AcceptanceInvariantHolds, PTL DEF Spec, AcceptanceAdvances

-----------------------------------------------------------------------------
(* A clone sends one root commit *)

\* An operation works on the absent ref only while its clone has no trace of
\* ever having seen it, and leaves such a trace before it sends.
RootInv(c) ==
    /\ creations[c] \in {0, 1}
    /\ creations[c] = 1 => transport[c].seen
    /\ pc[c] \in {"select", "build", "mark"} /\ op[c].accepted = Absent =>
         ~transport[c].seen
    /\ pc[c] \in {"check", "send"} =>
         transport[c].seen /\ (op[c].accepted = Absent => creations[c] = 0)
    /\ pc[c] \in {"confirm", "record"} => op[c].fetched # Absent
    /\ pc[c] = "verify" => op[c].accepted # Absent

AllRootInv == \A c \in Clone : RootInv(c)

LEMMA RootInit == Init => AllRootInv
    BY DEF Init, AllRootInv, RootInv

\* A step that goes where nothing has been read keeps the invariant.
LEMMA RootKeeps ==
    ASSUME TypeOK, NEW c \in Clone, RootInv(c),
           UNCHANGED << transport, creations >>,
           pc'[c] \in {"idle", "open", "lookup", "fetch", "acknowledge", "done"}
    PROVE  RootInv(c)'
    BY DEF RootInv

LEMMA RootStep ==
    ASSUME TypeOK, NEW c \in Clone, AcceptanceInv(c), RootInv(c),
           Capture(c) \/ Start(c) \/ Proceed(c) \/ Fail(c)
    PROVE  RootInv(c)'
<1> USE DEF storeVars, countVars, Goto, Finish
<1>1. CASE Capture(c)
    BY <1>1 DEF Capture, RootInv
<1>2. CASE Start(c)
    <2>1. pc'[c] \in {"open", "lookup"} /\ UNCHANGED << transport, creations >>
        BY <1>2 DEF Start, StartManual, StartAutomatic, StartConfigure, StartImport,
                    Begin, TypeOK
    <2> QED
        BY <2>1, RootKeeps
<1>3. CASE Fail(c)
    <2>1. pc'[c] \in {"idle", "lookup", "done"} /\ UNCHANGED << transport, creations >>
        BY <1>3 DEF Fail, Expire, Disconnect, Crash, TypeOK
    <2> QED
        BY <2>1, RootKeeps
<1>4. CASE Summarize(c) \/ Open(c) \/ Refuse(c) \/ Return(c) \/ Answer(c) \/ Acknowledge(c)
    <2>1. /\ pc'[c] \in {"idle", "lookup", "done"}
          /\ UNCHANGED << transport, creations >>
        BY <1>4 DEF Summarize, Open, Refuse, Return, Answer, Acknowledge, TypeOK
    <2> QED
        BY <2>1, RootKeeps
<1>5. CASE SeeRef(c)
    <2>1. pc'[c] = "fetch" /\ transport'[c].seen /\ UNCHANGED creations
        BY <1>5 DEF SeeRef, TypeOK, Transport
    <2> QED
        BY <2>1 DEF RootInv
<1>6. CASE MissRef(c)
    <2>1. UNCHANGED << transport, creations >>
        BY <1>6 DEF MissRef
    <2>2. CASE EverSeen(c)
        BY <1>6, <2>1, <2>2, RootKeeps DEF MissRef, TypeOK
    <2>3. CASE ~EverSeen(c)
        BY <1>6, <2>1, <2>3 DEF MissRef, TypeOK, EverSeen, RootInv
    <2> QED
        BY <2>2, <2>3
<1>7. CASE Fetch(c)
    <2>1. UNCHANGED << transport, creations >>
        BY <1>7 DEF Fetch
    <2>2. CASE Valid(tip)
        <3>1. tip # Absent
            BY <2>2 DEF Valid
        <3>2. pc'[c] = "confirm" /\ op'[c].fetched = tip
            BY <1>7, <2>2 DEF Fetch, TypeOK, Operation
        <3> QED
            BY <2>1, <3>1, <3>2 DEF RootInv
    <2>3. CASE ~Valid(tip)
        BY <1>7, <2>1, <2>3, RootKeeps DEF Fetch, TypeOK
    <2> QED
        BY <2>2, <2>3
<1>8. CASE Confirm(c)
    <2>1. /\ UNCHANGED << transport, creations >> /\ pc[c] = "confirm"
          /\ \/ pc'[c] = "done"
             \/ pc'[c] = "record" /\ UNCHANGED op
        BY <1>8 DEF Confirm, TypeOK
    <2> QED
        BY <2>1 DEF RootInv
<1>9. CASE Accept(c)
    <2>1. /\ UNCHANGED creations /\ transport'[c].seen
          /\ pc[c] = "record" /\ pc'[c] \in {"select", "verify"}
          /\ op'[c].accepted = op[c].fetched
        BY <1>9 DEF Accept, TypeOK, Operation
    <2> QED
        BY <2>1 DEF RootInv
<1>10. CASE Select(c)
    <2>1. UNCHANGED << transport, creations >> /\ pc[c] = "select"
        BY <1>10 DEF Select, Decide
    <2> QED
        BY <1>10, <2>1, SelectEnds DEF RootInv
<1>11. CASE Build(c)
    <2>1. /\ UNCHANGED << transport, creations >> /\ pc[c] = "build"
          /\ pc'[c] # "done" =>
                /\ op'[c].accepted = op[c].accepted
                /\ pc'[c] = IF transport[c].seen THEN "check" ELSE "mark"
          /\ pc'[c] \in {"done", "check", "mark"}
        BY <1>11 DEF Build, TypeOK, Operation
    <2>2. op[c].accepted # Absent => transport[c].seen
        BY <2>1 DEF AcceptanceInv, Working
    <2> QED
        BY <2>1, <2>2 DEF RootInv
<1>12. CASE Mark(c)
    <2>1. /\ UNCHANGED << creations, op >> /\ transport'[c].seen
          /\ pc[c] = "mark" /\ pc'[c] = "check"
        BY <1>12 DEF Mark, TypeOK, Transport
    <2>2. op[c].accepted # Absent => transport[c].seen
        BY <2>1 DEF AcceptanceInv, Working
    <2> QED
        BY <2>1, <2>2 DEF RootInv
<1>13. CASE Check(c)
    <2>1. UNCHANGED << transport, creations >> /\ pc[c] = "check"
          /\ \/ pc'[c] \in {"done", "lookup"}
             \/ pc'[c] = "send" /\ UNCHANGED op
        BY <1>13 DEF Check, TypeOK
    <2> QED
        BY <2>1 DEF RootInv
<1>14. CASE Send(c)
    <2>1. /\ UNCHANGED << transport, op >> /\ pc[c] = "send" /\ pc'[c] = "await"
          /\ \/ UNCHANGED creations
             \/ creations'[c] = IF op[c].accepted = Absent THEN creations[c] + 1
                                ELSE creations[c]
        BY <1>14 DEF Send, TypeOK
    <2> QED
        BY <2>1 DEF RootInv
<1>15. CASE Verify(c)
    <2>1. /\ UNCHANGED << transport, creations >> /\ pc[c] = "verify"
          /\ pc'[c] \in {"done", "build", "acknowledge"}
          /\ pc'[c] # "done" => op'[c].accepted = op[c].accepted
        BY <1>15 DEF Verify, TypeOK, Operation
    <2> QED
        BY <2>1 DEF RootInv
<1> QED
    BY <1>1, <1>2, <1>3, <1>4, <1>5, <1>6, <1>7, <1>8, <1>9, <1>10, <1>11, <1>12,
       <1>13, <1>14, <1>15 DEF Proceed

LEMMA AllRootStep ==
    AcceptanceInvariant /\ AllRootInv /\ [Next]_vars => AllRootInv'
<1> SUFFICES ASSUME AcceptanceInvariant, AllRootInv, [Next]_vars, NEW d \in Clone
             PROVE  RootInv(d)'
    BY DEF AllRootInv
<1> USE DEF AcceptanceInvariant, AllAcceptanceInv, AllRootInv
<1>1. ASSUME UNCHANGED << transport, pc, op, creations >>
      PROVE  RootInv(d)'
    BY <1>1 DEF RootInv
<1>2. ASSUME NEW c \in Clone, Capture(c) \/ Start(c) \/ Proceed(c) \/ Fail(c)
      PROVE  RootInv(d)'
    <2>1. CASE d = c
        BY <1>2, <2>1, RootStep
    <2>2. CASE d # c
        <3>1. /\ transport'[d] = transport[d] /\ pc'[d] = pc[d] /\ op'[d] = op[d]
              /\ creations'[d] = creations[d]
            BY <1>2, <2>2, OthersKeep
        <3> QED
            BY <3>1 DEF RootInv
    <2> QED
        BY <2>1, <2>2
<1>3. CASE (\E request \in inflight : Deliver(request) \/ Lose(request)) \/ Tamper
    BY <1>1, <1>3 DEF Deliver, Lose, Tamper, storeVars, countVars
<1>4. CASE UNCHANGED vars
    BY <1>1, <1>4 DEF vars, storeVars, countVars
<1> QED
    BY <1>2, <1>3, <1>4 DEF Next

\* However often it fails or the ref is deleted, a clone seeds it once at most.
THEOREM SeededOnce == Spec => []NoReseed
<1>1. Init => AllRootInv
    BY RootInit
<1>2. AcceptanceInvariant /\ AllRootInv /\ [Next]_vars => AllRootInv'
    BY AllRootStep
<1>3. AllRootInv => NoReseed
    BY DEF AllRootInv, RootInv, NoReseed
<1> QED
    BY <1>1, <1>2, <1>3, AcceptanceInvariantHolds, PTL DEF Spec

-----------------------------------------------------------------------------
(* Only requested changes and new records reach the ref *)

\* Along a history metadata changes only as some user requested.
Chain(h) ==
    \A i \in 2 .. Len(h) :
        \/ h[i].meta = h[i - 1].meta
        \/ << h[i - 1].meta, h[i].meta >> \in Edits

\* What a clone is about to send keeps what it was built on.
SendInv(c) ==
    /\ op[c].kind = "configure" => << op[c].expected, op[c].target >> \in Edits
    /\ pc[c] \in {"mark", "check", "send"} => Retains(op[c].accepted, op[c].candidate)

\* What a clone knows of the ref is a past of it, as long as only clones write.
KnownInv(c) ==
    /\ Retains(transport[c].commit, tip)
    /\ Chain(transport[c].commit)
    /\ pc[c] \in {"confirm", "record"} => Retains(op[c].fetched, tip) /\ Chain(op[c].fetched)
    /\ pc[c] \in {"mark", "check", "send"} => Chain(op[c].candidate)

SharedInv ==
    /\ \A c \in Clone : SendInv(c)
    /\ \A request \in inflight : Retains(request.old, request.new)
    /\ tampers = 0 =>
         /\ Chain(tip)
         /\ \A request \in inflight : Chain(request.new)
         /\ \A c \in Clone : KnownInv(c)

\* A commit built on a history, with its metadata or a requested change of it.
LEMMA ChainExtend ==
    ASSUME NEW h \in History, NEW R \in SUBSET Record,
           NEW m \in Meta \cup {Foreign, Malformed}, Chain(h),
           h = Absent \/ m = MetaOf(h) \/ << MetaOf(h), m >> \in Edits
    PROVE  Chain(Extend(h, R, m))
<1> DEFINE e == Extend(h, R, m)
<1>1. /\ Len(e) = Len(h) + 1
      /\ \A i \in 1 .. Len(h) : e[i] = h[i]
      /\ e[Len(h) + 1].meta = m
    <2>1. e[Len(h) + 1] = [records |-> R, meta |-> m]
        BY ExtendFacts
    <2> QED
        BY <2>1, ExtendFacts
<1>4. Len(h) \in Nat
    BY HistoryType
<1> SUFFICES ASSUME NEW i \in 2 .. Len(e)
             PROVE  \/ e[i].meta = e[i - 1].meta
                    \/ << e[i - 1].meta, e[i].meta >> \in Edits
    BY DEF Chain
<1> HIDE DEF e
<1>2. CASE i \in 2 .. Len(h)
    BY <1>1, <1>2 DEF Chain
<1>3. CASE i = Len(h) + 1
    <2>1. Len(h) \in 1 .. Len(h) /\ i - 1 = Len(h) /\ h # Absent
        BY <1>1, <1>3, <1>4, HistoryType
    <2>2. MetaOf(h) = e[i - 1].meta
        BY <1>1, <2>1 DEF MetaOf, TipOf
    <2> QED
        BY <1>1, <1>3, <2>1, <2>2
<1> QED
    BY <1>1, <1>2, <1>3, <1>4

LEMMA SharedInit == Init => SharedInv
<1> SUFFICES ASSUME Init PROVE SharedInv
    OBVIOUS
<1>1. tip \in History /\ Len(tip) \in {0, 1}
    <2>1. CASE Seeded
        <3>1. tip = Extend(Absent, {}, SeedMeta) /\ {} \in SUBSET Record
              /\ SeedMeta \in Meta \cup {Foreign, Malformed}
            BY <2>1, ConstantsAssumption DEF Init
        <3>2. tip \in History /\ Len(tip) = Len(Absent) + 1
            BY <3>1, AbsentType, ExtendFacts
        <3>3. Len(Absent) = 0
            BY AbsentType, HistoryType
        <3> QED
            BY <3>2, <3>3
    <2>2. CASE ~Seeded
        BY <2>2, AbsentType, HistoryType DEF Init
    <2> QED
        BY <2>1, <2>2
<1>2. Chain(tip)
    BY <1>1 DEF Chain
<1>3. Chain(Absent)
    BY AbsentType, HistoryType DEF Chain
<1> QED
    BY <1>1, <1>2, <1>3, RetainsPreorder
       DEF Init, SharedInv, SendInv, KnownInv, NoOperation, NewOperation, NeverSeen

\* Outside its writing section an operation is about to send nothing.
LEMMA SendKeeps ==
    ASSUME TypeOK, NEW c \in Clone, SendInv(c),
           pc'[c] \notin {"mark", "check", "send"},
           /\ op'[c].kind = op[c].kind
           /\ op'[c].expected = op[c].expected
           /\ op'[c].target = op[c].target
    PROVE  SendInv(c)'
    BY DEF SendInv

\* What an operation builds keeps its parent and changes metadata as requested.
LEMMA BuildKeeps ==
    ASSUME TypeOK, NEW c \in Clone, SendInv(c), Build(c), ~StaleEdit(c)
    PROVE  /\ SendInv(c)'
           /\ Chain(op[c].accepted) => Chain(op'[c].candidate)
<1> DEFINE parent == op[c].accepted
<1>1. PICK R \in SUBSET Record, m \in Meta \cup {Foreign, Malformed} :
        /\ R = RecordsOf(parent) \cup op[c].local \cup op[c].imported
        /\ m = IF op[c].kind = "configure" THEN op[c].target
               ELSE IF parent = Absent THEN BootMeta[c]
               ELSE MetaOf(parent)
        /\ op' = [op EXCEPT ![c].candidate = Extend(parent, R, m),
                            ![c].attempted = op[c].kind = "configure"]
    BY BuildType
<1>2. /\ op'[c].candidate = Extend(parent, R, m) /\ op'[c].accepted = parent
      /\ op'[c].kind = op[c].kind /\ op'[c].expected = op[c].expected
      /\ op'[c].target = op[c].target
    BY <1>1 DEF TypeOK, Operation
<1>3. parent \in History
    BY ReadTypes
<1>4. Retains(parent, Extend(parent, R, m))
    <2>1. RecordsOf(Extend(parent, R, m)) = R /\ Ancestor(parent, Extend(parent, R, m))
        BY <1>3, ExtendFacts
    <2> QED
        BY <1>1, <2>1 DEF Retains
<1>5. parent = Absent \/ m = MetaOf(parent) \/ << MetaOf(parent), m >> \in Edits
    BY <1>1 DEF StaleEdit, SendInv
<1>6. Chain(parent) => Chain(Extend(parent, R, m))
    BY <1>3, <1>5, ChainExtend
<1> QED
    BY <1>2, <1>4, <1>6 DEF SendInv

LEMMA SendStep ==
    ASSUME TypeOK, NEW c \in Clone, SendInv(c),
           Capture(c) \/ Start(c) \/ Proceed(c) \/ Fail(c)
    PROVE  SendInv(c)'
<1> USE DEF Goto, Finish
<1>0. \A status : /\ Outcome(op[c], status).kind = op[c].kind
                  /\ Outcome(op[c], status).expected = op[c].expected
                  /\ Outcome(op[c], status).target = op[c].target
    BY DEF Outcome, TypeOK, Operation
<1>1. CASE Capture(c)
    BY <1>1 DEF Capture, SendInv
<1>2. CASE Start(c)
    <2>1. pc'[c] \in {"open", "lookup"}
        BY <1>2 DEF Start, StartManual, StartAutomatic, StartConfigure, StartImport,
                    Begin, TypeOK
    <2>2. op'[c].kind = "configure" => << op'[c].expected, op'[c].target >> \in Edits
        <3>1. CASE StartConfigure(c)
            <4>1. PICK edit \in Edits : op'[c] = NewOperation("configure", FALSE, edit, {})
                BY <3>1 DEF StartConfigure, Begin, TypeOK
            <4>2. edit = << edit[1], edit[2] >>
                BY ConstantsAssumption
            <4> QED
                BY <4>1, <4>2 DEF NewOperation
        <3>2. CASE ~StartConfigure(c)
            <4>1. CASE StartManual(c, TRUE) \/ StartManual(c, FALSE)
                BY <4>1 DEF StartManual, Begin, NewOperation, TypeOK
            <4>2. CASE StartAutomatic(c)
                BY <4>2 DEF StartAutomatic, Begin, NewOperation, TypeOK
            <4>3. CASE StartImport(c)
                BY <4>3 DEF StartImport, Begin, NewOperation, TypeOK
            <4> QED
                BY <1>2, <3>2, <4>1, <4>2, <4>3 DEF Start
        <3> QED
            BY <3>1, <3>2
    <2> QED
        BY <2>1, <2>2 DEF SendInv
<1>3. CASE Expire(c) \/ Summarize(c) \/ Refuse(c)
    <2>1. \E status : op'[c] = Outcome(op[c], status) /\ pc'[c] = "done"
        BY <1>3 DEF Expire, Summarize, Refuse, TypeOK
    <2> QED
        BY <1>0, <2>1, SendKeeps
<1>4. CASE Crash(c) \/ Return(c)
    <2>1. op'[c] = NoOperation /\ pc'[c] = "idle"
        BY <1>4 DEF Crash, Return, TypeOK
    <2> QED
        BY <2>1 DEF SendInv, NoOperation, NewOperation
<1>5. CASE Disconnect(c) \/ Open(c) \/ SeeRef(c) \/ Answer(c)
    <2>1. UNCHANGED op /\ pc'[c] \in {"lookup", "fetch"}
        BY <1>5 DEF Disconnect, Open, SeeRef, Answer, TypeOK
    <2> QED
        BY <2>1, SendKeeps
<1>6. CASE MissRef(c) \/ Fetch(c) \/ Confirm(c) \/ Accept(c)
    <2>1. \/ \E status : op'[c] = Outcome(op[c], status) /\ pc'[c] = "done"
          \/ /\ pc'[c] \in {"select", "confirm", "record", "verify"}
             /\ op'[c].kind = op[c].kind /\ op'[c].expected = op[c].expected
             /\ op'[c].target = op[c].target
        BY <1>6 DEF MissRef, Fetch, Confirm, Accept, TypeOK, Operation
    <2> QED
        BY <1>0, <2>1, SendKeeps
<1>7. CASE Select(c)
    <2>1. PICK outbox : \E local \in Selections(c, outbox) : Decide(c, local, outbox)
        BY <1>7 DEF Select
    <2>2. PICK local \in Selections(c, outbox) : Decide(c, local, outbox)
        BY <2>1
    <2>3. pc'[c] = "done" => \E status : op'[c] = Outcome(op[c], status)
        BY <2>2 DEF Decide, TypeOK
    <2> QED
        BY <1>0, <1>7, <2>3, SelectEnds, SendKeeps
<1>8. CASE Build(c)
    <2>1. CASE StaleEdit(c)
        BY <1>0, <1>8, <2>1, SendKeeps DEF Build, TypeOK
    <2> QED
        BY <1>8, <2>1, BuildKeeps
<1>9. CASE Mark(c) \/ Check(c) \/ Send(c)
    <2>1. \/ \E status : op'[c] = Outcome(op[c], status) /\ pc'[c] = "done"
          \/ /\ UNCHANGED op /\ pc'[c] \in {"lookup", "await"}
          \/ /\ UNCHANGED op /\ pc[c] \in {"mark", "check", "send"}
        BY <1>9 DEF Mark, Check, Send, TypeOK
    <2> QED
        BY <1>0, <2>1, SendKeeps DEF SendInv
<1>10. CASE Verify(c) \/ Acknowledge(c)
    <2>1. \/ \E status : op'[c] = Outcome(op[c], status) /\ pc'[c] = "done"
          \/ /\ pc'[c] \in {"build", "acknowledge"}
             /\ op'[c].kind = op[c].kind /\ op'[c].expected = op[c].expected
             /\ op'[c].target = op[c].target
        BY <1>10 DEF Verify, Acknowledge, TypeOK, Operation
    <2> QED
        BY <1>0, <2>1, SendKeeps
<1> QED
    BY <1>1, <1>2, <1>3, <1>4, <1>5, <1>6, <1>7, <1>8, <1>9, <1>10 DEF Proceed, Fail

\* A step that neither reads, builds nor accepts a commit.
LEMMA KnownKeeps ==
    ASSUME TypeOK, NEW c \in Clone, KnownInv(c),
           UNCHANGED tip, transport'[c].commit = transport[c].commit,
           \/ pc'[c] \notin {"confirm", "record", "mark", "check", "send"}
           \/ UNCHANGED << pc, op >>
    PROVE  KnownInv(c)'
    BY DEF KnownInv

LEMMA KnownStep ==
    ASSUME TypeOK, NEW c \in Clone, AcceptanceInv(c), SendInv(c), KnownInv(c), Chain(tip),
           Capture(c) \/ Start(c) \/ Proceed(c) \/ Fail(c)
    PROVE  KnownInv(c)'
<1> USE DEF remoteVars, storeVars, countVars, Goto, Finish
<1>1. CASE Capture(c)
    BY <1>1, KnownKeeps DEF Capture
<1>2. CASE Start(c)
    <2>1. pc'[c] \in {"open", "lookup"} /\ UNCHANGED << tip, transport >>
        BY <1>2 DEF Start, StartManual, StartAutomatic, StartConfigure, StartImport,
                    Begin, TypeOK
    <2> QED
        BY <2>1, KnownKeeps
<1>3. CASE Fail(c)
    <2>1. pc'[c] \in {"idle", "lookup", "done"} /\ UNCHANGED << tip, transport >>
        BY <1>3 DEF Fail, Expire, Disconnect, Crash, TypeOK
    <2> QED
        BY <2>1, KnownKeeps
<1>4. CASE Summarize(c) \/ Open(c) \/ MissRef(c) \/ Refuse(c) \/ Return(c)
             \/ Answer(c) \/ Acknowledge(c) \/ Verify(c)
    <2>1. /\ UNCHANGED << tip, transport >>
          /\ pc'[c] \in {"idle", "lookup", "select", "build", "acknowledge", "done"}
        BY <1>4 DEF Summarize, Open, MissRef, Refuse, Return, Answer, Acknowledge,
                    Verify, TypeOK
    <2> QED
        BY <2>1, KnownKeeps
<1>5. CASE SeeRef(c)
    <2>1. pc'[c] = "fetch" /\ UNCHANGED tip /\ transport'[c].commit = transport[c].commit
        BY <1>5 DEF SeeRef, TypeOK, Transport
    <2> QED
        BY <2>1, KnownKeeps
<1>6. CASE Fetch(c)
    <2>1. UNCHANGED << tip, transport >>
        BY <1>6 DEF Fetch
    <2>2. CASE Valid(tip)
        <3>1. pc'[c] = "confirm" /\ op'[c].fetched = tip
            BY <1>6, <2>2 DEF Fetch, TypeOK, Operation
        <3>2. Retains(tip, tip)
            BY RetainsPreorder DEF TypeOK
        <3> QED
            BY <2>1, <3>1, <3>2 DEF KnownInv
    <2>3. CASE ~Valid(tip)
        <3>1. pc'[c] = "done"
            BY <1>6, <2>3 DEF Fetch, TypeOK
        <3> QED
            BY <2>1, <3>1, KnownKeeps
    <2> QED
        BY <2>2, <2>3
<1>7. CASE Confirm(c)
    <2>1. /\ UNCHANGED << tip, transport >> /\ pc[c] = "confirm"
          /\ \/ pc'[c] = "done"
             \/ pc'[c] = "record" /\ UNCHANGED op
        BY <1>7 DEF Confirm, TypeOK
    <2> QED
        BY <2>1 DEF KnownInv
<1>8. CASE Accept(c)
    <2>1. /\ UNCHANGED tip /\ transport'[c].commit = op[c].fetched
          /\ pc[c] = "record" /\ pc'[c] \in {"select", "verify"}
        BY <1>8 DEF Accept, TypeOK, Transport
    <2> QED
        BY <2>1 DEF KnownInv
<1>9. CASE Select(c)
    <2>1. UNCHANGED << tip, transport >>
        BY <1>9 DEF Select, Decide
    <2> QED
        BY <1>9, <2>1, SelectEnds, KnownKeeps
<1>10. CASE Build(c)
    <2>1. UNCHANGED << tip, transport >> /\ pc[c] = "build"
        BY <1>10 DEF Build
    <2>2. CASE StaleEdit(c)
        <3>1. pc'[c] = "done"
            BY <1>10, <2>2 DEF Build, TypeOK
        <3> QED
            BY <2>1, <3>1, KnownKeeps
    <2>3. CASE ~StaleEdit(c)
        <3>1. Chain(op[c].accepted)
            BY <2>1 DEF AcceptanceInv, Working, KnownInv
        <3>2. Chain(op'[c].candidate)
            BY <1>10, <2>3, <3>1, BuildKeeps
        <3>3. pc'[c] \in {"mark", "check"}
            BY <1>10, <2>3 DEF Build, TypeOK
        <3> QED
            BY <2>1, <3>2, <3>3 DEF KnownInv
    <2> QED
        BY <2>2, <2>3
<1>11. CASE Mark(c) \/ Check(c) \/ Send(c)
    <2>1. /\ UNCHANGED tip /\ transport'[c].commit = transport[c].commit
          /\ pc[c] \in {"mark", "check", "send"}
          /\ \/ pc'[c] \in {"done", "lookup", "await"}
             \/ pc'[c] \in {"check", "send"} /\ UNCHANGED op
        BY <1>11 DEF Mark, Check, Send, TypeOK, Transport
    <2> QED
        BY <2>1 DEF KnownInv
<1> QED
    BY <1>1, <1>2, <1>3, <1>4, <1>5, <1>6, <1>7, <1>8, <1>9, <1>10, <1>11 DEF Proceed

\* What a step of a clone puts in flight.
LEMMA SendOnly ==
    ASSUME NEW c \in Clone, Capture(c) \/ Start(c) \/ Proceed(c) \/ Fail(c)
    PROVE  /\ tip' = tip /\ tampers' = tampers
           /\ \/ inflight' = inflight
              \/ /\ pc[c] = "send"
                 /\ inflight' = inflight \cup
                      {[from |-> c, old |-> op[c].accepted, new |-> op[c].candidate]}
<1> USE DEF remoteVars, storeVars, countVars
<1>1. CASE Capture(c) \/ Start(c)
    BY <1>1 DEF Capture, Start, StartManual, StartAutomatic, StartConfigure,
                StartImport, Begin
<1>2. CASE Fail(c)
    BY <1>2 DEF Fail, Expire, Disconnect, Crash
<1>3. CASE Send(c)
    BY <1>3 DEF Send, Goto
<1>4. CASE Proceed(c) /\ ~Send(c)
    BY <1>4 DEF Proceed, Summarize, Open, SeeRef, MissRef, Fetch, Confirm, Accept,
                Refuse, Select, Build, Mark, Check, Answer, Verify, Acknowledge, Return
<1> QED
    BY <1>1, <1>2, <1>3, <1>4

\* The invariant of the remote and of the acceptance of every clone.
SharedInvariant == AcceptanceInvariant /\ SharedInv

\* A clone's step.
LEMMA CloneSharedStep ==
    ASSUME SharedInvariant, NEW c \in Clone,
           Capture(c) \/ Start(c) \/ Proceed(c) \/ Fail(c)
    PROVE  SharedInv'
<1> USE DEF SharedInvariant, AcceptanceInvariant, AllAcceptanceInv
<1>1. \A d \in Clone \ {c} : /\ transport'[d] = transport[d] /\ pc'[d] = pc[d]
                             /\ op'[d] = op[d]
    BY OthersKeep
<1>2. \A d \in Clone : SendInv(d)'
    <2>1. SendInv(c)'
        BY SendStep DEF SharedInv
    <2>2. ASSUME NEW d \in Clone \ {c} PROVE SendInv(d)'
        BY <1>1 DEF SharedInv, SendInv
    <2> QED
        BY <2>1, <2>2
<1>3. tip' = tip /\ tampers' = tampers
    BY SendOnly
<1>4. ASSUME NEW request \in inflight'
      PROVE  /\ Retains(request.old, request.new)
             /\ tampers = 0 => Chain(request.new)
    <2>1. CASE request \in inflight
        BY <2>1 DEF SharedInv
    <2>2. CASE request \notin inflight
        <3>1. /\ pc[c] = "send" /\ request.old = op[c].accepted
              /\ request.new = op[c].candidate
            BY <1>4, <2>2, SendOnly
        <3> QED
            BY <3>1 DEF SharedInv, SendInv, KnownInv
    <2> QED
        BY <2>1, <2>2
<1>5. ASSUME tampers = 0, NEW d \in Clone PROVE KnownInv(d)'
    <2>1. CASE d = c
        BY <1>5, <2>1, KnownStep DEF SharedInv
    <2>2. CASE d # c
        BY <1>1, <1>3, <1>5, <2>2 DEF SharedInv, KnownInv
    <2> QED
        BY <2>1, <2>2
<1>6. tampers = 0 => Chain(tip')
    BY <1>3 DEF SharedInv
<1> QED
    BY <1>2, <1>3, <1>4, <1>5, <1>6 DEF SharedInv

\* A request that arrives moves the ref to a commit that retains it.
LEMMA DeliverSharedStep ==
    ASSUME SharedInvariant, NEW request \in inflight, Deliver(request)
    PROVE  SharedInv'
<1> USE DEF SharedInvariant, AcceptanceInvariant, storeVars, countVars
<1>1. tip \in History /\ tip' \in History /\ request \in Request
    BY TypeStep DEF Next, TypeOK, Deliver, Request
<1>2. /\ UNCHANGED << transport, pc, op, tampers >> /\ inflight' \subseteq inflight
      /\ tip' = tip \/ (tip = request.old /\ tip' = request.new)
    BY DEF Deliver
<1>3. Retains(tip, tip')
    BY <1>1, <1>2, RetainsPreorder DEF SharedInv
<1>4. ASSUME NEW d \in Clone, tampers = 0 PROVE KnownInv(d)'
    <2>1. transport[d].commit \in History /\ op[d].fetched \in History
        BY ReadTypes DEF TypeOK, Transport
    <2>2. KnownInv(d)
        BY <1>4 DEF SharedInv
    <2>3. Retains(transport[d].commit, tip')
        BY <1>1, <1>3, <2>1, <2>2, RetainsPreorder DEF KnownInv
    <2>4. Retains(op[d].fetched, tip) => Retains(op[d].fetched, tip')
        BY <1>1, <1>3, <2>1, RetainsPreorder
    <2> QED
        BY <1>2, <2>2, <2>3, <2>4 DEF KnownInv
<1>5. tampers = 0 => Chain(tip')
    BY <1>2 DEF SharedInv
<1>6. \A d \in Clone : SendInv(d)'
    BY <1>2 DEF SharedInv, SendInv
<1> QED
    BY <1>2, <1>4, <1>5, <1>6 DEF SharedInv

LEMMA SharedStep == SharedInvariant /\ [Next]_vars => SharedInv'
<1> SUFFICES ASSUME SharedInvariant, [Next]_vars PROVE SharedInv'
    OBVIOUS
<1> USE DEF remoteVars, storeVars, countVars
<1>1. ASSUME NEW c \in Clone, Capture(c) \/ Start(c) \/ Proceed(c) \/ Fail(c)
      PROVE  SharedInv'
    BY <1>1, CloneSharedStep
<1>2. ASSUME NEW request \in inflight, Deliver(request)
      PROVE  SharedInv'
    BY <1>2, DeliverSharedStep
<1>3. ASSUME NEW request \in inflight, Lose(request)
      PROVE  SharedInv'
    BY <1>3 DEF Lose, SharedInvariant, SharedInv, SendInv, KnownInv
<1>4. CASE Tamper
    <2>1. tampers' # 0
        BY <1>4 DEF Tamper, SharedInvariant, AcceptanceInvariant, TypeOK
    <2>2. UNCHANGED << inflight, pc, op >>
        BY <1>4 DEF Tamper
    <2> QED
        BY <2>1, <2>2 DEF SharedInvariant, SharedInv, SendInv
<1>5. CASE UNCHANGED vars
    BY <1>5 DEF vars, SharedInvariant, SharedInv, SendInv, KnownInv
<1> QED
    BY <1>1, <1>2, <1>3, <1>4, <1>5 DEF Next

LEMMA SharedInvariantHolds == Spec => []SharedInvariant
<1>1. Init => SharedInvariant
    BY InitTypeOK, AcceptanceInit, SharedInit DEF SharedInvariant, AcceptanceInvariant
<1>2. SharedInvariant /\ [Next]_vars => SharedInvariant'
    BY TypeStep, AllAcceptanceStep, SharedStep DEF SharedInvariant, AcceptanceInvariant
<1> QED
    BY <1>1, <1>2, PTL DEF Spec

\* While only clones write the ref, no acknowledged record ever leaves it.
THEOREM AcknowledgedStaysPublic == Spec => []NothingLost
<1>1. SharedInvariant => NothingLost
    BY DEF SharedInvariant, AcceptanceInvariant, AllAcceptanceInv, AcceptanceInv,
           SharedInv, KnownInv, Retains, NothingLost
<1> QED
    BY <1>1, SharedInvariantHolds, PTL

\* While only clones write the ref, its metadata changes only as requested.
THEOREM MetadataChangesRequested == Spec => []NoOverride
<1>1. SharedInvariant => NoOverride
    BY DEF SharedInvariant, SharedInv, Chain, NoOverride
<1> QED
    BY <1>1, SharedInvariantHolds, PTL

-----------------------------------------------------------------------------
(* LedgerSync implements PublicLedger *)

\* What one commit may do on top of another one.
Publication(old, new) ==
    \E records \in SUBSET Record, meta \in Meta :
        /\ RecordsOf(old) \subseteq records
        /\ old = Absent \/ meta = MetaOf(old) \/ << MetaOf(old), meta >> \in Edits
        /\ new = Extend(old, records, meta)

\* What a clone has accepted validates, so what it builds on it is public.
PublicationInv(c) ==
    /\ transport[c].commit # Absent => Valid(transport[c].commit)
    /\ pc[c] \in {"confirm", "record"} => Valid(op[c].fetched)
    /\ pc[c] \in {"mark", "check", "send"} =>
         Publication(op[c].accepted, op[c].candidate)

PublishedInv ==
    /\ \A c \in Clone : PublicationInv(c)
    /\ \A request \in inflight : Publication(request.old, request.new)

RefinementInvariant == SharedInvariant /\ PublishedInv

LEMMA PublishedInit == Init => PublishedInv
    BY DEF Init, PublishedInv, PublicationInv, NeverSeen

\* A step that neither reads, builds nor accepts a commit.
LEMMA PublicationKeeps ==
    ASSUME TypeOK, NEW c \in Clone, PublicationInv(c),
           transport'[c].commit = transport[c].commit,
           \/ pc'[c] \notin {"confirm", "record", "mark", "check", "send"}
           \/ UNCHANGED << pc, op >>
    PROVE  PublicationInv(c)'
    BY DEF PublicationInv

\* The commit an attempt builds is a publication on the accepted one.
LEMMA BuildPublishes ==
    ASSUME TypeOK, NEW c \in Clone, AcceptanceInv(c), SendInv(c), PublicationInv(c),
           Build(c), ~StaleEdit(c)
    PROVE  /\ op'[c].accepted = op[c].accepted
           /\ Publication(op[c].accepted, op'[c].candidate)
<1> DEFINE parent == op[c].accepted
<1>1. PICK R \in SUBSET Record, m \in Meta \cup {Foreign, Malformed} :
        /\ R = RecordsOf(parent) \cup op[c].local \cup op[c].imported
        /\ m = IF op[c].kind = "configure" THEN op[c].target
               ELSE IF parent = Absent THEN BootMeta[c]
               ELSE MetaOf(parent)
        /\ op' = [op EXCEPT ![c].candidate = Extend(parent, R, m),
                            ![c].attempted = op[c].kind = "configure"]
    BY BuildType
<1>2. op'[c].candidate = Extend(parent, R, m) /\ op'[c].accepted = parent
    BY <1>1 DEF TypeOK, Operation
<1>3. parent = transport[c].commit
    BY DEF Build, Goto, Finish, AcceptanceInv, Working
<1>4. parent # Absent => MetaOf(parent) \in Meta
    BY <1>3 DEF PublicationInv, Valid
<1>5. m \in Meta
    BY <1>1, <1>4, ReadTypes
<1>6. parent = Absent \/ m = MetaOf(parent) \/ << MetaOf(parent), m >> \in Edits
    BY <1>1 DEF StaleEdit, SendInv
<1>7. RecordsOf(parent) \subseteq R
    BY <1>1
<1> HIDE DEF parent
<1>8. Publication(parent, Extend(parent, R, m))
    BY <1>5, <1>6, <1>7 DEF Publication
<1> QED
    BY <1>2, <1>8 DEF parent

LEMMA PublicationStep ==
    ASSUME TypeOK, NEW c \in Clone, AcceptanceInv(c), SendInv(c), PublicationInv(c),
           Capture(c) \/ Start(c) \/ Proceed(c) \/ Fail(c)
    PROVE  PublicationInv(c)'
<1> USE DEF remoteVars, storeVars, countVars, Goto, Finish
<1>1. CASE Capture(c)
    BY <1>1, PublicationKeeps DEF Capture
<1>2. CASE Start(c)
    <2>1. pc'[c] \in {"open", "lookup"} /\ UNCHANGED transport
        BY <1>2 DEF Start, StartManual, StartAutomatic, StartConfigure, StartImport,
                    Begin, TypeOK
    <2> QED
        BY <2>1, PublicationKeeps
<1>3. CASE Fail(c)
    <2>1. pc'[c] \in {"idle", "lookup", "done"} /\ UNCHANGED transport
        BY <1>3 DEF Fail, Expire, Disconnect, Crash, TypeOK
    <2> QED
        BY <2>1, PublicationKeeps
<1>4. CASE Summarize(c) \/ Open(c) \/ MissRef(c) \/ Refuse(c) \/ Return(c)
             \/ Answer(c) \/ Acknowledge(c) \/ Verify(c)
    <2>1. /\ UNCHANGED transport
          /\ pc'[c] \in {"idle", "lookup", "select", "build", "acknowledge", "done"}
        BY <1>4 DEF Summarize, Open, MissRef, Refuse, Return, Answer, Acknowledge,
                    Verify, TypeOK
    <2> QED
        BY <2>1, PublicationKeeps
<1>5. CASE SeeRef(c)
    <2>1. pc'[c] = "fetch" /\ transport'[c].commit = transport[c].commit
        BY <1>5 DEF SeeRef, TypeOK, Transport
    <2> QED
        BY <2>1, PublicationKeeps
<1>6. CASE Fetch(c)
    <2>1. UNCHANGED transport
        BY <1>6 DEF Fetch
    <2>2. CASE Valid(tip)
        <3>1. pc'[c] = "confirm" /\ op'[c].fetched = tip
            BY <1>6, <2>2 DEF Fetch, TypeOK, Operation
        <3> QED
            BY <2>1, <2>2, <3>1 DEF PublicationInv
    <2>3. CASE ~Valid(tip)
        <3>1. pc'[c] = "done"
            BY <1>6, <2>3 DEF Fetch, TypeOK
        <3> QED
            BY <2>1, <3>1, PublicationKeeps
    <2> QED
        BY <2>2, <2>3
<1>7. CASE Confirm(c)
    <2>1. /\ UNCHANGED transport /\ pc[c] = "confirm"
          /\ \/ pc'[c] = "done"
             \/ pc'[c] = "record" /\ UNCHANGED op
        BY <1>7 DEF Confirm, TypeOK
    <2> QED
        BY <2>1 DEF PublicationInv
<1>8. CASE Accept(c)
    <2>1. /\ transport'[c].commit = op[c].fetched
          /\ pc[c] = "record" /\ pc'[c] \in {"select", "verify"}
        BY <1>8 DEF Accept, TypeOK, Transport
    <2> QED
        BY <2>1 DEF PublicationInv
<1>9. CASE Select(c)
    <2>1. UNCHANGED transport
        BY <1>9 DEF Select, Decide
    <2> QED
        BY <1>9, <2>1, SelectEnds, PublicationKeeps
<1>10. CASE Build(c)
    <2>1. UNCHANGED transport
        BY <1>10 DEF Build
    <2>2. CASE StaleEdit(c)
        <3>1. pc'[c] = "done"
            BY <1>10, <2>2 DEF Build, TypeOK
        <3> QED
            BY <2>1, <3>1, PublicationKeeps
    <2>3. CASE ~StaleEdit(c)
        <3>1. pc'[c] \in {"mark", "check"}
            BY <1>10, <2>3 DEF Build, TypeOK
        <3> QED
            BY <1>10, <2>1, <2>3, <3>1, BuildPublishes DEF PublicationInv
    <2> QED
        BY <2>2, <2>3
<1>11. CASE Mark(c) \/ Check(c) \/ Send(c)
    <2>1. /\ transport'[c].commit = transport[c].commit
          /\ pc[c] \in {"mark", "check", "send"}
          /\ \/ pc'[c] \in {"done", "lookup", "await"}
             \/ pc'[c] \in {"check", "send"} /\ UNCHANGED op
        BY <1>11 DEF Mark, Check, Send, TypeOK, Transport
    <2> QED
        BY <2>1 DEF PublicationInv
<1> QED
    BY <1>1, <1>2, <1>3, <1>4, <1>5, <1>6, <1>7, <1>8, <1>9, <1>10, <1>11 DEF Proceed

LEMMA PublishedStep == RefinementInvariant /\ [Next]_vars => PublishedInv'
<1> SUFFICES ASSUME RefinementInvariant, [Next]_vars PROVE PublishedInv'
    OBVIOUS
<1> USE DEF RefinementInvariant, SharedInvariant, AcceptanceInvariant, AllAcceptanceInv
<1>1. ASSUME NEW c \in Clone, Capture(c) \/ Start(c) \/ Proceed(c) \/ Fail(c)
      PROVE  PublishedInv'
    <2>1. PublicationInv(c)'
        BY <1>1, PublicationStep DEF SharedInv, PublishedInv
    <2>2. ASSUME NEW d \in Clone \ {c} PROVE PublicationInv(d)'
        <3>1. transport'[d] = transport[d] /\ pc'[d] = pc[d] /\ op'[d] = op[d]
            BY <1>1, OthersKeep
        <3> QED
            BY <3>1 DEF PublishedInv, PublicationInv
    <2>3. ASSUME NEW request \in inflight' PROVE Publication(request.old, request.new)
        <3>1. CASE request \in inflight
            BY <3>1 DEF PublishedInv
        <3>2. CASE request \notin inflight
            <4>1. /\ pc[c] = "send" /\ request.old = op[c].accepted
                  /\ request.new = op[c].candidate
                BY <1>1, <2>3, <3>2, SendOnly
            <4> QED
                BY <4>1 DEF PublishedInv, PublicationInv
        <3> QED
            BY <3>1, <3>2
    <2> QED
        BY <2>1, <2>2, <2>3 DEF PublishedInv
<1>2. ASSUME UNCHANGED << transport, pc, op >>, inflight' \subseteq inflight
      PROVE  PublishedInv'
    BY <1>2 DEF PublishedInv, PublicationInv
<1>3. CASE (\E request \in inflight : Deliver(request) \/ Lose(request)) \/ Tamper
    BY <1>2, <1>3 DEF Deliver, Lose, Tamper, storeVars
<1>4. CASE UNCHANGED vars
    BY <1>2, <1>4 DEF vars, remoteVars, storeVars
<1> QED
    BY <1>1, <1>3, <1>4 DEF Next

LEMMA RefinementInvariantHolds == Spec => []RefinementInvariant
<1>1. Init => PublishedInv
    BY PublishedInit
<1>2. RefinementInvariant /\ [Next]_vars => PublishedInv'
    BY PublishedStep
<1> QED
    BY <1>1, <1>2, SharedInvariantHolds, PTL DEF Spec, RefinementInvariant

-----------------------------------------------------------------------------
(* The mapping *)

\* Without external changes the counter of external changes stays at zero.
LEMMA OnlyClonesWrite == Spec => [](MaxTampers = 0 => tampers = 0)
<1>1. Init => (MaxTampers = 0 => tampers = 0)
    BY DEF Init
<1>2. (MaxTampers = 0 => tampers = 0) /\ [Next]_vars => (MaxTampers = 0 => tampers = 0)'
    <2> SUFFICES ASSUME MaxTampers = 0, tampers = 0, [Next]_vars
                 PROVE  tampers' = 0
        OBVIOUS
    <2>1. ASSUME NEW c \in Clone, Capture(c) \/ Start(c) \/ Proceed(c) \/ Fail(c)
          PROVE  tampers' = tampers
        BY <2>1, SendOnly
    <2> QED
        BY <2>1 DEF Next, Deliver, Lose, Tamper, vars, countVars
<1> QED
    BY <1>1, <1>2, PTL DEF Spec

\* Of the steps of a clone only Acknowledge writes a receipt.
LEMMA ReceiptsOnly ==
    ASSUME TypeOK, NEW c \in Clone, Capture(c) \/ Start(c) \/ Proceed(c) \/ Fail(c)
    PROVE  \/ acked' = acked
           \/ /\ pc[c] = "acknowledge"
              /\ acked' = [acked EXCEPT ![c] = @ \cup op[c].local]
<1> USE DEF remoteVars, storeVars, countVars
<1>1. CASE Capture(c) \/ Start(c)
    BY <1>1 DEF Capture, Start, StartManual, StartAutomatic, StartConfigure,
                StartImport, Begin
<1>2. CASE Fail(c)
    BY <1>2 DEF Fail, Expire, Disconnect, Crash
<1>3. CASE Acknowledge(c)
    BY <1>3 DEF Acknowledge, Confirmed, Finish, Goto
<1>4. CASE Proceed(c) /\ ~Acknowledge(c)
    BY <1>4 DEF Proceed, Summarize, Open, SeeRef, MissRef, Fetch, Confirm, Accept,
                Refuse, Select, Build, Mark, Check, Send, Answer, Verify, Return
<1> QED
    BY <1>1, <1>2, <1>3, <1>4

LEMMA PublicStep ==
    ASSUME RefinementInvariant, tampers = 0, tampers' = 0, [Next]_vars
    PROVE  [Public!Next]_Public!vars
<1> USE DEF RefinementInvariant, SharedInvariant, AcceptanceInvariant, AllAcceptanceInv
<1>1. ASSUME NEW c \in Clone, Capture(c) \/ Start(c) \/ Proceed(c) \/ Fail(c)
      PROVE  [Public!Next]_Public!vars
    <2>1. tip' = tip
        BY <1>1, SendOnly
    <2>2. CASE acked' = acked
        BY <2>1, <2>2 DEF Public!vars
    <2>3. CASE pc[c] = "acknowledge" /\ acked' = [acked EXCEPT ![c] = @ \cup op[c].local]
        <3>1. op[c].local \subseteq RecordsOf(transport[c].commit)
            BY <2>3 DEF AcceptanceInv
        <3>2. RecordsOf(transport[c].commit) \subseteq RecordsOf(tip)
            BY DEF SharedInv, KnownInv, Retains
        <3>3. op[c].local \in SUBSET RecordsOf(tip)
            BY <3>1, <3>2
        <3>4. Public!Acknowledge(c)
            BY <2>1, <2>3, <3>3 DEF Public!Acknowledge, Public!RecordsOf, RecordsOf,
                                    Public!TipOf, TipOf, Public!Absent, Absent
        <3> QED
            BY <3>4 DEF Public!Next
    <2> QED
        BY <1>1, <2>2, <2>3, ReceiptsOnly
<1>2. ASSUME NEW request \in inflight, Deliver(request)
      PROVE  [Public!Next]_Public!vars
    <2>1. acked' = acked
        BY <1>2 DEF Deliver, storeVars
    <2>2. CASE tip' = tip
        BY <2>1, <2>2 DEF Public!vars
    <2>3. CASE tip' # tip
        <3>1. tip = request.old /\ tip' = request.new
            BY <1>2, <2>3 DEF Deliver
        <3>2. Publication(tip, tip')
            BY <3>1 DEF PublishedInv
        <3>3. Public!Publish
            BY <2>1, <3>2 DEF Publication, Public!Publish, Public!RecordsOf, RecordsOf,
                  Public!TipOf, TipOf, Public!Absent, Absent, Public!MetaOf, MetaOf,
                  Public!Extend, Extend
        <3> QED
            BY <3>3 DEF Public!Next
    <2> QED
        BY <2>2, <2>3
<1>3. ASSUME NEW request \in inflight, Lose(request)
      PROVE  [Public!Next]_Public!vars
    BY <1>3 DEF Lose, storeVars, Public!vars
<1>4. ~Tamper
    BY DEF Tamper
<1>5. CASE UNCHANGED vars
    BY <1>5 DEF vars, remoteVars, storeVars, Public!vars
<1> QED
    BY <1>1, <1>2, <1>3, <1>4, <1>5 DEF Next

\* Without external changes of the ref, synchronization is the public ledger.
THEOREM LedgerSyncImplementsPublicLedger ==
    Spec /\ MaxTampers = 0 => ImplementsPublicLedger
<1>1. Init => Public!Init
    BY DEF Init, Public!Init, Public!Extend, Extend, Public!Absent, Absent
<1>2. /\ RefinementInvariant
      /\ MaxTampers = 0 => tampers = 0
      /\ (MaxTampers = 0 => tampers = 0)'
      /\ MaxTampers = 0
      /\ [Next]_vars
      => [Public!Next]_Public!vars
    BY PublicStep
<1>3. MaxTampers = 0 => (MaxTampers = 0)'
    OBVIOUS
<1> QED
    BY <1>1, <1>2, <1>3, OnlyClonesWrite, RefinementInvariantHolds, PTL
       DEF Spec, ImplementsPublicLedger, Public!Spec

=============================================================================
