-------------------------- MODULE AcceptedStage_proofs --------------------------
(***************************************************************************)
(* Proofs about AcceptedStage for any records, remotes and modes, and for  *)
(* histories, rewritten remotes and faults without bound: what a published *)
(* generation holds, what a stage says of its commit, and when a commit is *)
(* confirmed.                                                              *)
(***************************************************************************)
EXTENDS AcceptedStage, CommitHistory_proofs, FiniteSetTheorems, WellFoundedInduction

-----------------------------------------------------------------------------
(* The invariant *)

Types ==
    /\ slots \in [Slot -> Generation]
    /\ manifest \in SUBSET Entry
    /\ remote \in [Remote -> History]
    /\ transport \in [remote : Remote, commit : History]
    /\ anchors \in SUBSET History
    /\ owner \in SUBSET Owner
    /\ pinned \in BOOLEAN
    /\ stage \in Stage
    /\ session \in Session
    /\ moves \in 0 .. MaxMoves /\ faults \in 0 .. MaxFaults

AtMostOne(S) == \A x, y \in S : x = y

\* A generation in use holds its commit, and the one it is said to retain.
StoreInv ==
    /\ AtMostOne(manifest)
    /\ \A m \in Verified :
           /\ Valid(m.commit) /\ RecordsIn(m) = RecordsOf(m.commit)
           /\ RecordsOf(m.retained) \subseteq RecordsOf(m.commit)

\* The phases after the tree was listed.
Listed == {"blobs", "reduce", "finish", "retention"}

\* What a stage has found out about the commit of its owner.
StageOf(o) ==
    LET all == RecordsOf(o.commit)
    IN  /\ stage.phase = "candidate" => o.base # Absent
        /\ stage.phase \in {"tree"} \cup Listed => o.base = Absent
        /\ RecordsOf(stage.retained) \subseteq all
        /\ stage.phase # "candidate" =>
               /\ stage.listed \subseteq all
               /\ stage.records \subseteq stage.listed
               /\ { r \in RecordsOf(stage.anchor) : r <= stage.cursor } \subseteq stage.listed
        /\ stage.phase \in Listed => stage.listed = all
        /\ stage.phase \in {"reduce", "finish", "retention"} => stage.records = all
        /\ stage.phase = "retention" => Valid(o.commit)

\* A candidate keeps the records of its base.
OwnedInv ==
    /\ AtMostOne(owner)
    /\ \A o \in owner :
           /\ o.base # Absent => Valid(o.commit) /\ RecordsOf(o.base) \subseteq RecordsOf(o.commit)
           /\ StageOf(o)

Faithful(w) ==
    /\ Valid(w.commit) /\ w.records = RecordsOf(w.commit)
    /\ RecordsOf(w.retained) \subseteq RecordsOf(w.commit)

\* A replacement is complete before its manifest is written.
WriterInv == \A w \in session.writer : Faithful(w) /\ ~ slots[w.slot].whole

At(steps) == session.pc \in steps

\* The candidate of the session extends an open generation.
Follows(m) ==
    /\ Valid(session.candidate)
    /\ RecordsIn(m) \subseteq RecordsOf(session.candidate)

IndexInv ==
    /\ session.index \subseteq Verified
    /\ At({"idle", "rebuild", "create", "open", "work", "save", "promote"}) => session.index = {}
    /\ At({"unpin", "disown", "unstage"}) /\ session.next # "own" => session.index = {}
    /\ At({"pin"}) /\ (\E o \in owner : o.base = Absent) => session.index = {}
    /\ At({"unpin", "disown", "unstage", "own", "pin", "offer", "push", "tip", "cache"}) =>
           \A m \in session.index : Follows(m)
    /\ At({"pin", "offer", "push"}) =>
           \A m \in session.index : \A o \in owner :
               o.commit = session.candidate /\ o.base = m.commit
    /\ At({"push", "tip", "cache"}) =>
           \A m \in session.index :
               stage.records = RecordsOf(session.candidate) \ RecordsIn(m)
    /\ At({"confirm", "anchor", "record", "settle"}) =>
           \A m \in session.index : m.commit = session.fetched

\* A stage that is confirmed before it is promoted is complete on disk.
Ready ==
    /\ stage.sealed /\ stage.phase = "retention" /\ pinned
    /\ \E o \in owner : o.commit = session.fetched /\ o.base = Absent

ConfirmInv ==
    /\ session.staged => At({"confirm", "anchor", "record", "close"})
    /\ At({"confirm", "anchor", "record"}) =>
           IF session.staged THEN Ready /\ session.index = {}
           ELSE session.mode = "lazy" => session.index # {}
    /\ At({"anchor", "record"}) =>
           transport.commit = Absent \/ Retains(transport.commit, session.fetched)
    /\ At({"record"}) => session.fetched \in anchors

WorkInv ==
    /\ ~ At({"idle"}) => session.remote \in Remote
    /\ At({"create"}) => session.mode # "lazy"
    /\ At({"pin", "open", "work", "promote"}) => owner # {}
    /\ At({"open", "work"}) => pinned /\ \A o \in owner : o.base = Absent
    /\ At({"promote"}) => stage.phase = "retention"
    /\ At({"publish"}) => session.next \in {"promoted", "recovered", "installed"}
    /\ At({"unpin", "disown", "unstage"}) =>
           session.next \in {"rebuild", "own", "promoted", "recovered"}

SessionInv == IndexInv /\ ConfirmInv /\ WorkInv

AcceptedInv == Types /\ StoreInv /\ OwnedInv /\ WriterInv /\ SessionInv

-----------------------------------------------------------------------------
(* Types *)

LEMMA InitialTypes ==
    /\ NoStage \in Stage /\ NoSession \in Session /\ NoGeneration \in Generation
    /\ Absent \in History
<1>1. NoStage \in Stage
    BY AbsentType DEF NoStage, Stage
<1>2. (CHOOSE m \in Mode : TRUE) \in Mode
    BY ModeAssumption
<1>3. NoSession \in Session
    BY <1>2, AbsentType DEF NoSession, Session, Step
<1> QED
    BY <1>1, <1>3, AbsentType DEF NoGeneration, Generation

\* A session goes to another step.
LEMMA GotoType ==
    ASSUME session \in Session, NEW step \in Step, Goto(step)
    PROVE  session' \in Session
BY DEF Goto, Session

LEMMA LeaveType ==
    ASSUME session \in Session, Leave
    PROVE  session' \in Session
<1>1. "close" \in Step
    BY DEF Step
<1> QED
    BY <1>1, GotoType DEF Leave

LEMMA EndType ==
    ASSUME Types, End
    PROVE  session' \in Session /\ remote' \in [Remote -> History]
BY InitialTypes DEF End, Types

LEMMA ThrowType ==
    ASSUME Types, Throw
    PROVE  session' \in Session /\ stage' \in Stage
BY InitialTypes, LeaveType DEF Throw, Types

LEMMA ProceedType ==
    ASSUME Types, NEW finished, Proceed(finished)
    PROVE  session' \in Session
<1>1. "save" \in Step
    BY DEF Step
<1> QED
    BY <1>1, GotoType DEF Proceed, Types

\* The entries that may be read, and the replacement that is written.
LEMMA VerifiedType ==
    ASSUME Types
    PROVE  /\ Verified \in SUBSET Entry
           /\ \A c : Loaded(c) \in SUBSET Entry
           /\ \A m \in Verified : /\ m.commit \in History /\ m.previous \in History
                                  /\ m.retained \in History /\ m.slot \in Slot
                                  /\ RecordsIn(m) \in SUBSET Record
BY DEF Types, Verified, Loaded, Entry, RecordsIn, Generation

LEMMA ClaimedType ==
    ASSUME Types, NEW commit \in History, NEW records \in SUBSET Record,
           NEW retained \in History
    PROVE  Claimed(commit, records, retained) \in Writer
<1> DEFINE before == IF Verified = {} THEN Absent ELSE (CHOOSE m \in Verified : TRUE).commit
<1>1. InactiveSlot \in Slot
    BY DEF InactiveSlot, Slot
<1>2. before \in History
    BY VerifiedType, AbsentType
<1>3. Claimed(commit, records, retained) =
          [commit |-> commit, slot |-> InactiveSlot, retained |-> retained,
           records |-> records, previous |-> before]
    BY DEF Claimed
<1> HIDE DEF before
<1> QED
    BY <1>1, <1>2, <1>3 DEF Writer

LEMMA ClaimType ==
    ASSUME Types, NEW w \in Writer, Claim(w)
    PROVE  slots' \in [Slot -> Generation]
BY InitialTypes DEF Types, Claim, Writer

LEMMA WriteType ==
    ASSUME Types, NEW w \in Writer, NEW next \in {"promoted", "recovered", "installed"},
           Write(w, next)
    PROVE  slots' \in [Slot -> Generation] /\ manifest' = manifest /\ session' \in Session
<1>1. slots' \in [Slot -> Generation]
    BY ClaimType DEF Write
<1>2. "publish" \in Step
    BY DEF Step
<1>3. session' \in Session
    BY <1>2 DEF Write, Session, Types
<1> QED
    BY <1>1, <1>3 DEF Write

LEMMA PublishType ==
    ASSUME Types, NEW w \in session.writer, Publish(w)
    PROVE  slots' \in [Slot -> Generation] /\ manifest' \in SUBSET Entry
<1>1. w \in Writer
    BY DEF Types, Session
<1>2. [records |-> w.records, whole |-> TRUE] \in Generation
    BY <1>1 DEF Writer, Generation
<1>3. [commit |-> w.commit, slot |-> w.slot, previous |-> w.previous,
       retained |-> w.retained] \in Entry
    BY <1>1 DEF Writer, Entry
<1> QED
    BY <1>1, <1>2, <1>3 DEF Publish, Types, Writer

\* The tip of a remote, and the commit of a stage.
LEMMA TipType ==
    ASSUME Types, WorkInv, ~ At({"idle"})
    PROVE  session.remote \in Remote /\ remote[session.remote] \in History
BY DEF Types, WorkInv

LEMMA StagedIs ==
    ASSUME OwnedInv, NEW o \in owner
    PROVE  Staged = o.commit
<1>1. (CHOOSE x \in owner : TRUE) \in owner
    OBVIOUS
<1>2. (CHOOSE x \in owner : TRUE) = o
    BY <1>1 DEF OwnedInv, AtMostOne
<1> QED
    BY <1>2, Zenon DEF Staged

LEMMA StagedType ==
    ASSUME Types, OwnedInv, owner # {}
    PROVE  Staged \in History /\ \E o \in owner : Staged = o.commit
<1>1. PICK o \in owner : TRUE
    OBVIOUS
<1>2. Staged = o.commit
    BY StagedIs
<1>3. o.commit \in History
    BY DEF Types, Owner
<1> QED
    BY <1>2, <1>3

\* A part of the records in path order.
LEMMA ChunkType ==
    ASSUME NEW all, NEW done, NEW part \in Chunk(all, done)
    PROVE  /\ done \subseteq part /\ part \subseteq done \cup all
           /\ \E n \in {0} \cup Record : part = done \cup UpTo(all, n)
BY DEF Chunk, UpTo

LEMMA GreatestElement ==
    ASSUME NEW S, S \subseteq Nat, S # {}, NEW b \in Nat, \A r \in S : r <= b
    PROVE  \E g \in S : \A r \in S : r <= g
<1> DEFINE T == { k \in Nat : \A r \in S : r <= k }
<1>1. T # {} /\ T \subseteq Nat
    OBVIOUS
<1>2. PICK k \in T : \A n \in T : << n, k >> \notin OpToRel(<, Nat)
    BY <1>1, WFMin, NatLessThanWellFounded, Zenon
<1>3. ASSUME NEW n \in T PROVE ~ (n < k)
    <2>1. n \in Nat /\ k \in Nat
        OBVIOUS
    <2> QED
        BY <1>2, <2>1, Zenon DEF OpToRel
<1>4. k \in S
    <2> SUFFICES ASSUME k \notin S PROVE FALSE
        OBVIOUS
    <2>1. \A r \in S : r \in Nat /\ r <= k /\ r # k
        OBVIOUS
    <2>2. k \in Nat /\ k > 0
        <3>1. PICK r \in S : r \in Nat /\ r <= k /\ r # k
            BY <2>1
        <3>2. k \in Nat
            OBVIOUS
        <3> QED
            BY <3>1, <3>2
    <2>3. k - 1 \in T
        BY <2>1, <2>2
    <2> QED
        BY <1>3, <2>2, <2>3
<1> QED
    BY <1>4

\* The next cursor of a retention scan.
LEMMA CursorFacts ==
    ASSUME NEW left \in SUBSET Record, NEW part \in Chunk(left, {}), part # {}
    PROVE  LET last == CHOOSE r \in part : \A q \in part : q <= r
           IN  last \in part /\ last \in Nat /\ \A r \in left : r <= last <=> r \in part
<1>1. PICK n \in {0} \cup Record : part = {} \cup UpTo(left, n)
    BY DEF Chunk
<1>2. n \in Nat /\ left \subseteq Nat
    BY RecordAssumption
<1>3. \A r : r \in part <=> r \in left /\ r <= n
    BY <1>1 DEF UpTo
<1>4. part \subseteq Nat /\ \A r \in part : r <= n
    BY <1>2, <1>3
<1>5. \E g \in part : \A q \in part : q <= g
    BY <1>2, <1>4, GreatestElement
<1> DEFINE last == CHOOSE r \in part : \A q \in part : q <= r
<1>6. last \in part /\ \A q \in part : q <= last
    BY <1>5
<1> HIDE DEF last
<1>7. last \in Nat /\ last <= n
    BY <1>4, <1>6
<1>8. ASSUME NEW r \in left PROVE r <= last <=> r \in part
    <2>1. r \in Nat
        BY <1>2
    <2>2. r <= last => r <= n
        BY <1>2, <1>7, <2>1
    <2> QED
        BY <1>3, <1>6, <2>2
<1> QED
    BY <1>6, <1>7, <1>8 DEF last

LEMMA SameTypes ==
    ASSUME Types, session' \in Session,
           UNCHANGED <<slots, manifest>> \/ (slots' \in [Slot -> Generation] /\ manifest' \in SUBSET Entry),
           UNCHANGED authority \/ (/\ transport' \in [remote : Remote, commit : History]
                                   /\ anchors' \in SUBSET History),
           UNCHANGED stageVars \/ (owner' \in SUBSET Owner /\ pinned' \in BOOLEAN /\ stage' \in Stage),
           UNCHANGED world \/ (/\ remote' \in [Remote -> History]
                               /\ moves' \in 0 .. MaxMoves /\ faults' \in 0 .. MaxFaults)
    PROVE  Types'
BY DEF Types, authority, stageVars, world

LEMMA StartTypes ==
    ASSUME Types, Start
    PROVE  Types'
<1>1. ASSUME NEW mode, StartSync(mode) PROVE Types'
    <2>1. mode \in Mode /\ "tip" \in Step /\ transport.remote \in Remote
        BY <1>1 DEF StartSync, Step, Types
    <2>2. session' = [NoSession EXCEPT !.pc = "tip", !.mode = mode, !.remote = transport.remote]
        BY <1>1 DEF StartSync
    <2>3. session' \in Session
        BY <2>1, <2>2, InitialTypes DEF Session
    <2> QED
        BY <1>1, <2>3, SameTypes DEF StartSync, indexVars
<1>2. ASSUME NEW r \in Remote, StartRebind(r) PROVE Types'
    <2>1. "rebind" \in Mode /\ "tip" \in Step
        BY <1>2 DEF StartRebind, Step
    <2>2. session' = [NoSession EXCEPT !.pc = "tip", !.mode = "rebind", !.remote = r]
        BY <1>2 DEF StartRebind
    <2>3. session' \in Session
        BY <2>1, <2>2, InitialTypes DEF Session
    <2>4. remote[transport.remote] \in History
        BY DEF Types
    <2>5. ASSUME NEW h \in Copies(remote[transport.remote]) PROVE h \in History
        <3> DEFINE H == remote[transport.remote]
        <3>1. CASE \E n \in 1 .. Len(H) : h = SubSeq(H, 1, n)
            BY <2>4, <3>1, PrefixType
        <3>2. CASE \E records \in SUBSET Record : h = Extend(H, records, MetaOf(H))
            <4>1. H \in History /\ MetaOf(H) \in Meta \cup {Foreign, Malformed}
                BY <2>4, HistoryType
            <4> HIDE DEF H
            <4> QED
                BY <3>2, <4>1, ExtendFacts
        <3> QED
            BY <2>5, <3>1, <3>2 DEF Copies
    <2>6. PICK h \in Copies(remote[transport.remote]) : remote' = [remote EXCEPT ![r] = h]
        BY <1>2 DEF StartRebind
    <2>7. remote' \in [Remote -> History]
        BY <2>5, <2>6 DEF Types
    <2>8. moves' \in 0 .. MaxMoves /\ faults' \in 0 .. MaxFaults
        BY <1>2, BoundAssumption DEF StartRebind, Types
    <2> QED
        BY <1>2, <2>3, <2>7, <2>8, SameTypes DEF StartRebind, indexVars
<1> QED
    BY <1>1, <1>2 DEF Start

\* A step that changes the session only.
SessionMoves == UNCHANGED <<indexVars, authority, stageVars, world>>

LEMMA SessionTypes ==
    ASSUME Types, session' \in Session, SessionMoves
    PROVE  Types'
BY SameTypes DEF SessionMoves, indexVars

LEMMA AcceptingTypes ==
    ASSUME Types, StoreInv, OwnedInv, WorkInv, Accepting
    PROVE  Types'
<1>1. CASE Unchanged
    BY <1>1, LeaveType, SessionTypes DEF Unchanged, Types, SessionMoves
<1>2. CASE FetchTip
    <2>1. remote[session.remote] \in History /\ "cache" \in Step
        BY <1>2, TipType DEF FetchTip, At, Step
    <2>2. session' = [session EXCEPT !.pc = "cache", !.fetched = remote[session.remote]] => session' \in Session
        BY <2>1 DEF Types, Session
    <2>3. session' \in Session
        BY <1>2, <2>2, LeaveType DEF FetchTip, Types
    <2> QED
        BY <1>2, <2>3, SessionTypes DEF FetchTip, SessionMoves
<1>3. CASE Install
    <2>1. PICK m \in session.index :
              IF Pinned(transport.commit, Bases)
                THEN Leave /\ UNCHANGED indexVars
                ELSE Write(Claimed(session.candidate, RecordsIn(m) \cup stage.records,
                                   m.commit), "installed")
        BY <1>3 DEF Install
    <2>2. m.commit \in History /\ RecordsIn(m) \in SUBSET Record
        BY DEF Types, Session, Entry, RecordsIn, Generation
    <2>3. session.candidate \in History /\ RecordsIn(m) \cup stage.records \in SUBSET Record
        BY <2>2 DEF Types, Session, Stage
    <2> DEFINE w == Claimed(session.candidate, RecordsIn(m) \cup stage.records, m.commit)
    <2>4. w \in Writer
        BY <2>2, <2>3, ClaimedType
    <2> HIDE DEF w
    <2>5. CASE Leave /\ UNCHANGED indexVars
        BY <1>3, <2>5, LeaveType, SessionTypes DEF Install, Types, SessionMoves
    <2>6. CASE Write(w, "installed")
        BY <1>3, <2>4, <2>6, WriteType, SameTypes DEF Install, Types
    <2> QED
        BY <2>1, <2>5, <2>6 DEF w
<1>4. CASE Load
    <2>1. {"confirm", "rebuild", "create"} \subseteq Step
        BY DEF Step
    <2>2. Loaded(session.fetched) \in SUBSET Entry
        BY VerifiedType
    <2>3. session' \in Session
        BY <1>4, <2>1, <2>2 DEF Load, Types, Session
    <2> QED
        BY <1>4, <2>3, SessionTypes DEF Load, SessionMoves
<1>5. CASE Create
    <2>1. "confirm" \in Step
        BY DEF Step
    <2>2. session.fetched \in History
        BY DEF Types, Session
    <2> DEFINE w == Claimed(session.fetched, RecordsOf(session.fetched), Absent)
    <2>3. w \in Writer
        BY <2>2, HistoryType, ClaimedType, AbsentType
    <2> HIDE DEF w
    <2>4. CASE (Leave \/ Goto("confirm")) /\ UNCHANGED indexVars
        BY <1>5, <2>1, <2>4, LeaveType, GotoType, SessionTypes DEF Create, Types, SessionMoves
    <2>5. CASE /\ Claim(w) /\ UNCHANGED manifest
               /\ session' = [session EXCEPT !.pc = "confirm", !.writer = {w}]
        <3>1. session' \in Session
            BY <2>1, <2>3, <2>5 DEF Types, Session
        <3> QED
            BY <1>5, <2>3, <2>5, <3>1, ClaimType, SameTypes DEF Create, Types
    <2> QED
        BY <1>5, <2>4, <2>5 DEF Create, w
<1>6. CASE Confirm \/ Settle
    <2>1. "anchor" \in Step
        BY DEF Step
    <2>2. session' \in Session
        BY <1>6, <2>1, GotoType, LeaveType DEF Confirm, Settle, Types
    <2> QED
        BY <1>6, <2>2, SessionTypes DEF Confirm, Settle, SessionMoves
<1>7. CASE Anchor
    <2>1. "record" \in Step
        BY DEF Step
    <2>2. session.fetched \in History
        BY DEF Types, Session
    <2>3. session' \in Session /\ anchors' \in SUBSET History
        BY <1>7, <2>1, <2>2, GotoType DEF Anchor, Types
    <2> QED
        BY <1>7, <2>3, SameTypes DEF Anchor, indexVars, Types
<1>8. CASE RecordAccepted
    <2>1. {"promote", "settle"} \subseteq Step
        BY DEF Step
    <2>2. session.fetched \in History /\ session.remote \in Remote
        BY <1>8, TipType DEF Types, Session, RecordAccepted, At
    <2>3. session' \in Session
        BY <1>8, <2>1 DEF RecordAccepted, Types, Session
    <2>4. transport' \in [remote : Remote, commit : History]
        BY <1>8, <2>2 DEF RecordAccepted
    <2> QED
        BY <1>8, <2>3, <2>4, SameTypes DEF RecordAccepted, indexVars, Types
<1>9. CASE Published
    <2>1. {"cache", "unpin"} \subseteq Step
        BY DEF Step
    <2>2. session' \in Session
        BY <1>9, <2>1 DEF Published, Types, Session
    <2>3. slots' \in [Slot -> Generation] /\ manifest' \in SUBSET Entry
        BY <1>9, PublishType DEF Published
    <2>4. stage' \in Stage
        BY <1>9, InitialTypes DEF Published, Types
    <2> QED
        BY <1>9, <2>2, <2>3, <2>4, SameTypes DEF Published, Types
<1>10. CASE Close
    <2>1. session' \in Session /\ remote' \in [Remote -> History]
        BY <1>10, EndType DEF Close
    <2>2. \/ UNCHANGED indexVars
          \/ slots' \in [Slot -> Generation] /\ manifest' \in SUBSET Entry
        BY <1>10, PublishType DEF Close
    <2> QED
        BY <1>10, <2>1, <2>2, SameTypes DEF Close, indexVars, Types
<1> QED
    BY <1>1, <1>2, <1>3, <1>4, <1>5, <1>6, <1>7, <1>8, <1>9, <1>10 DEF Accepting

\* A step of a stage under its owner.
LEMMA StageTypes ==
    ASSUME Types, session' \in Session, stage' \in Stage, StageOnly
    PROVE  Types'
BY SameTypes DEF StageOnly, indexVars, Types

LEMMA NewOwnerType ==
    ASSUME Types, WorkInv, ~ At({"idle"}), NEW commit \in History, NEW base \in History,
           NewOwner(commit, base)
    PROVE  /\ session' \in Session /\ stage' \in Stage /\ pinned' \in BOOLEAN
           /\ owner' \in SUBSET Owner
<1>1. "pin" \in Step
    BY DEF Step
<1>2. session.remote \in Remote
    BY TipType
<1>3. [commit |-> commit, base |-> base, binding |-> session.remote] \in Owner
    BY <1>2 DEF Owner
<1> QED
    BY <1>1, <1>3, InitialTypes, GotoType DEF NewOwner, Types

LEMMA OwningTypes ==
    ASSUME Types, StoreInv, OwnedInv, WorkInv,
           \/ Unpin \/ Disown \/ Unstage \/ Adopt \/ Pin \/ Rebound
           \/ RecoverCandidate \/ Resume \/ Abandon \/ Open \/ Promote
    PROVE  Types'
<1>1. CASE Unpin
    <2>1. "disown" \in Step
        BY DEF Step
    <2>2. session' \in Session
        BY <1>1, <2>1, GotoType, LeaveType DEF Unpin, Types
    <2> QED
        BY <1>1, <2>2, SameTypes DEF Unpin, indexVars, Types
<1>2. CASE Disown
    <2>1. "unstage" \in Step
        BY DEF Step
    <2>2. session' \in Session
        BY <1>2, <2>1, GotoType DEF Disown, Types
    <2> QED
        BY <1>2, <2>2, SameTypes DEF Disown, indexVars, Types
<1>3. CASE Unstage
    <2>1. {"confirm", "close", "cache", "rebuild", "own"} \subseteq Step
        BY DEF Step
    <2>2. Loaded(session.fetched) \in SUBSET Entry
        BY VerifiedType
    <2>3. session.next \in {"rebuild", "own", "promoted", "recovered"}
        BY <1>3 DEF Unstage, WorkInv, At
    <2>4. CASE session.next = "promoted"
        <3>1. session' = [session EXCEPT !.index = Loaded(session.fetched), !.rebuilt = TRUE,
                              !.pc = IF Loaded(session.fetched) # {} THEN "confirm" ELSE "close"]
            BY <1>3, <2>4 DEF Unstage
        <3>2. session' \in Session
            BY <2>1, <2>2, <3>1 DEF Types, Session
        <3> QED
            BY <1>3, <3>2, InitialTypes, SameTypes DEF Unstage, indexVars, Types
    <2>5. CASE session.next = "recovered"
        <3>1. session' = [session EXCEPT !.pc = "cache"]
            BY <1>3, <2>5 DEF Unstage
        <3>2. session' \in Session
            BY <2>1, <3>1 DEF Types, Session
        <3> QED
            BY <1>3, <3>2, InitialTypes, SameTypes DEF Unstage, indexVars, Types
    <2>6. CASE session.next \in {"rebuild", "own"}
        <3>1. session' = [session EXCEPT !.pc = session.next]
            BY <1>3, <2>6 DEF Unstage
        <3>2. session' \in Session
            BY <2>1, <2>6, <3>1 DEF Types, Session
        <3> QED
            BY <1>3, <3>2, InitialTypes, SameTypes DEF Unstage, indexVars, Types
    <2> QED
        BY <2>3, <2>4, <2>5, <2>6
<1>4. CASE Adopt
    <2>1. session.fetched \in History /\ ~ At({"idle"})
        BY <1>4 DEF Types, Session, Adopt, At
    <2> QED
        BY <1>4, <2>1, NewOwnerType, AbsentType, SameTypes DEF Adopt, indexVars, Types
<1>5. CASE Pin
    <2>1. {"open", "offer"} \subseteq Step
        BY DEF Step
    <2>2. session' \in Session
        BY <1>5, <2>1, GotoType DEF Pin, Types
    <2> QED
        BY <1>5, <2>2, SameTypes DEF Pin, indexVars, Types
<1>6. CASE Rebound
    <2>1. "unpin" \in Step
        BY DEF Step
    <2>2. session' \in Session
        BY <1>6, <2>1 DEF Rebound, Types, Session
    <2> QED
        BY <1>6, <2>2, SessionTypes DEF Rebound, SessionMoves
<1>7. CASE RecoverCandidate
    <2>1. PICK o \in owner : Recover(o)
        BY <1>7 DEF RecoverCandidate
    <2>2. o.commit \in History /\ o.base \in History
        BY DEF Types, Owner
    <2> DEFINE w == Claimed(o.commit, RecordsOf(o.commit), o.base)
    <2>3. w \in Writer
        BY <2>2, HistoryType, ClaimedType
    <2> HIDE DEF w
    <2>4. "unpin" \in Step
        BY DEF Step
    <2>5. CASE UNCHANGED indexVars /\ (Leave \/ session' =
                   [session EXCEPT !.pc = "unpin", !.next = "recovered"])
        <3>1. session' \in Session
            BY <2>4, <2>5, LeaveType DEF Types, Session
        <3> QED
            BY <1>7, <2>5, <3>1, SessionTypes DEF RecoverCandidate, SessionMoves
    <2>6. CASE Write(w, "recovered")
        BY <1>7, <2>3, <2>6, WriteType, SameTypes DEF RecoverCandidate, Types
    <2> QED
        BY <2>1, <2>5, <2>6 DEF Recover, w
<1>8. CASE Resume
    <2>1. "open" \in Step
        BY DEF Step
    <2>2. session' \in Session
        BY <1>8, <2>1, GotoType DEF Resume, Types
    <2> QED
        BY <1>8, <2>2, SameTypes DEF Resume, indexVars, Types
<1>9. CASE Abandon
    <2>1. session' \in Session
        BY <1>9 DEF Abandon, Types
    <2> QED
        BY <1>9, <2>1, InitialTypes, SameTypes DEF Abandon, indexVars, Types
<1>10. CASE Open
    <2>1. "work" \in Step
        BY DEF Step
    <2>2. session' \in Session
        BY <1>10, <2>1, GotoType DEF Open, Types
    <2>3. stage' \in Stage
        BY <1>10, InitialTypes DEF Open, Types, Stage
    <2> QED
        BY <1>10, <2>2, <2>3, StageTypes DEF Open, StageOnly
<1>11. CASE Promote
    <2>1. owner # {}
        BY <1>11 DEF Promote, WorkInv, At
    <2>2. Staged \in History
        BY <2>1, StagedType
    <2>3. stage.records \in SUBSET Record /\ stage.retained \in History
        BY DEF Types, Stage
    <2> DEFINE w == Claimed(Staged, stage.records, stage.retained)
    <2>4. w \in Writer
        BY <2>2, <2>3, ClaimedType
    <2> HIDE DEF w
    <2>5. CASE Leave /\ UNCHANGED indexVars
        BY <1>11, <2>5, LeaveType, SessionTypes DEF Promote, Types, SessionMoves
    <2>6. CASE Write(w, "promoted")
        BY <1>11, <2>4, <2>6, WriteType, SameTypes DEF Promote, Types
    <2> QED
        BY <1>11, <2>5, <2>6 DEF Promote, w
<1> QED
    BY <1>1, <1>2, <1>3, <1>4, <1>5, <1>6, <1>7, <1>8, <1>9, <1>10, <1>11

LEMMA WorkingTypes ==
    ASSUME Types, StoreInv, OwnedInv, WorkInv,
           \/ List \/ Copy \/ Read \/ Reduce \/ Count \/ Finish \/ Retain \/ Seal \/ Save
    PROVE  Types'
<1> DEFINE all == RecordsOf(Staged)
<1>a. List => Staged \in History /\ all \in SUBSET Record
    <2>1. List => owner # {}
        BY DEF List, Working, WorkInv, At
    <2> QED
        BY <2>1, StagedType, HistoryType
<1>b. /\ stage.listed \in SUBSET Record /\ stage.records \in SUBSET Record
      /\ stage.counted \in SUBSET Record /\ stage.cursor \in Nat
    BY DEF Types, Stage
<1>1. CASE List
    <2>1. PICK listed \in Chunk(all, stage.listed) :
              /\ stage' = [stage EXCEPT !.listed = listed,
                              !.phase = IF listed = all THEN "blobs" ELSE "tree"]
              /\ Proceed(listed = all)
        BY <1>1 DEF List
    <2>2. listed \in SUBSET Record
        BY <1>1, <1>a, <1>b, ChunkType
    <2>3. stage' \in Stage
        BY <2>1, <2>2 DEF Types, Stage
    <2> QED
        BY <1>1, <2>1, <2>3, ProceedType, StageTypes DEF List
<1>2. CASE Copy
    <2>1. \/ Throw
          \/ \E known : /\ stage' = [stage EXCEPT !.copied = TRUE,
                                        !.records = stage.listed \cap known]
                        /\ Proceed(TRUE)
        BY <1>2 DEF Copy
    <2>2. ASSUME NEW known, stage' = [stage EXCEPT !.copied = TRUE,
                                        !.records = stage.listed \cap known]
          PROVE  stage' \in Stage
        BY <1>b, <2>2 DEF Types, Stage
    <2> QED
        BY <1>2, <2>1, <2>2, ProceedType, ThrowType, StageTypes DEF Copy
<1>3. CASE Read
    <2>1. PICK records \in Chunk(stage.listed, stage.records) :
              /\ stage' = [stage EXCEPT !.records = records,
                              !.phase = IF records = stage.listed THEN "reduce" ELSE "blobs"]
              /\ Proceed(records = stage.listed)
        BY <1>3 DEF Read
    <2>2. records \in SUBSET Record
        BY <1>b, ChunkType
    <2>3. stage' \in Stage
        BY <2>1, <2>2 DEF Types, Stage
    <2> QED
        BY <1>3, <2>1, <2>3, ProceedType, StageTypes DEF Read
<1>4. CASE Reduce
    <2>1. \/ stage' = [stage EXCEPT !.started = TRUE]
          \/ /\ Verified # {}
             /\ stage' = [stage EXCEPT !.started = TRUE, !.counted = stage.records,
                             !.retained = (CHOOSE m \in Verified : TRUE).commit]
        BY <1>4 DEF Reduce
    <2>2. Verified # {} => (CHOOSE m \in Verified : TRUE).commit \in History
        BY VerifiedType
    <2>3. stage' \in Stage
        BY <1>b, <2>1, <2>2 DEF Types, Stage
    <2> QED
        BY <1>4, <2>3, ProceedType, StageTypes DEF Reduce
<1>5. CASE Count
    <2>1. PICK counted \in Chunk(stage.records, stage.counted) :
              /\ stage' = [stage EXCEPT !.counted = counted,
                              !.phase = IF counted = stage.records THEN "finish" ELSE "reduce"]
              /\ Proceed(counted = stage.records)
        BY <1>5 DEF Count
    <2>2. counted \in SUBSET Record
        BY <1>b, ChunkType
    <2>3. stage' \in Stage
        BY <2>1, <2>2 DEF Types, Stage
    <2> QED
        BY <1>5, <2>1, <2>3, ProceedType, StageTypes DEF Count
<1>6. CASE Finish
    <2>1. [stage EXCEPT !.phase = "retention"] \in Stage
        BY DEF Types, Stage
    <2> QED
        BY <1>6, <2>1, ProceedType, ThrowType, StageTypes DEF Finish
<1>7. CASE Retain
    <2>1. transport.commit \in History /\ "save" \in Step
        BY DEF Types, Step
    <2>2. CASE Throw
        BY <1>7, <2>2, ThrowType, StageTypes DEF Retain
    <2>3. CASE stage' = Rescan(transport.commit) /\ UNCHANGED session
        <3>1. stage' \in Stage /\ session' \in Session
            BY <2>1, <2>3 DEF Rescan, Types, Stage
        <3> QED
            BY <1>7, <3>1, StageTypes DEF Retain
    <2> DEFINE left == {r \in RecordsOf(transport.commit) : r > stage.cursor}
    <2>4. ASSUME NEW part \in Chunk(left, {}),
                 /\ stage' = [stage EXCEPT
                       !.cursor = IF part = {} THEN @ ELSE
                           CHOOSE r \in part : \A q \in part : q <= r,
                       !.retained = IF part = left THEN transport.commit ELSE @]
                 /\ IF part = left THEN UNCHANGED session ELSE Goto("save")
          PROVE  Types'
        <3>1. left \in SUBSET Record
            BY <2>1, HistoryType
        <3> DEFINE last == CHOOSE r \in part : \A q \in part : q <= r
        <3> HIDE DEF left
        <3>2. part # {} => last \in Nat
            BY <3>1, CursorFacts
        <3> HIDE DEF last
        <3>3. stage' = [stage EXCEPT !.cursor = IF part = {} THEN @ ELSE last,
                                     !.retained = IF part = left THEN transport.commit ELSE @]
            BY <2>4 DEF last
        <3>4. stage' \in Stage
            BY <1>b, <2>1, <3>2, <3>3 DEF Types, Stage
        <3>5. session' \in Session
            BY <2>1, <2>4, GotoType DEF Types
        <3> QED
            BY <1>7, <3>4, <3>5, StageTypes DEF Retain
    <2> QED
        BY <1>7, <2>2, <2>3, <2>4 DEF Retain
<1>8. CASE Seal
    <2>1. {"confirm", "promote"} \subseteq Step
        BY DEF Step
    <2>2. session' \in Session
        BY <1>8, <2>1 DEF Seal, Types, Session
    <2>3. stage' \in Stage
        BY <1>8 DEF Seal, Types, Stage
    <2> QED
        BY <1>8, <2>2, <2>3, StageTypes DEF Seal
<1>9. CASE Save
    <2>1. stage' \in Stage
        BY <1>9 DEF Save, Types, Stage
    <2> QED
        BY <1>9, <2>1, LeaveType, StageTypes DEF Save, Types
<1> QED
    BY <1>1, <1>2, <1>3, <1>4, <1>5, <1>6, <1>7, <1>8, <1>9

LEMMA CandidateType ==
    ASSUME Types, NEW m \in session.index, NEW r \in Outgoing
    PROVE  /\ m \in Entry /\ RecordsIn(m) \cup {r} \in SUBSET Record
           /\ Extend(m.commit, RecordsIn(m) \cup {r}, MetaOf(m.commit)) \in History
<1>1. m \in Entry
    BY DEF Types, Session
<1>2. m.commit \in History /\ RecordsIn(m) \cup {r} \in SUBSET Record
    BY <1>1, OutgoingAssumption DEF Entry, Types, Generation, RecordsIn
<1>3. MetaOf(m.commit) \in Meta \cup {Foreign, Malformed}
    BY <1>2, HistoryType
<1> QED
    BY <1>1, <1>2, <1>3, ExtendFacts

LEMMA PublishingTypes ==
    ASSUME Types, StoreInv, OwnedInv, WorkInv, Publishing
    PROVE  Types'
<1>1. CASE Extension
    <2>1. PICK m \in session.index : \E r \in Outgoing \ RecordsIn(m) :
              session' = [session EXCEPT !.next = "own",
                !.candidate = Extend(m.commit, RecordsIn(m) \cup {r}, MetaOf(m.commit)),
                !.pc = IF owner = {} THEN "unstage" ELSE "unpin"]
        BY <1>1 DEF Extension
    <2>2. PICK r \in Outgoing \ RecordsIn(m) :
              session' = [session EXCEPT !.next = "own",
                !.candidate = Extend(m.commit, RecordsIn(m) \cup {r}, MetaOf(m.commit)),
                !.pc = IF owner = {} THEN "unstage" ELSE "unpin"]
        BY <2>1
    <2>3. {"unstage", "unpin"} \subseteq Step
        BY DEF Step
    <2>4. Extend(m.commit, RecordsIn(m) \cup {r}, MetaOf(m.commit)) \in History
        BY CandidateType
    <2>5. session' \in Session
        BY <2>2, <2>3, <2>4 DEF Types, Session
    <2> QED
        BY <1>1, <2>5, SessionTypes DEF Extension, SessionMoves
<1>2. CASE Own
    <2>1. PICK m \in session.index : NewOwner(session.candidate, m.commit)
        BY <1>2 DEF Own
    <2>2. session.candidate \in History /\ m.commit \in History /\ ~ At({"idle"})
        BY <1>2 DEF Types, Session, Entry, Own, At
    <2> QED
        BY <1>2, <2>1, <2>2, NewOwnerType, SameTypes DEF Own, indexVars, Types
<1>3. CASE Offer
    <2>1. PICK m \in session.index :
          stage' = [NoStage EXCEPT !.phase = "candidate", !.sealed = TRUE,
                      !.records = RecordsOf(session.candidate) \ RecordsIn(m)]
        BY <1>3 DEF Offer
    <2>2. RecordsOf(session.candidate) \in SUBSET Record
        BY HistoryType DEF Types, Session
    <2>3. stage' \in Stage
        BY <2>1, <2>2, InitialTypes DEF Stage
    <2>4. "push" \in Step
        BY DEF Step
    <2> QED
        BY <1>3, <2>3, <2>4, GotoType, StageTypes DEF Offer, Types
<1>4. CASE Push
    <2>1. "tip" \in Step
        BY DEF Step
    <2>2. session' \in Session
        BY <1>4, <2>1, GotoType DEF Push, Types
    <2>3. PICK o \in owner : \/ UNCHANGED remote
                             \/ remote' = [remote EXCEPT ![session.remote] = o.commit]
        BY <1>4 DEF Push
    <2>4. o.commit \in History
        BY DEF Types, Owner
    <2>5. remote' \in [Remote -> History]
        BY <2>3, <2>4 DEF Types
    <2> QED
        BY <1>4, <2>2, <2>5, SameTypes DEF Push, indexVars, Types
<1> QED
    BY <1>1, <1>2, <1>3, <1>4 DEF Publishing

LEMMA FaultTypes ==
    ASSUME Types, Expire \/ Crash \/ Damage
    PROVE  Types'
<1>1. faults' \in 0 .. MaxFaults
    BY BoundAssumption DEF Expire, Crash, Damage, Types
<1>2. CASE Expire
    <2>1. stage' \in Stage /\ session' \in Session
        BY <1>2, InitialTypes, LeaveType DEF Expire, Types
    <2> QED
        BY <1>1, <1>2, <2>1, SameTypes DEF Expire, indexVars, Types
<1>3. CASE Crash
    <2>1. stage' \in Stage /\ session' \in Session /\ remote' \in [Remote -> History]
        BY <1>3, InitialTypes, EndType DEF Crash, Types
    <2> QED
        BY <1>1, <1>3, <2>1, SameTypes DEF Crash, indexVars, Types
<1>4. CASE Damage
    <2>1. stage' \in Stage /\ pinned' \in BOOLEAN /\ session' \in Session /\ manifest' = manifest
        BY <1>4, InitialTypes DEF Damage, Types
    <2>2. slots' \in [Slot -> Generation]
        <3>1. CASE UNCHANGED slots
            BY <3>1 DEF Types
        <3>2. ASSUME NEW m \in manifest, slots' = [slots EXCEPT ![m.slot].whole = FALSE]
              PROVE  slots' \in [Slot -> Generation]
            <4>1. [slots[m.slot] EXCEPT !.whole = FALSE] \in Generation
                BY DEF Types, Entry, Generation
            <4> QED
                BY <3>2, <4>1 DEF Types
        <3> QED
            BY <1>4, <3>1, <3>2 DEF Damage
    <2> QED
        BY <1>1, <1>4, <2>1, <2>2, SameTypes DEF Damage, indexVars, Types
<1> QED
    BY <1>2, <1>3, <1>4

LEMMA WorldTypes ==
    ASSUME Types, NEW r \in Remote, Advance(r) \/ Tamper(r)
    PROVE  Types'
<1> DEFINE h == remote[r]
<1>1. h \in History /\ MetaOf(h) \in Meta \cup {Foreign, Malformed} /\ RecordsOf(h) \in SUBSET Record
      /\ Len(h) \in Nat
    BY HistoryType DEF Types
<1>2. PICK new \in History \cup {Absent} : remote' = [remote EXCEPT ![r] = new]
    <2>1. CASE Advance(r)
        <3>1. PICK records \in SUBSET Record, meta \in Meta :
                  remote' = [remote EXCEPT ![r] = Extend(h, records, meta)]
            BY <2>1 DEF Advance
        <3> HIDE DEF h
        <3> QED
            BY <1>1, <3>1, ExtendFacts
    <2>2. CASE Tamper(r)
        <3>1. PICK new \in Tampered(h) : new # Absent /\ remote' = [remote EXCEPT ![r] = new]
            BY <2>2 DEF Tamper
        <3> HIDE DEF h
        <3>2. CASE \E kept \in SUBSET RecordsOf(h) : new = Extend(h, kept, MetaOf(h))
            BY <1>1, <3>1, <3>2, ExtendFacts
        <3>3. CASE new = Extend(h, RecordsOf(h), Malformed)
            BY <1>1, <3>1, <3>3, ExtendFacts
        <3>4. CASE new = SubSeq(h, 1, Len(h) - 1)
            <4>1. h \in Seq(Snapshot)
                BY <1>1 DEF History
            <4>2. CASE Len(h) = 0
                <5>1. Len(new) = 0
                    BY <3>4, <4>1, <4>2
                <5> QED
                    BY <3>1, <3>4, <4>1, <4>2, <5>1 DEF Absent
            <4>3. CASE Len(h) > 0
                <5>1. 1 \in 1 .. Len(h) + 1 /\ Len(h) - 1 \in 1 - 1 .. Len(h)
                    BY <1>1, <4>3
                <5>2. SubSeq(h, 1, Len(h) - 1) \in Seq(Snapshot)
                    BY <4>1, <5>1, SubSeqProperties
                <5> QED
                    BY <3>1, <3>4, <5>2 DEF History
            <4> QED
                BY <1>1, <4>2, <4>3
        <3> QED
            BY <3>1, <3>2, <3>3, <3>4 DEF Tampered
    <2> QED
        BY <2>1, <2>2
<1>3. remote' \in [Remote -> History]
    BY <1>2, AbsentType DEF Types
<1>4. moves' \in 0 .. MaxMoves /\ faults' \in 0 .. MaxFaults
    BY BoundAssumption DEF Advance, Tamper, Types
<1>5. session' \in Session
    BY DEF Advance, Tamper, Types
<1> QED
    BY <1>3, <1>4, <1>5, SameTypes DEF Advance, Tamper, indexVars

LEMMA TypeStep ==
    ASSUME AcceptedInv, [Next]_vars
    PROVE  Types'
<1>1. Types /\ StoreInv /\ OwnedInv /\ WorkInv
    BY DEF AcceptedInv, SessionInv
<1>2. CASE UNCHANGED vars
    BY <1>1, <1>2 DEF vars, Types
<1> QED
    BY <1>1, <1>2, StartTypes, AcceptingTypes, OwningTypes, WorkingTypes, PublishingTypes,
       FaultTypes, WorldTypes DEF Next, Work, World, Rebuilding

-----------------------------------------------------------------------------
(* The slots *)

\* A step on the session alone.
LEMMA GotoFacts ==
    ASSUME session \in Session, NEW step, Goto(step)
    PROVE  /\ session'.pc = step
           /\ session'.index = session.index /\ session'.writer = session.writer
           /\ session'.fetched = session.fetched /\ session'.candidate = session.candidate
           /\ session'.mode = session.mode /\ session'.remote = session.remote
           /\ session'.staged = session.staged /\ session'.next = session.next
BY DEF Goto, Session

LEMMA WriteFacts ==
    ASSUME session \in Session, NEW w, NEW next, Write(w, next)
    PROVE  /\ session'.pc = "publish" /\ session'.next = next
           /\ session'.index = session.index /\ session'.writer = {w}
           /\ session'.fetched = session.fetched /\ session'.candidate = session.candidate
           /\ session'.mode = session.mode /\ session'.remote = session.remote
           /\ session'.staged = session.staged
           /\ Claim(w) /\ UNCHANGED manifest
BY DEF Write, Session

LEMMA SameIndex ==
    ASSUME UNCHANGED indexVars
    PROVE  /\ Verified' = Verified
           /\ \A c : Loaded(c)' = Loaded(c)
           /\ \A m : RecordsIn(m)' = RecordsIn(m)
BY DEF indexVars, Verified, Loaded, RecordsIn

\* A replacement is written beside the generation in use.
LEMMA ClaimFacts ==
    ASSUME Types, AtMostOne(manifest), NEW w \in Writer, w.slot = InactiveSlot,
           Claim(w), UNCHANGED manifest
    PROVE  /\ Verified' = Verified
           /\ \A m \in Verified : m.slot # w.slot /\ RecordsIn(m)' = RecordsIn(m)
           /\ ~ slots'[w.slot].whole
           /\ \A s \in Slot \ {w.slot} : slots'[s] = slots[s]
<1>1. w.slot \in Slot
    BY DEF Writer
<1>2. \A s \in Slot : slots'[s] = IF s = w.slot THEN NoGeneration ELSE slots[s]
    BY DEF Claim, Types
<1>3. ~ NoGeneration.whole
    BY DEF NoGeneration
<1>4. ASSUME NEW m \in Verified PROVE m.slot # w.slot
    <2>1. m.slot \in Slot /\ \A x \in Verified : x = m
        BY VerifiedType DEF AtMostOne, Verified
    <2> QED
        BY <2>1 DEF InactiveSlot, Slot
<1>5. \A m \in manifest : m.slot \in Slot
    BY DEF Types, Entry
<1>6. Verified' = Verified
    BY <1>1, <1>2, <1>3, <1>4, <1>5 DEF Verified
<1>7. \A m \in Verified : RecordsIn(m)' = RecordsIn(m)
    BY <1>2, <1>4, <1>5 DEF RecordsIn, Verified
<1> QED
    BY <1>1, <1>2, <1>3, <1>4, <1>6, <1>7

LEMMA PublishFacts ==
    ASSUME Types, NEW w \in session.writer, Faithful(w), Publish(w)
    PROVE  StoreInv' /\ Verified' # {}
<1>1. w \in Writer
    BY DEF Types, Session
<1> DEFINE m == [commit |-> w.commit, slot |-> w.slot, previous |-> w.previous,
                 retained |-> w.retained]
<1>2. /\ m.commit = w.commit /\ m.slot = w.slot /\ m.retained = w.retained
      /\ manifest' = {m}
    BY DEF Publish
<1> HIDE DEF m
<1>3. slots'[w.slot] = [records |-> w.records, whole |-> TRUE]
    BY <1>1 DEF Publish, Types, Writer
<1>4. Verified' = {m} /\ RecordsIn(m)' = w.records
    BY <1>2, <1>3 DEF Verified, RecordsIn
<1> QED
    BY <1>2, <1>4 DEF StoreInv, AtMostOne, Faithful

\* What a session may do to the slots.
Claims ==
    \E w \in Writer :
        /\ Faithful(w) /\ w.slot = InactiveSlot
        /\ Claim(w) /\ UNCHANGED manifest /\ session'.writer = {w}
        /\ ~ Pinned(transport.commit, Bases)

Aside == UNCHANGED indexVars /\ session'.writer \in {session.writer, {}}

LEMMA ClaimedFacts ==
    ASSUME NEW commit, NEW records, NEW retained
    PROVE  LET w == Claimed(commit, records, retained)
           IN  /\ w.commit = commit /\ w.records = records /\ w.retained = retained
               /\ w.slot = InactiveSlot
BY DEF Claimed

LEMMA InstallClaims ==
    ASSUME AcceptedInv, Install
    PROVE  Aside \/ Claims
<1>1. PICK m \in session.index :
          IF Pinned(transport.commit, Bases)
            THEN Leave /\ UNCHANGED indexVars
            ELSE Write(Claimed(session.candidate, RecordsIn(m) \cup stage.records,
                               m.commit), "installed")
    BY DEF Install
<1>2. session \in Session /\ session.pc = "cache"
    BY DEF Install, AcceptedInv, Types
<1>3. CASE Pinned(transport.commit, Bases)
    BY <1>1, <1>2, <1>3, GotoFacts DEF Leave, Aside
<1>4. CASE ~ Pinned(transport.commit, Bases)
    <2> DEFINE w == Claimed(session.candidate, RecordsIn(m) \cup stage.records, m.commit)
    <2>1. Write(w, "installed")
        BY <1>1, <1>4
    <2>2. /\ m \in Verified /\ Valid(session.candidate)
          /\ RecordsIn(m) \subseteq RecordsOf(session.candidate)
          /\ stage.records = RecordsOf(session.candidate) \ RecordsIn(m)
          /\ RecordsOf(m.commit) = RecordsIn(m)
        BY <1>2 DEF AcceptedInv, SessionInv, IndexInv, At, Follows, StoreInv
    <2>a. session.candidate \in History
        BY <1>2 DEF Session
    <2>b. m.commit \in History
        BY <2>2, VerifiedType DEF AcceptedInv
    <2>3. RecordsOf(session.candidate) \in SUBSET Record
        BY <2>a, HistoryType
    <2>4. RecordsIn(m) \cup stage.records = RecordsOf(session.candidate)
        BY <2>2
    <2>5. w \in Writer
        BY <2>a, <2>b, <2>3, <2>4, ClaimedType DEF AcceptedInv
    <2>c. /\ w.commit = session.candidate /\ w.records = RecordsIn(m) \cup stage.records
          /\ w.retained = m.commit /\ w.slot = InactiveSlot
        BY ClaimedFacts
    <2> HIDE DEF w
    <2>6. w.records = RecordsOf(session.candidate)
        BY <2>4, <2>c
    <2>7. Faithful(w)
        BY <2>2, <2>6, <2>c DEF Faithful
    <2> QED
        BY <1>2, <1>4, <2>1, <2>5, <2>c, <2>7, WriteFacts DEF Claims
<1> QED
    BY <1>3, <1>4

LEMMA CreateClaims ==
    ASSUME AcceptedInv, Create
    PROVE  Aside \/ Claims
<1>1. session \in Session /\ session.fetched \in History
    BY DEF AcceptedInv, Types, Session
<1> DEFINE w == Claimed(session.fetched, RecordsOf(session.fetched), Absent)
<1>2. w \in Writer
    BY <1>1, HistoryType, AbsentType, ClaimedType DEF AcceptedInv
<1>3. /\ w.commit = session.fetched /\ w.records = RecordsOf(session.fetched)
      /\ w.retained = Absent /\ w.slot = InactiveSlot
    BY ClaimedFacts
<1>4. CASE (Leave \/ Goto("confirm")) /\ UNCHANGED indexVars
    BY <1>1, <1>4, GotoFacts DEF Leave, Aside
<1> HIDE DEF w
<1>5. CASE /\ Valid(session.fetched) /\ ~ Pinned(transport.commit, Bases) /\ Claim(w)
           /\ session' = [session EXCEPT !.pc = "confirm", !.writer = {w}]
           /\ UNCHANGED manifest
    <2>1. Faithful(w)
        BY <1>3, <1>5 DEF Faithful, RecordsOf
    <2>2. session'.writer = {w}
        BY <1>1, <1>5 DEF Session
    <2> QED
        BY <1>2, <1>3, <1>5, <2>1, <2>2 DEF Claims
<1> QED
    BY <1>4, <1>5 DEF Create, w, Aside

LEMMA RecoverClaims ==
    ASSUME AcceptedInv, RecoverCandidate
    PROVE  Aside \/ Claims
<1>1. PICK o \in owner : o.base # Absent /\ Recover(o)
    BY DEF RecoverCandidate
<1>2. session \in Session /\ o.commit \in History /\ o.base \in History
    BY DEF AcceptedInv, Types, Owner
<1>3. Valid(o.commit) /\ RecordsOf(o.base) \subseteq RecordsOf(o.commit)
    BY <1>1 DEF AcceptedInv, OwnedInv
<1> DEFINE w == Claimed(o.commit, RecordsOf(o.commit), o.base)
<1>4. w \in Writer
    BY <1>2, HistoryType, ClaimedType DEF AcceptedInv
<1>5. /\ w.commit = o.commit /\ w.records = RecordsOf(o.commit)
      /\ w.retained = o.base /\ w.slot = InactiveSlot
    BY ClaimedFacts
<1> HIDE DEF w
<1>6. \/ UNCHANGED indexVars /\ (Leave \/ session' =
                   [session EXCEPT !.pc = "unpin", !.next = "recovered"])
      \/ ~ Pinned(transport.commit, Bases) /\ Write(w, "recovered")
    BY <1>1 DEF Recover, w
<1>7. CASE UNCHANGED indexVars /\ (Leave \/ session' =
                   [session EXCEPT !.pc = "unpin", !.next = "recovered"])
    <2>1. session'.writer = session.writer
        BY <1>2, <1>7, GotoFacts DEF Leave, Session
    <2> QED
        BY <1>7, <2>1 DEF Aside
<1>8. CASE ~ Pinned(transport.commit, Bases) /\ Write(w, "recovered")
    <2>1. Faithful(w)
        BY <1>3, <1>5 DEF Faithful
    <2> QED
        BY <1>2, <1>4, <1>5, <1>8, <2>1, WriteFacts DEF Claims
<1> QED
    BY <1>6, <1>7, <1>8

LEMMA PromoteClaims ==
    ASSUME AcceptedInv, Promote
    PROVE  Aside \/ Claims
<1>1. session \in Session /\ owner # {} /\ stage.phase = "retention"
    BY DEF AcceptedInv, Types, Promote, SessionInv, WorkInv, At
<1>2. PICK o \in owner : Staged = o.commit
    BY <1>1, StagedType DEF AcceptedInv
<1>3. Staged \in History /\ stage.records \in SUBSET Record /\ stage.retained \in History
    BY <1>1, StagedType DEF AcceptedInv, Types, Stage
<1>4. /\ Valid(Staged) /\ stage.records = RecordsOf(Staged)
      /\ RecordsOf(stage.retained) \subseteq RecordsOf(Staged)
    BY <1>1, <1>2 DEF AcceptedInv, OwnedInv, StageOf, Listed
<1> DEFINE w == Claimed(Staged, stage.records, stage.retained)
<1>5. w \in Writer
    BY <1>3, ClaimedType DEF AcceptedInv
<1>6. /\ w.commit = Staged /\ w.records = stage.records
      /\ w.retained = stage.retained /\ w.slot = InactiveSlot
    BY ClaimedFacts
<1> HIDE DEF w
<1>7. Faithful(w)
    BY <1>4, <1>6 DEF Faithful
<1>8. CASE Leave /\ UNCHANGED indexVars
    BY <1>1, <1>8, GotoFacts DEF Leave, Aside
<1>9. CASE ~ Pinned(transport.commit, Bases) /\ Write(w, "promoted")
    BY <1>1, <1>5, <1>6, <1>7, <1>9, WriteFacts DEF Claims
<1> QED
    BY <1>8, <1>9 DEF Promote, w

LEMMA IndexMoves ==
    ASSUME AcceptedInv, [Next]_vars
    PROVE  \/ Aside \/ Damage
           \/ Claims /\ UNCHANGED <<transport, faults>>
           \/ /\ \E w \in session.writer : Publish(w)
              /\ session'.writer = {} /\ session'.index = {}
              /\ UNCHANGED <<transport, faults>>
<1>1. session \in Session
    BY DEF AcceptedInv, Types
<1>2. CASE UNCHANGED vars
    BY <1>2 DEF vars, Aside, indexVars
<1>3. CASE Start
    <2>1. UNCHANGED indexVars
        BY <1>3 DEF Start, StartSync, StartRebind
    <2>2. session'.writer = {}
        BY <1>3, InitialTypes DEF Start, StartSync, StartRebind, NoSession
    <2> QED
        BY <2>1, <2>2 DEF Aside
<1>4. CASE Unchanged \/ FetchTip \/ Load \/ Confirm \/ Anchor \/ RecordAccepted \/ Settle
    <2>1. UNCHANGED indexVars
        BY <1>4 DEF Unchanged, FetchTip, Load, Confirm, Anchor, RecordAccepted, Settle
    <2>2. session'.writer = session.writer
        BY <1>1, <1>4 DEF Unchanged, FetchTip, Load, Confirm, Anchor, RecordAccepted, Settle,
                          Goto, Leave, Session
    <2> QED
        BY <2>1, <2>2 DEF Aside
<1>5. CASE Install \/ Create \/ RecoverCandidate \/ Promote
    BY <1>5, InstallClaims, CreateClaims, RecoverClaims, PromoteClaims
    DEF Install, Create, RecoverCandidate, Promote, authority, world
<1>6. CASE Published
    <2>1. session'.writer = {} /\ session'.index = {}
        BY <1>1, <1>6 DEF Published, Session
    <2> QED
        BY <1>6, <2>1 DEF Published, authority, world
<1>7. CASE Close
    <2>1. session'.writer = {} /\ session'.index = {}
        BY <1>7 DEF Close, End, NoSession
    <2> QED
        BY <1>7, <2>1 DEF Close, authority, Aside
<1>8. CASE Unpin \/ Disown \/ Adopt \/ Pin \/ Rebound \/ Resume \/ Abandon \/ Open
    <2>1. UNCHANGED indexVars
        BY <1>8 DEF Unpin, Disown, Adopt, Pin, Rebound, Resume, Abandon, Open
    <2>2. session'.writer = session.writer
        BY <1>1, <1>8 DEF Unpin, Disown, Adopt, Pin, Rebound, Resume, Abandon, Open,
                          NewOwner, Goto, Leave, Session
    <2> QED
        BY <2>1, <2>2 DEF Aside
<1>9. CASE Unstage
    <2>1. session'.writer = session.writer
        BY <1>1, <1>9 DEF Unstage, Session
    <2> QED
        BY <1>9, <2>1 DEF Aside, Unstage
<1>10. CASE List \/ Copy \/ Read \/ Reduce \/ Count \/ Finish \/ Retain \/ Seal \/ Save
    <2>1. UNCHANGED indexVars
        BY <1>10 DEF List, Copy, Read, Reduce, Count, Finish, Retain, Seal, Save, StageOnly
    <2>2. \/ UNCHANGED session \/ Leave \/ Goto("save")
          \/ session' = [session EXCEPT !.pc = "confirm", !.staged = TRUE]
          \/ session' = [session EXCEPT !.pc = "promote"]
        BY <1>10 DEF List, Copy, Read, Reduce, Count, Finish, Retain, Seal, Save, Proceed, Throw
    <2>3. session'.writer = session.writer
        BY <1>1, <2>2, GotoFacts DEF Leave, Session
    <2> QED
        BY <2>1, <2>3 DEF Aside
<1>11. CASE Publishing
    <2>1. UNCHANGED indexVars
        BY <1>11 DEF Publishing, Extension, Own, Offer, Push, StageOnly
    <2>2. session'.writer = session.writer
        BY <1>1, <1>11 DEF Publishing, Extension, Own, Offer, Push, NewOwner, Goto, Session
    <2> QED
        BY <2>1, <2>2 DEF Aside
<1>12. CASE Expire \/ Crash
    <2>1. UNCHANGED indexVars
        BY <1>12 DEF Expire, Crash
    <2>2. session'.writer \in {session.writer, {}}
        BY <1>1, <1>12, GotoFacts DEF Expire, Crash, Leave, End, NoSession
    <2> QED
        BY <2>1, <2>2 DEF Aside
<1>13. CASE World
    BY <1>13 DEF World, Advance, Tamper, Aside
<1> QED
    BY <1>2, <1>3, <1>4, <1>5, <1>6, <1>7, <1>8, <1>9, <1>10, <1>11, <1>12, <1>13
    DEF Next, Work, Accepting, Rebuilding

LEMMA StoreStep ==
    ASSUME AcceptedInv, [Next]_vars
    PROVE  StoreInv' /\ WriterInv'
<1>1. Types /\ StoreInv /\ WriterInv
    BY DEF AcceptedInv
<1>2. CASE Aside
    <2>1. StoreInv'
        BY <1>1, <1>2, SameIndex DEF StoreInv, Aside, indexVars
    <2>2. WriterInv'
        BY <1>1, <1>2 DEF WriterInv, Aside, indexVars
    <2> QED
        BY <2>1, <2>2
<1>3. CASE Claims
    <2>1. PICK w \in Writer :
              /\ Faithful(w) /\ w.slot = InactiveSlot
              /\ Claim(w) /\ UNCHANGED manifest /\ session'.writer = {w}
        BY <1>3 DEF Claims
    <2>2. /\ Verified' = Verified /\ ~ slots'[w.slot].whole
          /\ \A m \in Verified : RecordsIn(m)' = RecordsIn(m)
        BY <1>1, <2>1, ClaimFacts DEF StoreInv
    <2>3. StoreInv'
        BY <1>1, <2>1, <2>2 DEF StoreInv
    <2>4. WriterInv'
        BY <2>1, <2>2 DEF WriterInv
    <2> QED
        BY <2>3, <2>4
<1>4. CASE (\E w \in session.writer : Publish(w)) /\ session'.writer = {}
    <2>1. StoreInv'
        BY <1>1, <1>4, PublishFacts DEF WriterInv
    <2>2. WriterInv'
        BY <1>4 DEF WriterInv
    <2> QED
        BY <2>1, <2>2
<1>5. CASE Damage
    <2>1. manifest' = manifest /\ session' = session
        BY <1>5 DEF Damage
    <2>2. \A s \in Slot : /\ slots'[s].records = slots[s].records
                          /\ slots'[s].whole => slots[s].whole
        <3>1. CASE UNCHANGED slots
            BY <3>1
        <3>2. ASSUME NEW m \in manifest, slots' = [slots EXCEPT ![m.slot].whole = FALSE]
              PROVE  \A s \in Slot : /\ slots'[s].records = slots[s].records
                                     /\ slots'[s].whole => slots[s].whole
            BY <1>1, <3>2 DEF Types, Generation
        <3> QED
            BY <1>5, <3>1, <3>2 DEF Damage
    <2>3. \A m \in manifest : m.slot \in Slot
        BY <1>1 DEF Types, Entry
    <2>4. Verified' \subseteq Verified /\ \A m \in Verified : RecordsIn(m)' = RecordsIn(m)
        BY <2>1, <2>2, <2>3 DEF Verified, RecordsIn
    <2>5. StoreInv'
        BY <1>1, <2>1, <2>4 DEF StoreInv
    <2>6. \A w \in session.writer : w.slot \in Slot
        BY <1>1 DEF Types, Session, Writer
    <2>7. WriterInv'
        BY <1>1, <2>1, <2>2, <2>6 DEF WriterInv
    <2> QED
        BY <2>5, <2>7
<1> QED
    BY <1>2, <1>3, <1>4, <1>5, IndexMoves

-----------------------------------------------------------------------------
(* The stage and its owner *)

LEMMA EmptyStage ==
    ASSUME NEW o, stage' = NoStage
    PROVE  StageOf(o)'
BY DEF StageOf, NoStage, Listed, RecordsOf, Absent

LEMMA OwnedSame ==
    ASSUME OwnedInv, UNCHANGED owner, UNCHANGED stage \/ stage' = NoStage
    PROVE  OwnedInv'
<1>1. CASE UNCHANGED stage
    BY <1>1 DEF OwnedInv, StageOf
<1>2. CASE stage' = NoStage
    BY <1>2, EmptyStage DEF OwnedInv
<1> QED
    BY <1>1, <1>2

LEMMA OwnedNone ==
    ASSUME owner' = {}
    PROVE  OwnedInv'
BY DEF OwnedInv, AtMostOne

LEMMA OwnedNew ==
    ASSUME NEW commit, NEW base, NewOwner(commit, base),
           base # Absent => Valid(commit) /\ RecordsOf(base) \subseteq RecordsOf(commit)
    PROVE  OwnedInv'
<1>1. PICK o : o.commit = commit /\ o.base = base /\ owner' = {o}
    BY DEF NewOwner
<1>2. StageOf(o)'
    BY EmptyStage DEF NewOwner
<1> QED
    BY <1>1, <1>2 DEF OwnedInv, AtMostOne

\* There is one owner: only what the stage says of its commit can change.
LEMMA OwnedStep ==
    ASSUME OwnedInv, NEW o \in owner, UNCHANGED owner, StageOf(o)'
    PROVE  OwnedInv'
BY DEF OwnedInv, AtMostOne

\* The phases of a call.
LEMMA ListStep ==
    ASSUME AcceptedInv, NEW o \in owner, Staged = o.commit, o.base = Absent, List
    PROVE  StageOf(o)'
<1> DEFINE all == RecordsOf(o.commit)
<1>1. PICK listed \in Chunk(all, stage.listed) :
          stage' = [stage EXCEPT !.listed = listed,
                       !.phase = IF listed = all THEN "blobs" ELSE "tree"]
    BY DEF List
<1>2. stage.listed \subseteq listed /\ listed \subseteq stage.listed \cup all
    BY ChunkType
<1>3. stage \in Stage /\ StageOf(o) /\ stage.phase = "tree"
    BY DEF List, Working, AcceptedInv, Types, OwnedInv
<1> HIDE DEF all
<1>4. /\ stage'.listed = listed /\ stage'.records = stage.records
      /\ stage'.anchor = stage.anchor /\ stage'.cursor = stage.cursor
      /\ stage'.retained = stage.retained
      /\ stage'.phase = IF listed = all THEN "blobs" ELSE "tree"
    BY <1>1, <1>3 DEF Stage
<1>5. /\ stage.listed \subseteq all /\ stage.records \subseteq stage.listed
      /\ RecordsOf(stage.retained) \subseteq all
      /\ { r \in RecordsOf(stage.anchor) : r <= stage.cursor } \subseteq stage.listed
    BY <1>3 DEF StageOf, all
<1> HIDE DEF all
<1> QED
    BY <1>2, <1>4, <1>5 DEF StageOf, Listed, all

LEMMA CopyStep ==
    ASSUME AcceptedInv, NEW o \in owner, Staged = o.commit, o.base = Absent, Copy
    PROVE  StageOf(o)'
<1> DEFINE known == UNION {RecordsIn(m) : m \in Verified}
<1>1. CASE Throw
    BY <1>1, EmptyStage DEF Throw
<1>2. CASE stage' = [stage EXCEPT !.copied = TRUE, !.records = stage.listed \cap known]
    <2> HIDE DEF known
    <2>1. stage \in Stage /\ StageOf(o) /\ stage.phase = "blobs"
        BY DEF Copy, Working, AcceptedInv, Types, OwnedInv
    <2>2. /\ stage'.listed = stage.listed /\ stage'.records = stage.listed \cap known
          /\ stage'.anchor = stage.anchor /\ stage'.cursor = stage.cursor
          /\ stage'.retained = stage.retained /\ stage'.phase = "blobs"
        BY <1>2, <2>1 DEF Stage
    <2> QED
        BY <2>1, <2>2 DEF StageOf, Listed
<1> QED
    BY <1>1, <1>2 DEF Copy

LEMMA ReadStep ==
    ASSUME AcceptedInv, NEW o \in owner, Staged = o.commit, o.base = Absent, Read
    PROVE  StageOf(o)'
<1>1. PICK records \in Chunk(stage.listed, stage.records) :
          stage' = [stage EXCEPT !.records = records,
                       !.phase = IF records = stage.listed THEN "reduce" ELSE "blobs"]
    BY DEF Read
<1>2. records \subseteq stage.records \cup stage.listed
    BY ChunkType
<1>3. stage \in Stage /\ StageOf(o) /\ stage.phase = "blobs"
    BY DEF Read, Working, AcceptedInv, Types, OwnedInv
<1>4. /\ stage'.listed = stage.listed /\ stage'.records = records
      /\ stage'.anchor = stage.anchor /\ stage'.cursor = stage.cursor
      /\ stage'.retained = stage.retained
      /\ stage'.phase = IF records = stage.listed THEN "reduce" ELSE "blobs"
    BY <1>1, <1>3 DEF Stage
<1>5. /\ stage.listed = RecordsOf(o.commit) /\ stage.records \subseteq stage.listed
      /\ RecordsOf(stage.retained) \subseteq RecordsOf(o.commit)
      /\ { r \in RecordsOf(stage.anchor) : r <= stage.cursor } \subseteq stage.listed
    BY <1>3 DEF StageOf, Listed
<1> QED
    BY <1>2, <1>4, <1>5 DEF StageOf, Listed

LEMMA ReduceStep ==
    ASSUME AcceptedInv, NEW o \in owner, Staged = o.commit, o.base = Absent, Reduce
    PROVE  StageOf(o)'
<1>1. stage \in Stage /\ StageOf(o) /\ stage.phase = "reduce" /\ StoreInv
    BY DEF Reduce, Working, AcceptedInv, Types, OwnedInv
<1>2. CASE stage' = [stage EXCEPT !.started = TRUE]
    <2>1. /\ stage'.listed = stage.listed /\ stage'.records = stage.records
          /\ stage'.anchor = stage.anchor /\ stage'.cursor = stage.cursor
          /\ stage'.retained = stage.retained /\ stage'.phase = "reduce"
        BY <1>1, <1>2 DEF Stage
    <2> QED
        BY <1>1, <2>1 DEF StageOf, Listed
<1>3. ASSUME NEW m \in Verified, Extends(m),
             stage' = [stage EXCEPT !.started = TRUE, !.counted = stage.records,
                          !.retained = (CHOOSE x \in Verified : TRUE).commit]
      PROVE  StageOf(o)'
    <2>1. (CHOOSE x \in Verified : TRUE) \in Verified
        OBVIOUS
    <2>2. (CHOOSE x \in Verified : TRUE) = m
        BY <1>1, <2>1 DEF StoreInv, AtMostOne, Verified
    <2>3. stage' = [stage EXCEPT !.started = TRUE, !.counted = stage.records,
                       !.retained = m.commit]
        BY <1>3, <2>2, Zenon
    <2>4. /\ stage'.listed = stage.listed /\ stage'.records = stage.records
          /\ stage'.anchor = stage.anchor /\ stage'.cursor = stage.cursor
          /\ stage'.retained = m.commit /\ stage'.phase = "reduce"
        BY <1>1, <2>3 DEF Stage
    <2>5. RecordsOf(m.commit) \subseteq stage.records
        BY <1>1, <1>3 DEF StoreInv, Extends
    <2>6. stage.records = RecordsOf(o.commit)
        BY <1>1 DEF StageOf
    <2> QED
        BY <1>1, <2>4, <2>5, <2>6 DEF StageOf, Listed
<1> QED
    BY <1>2, <1>3 DEF Reduce

LEMMA CountStep ==
    ASSUME AcceptedInv, NEW o \in owner, Staged = o.commit, o.base = Absent, Count
    PROVE  StageOf(o)'
<1>1. PICK counted :
          stage' = [stage EXCEPT !.counted = counted,
                       !.phase = IF counted = stage.records THEN "finish" ELSE "reduce"]
    BY DEF Count
<1>2. stage \in Stage /\ StageOf(o) /\ stage.phase = "reduce"
    BY DEF Count, Working, AcceptedInv, Types, OwnedInv
<1>3. /\ stage'.listed = stage.listed /\ stage'.records = stage.records
      /\ stage'.anchor = stage.anchor /\ stage'.cursor = stage.cursor
      /\ stage'.retained = stage.retained /\ stage'.phase \in {"reduce", "finish"}
    BY <1>1, <1>2 DEF Stage
<1> QED
    BY <1>2, <1>3 DEF StageOf, Listed

LEMMA FinishStep ==
    ASSUME AcceptedInv, NEW o \in owner, Staged = o.commit, o.base = Absent, Finish
    PROVE  StageOf(o)'
<1>1. CASE Throw
    BY <1>1, EmptyStage DEF Throw
<1>2. CASE Complete /\ stage' = [stage EXCEPT !.phase = "retention"]
    <2>1. stage \in Stage /\ StageOf(o) /\ stage.phase = "finish"
        BY DEF Finish, Working, AcceptedInv, Types, OwnedInv
    <2>2. /\ stage'.listed = stage.listed /\ stage'.records = stage.records
          /\ stage'.anchor = stage.anchor /\ stage'.cursor = stage.cursor
          /\ stage'.retained = stage.retained /\ stage'.phase = "retention"
        BY <1>2, <2>1 DEF Stage
    <2>3. Valid(o.commit)
        BY <1>2 DEF Complete
    <2> QED
        BY <2>1, <2>2, <2>3 DEF StageOf, Listed
<1> QED
    BY <1>1, <1>2 DEF Finish

\* What the scan has passed is listed, so at its end every path is.
LEMMA RetainStep ==
    ASSUME AcceptedInv, NEW o \in owner, Staged = o.commit, o.base = Absent, Retain
    PROVE  StageOf(o)'
<1> DEFINE left == {r \in RecordsOf(transport.commit) : r > stage.cursor}
<1>1. CASE Throw
    BY <1>1, EmptyStage DEF Throw
<1>2. /\ stage \in Stage /\ StageOf(o) /\ stage.phase = "retention"
      /\ transport.commit \in History
    BY DEF Retain, Working, AcceptedInv, Types, OwnedInv
<1>3. RecordsOf(transport.commit) \in SUBSET Record /\ stage.cursor \in Nat /\ Record \subseteq Nat \ {0}
    BY <1>2, HistoryType, RecordAssumption DEF Stage
<1>4. CASE stage' = Rescan(transport.commit)
    <2>1. /\ stage'.listed = stage.listed /\ stage'.records = stage.records
          /\ stage'.anchor = transport.commit /\ stage'.cursor = 0
          /\ stage'.retained = stage.retained /\ stage'.phase = "retention"
        BY <1>2, <1>4 DEF Rescan, Stage
    <2>a. \A r \in RecordsOf(transport.commit) : r \in Nat /\ r # 0
        BY <1>3
    <2>2. { r \in RecordsOf(transport.commit) : r <= 0 } = {}
        BY <2>a
    <2> QED
        BY <1>2, <2>1, <2>2 DEF StageOf, Listed
<1>5. ASSUME stage.anchor = transport.commit, NEW part \in Chunk(left, {}),
             part \subseteq stage.listed,
             stage' = [stage EXCEPT
                 !.cursor = IF part = {} THEN @ ELSE
                     CHOOSE r \in part : \A q \in part : q <= r,
                 !.retained = IF part = left THEN transport.commit ELSE @]
      PROVE  StageOf(o)'
    <2> DEFINE cursor == IF part = {} THEN stage.cursor
                         ELSE CHOOSE r \in part : \A q \in part : q <= r
               retained == IF part = left THEN transport.commit ELSE stage.retained
    <2>1. stage' = [stage EXCEPT !.cursor = cursor, !.retained = retained]
        BY <1>5
    <2>2. left \in SUBSET Record
        BY <1>3
    <2>3. \A r \in RecordsOf(transport.commit) : r <= cursor => r <= stage.cursor \/ r \in part
        <3>1. CASE part = {}
            BY <3>1
        <3>2. CASE part # {}
            <4> DEFINE last == CHOOSE r \in part : \A q \in part : q <= r
            <4>1. cursor = last
                BY <3>2
            <4> HIDE DEF left
            <4>2. \A r \in left : r <= last <=> r \in part
                BY <1>5, <2>2, <3>2, CursorFacts
            <4> HIDE DEF last, cursor
            <4>3. \A r \in left : r <= cursor <=> r \in part
                BY <4>1, <4>2
            <4>4. ASSUME NEW r \in RecordsOf(transport.commit)
                  PROVE  r <= stage.cursor \/ r \in left
                <5>1. r \in Nat /\ stage.cursor \in Nat
                    BY <1>3
                <5>2. r <= stage.cursor \/ r > stage.cursor
                    BY <5>1
                <5> QED
                    BY <5>2 DEF left
            <4> QED
                BY <4>3, <4>4
        <3> QED
            BY <3>1, <3>2
    <2> HIDE DEF cursor, retained
    <2>4. /\ stage'.listed = stage.listed /\ stage'.records = stage.records
          /\ stage'.anchor = stage.anchor /\ stage'.cursor = cursor
          /\ stage'.retained = retained /\ stage'.phase = "retention"
        BY <1>2, <2>1 DEF Stage
    <2>5. /\ stage.listed = RecordsOf(o.commit) /\ stage.records = RecordsOf(o.commit)
          /\ RecordsOf(stage.retained) \subseteq RecordsOf(o.commit) /\ Valid(o.commit)
          /\ { r \in RecordsOf(transport.commit) : r <= stage.cursor } \subseteq stage.listed
        BY <1>2, <1>5 DEF StageOf, Listed
    <2>6. { r \in RecordsOf(transport.commit) : r <= cursor } \subseteq stage.listed
        BY <1>5, <2>3, <2>5
    <2>7. RecordsOf(retained) \subseteq RecordsOf(o.commit)
        <3>1. CASE part = left
            <4>1. RecordsOf(transport.commit) \subseteq stage.listed
                BY <1>3, <1>5, <2>5, <3>1
            <4> QED
                BY <2>5, <3>1, <4>1 DEF retained
        <3>2. CASE part # left
            BY <2>5, <3>2 DEF retained
        <3> QED
            BY <3>1, <3>2
    <2> QED
        BY <1>5, <2>4, <2>5, <2>6, <2>7 DEF StageOf, Listed
<1> QED
    BY <1>1, <1>4, <1>5 DEF Retain

LEMMA SealStep ==
    ASSUME stage \in Stage, NEW o, StageOf(o), NEW sealed,
           stage' = [stage EXCEPT !.sealed = sealed]
    PROVE  StageOf(o)'
<1>1. /\ stage'.listed = stage.listed /\ stage'.records = stage.records
      /\ stage'.anchor = stage.anchor /\ stage'.cursor = stage.cursor
      /\ stage'.retained = stage.retained /\ stage'.phase = stage.phase
    BY DEF Stage
<1> QED
    BY <1>1 DEF StageOf

LEMMA WorkingOwner ==
    ASSUME AcceptedInv, At({"open", "work"})
    PROVE  \E o \in owner : Staged = o.commit /\ o.base = Absent
BY StagedType DEF AcceptedInv, SessionInv, WorkInv, At

LEMMA OwnedWork ==
    ASSUME AcceptedInv, Open \/ List \/ Copy \/ Read \/ Reduce \/ Count \/ Finish \/ Retain \/ Seal
    PROVE  OwnedInv'
<1>1. At({"open", "work"}) /\ UNCHANGED owner
    BY DEF Open, List, Copy, Read, Reduce, Count, Finish, Retain, Seal, Working, StageOnly, At
<1>2. PICK o \in owner : Staged = o.commit /\ o.base = Absent
    BY <1>1, WorkingOwner
<1>3. stage \in Stage /\ StageOf(o) /\ OwnedInv
    BY DEF AcceptedInv, Types, OwnedInv
<1>4. CASE Open
    <2>1. CASE stage.sealed
        BY <1>1, <1>3, <1>4, <2>1, SealStep, OwnedStep DEF Open
    <2>2. CASE ~ stage.sealed
        <3>1. stage' = [NoStage EXCEPT !.phase = "tree"]
            BY <1>4, <2>2 DEF Open
        <3>2. StageOf(o)'
            BY <1>2, <3>1 DEF StageOf, NoStage, Listed, RecordsOf, Absent
        <3> QED
            BY <1>1, <1>3, <3>2, OwnedStep
    <2> QED
        BY <2>1, <2>2
<1>5. CASE Seal
    BY <1>1, <1>3, <1>5, SealStep, OwnedStep DEF Seal
<1>6. CASE List \/ Copy \/ Read \/ Reduce \/ Count \/ Finish \/ Retain
    <2>1. StageOf(o)'
        BY <1>2, <1>6, ListStep, CopyStep, ReadStep, ReduceStep, CountStep, FinishStep, RetainStep
    <2> QED
        BY <1>1, <1>3, <2>1, OwnedStep
<1> QED
    BY <1>4, <1>5, <1>6

LEMMA OwnedInvStep ==
    ASSUME AcceptedInv, [Next]_vars
    PROVE  OwnedInv'
<1>1. OwnedInv /\ stage \in Stage /\ session \in Session
    BY DEF AcceptedInv, Types
<1>2. CASE UNCHANGED vars
    BY <1>1, <1>2, OwnedSame DEF vars
<1>3. CASE Start \/ (\E r \in Remote : Advance(r) \/ Tamper(r))
    BY <1>1, <1>3, OwnedSame DEF Start, StartSync, StartRebind, Advance, Tamper, stageVars
<1>4. CASE Accepting
    <2>1. UNCHANGED owner /\ (UNCHANGED stage \/ stage' = NoStage)
        BY <1>4 DEF Accepting, Unchanged, FetchTip, Install, Load, Create, Confirm, Anchor,
                    RecordAccepted, Settle, Published, Close, stageVars
    <2> QED
        BY <1>1, <2>1, OwnedSame
<1>5. CASE Unpin \/ Unstage \/ Pin \/ Rebound \/ RecoverCandidate \/ Resume \/ Promote
    <2>1. UNCHANGED owner /\ (UNCHANGED stage \/ stage' = NoStage)
        BY <1>5 DEF Unpin, Unstage, Pin, Rebound, RecoverCandidate, Resume, Promote, stageVars
    <2> QED
        BY <1>1, <2>1, OwnedSame
<1>6. CASE Disown \/ Abandon
    BY <1>6, OwnedNone DEF Disown, Abandon
<1>7. CASE Adopt
    BY <1>7, OwnedNew DEF Adopt
<1>8. CASE Open \/ List \/ Copy \/ Read \/ Reduce \/ Count \/ Finish \/ Retain \/ Seal
    BY <1>8, OwnedWork
<1>9. CASE Save
    <2>1. UNCHANGED owner /\ stage' = [stage EXCEPT !.sealed = TRUE]
        BY <1>9 DEF Save, StageOnly
    <2>2. \A o \in owner : StageOf(o)'
        BY <1>1, <2>1, SealStep DEF OwnedInv
    <2> QED
        BY <1>1, <2>1, <2>2 DEF OwnedInv
<1>10. CASE Extension \/ Push
    BY <1>1, <1>10, OwnedSame DEF Extension, Push, stageVars
<1>11. CASE Own
    <2>1. PICK m \in session.index : NewOwner(session.candidate, m.commit)
        BY <1>11 DEF Own
    <2>2. Follows(m) /\ RecordsOf(m.commit) = RecordsIn(m)
        BY <1>11 DEF Own, AcceptedInv, SessionInv, IndexInv, At, StoreInv
    <2> QED
        BY <2>1, <2>2, OwnedNew DEF Follows
<1>12. CASE Offer
    <2>1. PICK m \in session.index :
              stage' = [NoStage EXCEPT !.phase = "candidate", !.sealed = TRUE,
                          !.records = RecordsOf(session.candidate) \ RecordsIn(m)]
        BY <1>12 DEF Offer
    <2>2. \A o \in owner : o.base = m.commit /\ m.commit # Absent
        BY <1>12 DEF Offer, AcceptedInv, SessionInv, IndexInv, At, StoreInv, Valid
    <2>3. \A o \in owner : StageOf(o)'
        BY <2>1, <2>2 DEF StageOf, NoStage, Listed, RecordsOf, Absent
    <2>4. UNCHANGED owner
        BY <1>12 DEF Offer, StageOnly
    <2> QED
        BY <1>1, <2>3, <2>4 DEF OwnedInv
<1>13. CASE Expire \/ Crash \/ Damage
    <2>1. UNCHANGED owner /\ (UNCHANGED stage \/ stage' = NoStage)
        BY <1>13 DEF Expire, Crash, Damage
    <2> QED
        BY <1>1, <2>1, OwnedSame
<1> QED
    BY <1>2, <1>3, <1>4, <1>5, <1>6, <1>7, <1>8, <1>9, <1>10, <1>11, <1>12, <1>13
    DEF Next, Work, Rebuilding, Publishing, World

-----------------------------------------------------------------------------
(* The session *)

\* Where a session stands when it knows no generation, and at its end.
LEMMA EmptyIndex ==
    ASSUME session'.index = {}
    PROVE  IndexInv'
BY DEF IndexInv

LEMMA LeaveKeeps ==
    ASSUME AcceptedInv, session.pc # "idle", Leave, session.index \subseteq Verified'
    PROVE  SessionInv'
<1>1. session \in Session /\ session.remote \in Remote
    BY DEF AcceptedInv, Types, SessionInv, WorkInv, At
<1>2. session'.pc = "close" /\ session'.index = session.index /\ session'.remote = session.remote
    BY <1>1, GotoFacts DEF Leave
<1>3. IndexInv'
    BY <1>2 DEF IndexInv, At
<1>4. ConfirmInv'
    BY <1>2 DEF ConfirmInv, At
<1>5. WorkInv'
    BY <1>1, <1>2 DEF WorkInv, At
<1> QED
    BY <1>3, <1>4, <1>5 DEF SessionInv

LEMMA EndKeeps ==
    ASSUME End
    PROVE  SessionInv'
<1>1. session'.pc = "idle" /\ session'.index = {} /\ session'.staged = FALSE
    BY DEF End, NoSession
<1>2. IndexInv'
    BY <1>1, EmptyIndex
<1>3. ConfirmInv' /\ WorkInv'
    BY <1>1 DEF ConfirmInv, WorkInv, At
<1> QED
    BY <1>2, <1>3 DEF SessionInv

LEMMA SessionSame ==
    ASSUME SessionInv, UNCHANGED <<indexVars, authority, stageVars, session>>
    PROVE  SessionInv'
BY DEF SessionInv, IndexInv, ConfirmInv, WorkInv, Ready, Follows, At, Verified, RecordsIn,
       indexVars, authority, stageVars

\* A replacement is written for a session that is published next.
LEMMA WriteKeeps ==
    ASSUME AcceptedInv, Claims, session.pc # "idle", ~ session.staged,
           NEW w, NEW next \in {"promoted", "recovered", "installed"}, Write(w, next)
    PROVE  SessionInv'
<1>1. session \in Session /\ session.remote \in Remote /\ session.index \subseteq Verified
    BY DEF AcceptedInv, Types, SessionInv, WorkInv, IndexInv, At
<1>2. /\ session'.pc = "publish" /\ session'.next = next /\ session'.index = session.index
      /\ session'.remote = session.remote /\ session'.staged = FALSE
    BY <1>1, WriteFacts DEF Session
<1>3. Verified' = Verified
    BY ClaimFacts DEF Claims, AcceptedInv, StoreInv
<1>4. IndexInv'
    BY <1>1, <1>2, <1>3 DEF IndexInv, At
<1>5. ConfirmInv' /\ WorkInv'
    BY <1>1, <1>2 DEF ConfirmInv, WorkInv, At
<1> QED
    BY <1>4, <1>5 DEF SessionInv

\* The session drops the owner of a stage, and goes on with "next".
LEMMA DropKeeps ==
    ASSUME AcceptedInv, UNCHANGED indexVars, session.index = {}, ~ session.staged,
           session.pc # "idle", NEW next \in {"rebuild", "recovered"},
           session' = [session EXCEPT !.pc = "unpin", !.next = next]
    PROVE  SessionInv'
<1>1. session \in Session /\ session.remote \in Remote
    BY DEF AcceptedInv, Types, SessionInv, WorkInv, At
<1>2. /\ session'.pc = "unpin" /\ session'.next = next /\ session'.index = {}
      /\ session'.remote = session.remote /\ session'.staged = FALSE
    BY <1>1 DEF Session
<1> QED
    BY <1>1, <1>2, EmptyIndex DEF SessionInv, ConfirmInv, WorkInv, At

\* What a session that confirms has shown of the commit it fetched: the word of
\* a generation or of a sealed stage, or the listing, holds every path.
LEMMA DescendsSound ==
    ASSUME AcceptedInv, session.pc = "confirm",
           Descends(session.fetched, transport.commit)
    PROVE  Retains(transport.commit, session.fetched)
<1>1. /\ session.index \subseteq Verified
      /\ \A m \in session.index : m.commit = session.fetched
      /\ session.staged => Ready
    BY DEF AcceptedInv, SessionInv, IndexInv, ConfirmInv, At
<1>2. \A m \in session.index : /\ RecordsIn(m) = RecordsOf(session.fetched)
                               /\ RecordsOf(m.retained) \subseteq RecordsOf(session.fetched)
    BY <1>1 DEF AcceptedInv, StoreInv
<1>3. session.staged => /\ stage.records = RecordsOf(session.fetched)
                        /\ RecordsOf(stage.retained) \subseteq RecordsOf(session.fetched)
    <2>1. SUFFICES ASSUME session.staged
                   PROVE  /\ stage.records = RecordsOf(session.fetched)
                          /\ RecordsOf(stage.retained) \subseteq RecordsOf(session.fetched)
        OBVIOUS
    <2>2. PICK o \in owner : o.commit = session.fetched
        BY <1>1, <2>1 DEF Ready
    <2>3. StageOf(o) /\ stage.phase = "retention"
        BY <1>1, <2>1 DEF Ready, AcceptedInv, OwnedInv
    <2> QED
        BY <2>2, <2>3 DEF StageOf
<1>4. CASE session.fetched = transport.commit
    BY <1>4 DEF Descends, Retains
<1>5. CASE transport.commit \in RetainedParents
    <2>1. RecordsOf(transport.commit) \subseteq RecordsOf(session.fetched)
        BY <1>2, <1>3, <1>5 DEF RetainedParents
    <2> QED
        BY <2>1 DEF Descends, Retains
<1>6. CASE RecordsOf(transport.commit) \subseteq Listing
    <2>1. Listing \subseteq RecordsOf(session.fetched)
        BY <1>2, <1>3 DEF Listing
    <2> QED
        BY <1>6, <2>1 DEF Descends, Retains
<1> QED
    BY <1>4, <1>5, <1>6 DEF Descends

LEMMA StartSession ==
    ASSUME AcceptedInv, Start
    PROVE  SessionInv'
<1>1. ASSUME NEW mode, NEW r \in Remote,
             session' = [NoSession EXCEPT !.pc = "tip", !.mode = mode, !.remote = r]
      PROVE  SessionInv'
    <2>1. /\ session'.pc = "tip" /\ session'.index = {} /\ session'.staged = FALSE
          /\ session'.remote = r
        BY <1>1 DEF NoSession
    <2> QED
        BY <1>1, <2>1, EmptyIndex DEF SessionInv, ConfirmInv, WorkInv, At
<1>2. transport.remote \in Remote
    BY DEF AcceptedInv, Types
<1>3. ASSUME NEW mode, StartSync(mode) PROVE SessionInv'
    BY <1>1, <1>2, <1>3 DEF StartSync
<1>4. ASSUME NEW r \in Remote, StartRebind(r) PROVE SessionInv'
    BY <1>1, <1>4 DEF StartRebind
<1> QED
    BY <1>3, <1>4 DEF Start

LEMMA FetchSession ==
    ASSUME AcceptedInv, Unchanged \/ FetchTip
    PROVE  SessionInv'
<1>1. /\ session \in Session /\ session.pc = "tip" /\ ~ session.staged
      /\ session.remote \in Remote /\ SessionInv
      /\ UNCHANGED <<indexVars, authority, stageVars>>
    BY DEF Unchanged, FetchTip, AcceptedInv, Types, SessionInv, ConfirmInv, WorkInv, At
<1>2. Verified' = Verified /\ \A m : RecordsIn(m)' = RecordsIn(m)
    BY <1>1, SameIndex
<1>3. session.index \subseteq Verified
    BY <1>1 DEF SessionInv, IndexInv
<1>4. CASE Leave
    BY <1>1, <1>2, <1>3, <1>4, LeaveKeeps
<1>5. ASSUME NEW tip, session' = [session EXCEPT !.pc = "cache", !.fetched = tip]
      PROVE  SessionInv'
    <2>1. /\ session'.pc = "cache" /\ session'.index = session.index
          /\ session'.candidate = session.candidate /\ session'.staged = FALSE
          /\ session'.remote = session.remote
        BY <1>1, <1>5 DEF Session
    <2>2. \A m \in session.index : /\ Follows(m)
                                   /\ stage.records = RecordsOf(session.candidate) \ RecordsIn(m)
        BY <1>1 DEF SessionInv, IndexInv, At
    <2>3. stage' = stage
        BY <1>1 DEF stageVars
    <2>4. IndexInv'
        BY <1>2, <1>3, <2>1, <2>2, <2>3 DEF IndexInv, Follows, At
    <2>5. ConfirmInv' /\ WorkInv'
        BY <1>1, <2>1 DEF ConfirmInv, WorkInv, At
    <2> QED
        BY <2>4, <2>5 DEF SessionInv
<1> QED
    BY <1>4, <1>5 DEF Unchanged, FetchTip

LEMMA InstallSession ==
    ASSUME AcceptedInv, Install
    PROVE  SessionInv'
<1>1. /\ session \in Session /\ session.pc = "cache" /\ ~ session.staged
      /\ session.index \subseteq Verified
    BY DEF Install, AcceptedInv, Types, SessionInv, ConfirmInv, IndexInv, At
<1>2. PICK m \in session.index :
          IF Pinned(transport.commit, Bases)
            THEN Leave /\ UNCHANGED indexVars
            ELSE Write(Claimed(session.candidate, RecordsIn(m) \cup stage.records,
                               m.commit), "installed")
    BY DEF Install
<1>3. CASE Leave /\ UNCHANGED indexVars
    BY <1>1, <1>3, SameIndex, LeaveKeeps
<1>4. ASSUME NEW w, Write(w, "installed") PROVE SessionInv'
    <2>1. session'.pc = "publish" /\ session'.writer = {w} /\ Claim(w)
        BY <1>1, <1>4, WriteFacts
    <2>2. CASE Claims
        BY <1>1, <1>4, <2>2, WriteKeeps
    <2>3. CASE Aside
        <3>1. Verified' = Verified
            BY <2>3, SameIndex DEF Aside
        <3>2. /\ session'.next = "installed" /\ session'.index = session.index
              /\ session'.remote = session.remote /\ session'.staged = session.staged
            BY <1>1, <1>4, WriteFacts
        <3>3. session.remote \in Remote
            BY <1>1 DEF AcceptedInv, SessionInv, WorkInv, At
        <3> QED
            BY <1>1, <2>1, <3>1, <3>2, <3>3 DEF SessionInv, IndexInv, ConfirmInv, WorkInv, At
    <2> QED
        BY <2>2, <2>3, InstallClaims
<1> QED
    BY <1>2, <1>3, <1>4

LEMMA LoadSession ==
    ASSUME AcceptedInv, Load
    PROVE  SessionInv'
<1> DEFINE found == Loaded(session.fetched)
<1>1. /\ session \in Session /\ session.pc = "cache" /\ ~ session.staged
      /\ session.remote \in Remote /\ UNCHANGED indexVars
    BY DEF Load, AcceptedInv, Types, SessionInv, ConfirmInv, WorkInv, At
<1>2. session' = [session EXCEPT !.index = found,
              !.pc = IF found # {} THEN "confirm"
                     ELSE IF session.mode = "lazy" THEN "rebuild" ELSE "create"]
    BY DEF Load
<1>3. found \subseteq Verified /\ \A m \in found : m.commit = session.fetched
    BY DEF Loaded
<1> HIDE DEF found
<1>4. /\ session'.index = found /\ session'.staged = FALSE
      /\ session'.remote = session.remote /\ session'.fetched = session.fetched
      /\ session'.mode = session.mode
      /\ session'.pc = IF found # {} THEN "confirm"
                       ELSE IF session.mode = "lazy" THEN "rebuild" ELSE "create"
    BY <1>1, <1>2 DEF Session
<1>5. Verified' = Verified
    BY <1>1, SameIndex
<1>6. IndexInv'
    BY <1>3, <1>4, <1>5 DEF IndexInv, At
<1>7. ConfirmInv' /\ WorkInv'
    BY <1>1, <1>4 DEF ConfirmInv, WorkInv, At
<1> QED
    BY <1>6, <1>7 DEF SessionInv

LEMMA CreateSession ==
    ASSUME AcceptedInv, Create
    PROVE  SessionInv'
<1>1. /\ session \in Session /\ session.pc = "create" /\ ~ session.staged
      /\ session.remote \in Remote /\ session.index = {} /\ session.mode # "lazy"
    BY DEF Create, AcceptedInv, Types, SessionInv, ConfirmInv, IndexInv, WorkInv, At
<1>2. CASE Leave
    BY <1>1, <1>2, LeaveKeeps
<1>3. ASSUME NEW writer, session' = [session EXCEPT !.pc = "confirm", !.writer = writer]
                         \/ Goto("confirm")
      PROVE  SessionInv'
    <2>1. /\ session'.pc = "confirm" /\ session'.index = {} /\ session'.staged = FALSE
          /\ session'.remote = session.remote /\ session'.mode = session.mode
        BY <1>1, <1>3 DEF Session, Goto
    <2> QED
        BY <1>1, <2>1, EmptyIndex DEF SessionInv, ConfirmInv, WorkInv, At
<1> QED
    BY <1>2, <1>3 DEF Create

LEMMA ConfirmSession ==
    ASSUME AcceptedInv, Confirm
    PROVE  SessionInv'
<1>1. /\ session \in Session /\ session.pc = "confirm" /\ session.index \subseteq Verified
      /\ session.remote \in Remote
      /\ UNCHANGED <<indexVars, authority, stageVars>>
    BY DEF Confirm, AcceptedInv, Types, SessionInv, IndexInv, WorkInv, At
<1>2. Verified' = Verified
    BY <1>1, SameIndex
<1>3. CASE Leave
    BY <1>1, <1>2, <1>3, LeaveKeeps
<1>4. CASE Goto("anchor") /\ (transport.commit = Absent \/ Descends(session.fetched, transport.commit))
    <2>1. /\ session'.pc = "anchor" /\ session'.index = session.index
          /\ session'.staged = session.staged /\ session'.mode = session.mode
          /\ session'.remote = session.remote /\ session'.fetched = session.fetched
        BY <1>1, <1>4, GotoFacts
    <2>2. transport.commit = Absent \/ Retains(transport.commit, session.fetched)
        BY <1>1, <1>4, DescendsSound
    <2>3. transport' = transport
        BY <1>1 DEF authority
    <2>4. \A m \in session.index : m.commit = session.fetched
        BY <1>1 DEF AcceptedInv, SessionInv, IndexInv, At
    <2>5. IF session.staged THEN Ready /\ session.index = {}
          ELSE session.mode = "lazy" => session.index # {}
        BY <1>1 DEF AcceptedInv, SessionInv, ConfirmInv, At
    <2>6. Ready => Ready'
        BY <1>1, <2>1 DEF Ready, stageVars
    <2>7. IndexInv'
        BY <1>1, <1>2, <2>1, <2>4 DEF IndexInv, At
    <2>8. ConfirmInv'
        BY <2>1, <2>2, <2>3, <2>5, <2>6 DEF ConfirmInv, At
    <2>9. WorkInv'
        BY <1>1, <2>1 DEF WorkInv, At
    <2> QED
        BY <2>7, <2>8, <2>9 DEF SessionInv
<1> QED
    BY <1>3, <1>4 DEF Confirm

LEMMA AnchorSession ==
    ASSUME AcceptedInv, Anchor
    PROVE  SessionInv'
<1>1. /\ session \in Session /\ session.pc = "anchor" /\ session.index \subseteq Verified
      /\ session.remote \in Remote
      /\ UNCHANGED <<indexVars, transport, stageVars>>
    BY DEF Anchor, AcceptedInv, Types, SessionInv, IndexInv, WorkInv, At
<1>2. Verified' = Verified
    BY <1>1, SameIndex
<1>3. /\ session'.pc = "record" /\ session'.index = session.index
      /\ session'.staged = session.staged /\ session'.mode = session.mode
      /\ session'.remote = session.remote /\ session'.fetched = session.fetched
    BY <1>1, GotoFacts DEF Anchor
<1>4. /\ \A m \in session.index : m.commit = session.fetched
      /\ IF session.staged THEN Ready /\ session.index = {}
         ELSE session.mode = "lazy" => session.index # {}
      /\ transport.commit = Absent \/ Retains(transport.commit, session.fetched)
    BY <1>1 DEF AcceptedInv, SessionInv, IndexInv, ConfirmInv, At
<1>5. session.fetched \in anchors'
    BY DEF Anchor
<1>6. Ready => Ready'
    BY <1>1, <1>3 DEF Ready, stageVars
<1>7. IndexInv'
    BY <1>1, <1>2, <1>3, <1>4 DEF IndexInv, At
<1>8. ConfirmInv'
    BY <1>1, <1>3, <1>4, <1>5, <1>6 DEF ConfirmInv, At
<1>9. WorkInv'
    BY <1>1, <1>3 DEF WorkInv, At
<1> QED
    BY <1>7, <1>8, <1>9 DEF SessionInv

LEMMA RecordSession ==
    ASSUME AcceptedInv, RecordAccepted
    PROVE  SessionInv'
<1>1. /\ session \in Session /\ session.pc = "record" /\ session.index \subseteq Verified
      /\ session.remote \in Remote /\ UNCHANGED <<indexVars, stageVars>>
    BY DEF RecordAccepted, AcceptedInv, Types, SessionInv, IndexInv, WorkInv, At
<1>2. Verified' = Verified
    BY <1>1, SameIndex
<1>3. /\ session'.index = session.index /\ session'.staged = FALSE
      /\ session'.remote = session.remote /\ session'.fetched = session.fetched
      /\ session'.pc = IF session.staged THEN "promote" ELSE "settle"
    BY <1>1 DEF RecordAccepted, Session
<1>4. /\ \A m \in session.index : m.commit = session.fetched
      /\ session.staged => Ready /\ session.index = {}
    BY <1>1 DEF AcceptedInv, SessionInv, IndexInv, ConfirmInv, At
<1>5. IndexInv'
    BY <1>1, <1>2, <1>3, <1>4 DEF IndexInv, At
<1>6. ConfirmInv'
    BY <1>3 DEF ConfirmInv, At
<1>7. WorkInv'
    BY <1>1, <1>3, <1>4 DEF WorkInv, Ready, At, stageVars
<1> QED
    BY <1>5, <1>6, <1>7 DEF SessionInv

LEMMA PublishedSession ==
    ASSUME AcceptedInv, Published
    PROVE  SessionInv'
<1>1. /\ session \in Session /\ session.pc = "publish" /\ ~ session.staged
      /\ session.remote \in Remote /\ session.next \in {"promoted", "recovered", "installed"}
    BY DEF Published, AcceptedInv, Types, SessionInv, ConfirmInv, WorkInv, At
<1>2. /\ session'.index = {} /\ session'.staged = FALSE /\ session'.next = session.next
      /\ session'.remote = session.remote
      /\ session'.pc = IF session.next = "installed" THEN "cache" ELSE "unpin"
    BY <1>1 DEF Published, Session
<1> QED
    BY <1>1, <1>2, EmptyIndex DEF SessionInv, ConfirmInv, WorkInv, At

\* Dropping an owner.
LEMMA DroppingSession ==
    ASSUME AcceptedInv, Unpin \/ Disown \/ Unstage
    PROVE  SessionInv'
<1>1. /\ session \in Session /\ session.pc \in {"unpin", "disown", "unstage"}
      /\ ~ session.staged /\ session.remote \in Remote /\ session.index \subseteq Verified
      /\ session.next \in {"rebuild", "own", "promoted", "recovered"}
      /\ session.next # "own" => session.index = {}
      /\ \A m \in session.index : Follows(m)
      /\ UNCHANGED indexVars
    BY DEF Unpin, Disown, Unstage, AcceptedInv, Types, SessionInv, IndexInv, ConfirmInv, WorkInv, At
<1>2. Verified' = Verified /\ \A m : RecordsIn(m)' = RecordsIn(m)
    BY <1>1, SameIndex
<1>3. CASE Leave
    BY <1>1, <1>2, <1>3, LeaveKeeps
<1>4. CASE Goto("disown") \/ Goto("unstage")
    <2>1. /\ session'.pc \in {"disown", "unstage"} /\ session'.index = session.index
          /\ session'.staged = FALSE /\ session'.remote = session.remote
          /\ session'.next = session.next /\ session'.candidate = session.candidate
        BY <1>1, <1>4, GotoFacts
    <2>2. IndexInv'
        BY <1>1, <1>2, <2>1 DEF IndexInv, Follows, At
    <2>3. ConfirmInv' /\ WorkInv'
        BY <1>1, <2>1 DEF ConfirmInv, WorkInv, At
    <2> QED
        BY <2>2, <2>3 DEF SessionInv
<1>5. CASE Unstage
    <2> DEFINE found == Loaded(session.fetched)
    <2>1. found \subseteq Verified /\ \A m \in found : m.commit = session.fetched
        BY DEF Loaded
    <2>2. session' = CASE session.next = "promoted" ->
                             [session EXCEPT !.index = found, !.rebuilt = TRUE,
                                !.pc = IF found # {} THEN "confirm" ELSE "close"]
                        [] session.next = "recovered" -> [session EXCEPT !.pc = "cache"]
                        [] OTHER -> [session EXCEPT !.pc = session.next]
        BY <1>5 DEF Unstage
    <2> HIDE DEF found
    <2>3. CASE session.next = "promoted"
        <3>1. /\ session'.pc = IF found # {} THEN "confirm" ELSE "close"
              /\ session'.index = found /\ session'.staged = FALSE
              /\ session'.remote = session.remote /\ session'.fetched = session.fetched
            BY <1>1, <2>2, <2>3 DEF Session
        <3>2. IndexInv'
            BY <1>2, <2>1, <3>1 DEF IndexInv, At
        <3>3. ConfirmInv' /\ WorkInv'
            BY <1>1, <3>1 DEF ConfirmInv, WorkInv, At
        <3> QED
            BY <3>2, <3>3 DEF SessionInv
    <2>4. CASE session.next = "recovered"
        <3>1. /\ session'.pc = "cache" /\ session'.index = {} /\ session'.staged = FALSE
              /\ session'.remote = session.remote
            BY <1>1, <2>2, <2>4 DEF Session
        <3> QED
            BY <1>1, <3>1, EmptyIndex DEF SessionInv, ConfirmInv, WorkInv, At
    <2>5. CASE session.next \in {"rebuild", "own"}
        <3>1. /\ session'.pc = session.next /\ session'.index = session.index
              /\ session'.staged = FALSE /\ session'.remote = session.remote
              /\ session'.candidate = session.candidate
            BY <1>1, <2>2, <2>5 DEF Session
        <3>2. IndexInv'
            BY <1>1, <1>2, <2>5, <3>1 DEF IndexInv, Follows, At
        <3>3. ConfirmInv' /\ WorkInv'
            BY <1>1, <2>5, <3>1 DEF ConfirmInv, WorkInv, At
        <3> QED
            BY <3>2, <3>3 DEF SessionInv
    <2> QED
        BY <1>1, <2>3, <2>4, <2>5
<1> QED
    BY <1>3, <1>4, <1>5 DEF Unpin, Disown

\* Finding out whose stage it is.
LEMMA RebuildSession ==
    ASSUME AcceptedInv, Adopt \/ Rebound \/ RecoverCandidate \/ Resume \/ Abandon
    PROVE  SessionInv'
<1>1. /\ session \in Session /\ session.pc = "rebuild" /\ ~ session.staged
      /\ session.remote \in Remote /\ session.index = {}
    BY DEF Adopt, Rebound, RecoverCandidate, Resume, Abandon, AcceptedInv, Types,
           SessionInv, IndexInv, ConfirmInv, WorkInv, At
<1>2. CASE Adopt
    <2>1. owner' # {}
        BY <1>2 DEF Adopt, NewOwner
    <2>2. /\ session'.pc = "pin" /\ session'.index = {} /\ session'.staged = FALSE
          /\ session'.remote = session.remote
        BY <1>1, <1>2, GotoFacts DEF Adopt, NewOwner
    <2> QED
        BY <1>1, <2>1, <2>2, EmptyIndex DEF SessionInv, ConfirmInv, WorkInv, At
<1>3. CASE Rebound
    <2>1. session' = [session EXCEPT !.pc = "unpin", !.next = "rebuild"] /\ UNCHANGED indexVars
        BY <1>3 DEF Rebound
    <2> QED
        BY <1>1, <2>1, DropKeeps
<1>4. CASE RecoverCandidate
    <2>1. PICK o \in owner : Recover(o)
        BY <1>4 DEF RecoverCandidate
    <2>2. CASE Leave /\ UNCHANGED indexVars
        BY <1>1, <2>2, LeaveKeeps
    <2>3. CASE session' = [session EXCEPT !.pc = "unpin", !.next = "recovered"] /\ UNCHANGED indexVars
        BY <1>1, <2>3, DropKeeps
    <2>4. ASSUME NEW w, Write(w, "recovered") PROVE SessionInv'
        <3>1. /\ session'.pc = "publish" /\ session'.next = "recovered" /\ session'.index = {}
              /\ session'.staged = FALSE /\ session'.remote = session.remote
            BY <1>1, <2>4, WriteFacts
        <3> QED
            BY <1>1, <3>1, EmptyIndex DEF SessionInv, ConfirmInv, WorkInv, At
    <2> QED
        BY <2>1, <2>2, <2>3, <2>4 DEF Recover
<1>5. CASE Resume
    <2>1. owner # {} /\ \A o \in owner : o.base = Absent
        BY <1>5 DEF Resume, AcceptedInv, OwnedInv, AtMostOne
    <2>2. pinned' /\ owner' = owner
        BY <1>5 DEF Resume
    <2>3. /\ session'.pc = "open" /\ session'.index = {} /\ session'.staged = FALSE
          /\ session'.remote = session.remote
        BY <1>1, <1>5, GotoFacts DEF Resume
    <2> QED
        BY <1>1, <2>1, <2>2, <2>3, EmptyIndex DEF SessionInv, ConfirmInv, WorkInv, At
<1>6. CASE Abandon
    <2>1. session' = session
        BY <1>6 DEF Abandon
    <2> QED
        BY <1>1, <2>1, EmptyIndex DEF SessionInv, ConfirmInv, WorkInv, At
<1> QED
    BY <1>2, <1>3, <1>4, <1>5, <1>6

LEMMA PinSession ==
    ASSUME AcceptedInv, Pin
    PROVE  SessionInv'
<1>1. /\ session \in Session /\ session.pc = "pin" /\ ~ session.staged
      /\ session.remote \in Remote /\ session.index \subseteq Verified
      /\ pinned' = TRUE /\ UNCHANGED <<indexVars, owner, stage>>
    BY DEF Pin, AcceptedInv, Types, SessionInv, IndexInv, ConfirmInv, WorkInv, At
<1>2. PICK o \in owner : Goto(IF o.base = Absent THEN "open" ELSE "offer")
    BY DEF Pin
<1>3. \A x \in owner : x = o
    BY DEF AcceptedInv, OwnedInv, AtMostOne
<1>4. /\ session'.pc = IF o.base = Absent THEN "open" ELSE "offer"
      /\ session'.index = session.index /\ session'.staged = FALSE
      /\ session'.remote = session.remote /\ session'.candidate = session.candidate
    BY <1>1, <1>2, GotoFacts
<1>5. Verified' = Verified /\ \A m : RecordsIn(m)' = RecordsIn(m)
    BY <1>1, SameIndex
<1>6. /\ o.base = Absent => session.index = {}
      /\ \A m \in session.index : /\ Follows(m) /\ o.commit = session.candidate
                                  /\ o.base = m.commit
    BY <1>1 DEF AcceptedInv, SessionInv, IndexInv, At
<1>7. IndexInv'
    <2>1. CASE o.base = Absent
        BY <1>4, <1>6, <2>1, EmptyIndex
    <2>2. CASE o.base # Absent
        BY <1>1, <1>3, <1>4, <1>5, <1>6, <2>2 DEF IndexInv, Follows, At
    <2> QED
        BY <2>1, <2>2
<1>8. ConfirmInv'
    BY <1>4 DEF ConfirmInv, At
<1>9. WorkInv'
    BY <1>1, <1>3, <1>4 DEF WorkInv, At
<1> QED
    BY <1>7, <1>8, <1>9 DEF SessionInv

\* The phases of a call.
LEMMA WorkSession ==
    ASSUME AcceptedInv,
           Open \/ List \/ Copy \/ Read \/ Reduce \/ Count \/ Finish \/ Retain \/ Save
    PROVE  SessionInv'
<1>1. /\ session \in Session /\ session.pc \in {"open", "work", "save"} /\ ~ session.staged
      /\ session.remote \in Remote /\ session.index = {}
      /\ UNCHANGED <<indexVars, owner, pinned>>
    BY DEF Open, List, Copy, Read, Reduce, Count, Finish, Retain, Save, Working, StageOnly,
           AcceptedInv, Types, SessionInv, IndexInv, ConfirmInv, WorkInv, At
<1>2. session.pc # "save" => owner # {} /\ pinned /\ \A o \in owner : o.base = Absent
    BY <1>1 DEF AcceptedInv, SessionInv, WorkInv, At
<1>3. CASE Leave
    BY <1>1, <1>3, LeaveKeeps
<1>4. CASE (Goto("work") \/ Goto("save") \/ UNCHANGED session) /\ session.pc # "save"
    <2>1. /\ session'.pc \in {"open", "work", "save"} /\ session'.index = {}
          /\ session'.staged = FALSE /\ session'.remote = session.remote
        BY <1>1, <1>4, GotoFacts
    <2> QED
        BY <1>1, <1>2, <1>4, <2>1, EmptyIndex DEF SessionInv, ConfirmInv, WorkInv, At
<1> QED
    BY <1>3, <1>4 DEF Open, List, Copy, Read, Reduce, Count, Finish, Retain, Save, Working,
                      Proceed, Throw

LEMMA SealSession ==
    ASSUME AcceptedInv, Seal
    PROVE  SessionInv'
<1>1. /\ session \in Session /\ session.pc = "work" /\ ~ session.staged
      /\ session.remote \in Remote /\ session.index = {} /\ pinned
      /\ stage \in Stage /\ stage.phase = "retention"
      /\ UNCHANGED <<owner, pinned>>
    BY DEF Seal, Working, StageOnly, AcceptedInv, Types, SessionInv, IndexInv, ConfirmInv, WorkInv, At
<1>2. PICK o \in owner : Staged = o.commit /\ o.base = Absent
    BY <1>1, WorkingOwner DEF At
<1>3. stage'.sealed /\ stage'.phase = "retention"
    BY <1>1 DEF Seal, Stage
<1>4. CASE Requested /\ session' = [session EXCEPT !.pc = "confirm", !.staged = TRUE]
    <2>1. /\ session'.pc = "confirm" /\ session'.index = {} /\ session'.staged = TRUE
          /\ session'.remote = session.remote /\ session'.fetched = session.fetched
        BY <1>1, <1>4 DEF Session
    <2>2. o.commit = session.fetched
        BY <1>2, <1>4 DEF Requested
    <2>3. Ready'
        BY <1>1, <1>2, <1>3, <2>1, <2>2 DEF Ready
    <2> QED
        BY <1>1, <2>1, <2>3, EmptyIndex DEF SessionInv, ConfirmInv, WorkInv, At
<1>5. CASE session' = [session EXCEPT !.pc = "promote"]
    <2>1. /\ session'.pc = "promote" /\ session'.index = {} /\ session'.staged = FALSE
          /\ session'.remote = session.remote
        BY <1>1, <1>5 DEF Session
    <2> QED
        BY <1>1, <1>2, <1>3, <2>1, EmptyIndex DEF SessionInv, ConfirmInv, WorkInv, At
<1> QED
    BY <1>4, <1>5 DEF Seal

LEMMA PromoteSession ==
    ASSUME AcceptedInv, Promote
    PROVE  SessionInv'
<1>1. /\ session \in Session /\ session.pc = "promote" /\ ~ session.staged
      /\ session.remote \in Remote /\ session.index = {}
    BY DEF Promote, AcceptedInv, Types, SessionInv, IndexInv, ConfirmInv, WorkInv, At
<1>2. CASE Leave
    BY <1>1, <1>2, LeaveKeeps
<1>3. ASSUME NEW w, Write(w, "promoted") PROVE SessionInv'
    <2>1. /\ session'.pc = "publish" /\ session'.next = "promoted" /\ session'.index = {}
          /\ session'.staged = FALSE /\ session'.remote = session.remote
        BY <1>1, <1>3, WriteFacts
    <2> QED
        BY <1>1, <2>1, EmptyIndex DEF SessionInv, ConfirmInv, WorkInv, At
<1> QED
    BY <1>2, <1>3 DEF Promote

\* Publishing a candidate.
LEMMA ExtensionSession ==
    ASSUME AcceptedInv, Extension
    PROVE  SessionInv'
<1>1. /\ session \in Session /\ session.pc = "settle" /\ ~ session.staged
      /\ session.remote \in Remote /\ session.index \subseteq Verified
      /\ UNCHANGED indexVars
    BY DEF Extension, AcceptedInv, Types, SessionInv, IndexInv, ConfirmInv, WorkInv, At
<1>2. PICK m \in session.index, r \in Outgoing :
          session' = [session EXCEPT !.next = "own",
                !.candidate = Extend(m.commit, RecordsIn(m) \cup {r}, MetaOf(m.commit)),
                !.pc = IF owner = {} THEN "unstage" ELSE "unpin"]
    BY DEF Extension
<1> DEFINE candidate == Extend(m.commit, RecordsIn(m) \cup {r}, MetaOf(m.commit))
<1>3. m \in Verified /\ \A x \in session.index : x = m
    BY <1>1 DEF AcceptedInv, StoreInv, AtMostOne, Verified
<1>4. m.commit \in History /\ RecordsIn(m) \cup {r} \in SUBSET Record /\ MetaOf(m.commit) \in Meta
    <2>1. Valid(m.commit) /\ m.commit \in History /\ RecordsIn(m) \in SUBSET Record
        BY <1>3, VerifiedType DEF AcceptedInv, StoreInv
    <2>2. r \in Record
        BY OutgoingAssumption
    <2> QED
        BY <2>1, <2>2 DEF Valid
<1>a. \A h \in History, R \in SUBSET Record, meta \in Meta :
          /\ Extend(h, R, meta) # Absent /\ MetaOf(Extend(h, R, meta)) = meta
          /\ RecordsOf(Extend(h, R, meta)) = R
    BY ExtendFacts
<1>5. /\ candidate # Absent /\ MetaOf(candidate) \in Meta
      /\ RecordsOf(candidate) = RecordsIn(m) \cup {r}
    BY <1>4, <1>a, Zenon
<1> HIDE DEF candidate
<1>6. /\ session'.pc \in {"unstage", "unpin"} /\ session'.next = "own"
      /\ session'.index = session.index /\ session'.candidate = candidate
      /\ session'.staged = FALSE /\ session'.remote = session.remote
    BY <1>1, <1>2 DEF Session, candidate
<1>7. Verified' = Verified /\ RecordsIn(m)' = RecordsIn(m)
    BY <1>1, SameIndex
<1>8. Follows(m)'
    BY <1>5, <1>6, <1>7 DEF Follows, Valid
<1>9. IndexInv'
    BY <1>1, <1>3, <1>6, <1>7, <1>8 DEF IndexInv, At
<1>10. ConfirmInv' /\ WorkInv'
    BY <1>1, <1>6 DEF ConfirmInv, WorkInv, At
<1> QED
    BY <1>9, <1>10 DEF SessionInv

LEMMA OwnSession ==
    ASSUME AcceptedInv, Own
    PROVE  SessionInv'
<1>1. /\ session \in Session /\ session.pc = "own" /\ ~ session.staged
      /\ session.remote \in Remote /\ session.index \subseteq Verified
      /\ UNCHANGED indexVars
    BY DEF Own, AcceptedInv, Types, SessionInv, IndexInv, ConfirmInv, WorkInv, At
<1>2. PICK m \in session.index : NewOwner(session.candidate, m.commit)
    BY DEF Own
<1>3. m.commit # Absent /\ \A x \in session.index : x = m
    BY <1>1 DEF AcceptedInv, StoreInv, AtMostOne, Verified, Valid
<1>o. PICK o : o = [commit |-> session.candidate, base |-> m.commit,
                    binding |-> session.remote]
    OBVIOUS
<1>4. owner' = {o} /\ o.commit = session.candidate /\ o.base = m.commit
    BY <1>2, <1>o DEF NewOwner
<1>5. /\ session'.pc = "pin" /\ session'.index = session.index /\ session'.staged = FALSE
      /\ session'.remote = session.remote /\ session'.candidate = session.candidate
    BY <1>1, <1>2, GotoFacts DEF NewOwner
<1>6. \A x \in session.index : Follows(x)
    BY <1>1 DEF AcceptedInv, SessionInv, IndexInv, At
<1>7. Verified' = Verified /\ \A x : RecordsIn(x)' = RecordsIn(x)
    BY <1>1, SameIndex
<1>8. IndexInv'
    BY <1>1, <1>3, <1>4, <1>5, <1>6, <1>7 DEF IndexInv, Follows, At
<1>9. ConfirmInv' /\ WorkInv'
    BY <1>1, <1>4, <1>5 DEF ConfirmInv, WorkInv, At
<1> QED
    BY <1>8, <1>9 DEF SessionInv

LEMMA SendingSession ==
    ASSUME AcceptedInv, Offer \/ Push
    PROVE  SessionInv'
<1>1. /\ session \in Session /\ session.pc \in {"offer", "push"} /\ ~ session.staged
      /\ session.remote \in Remote /\ session.index \subseteq Verified
      /\ UNCHANGED indexVars /\ UNCHANGED owner
    BY DEF Offer, Push, StageOnly, stageVars, AcceptedInv, Types, SessionInv, IndexInv,
           ConfirmInv, WorkInv, At
<1>2. /\ session'.pc = IF session.pc = "offer" THEN "push" ELSE "tip"
      /\ session'.index = session.index /\ session'.staged = FALSE
      /\ session'.remote = session.remote /\ session'.candidate = session.candidate
    <2>1. \/ session.pc = "offer" /\ Goto("push")
          \/ session.pc = "push" /\ Goto("tip")
        BY DEF Offer, Push
    <2> QED
        BY <1>1, <2>1, GotoFacts
<1>3. Verified' = Verified /\ \A x : RecordsIn(x)' = RecordsIn(x)
    BY <1>1, SameIndex
<1>4. \A x \in session.index :
          Follows(x) /\ \A o \in owner : o.commit = session.candidate /\ o.base = x.commit
    BY <1>1 DEF AcceptedInv, SessionInv, IndexInv, At
<1>5. \A x, y \in session.index : x = y
    BY <1>1 DEF AcceptedInv, StoreInv, AtMostOne, Verified
<1>6. \A x \in session.index : stage'.records = RecordsOf(session.candidate) \ RecordsIn(x)
    <2>1. CASE Offer
        <3>1. PICK m \in session.index :
                  stage' = [NoStage EXCEPT !.phase = "candidate", !.sealed = TRUE,
                              !.records = RecordsOf(session.candidate) \ RecordsIn(m)]
            BY <2>1 DEF Offer
        <3>2. stage'.records = RecordsOf(session.candidate) \ RecordsIn(m)
            BY <3>1 DEF NoStage
        <3>3. \A x \in session.index : x = m
            BY <1>5
        <3> QED
            BY <3>2, <3>3
    <2>2. CASE Push
        BY <2>2 DEF Push, stageVars, AcceptedInv, SessionInv, IndexInv, At
    <2> QED
        BY <2>1, <2>2
<1>7. IndexInv'
    BY <1>1, <1>2, <1>3, <1>4, <1>6 DEF IndexInv, Follows, At
<1>8. ConfirmInv' /\ WorkInv'
    BY <1>1, <1>2 DEF ConfirmInv, WorkInv, At
<1> QED
    BY <1>7, <1>8 DEF SessionInv

LEMMA SessionStep ==
    ASSUME AcceptedInv, [Next]_vars
    PROVE  SessionInv'
<1>1. SessionInv /\ session.index \subseteq Verified
    BY DEF AcceptedInv, SessionInv, IndexInv
<1>2. CASE UNCHANGED vars
    BY <1>1, <1>2, SessionSame DEF vars, indexVars, authority, stageVars
<1>3. CASE Start
    BY <1>3, StartSession
<1>4. CASE Accepting
    <2>1. CASE Settle
        <3>1. Verified' = Verified
            BY <2>1, SameIndex DEF Settle
        <3> QED
            BY <1>1, <2>1, <3>1, LeaveKeeps DEF Settle
    <2>2. CASE Close
        BY <2>2, EndKeeps DEF Close
    <2> QED
        BY <1>4, <2>1, <2>2, FetchSession, InstallSession, LoadSession, CreateSession,
           ConfirmSession, AnchorSession, RecordSession, PublishedSession DEF Accepting
<1>5. CASE Rebuilding
    BY <1>5, DroppingSession, RebuildSession, PinSession, WorkSession, SealSession,
       PromoteSession DEF Rebuilding
<1>6. CASE Publishing
    BY <1>6, ExtensionSession, OwnSession, SendingSession DEF Publishing
<1>7. CASE Expire
    <2>1. Verified' = Verified
        BY <1>7, SameIndex DEF Expire
    <2> QED
        BY <1>1, <1>7, <2>1, LeaveKeeps DEF Expire
<1>8. CASE Crash
    BY <1>8, EndKeeps DEF Crash
<1>9. CASE Damage
    <2>1. session.pc = "idle" /\ session' = session
        BY <1>9 DEF Damage
    <2>2. session.index = {} /\ ~ session.staged
        BY <1>1, <2>1 DEF SessionInv, IndexInv, ConfirmInv, At
    <2> QED
        BY <2>1, <2>2, EmptyIndex DEF SessionInv, ConfirmInv, WorkInv, At
<1>10. CASE \E r \in Remote : Advance(r) \/ Tamper(r)
    BY <1>1, <1>10, SessionSame DEF Advance, Tamper
<1> QED
    BY <1>2, <1>3, <1>4, <1>5, <1>6, <1>7, <1>8, <1>9, <1>10 DEF Next, Work, World

LEMMA AcceptedInit ==
    ASSUME Init
    PROVE  AcceptedInv
<1>1. PICK r \in Remote, records \in SUBSET Record, meta \in Meta :
          /\ remote = [s \in Remote |->
                          IF s = r THEN Extend(Absent, records, meta) ELSE Absent]
          /\ transport = [remote |-> r, commit |-> Absent]
    BY DEF Init
<1>2. Extend(Absent, records, meta) \in History /\ Absent \in History
    BY ExtendFacts, AbsentType
<1>3. Types
    <2>1. slots \in [Slot -> Generation] /\ manifest = {}
        BY InitialTypes DEF Init, IndexInit
    <2>2. remote \in [Remote -> History]
        BY <1>1, <1>2
    <2>3. transport \in [remote : Remote, commit : History]
        BY <1>1, <1>2
    <2>4. /\ anchors = {} /\ owner = {} /\ pinned = FALSE /\ stage \in Stage
          /\ session \in Session
        BY InitialTypes DEF Init
    <2>5. moves \in 0 .. MaxMoves /\ faults \in 0 .. MaxFaults
        BY BoundAssumption DEF Init
    <2> QED
        BY <2>1, <2>2, <2>3, <2>4, <2>5 DEF Types
<1>4. manifest = {} /\ owner = {} /\ session = NoSession
    BY DEF Init, IndexInit
<1>5. session.pc = "idle" /\ session.index = {} /\ session.writer = {} /\ session.staged = FALSE
    BY <1>4 DEF NoSession
<1>6. StoreInv /\ OwnedInv /\ WriterInv
    BY <1>4, <1>5 DEF StoreInv, OwnedInv, WriterInv, AtMostOne, Verified
<1>7. SessionInv
    BY <1>5 DEF SessionInv, IndexInv, ConfirmInv, WorkInv, At
<1> QED
    BY <1>3, <1>6, <1>7 DEF AcceptedInv

LEMMA AcceptedStep ==
    ASSUME AcceptedInv, [Next]_vars
    PROVE  AcceptedInv'
BY TypeStep, StoreStep, OwnedInvStep, SessionStep DEF AcceptedInv

LEMMA AcceptedAlways == Spec => []AcceptedInv
<1>1. Init => AcceptedInv
    BY AcceptedInit
<1>2. AcceptedInv /\ [Next]_vars => AcceptedInv'
    BY AcceptedStep
<1> QED
    BY <1>1, <1>2, PTL DEF Spec

-----------------------------------------------------------------------------
(* The properties *)

LEMMA AtMostOneCount ==
    ASSUME NEW S, AtMostOne(S)
    PROVE  Cardinality(S) <= 1
<1>1. CASE S = {}
    BY <1>1, FS_EmptySet
<1>2. ASSUME NEW x \in S PROVE Cardinality(S) <= 1
    <2>1. S = {x}
        BY <1>2 DEF AtMostOne
    <2>2. Cardinality({x}) = 1
        BY FS_Singleton
    <2> QED
        BY <2>1, <2>2
<1> QED
    BY <1>1, <1>2

\* The files, the refs and the session have the types the code gives them, and
\* there are never two entries in accepted.json nor two owners of the stage.
THEOREM AcceptedTypeCorrect == Spec => []TypeOK
<1>1. AcceptedInv => TypeOK
    BY AtMostOneCount DEF AcceptedInv, Types, StoreInv, OwnedInv, TypeOK
<1> QED
    BY <1>1, AcceptedAlways, PTL

\* A published generation holds the records of its validated commit and no other,
\* whichever of the four ways wrote it and whatever interrupted them.
THEOREM ServedAlwaysExact == Spec => []ServedExact
<1>1. AcceptedInv => ServedExact
    BY DEF AcceptedInv, StoreInv, ServedExact
<1> QED
    BY <1>1, AcceptedAlways, PTL

\* What a generation or a sealed stage says its commit retains, it retains:
\* assertDescendant may take its word.
THEOREM RetainedAlwaysTrue == Spec => []RetainedTrue
<1>1. AcceptedInv => RetainedTrue
    BY DEF AcceptedInv, StoreInv, OwnedInv, StageOf, RetainedTrue
<1> QED
    BY <1>1, AcceptedAlways, PTL

LEMMA TransportMoves ==
    ASSUME [Next]_vars
    PROVE  UNCHANGED transport \/ RecordAccepted
<1>1. CASE UNCHANGED vars
    BY <1>1 DEF vars
<1>2. CASE Start \/ Expire \/ Crash \/ World
    BY <1>2 DEF Start, StartSync, StartRebind, Expire, Crash, World, Damage, Advance, Tamper,
                authority
<1>3. CASE Accepting
    BY <1>3 DEF Accepting, Unchanged, FetchTip, Install, Load, Create, Confirm, Anchor,
                Settle, Published, Close, authority
<1>4. CASE Rebuilding
    BY <1>4 DEF Rebuilding, Unpin, Disown, Unstage, Adopt, Pin, Rebound, RecoverCandidate,
                Resume, Abandon, Open, List, Copy, Read, Reduce, Count, Finish, Retain, Seal,
                Promote, Save, StageOnly, authority
<1>5. CASE Publishing
    BY <1>5 DEF Publishing, Extension, Own, Offer, Push, StageOnly, authority
<1> QED
    BY <1>1, <1>2, <1>3, <1>4, <1>5 DEF Next, Work

LEMMA RecordedFacts ==
    ASSUME AcceptedInv, RecordAccepted
    PROVE  /\ transport'.commit = session.fetched /\ session.fetched \in anchors
           /\ transport.commit = Absent \/ Retains(transport.commit, session.fetched)
           /\ session.staged => Ready
           /\ session.mode = "lazy" /\ ~ session.staged =>
                  \E m \in Verified : m.commit = session.fetched
BY DEF RecordAccepted, AcceptedInv, SessionInv, ConfirmInv, IndexInv, At

\* transport.json only moves to an anchored commit that keeps the confirmed one.
THEOREM ConfirmedAlwaysRetains == Spec => ConfirmedRetains
<1>1. AcceptedInv /\ [Next]_vars =>
          (transport'.commit # transport.commit \/ transport'.remote # transport.remote =>
             /\ transport'.commit \in anchors
             /\ transport.commit # Absent => Retains(transport.commit, transport'.commit))
    BY TransportMoves, RecordedFacts
<1> QED
    BY <1>1, AcceptedAlways, PTL DEF Spec, ConfirmedRetains

\* An automatic sync confirms what a verified generation or a complete, sealed and
\* pinned stage holds.
THEOREM HandoffAlwaysSealed == Spec => HandoffSealed
<1> DEFINE Handoff ==
        (session.mode = "lazy" /\ transport' # transport) =>
          \/ Loaded(transport'.commit) # {}
          \/ /\ stage.sealed /\ stage.phase = "retention" /\ pinned
             /\ \E o \in owner : o.commit = transport'.commit /\ o.base = Absent
<1>1. ASSUME AcceptedInv, [Next]_vars PROVE Handoff
    BY <1>1, TransportMoves, RecordedFacts DEF Loaded, Ready
<1>2. AcceptedInv /\ [Next]_vars => Handoff
    BY <1>1
<1> QED
    BY <1>2, AcceptedAlways, PTL DEF Spec, HandoffSealed

LEMMA FaultCounted ==
    ASSUME AcceptedInv, Damage
    PROVE  faults' # faults
BY BoundAssumption DEF Damage, AcceptedInv, Types

LEMMA KeptStep ==
    ASSUME AcceptedInv, [Next]_vars, NEW m \in Verified, NEW s \in Slot,
           slots[s].whole, transport.commit # Absent,
           transport.commit = IF s = m.slot THEN m.commit ELSE m.previous,
           faults' = faults
    PROVE  slots'[s] = slots[s]
<1>1. CASE Aside
    BY <1>1 DEF Aside, indexVars
<1>2. CASE Claims
    <2>1. PICK w \in Writer : /\ w.slot = InactiveSlot /\ Claim(w) /\ UNCHANGED manifest
                              /\ ~ Pinned(transport.commit, Bases)
        BY <1>2 DEF Claims
    <2>2. /\ \A x \in Verified : x.slot # w.slot
          /\ \A x \in Slot \ {w.slot} : slots'[x] = slots[x]
        BY <2>1, ClaimFacts DEF AcceptedInv, StoreInv
    <2>3. s # w.slot
        BY <2>1, <2>2 DEF Pinned
    <2> QED
        BY <2>2, <2>3
<1>3. CASE \E w \in session.writer : Publish(w)
    <2>1. PICK w \in session.writer : Publish(w)
        BY <1>3
    <2>2. s # w.slot
        BY <2>1 DEF AcceptedInv, WriterInv
    <2> QED
        BY <2>1, <2>2 DEF Publish, AcceptedInv, Types
<1> QED
    BY <1>1, <1>2, <1>3, IndexMoves, FaultCounted

\* The generation of the confirmed commit is not overwritten while it is confirmed.
THEOREM ConfirmedAlwaysKept == Spec => ConfirmedKept
<1> DEFINE Kept ==
        \A m \in Verified : \A s \in Slot :
          (/\ slots[s].whole /\ transport.commit # Absent
           /\ transport.commit = IF s = m.slot THEN m.commit ELSE m.previous
           /\ faults' = faults /\ transport' = transport) => slots'[s] = slots[s]
<1>1. AcceptedInv /\ [Next]_vars => Kept
    BY KeptStep
<1> QED
    BY <1>1, AcceptedAlways, PTL DEF Spec, ConfirmedKept

\* No interruption takes the published generation away.
THEOREM CacheAlwaysSurvives == Spec => CacheSurvives
<1> DEFINE Survives == Verified # {} /\ faults' = faults => Verified' # {}
<1>1. ASSUME AcceptedInv, [Next]_vars, Verified # {}, faults' = faults
      PROVE  Verified' # {}
    <2>1. CASE Aside
        BY <1>1, <2>1, SameIndex DEF Aside
    <2>2. CASE Claims
        BY <1>1, <2>2, ClaimFacts DEF Claims, AcceptedInv, StoreInv
    <2>3. CASE \E w \in session.writer : Publish(w)
        BY <1>1, <2>3, PublishFacts DEF AcceptedInv, WriterInv
    <2> QED
        BY <1>1, <2>1, <2>2, <2>3, IndexMoves, FaultCounted
<1>2. AcceptedInv /\ [Next]_vars => Survives
    BY <1>1
<1> QED
    BY <1>2, AcceptedAlways, PTL DEF Spec, CacheSurvives

=============================================================================
