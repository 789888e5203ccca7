----------------------------- MODULE AcceptedStage -----------------------------
(***************************************************************************)
(* How a clone accepts a fetched tip through its private cache: one sync   *)
(* or rebind at a time (the caller holds the store lease) against remotes  *)
(* other clones move.  An automatic sync ("lazy") that finds no cached     *)
(* generation validates the commit in a stage that several bounded calls   *)
(* resume; a manual sync ("full") or a rebind reads it in one call.        *)
(* Source: packages/core/src/storage/accepted-stage.ts, accepted-index.ts, *)
(* git/data-transport.ts (fetch, commitExtension, assertDescendant),       *)
(* operations/sync.ts (confirmAccepted) and operations/rebind.ts.          *)
(***************************************************************************)
EXTENDS AcceptedIndex

CONSTANTS
    Remote,       \* push URLs that can be bound
    Mode,         \* the kinds of sessions that start
    Outgoing,     \* records this clone has pending
    MaxCommits,   \* bound: length of a history
    MaxMoves,     \* bound: times a remote is rewritten or another one is bound
    MaxFaults     \* bound: crashes, exhausted budgets and damaged files

ASSUME ModeAssumption == Mode # {} /\ Mode \subseteq {"lazy", "full", "rebind"}
ASSUME OutgoingAssumption == Outgoing \subseteq Record
ASSUME BoundAssumption == MaxCommits \in Nat /\ MaxMoves \in Nat /\ MaxFaults \in Nat

VARIABLES
    remote,       \* the tip of every remote
    transport,    \* transport.json: the bound remote and the confirmed commit
    anchors,      \* refs/agent-badge/accepted/<commit>
    owner,        \* accepted-stage-owner.json: at most one entry
    pinned,       \* refs/agent-badge/staging/<uuid> of the owner exists
    stage,        \* accepted-stage.sqlite and accepted-stage.json
    session,      \* the call that holds the lease
    moves, faults

stageVars == <<owner, pinned, stage>>
authority == <<transport, anchors>>
world == <<remote, moves, faults>>
vars == <<slots, manifest, remote, transport, anchors, owner, pinned, stage,
          session, moves, faults>>

-----------------------------------------------------------------------------
(* State.                                                                  *)

\* "base" is candidateBase: absent for the stage of a fetched commit.
Owner == [commit : History, base : History, binding : Remote]

\* "listed" and "records" are the inventory and records tables, "started" says
\* that the running summary exists and "counted" what it sums up, "cursor" and "anchor" the retention scan.
\* "sealed" says that accepted-stage.json matches the database and the owner.
Stage == [phase : {"none", "candidate", "tree", "blobs", "reduce", "finish", "retention"},
          listed : SUBSET Record, copied : BOOLEAN, records : SUBSET Record,
          counted : SUBSET Record, started : BOOLEAN, retained : History,
          anchor : History, cursor : Nat, sealed : BOOLEAN]

NoStage == [phase |-> "none", listed |-> {}, copied |-> FALSE, records |-> {},
            counted |-> {}, started |-> FALSE, retained |-> Absent,
            anchor |-> Absent, cursor |-> 0, sealed |-> FALSE]

Step == {"idle", "tip", "cache", "create", "rebuild", "unpin", "disown", "unstage",
         "pin", "open", "work", "save", "promote", "publish", "confirm", "anchor",
         "record", "settle", "own", "offer", "push", "close"}

\* "index" is the open generation, "writer" a replacement not yet published,
\* "candidate" the commit this session built, "staged" a confirmation made from
\* the sealed stage, "next" where a shared sequence of steps returns to.
Session == [pc : Step, mode : Mode, remote : Remote \cup {"none"}, fetched : History,
            index : SUBSET Entry, writer : SUBSET Writer,
            candidate : History, staged : BOOLEAN, rebuilt : BOOLEAN,
            next : {"none", "rebuild", "own", "promoted", "recovered", "installed"}]

NoSession == [pc |-> "idle", mode |-> CHOOSE m \in Mode : TRUE,
              remote |-> "none",
              fetched |-> Absent, index |-> {}, writer |-> {},
              candidate |-> Absent, staged |-> FALSE, rebuilt |-> FALSE,
              next |-> "none"]

TypeOK ==
    /\ slots \in [Slot -> Generation]
    /\ manifest \in SUBSET Entry /\ Cardinality(manifest) <= 1
    /\ remote \in [Remote -> History]
    /\ transport \in [remote : Remote, commit : History]
    /\ anchors \in SUBSET History
    /\ owner \in SUBSET Owner /\ Cardinality(owner) <= 1
    /\ pinned \in BOOLEAN
    /\ stage \in Stage
    /\ session \in Session
    /\ moves \in 0 .. MaxMoves /\ faults \in 0 .. MaxFaults

\* The bound remote holds a ledger this clone has not seen.
Init ==
    /\ IndexInit
    /\ \E r \in Remote, records \in SUBSET Record, meta \in Meta :
          /\ remote = [s \in Remote |->
                          IF s = r THEN Extend(Absent, records, meta) ELSE Absent]
          /\ transport = [remote |-> r, commit |-> Absent]
    /\ anchors = {} /\ owner = {} /\ pinned = FALSE /\ stage = NoStage
    /\ session = NoSession /\ moves = 0 /\ faults = 0

-----------------------------------------------------------------------------
(* Helpers.                                                                *)

Goto(step) == session' = [session EXCEPT !.pc = step]

\* The session is over.  What a remote that is not bound holds is unknown.
End == /\ session' = NoSession
       /\ remote' = [r \in Remote |-> IF r = transport.remote THEN remote[r] ELSE Absent]

\* An error or a result: the finally clause closes the cache.
Leave == Goto("close")

UpTo(records, n) == {r \in records : r <= n}

Bases == {o.base : o \in owner} \ {Absent}

\* The slot is claimed and filled by w, then published, then "next" is done.
Write(w, next) ==
    /\ Claim(w)
    /\ session' = [session EXCEPT !.pc = "publish", !.writer = {w}, !.next = next]
    /\ UNCHANGED manifest

-----------------------------------------------------------------------------
(* Starting a session and reading the remote.                              *)

StartSync(mode) ==
    /\ session.pc = "idle" /\ mode \in Mode \cap {"lazy", "full"}
    /\ session' = [NoSession EXCEPT !.pc = "tip", !.mode = mode,
                      !.remote = transport.remote]
    /\ UNCHANGED <<indexVars, authority, stageVars, world>>

\* The other remote holds a copy of the ledger, an older one, or one that went on.
Copies(h) ==
    {SubSeq(h, 1, n) : n \in 1 .. Len(h)}
    \cup {Extend(h, records, MetaOf(h)) :
             records \in {kept \in SUBSET Record : RecordsOf(h) \subseteq kept}}

StartRebind(r) ==
    /\ session.pc = "idle" /\ "rebind" \in Mode
    /\ transport.commit # Absent /\ r # transport.remote
    /\ moves < MaxMoves /\ moves' = moves + 1
    /\ \E h \in Copies(remote[transport.remote]) :
          Len(h) <= MaxCommits /\ remote' = [remote EXCEPT ![r] = h]
    /\ session' = [NoSession EXCEPT !.pc = "tip", !.mode = "rebind", !.remote = r]
    /\ UNCHANGED <<indexVars, authority, stageVars, faults>>

\* An automatic sync with nothing pending is done when the tip is the one it
\* confirmed.
Unchanged ==
    /\ session.pc = "tip" /\ session.mode = "lazy" /\ session.candidate = Absent
    /\ transport.commit # Absent /\ remote[session.remote] = transport.commit
    /\ transport.commit \in anchors
    /\ Leave
    /\ UNCHANGED <<indexVars, authority, stageVars, world>>

FetchTip ==
    /\ session.pc = "tip"
    /\ LET tip == remote[session.remote]
       IN  IF tip = Absent THEN Leave
           ELSE session' = [session EXCEPT !.pc = "cache", !.fetched = tip]
    /\ UNCHANGED <<indexVars, authority, stageVars, world>>

-----------------------------------------------------------------------------
(* DataTransport.fetch: the cached generation of the fetched commit.       *)

\* The tip is the candidate this session pushed: its delta is applied to the
\* open base and published before anything else.
Installs == session.candidate # Absent /\ session.fetched = session.candidate
              /\ \E m \in session.index : \E o \in owner : m.commit = o.base

Install ==
    /\ session.pc = "cache" /\ Installs
    /\ \E m \in session.index :
          IF Pinned(transport.commit, Bases)
            THEN Leave /\ UNCHANGED indexVars
            ELSE Write(Claimed(session.candidate, RecordsIn(m) \cup stage.records,
                               m.commit), "installed")
    /\ UNCHANGED <<authority, stageVars, world>>

Load ==
    /\ session.pc = "cache" /\ ~ Installs
    /\ LET found == Loaded(session.fetched)
       IN  session' = [session EXCEPT !.index = found,
              !.pc = IF found # {} THEN "confirm"
                     ELSE IF session.mode = "lazy" THEN "rebuild" ELSE "create"]
    /\ UNCHANGED <<indexVars, authority, stageVars, world>>

\* A manual caller validates the whole commit in memory.  A pinned slot does
\* not stop it; otherwise the new generation is published when it closes.
Create ==
    /\ session.pc = "create"
    /\ IF ~ Valid(session.fetched) THEN Leave /\ UNCHANGED indexVars
       ELSE IF Pinned(transport.commit, Bases)
         THEN Goto("confirm") /\ UNCHANGED indexVars
         ELSE LET w == Claimed(session.fetched, RecordsOf(session.fetched), Absent)
              IN  /\ Claim(w)
                  /\ session' = [session EXCEPT !.pc = "confirm", !.writer = {w}]
                  /\ UNCHANGED manifest
    /\ UNCHANGED <<authority, stageVars, world>>

-----------------------------------------------------------------------------
(* confirmAccepted.                                                        *)

\* What the session looks immutable paths up in, and the commit it knows the
\* fetched one to keep every path of.
Listing ==
    IF session.staged THEN stage.records
    ELSE IF session.mode # "lazy" THEN RecordsOf(session.fetched)
    ELSE UNION {RecordsIn(m) : m \in session.index}

RetainedParents ==
    ({m.retained : m \in session.index} \cup
        (IF session.staged THEN {stage.retained} ELSE {})) \ {Absent}

\* Mutant of Descends: ancestry alone is taken as proof.
DescendsOnly(commit, accepted) == Ancestor(accepted, commit)

\* DataTransport.assertDescendant
Descends(commit, accepted) ==
    /\ accepted \in anchors
    /\ Ancestor(accepted, commit)
    /\ \/ commit = accepted
       \/ accepted \in RetainedParents
       \/ RecordsOf(accepted) \subseteq Listing

Confirm ==
    /\ session.pc = "confirm"
    /\ IF transport.commit = Absent \/ Descends(session.fetched, transport.commit)
         THEN Goto("anchor") ELSE Leave
    /\ UNCHANGED <<indexVars, authority, stageVars, world>>

Anchor ==
    /\ session.pc = "anchor"
    /\ anchors' = anchors \cup {session.fetched}
    /\ Goto("record")
    /\ UNCHANGED <<indexVars, transport, stageVars, world>>

\* A rebind replaces the remote and the commit of transport.json at once.
RecordAccepted ==
    /\ session.pc = "record"
    /\ transport' = [remote |-> session.remote, commit |-> session.fetched]
    /\ session' = [session EXCEPT !.staged = FALSE,
                      !.pc = IF session.staged THEN "promote" ELSE "settle"]
    /\ UNCHANGED <<indexVars, anchors, stageVars, world>>

\* Anything but an automatic sync that found its generation is done here (what
\* a manual sync publishes is a commit of a remote, as Advance makes them).
Settle ==
    /\ session.pc = "settle" /\ Leave
    /\ UNCHANGED <<indexVars, authority, stageVars, world>>

-----------------------------------------------------------------------------
(* Dropping an owner: its ref, its receipt, then the files of the stage.   *)
(* These are separate steps: a crash may come between any two.             *)

\* git update-ref -d fails when the ref does not exist.
Unpin ==
    /\ session.pc = "unpin"
    /\ IF pinned THEN pinned' = FALSE /\ Goto("disown")
                 ELSE Leave /\ UNCHANGED pinned
    /\ UNCHANGED <<indexVars, authority, owner, stage, world>>

Disown ==
    /\ session.pc = "disown"
    /\ owner' = {}
    /\ Goto("unstage")
    /\ UNCHANGED <<indexVars, authority, pinned, stage, world>>

\* After a promotion the session goes on only if the promoted commit is the
\* fetched one; after a recovery the generation is looked up again.
Unstage ==
    /\ session.pc = "unstage"
    /\ stage' = NoStage
    /\ LET found == Loaded(session.fetched)
       IN  session' = CASE session.next = "promoted" ->
                             [session EXCEPT !.index = found, !.rebuilt = TRUE,
                                !.pc = IF found # {} THEN "confirm" ELSE "close"]
                        [] session.next = "recovered" -> [session EXCEPT !.pc = "cache"]
                        [] OTHER -> [session EXCEPT !.pc = session.next]
    /\ UNCHANGED <<indexVars, authority, owner, pinned, world>>

Published ==
    /\ session.pc = "publish"
    /\ \E w \in session.writer : Publish(w)
    /\ stage' = IF session.next = "promoted" THEN NoStage ELSE stage
    /\ session' = [session EXCEPT !.writer = {}, !.index = {},
                      !.pc = IF session.next = "installed" THEN "cache" ELSE "unpin"]
    /\ UNCHANGED <<authority, owner, pinned, world>>

-----------------------------------------------------------------------------
(* rebuildAcceptedIndex: whose stage it is.                                *)

\* A new owner has a ref of its own, and no manifest of an earlier stage is
\* valid for it.
NewOwner(commit, base) ==
    /\ owner' = {[commit |-> commit, base |-> base, binding |-> session.remote]}
    /\ pinned' = FALSE
    /\ stage' = NoStage
    /\ Goto("pin")

Adopt ==
    /\ session.pc = "rebuild" /\ owner = {}
    /\ NewOwner(session.fetched, Absent)
    /\ UNCHANGED <<indexVars, authority, world>>

\* The ref keeps the objects of the staged commit from being collected.
Pin ==
    /\ session.pc = "pin"
    /\ pinned' = TRUE
    /\ \E o \in owner : Goto(IF o.base = Absent THEN "open" ELSE "offer")
    /\ UNCHANGED <<indexVars, authority, owner, stage, world>>

\* The stage belongs to a remote that is no longer bound.
Rebound ==
    /\ session.pc = "rebuild" /\ \E o \in owner : o.binding # session.remote
    /\ session' = [session EXCEPT !.pc = "unpin", !.next = "rebuild"]
    /\ UNCHANGED <<indexVars, authority, stageVars, world>>

\* The stage is a candidate an interrupted session may have pushed: it extends
\* a base that is still verified, and the fetched tip contains it.
Recoverable(o) ==
    /\ stage.sealed /\ stage.phase = "candidate"
    /\ Ancestor(o.commit, session.fetched)
    /\ o.base \in anchors /\ pinned
    /\ \E m \in Loaded(o.base) : RecordsIn(m) \cup stage.records = RecordsOf(o.commit)

Recover(o) ==
    IF ~ Recoverable(o)
      THEN /\ session' = [session EXCEPT !.pc = "unpin", !.next = "recovered"]
           /\ UNCHANGED indexVars
    ELSE IF ~ RecordsOf(o.commit) \subseteq RecordsOf(session.fetched)
      THEN Leave /\ UNCHANGED indexVars
    ELSE IF Pinned(transport.commit, Bases)
      THEN /\ session' = [session EXCEPT !.pc = "unpin", !.next = "recovered"]
           /\ UNCHANGED indexVars
    ELSE Write(Claimed(o.commit, RecordsOf(o.commit), o.base), "recovered")

RecoverCandidate ==
    /\ session.pc = "rebuild"
    /\ \E o \in owner : /\ o.binding = session.remote /\ o.base # Absent
                        /\ Recover(o)
    /\ UNCHANGED <<authority, stageVars, world>>

\* A stage of a fetched commit is resumed under its ref.  Without the ref the
\* commit must still be there, or be fetched by its name: the fetched tip has it
\* among its ancestors or the remote may have dropped it.
Resume ==
    /\ session.pc = "rebuild"
    /\ \E o \in owner : o.binding = session.remote /\ o.base = Absent
    /\ pinned' = TRUE
    /\ Goto("open")
    /\ UNCHANGED <<indexVars, authority, owner, stage, world>>

Abandon ==
    /\ session.pc = "rebuild" /\ ~ pinned
    /\ \E o \in owner : /\ o.binding = session.remote /\ o.base = Absent
                        /\ ~ Ancestor(o.commit, session.fetched)
    /\ owner' = {} /\ stage' = NoStage
    /\ UNCHANGED <<indexVars, authority, pinned, session, world>>

-----------------------------------------------------------------------------
(* rebuildAcceptedIndex: the phases of the stage of a fetched commit.  A   *)
(* phase that the budget of the call does not finish is saved by Save.    *)

Staged == (CHOOSE o \in owner : TRUE).commit

\* The stage is resumed from a manifest that matches it, or started afresh;
\* the first write to the database unseals it.
Open ==
    /\ session.pc = "open"
    /\ stage' = IF stage.sealed THEN [stage EXCEPT !.sealed = FALSE]
              ELSE [NoStage EXCEPT !.phase = "tree"]
    /\ Goto("work")
    /\ UNCHANGED <<indexVars, authority, owner, pinned, world>>

Working(phase) == session.pc = "work" /\ stage.phase = phase

\* A phase of a call leaves the authority and the published index alone.
StageOnly == UNCHANGED <<indexVars, authority, owner, pinned, world>>

\* The budget of a call may run out after any phase, and does inside one that it
\* leaves unfinished.
Proceed(finished) == (finished /\ UNCHANGED session) \/ Goto("save")

Save ==
    /\ session.pc = "save"
    /\ stage' = [stage EXCEPT !.sealed = TRUE]
    /\ Leave
    /\ StageOnly

\* A thrown error removes accepted-stage.json; a database without it is worthless.
Throw == stage' = NoStage /\ Leave

\* The records up to a path, at least one of them new or nothing left to do.
Chunk(all, done) ==
    {part \in {done \cup UpTo(all, n) : n \in {0} \cup Record} : part # done \/ part = all}

\* The tree is listed in path order from the last listed path.
List ==
    /\ Working("tree")
    /\ LET all == RecordsOf(Staged)
       IN  \E listed \in Chunk(all, stage.listed) :
              /\ stage' = [stage EXCEPT !.listed = listed,
                              !.phase = IF listed = all THEN "blobs" ELSE "tree"]
              /\ Proceed(listed = all)
    /\ StageOnly

\* The records the current generation holds under the same path and object are
\* copied.  If that generation is the confirmed one, all of them must be there.
Copy ==
    /\ Working("blobs") /\ ~ stage.copied
    /\ LET known == UNION {RecordsIn(m) : m \in Verified}
       IN  IF (\E m \in Verified : m.commit = transport.commit) /\ ~ known \subseteq stage.listed
             THEN Throw
             ELSE /\ stage' = [stage EXCEPT !.copied = TRUE,
                                  !.records = stage.listed \cap known]
                  /\ Proceed(TRUE)
    /\ StageOnly

\* The other blobs are read in path order, checked against their names and stored.
Read ==
    /\ Working("blobs") /\ stage.copied
    /\ \E records \in Chunk(stage.listed, stage.records) :
          /\ stage' = [stage EXCEPT !.records = records,
                          !.phase = IF records = stage.listed THEN "reduce" ELSE "blobs"]
          /\ Proceed(records = stage.listed)
    /\ StageOnly

\* Mutant of Extends: the records are not compared.
ExtendsMeta(m) == MetaOf(m.commit) = MetaOf(Staged)

\* A generation with the same metadata whose records are all here is extended:
\* its summary covers them, and the stage is known to retain that commit.
Extends(m) == /\ MetaOf(m.commit) = MetaOf(Staged)
              /\ RecordsIn(m) \subseteq stage.records

Reduce ==
    /\ Working("reduce") /\ ~ stage.started
    /\ stage' = IF \E m \in Verified : Extends(m)
                  THEN [stage EXCEPT !.started = TRUE, !.counted = stage.records,
                          !.retained = (CHOOSE m \in Verified : TRUE).commit]
                  ELSE [stage EXCEPT !.started = TRUE]
    /\ Proceed(TRUE)
    /\ StageOnly

\* Otherwise the summary adds up the connected components one after the other.
Count ==
    /\ Working("reduce") /\ stage.started
    /\ \E counted \in Chunk(stage.records, stage.counted) :
          /\ stage' = [stage EXCEPT !.counted = counted,
                          !.phase = IF counted = stage.records THEN "finish" ELSE "reduce"]
          /\ Proceed(counted = stage.records)
    /\ StageOnly

\* Mutant of Complete: the derived artifacts are not compared.
CompleteRecords == stage.records = stage.listed

\* The tree holds the listed records and the derived artifacts, nothing else,
\* and the artifacts are those of the summary and of the hashes of the records.
Complete == /\ Valid(Staged)
            /\ stage.records = RecordsOf(Staged) /\ stage.counted = stage.records

Finish ==
    /\ Working("finish")
    /\ IF Complete THEN stage' = [stage EXCEPT !.phase = "retention"] /\ Proceed(TRUE)
                   ELSE Throw
    /\ StageOnly

\* A scan for another confirmed commit starts from its first path.
Rescan(anchor) == [stage EXCEPT !.anchor = anchor, !.cursor = 0]

NeedsScan == transport.commit \notin {Absent, Staged, stage.retained}

\* Every path of the confirmed commit must be listed: in path order, resumed at
\* the cursor.
Retain ==
    /\ Working("retention") /\ transport.commit \notin {Absent, Staged}
    /\ \/ stage.anchor # transport.commit \/ NeedsScan
    /\ IF stage.anchor # transport.commit
         THEN IF transport.commit \in anchors /\ Ancestor(transport.commit, Staged)
                THEN stage' = Rescan(transport.commit) /\ UNCHANGED session
                ELSE Throw
         ELSE LET left == {r \in RecordsOf(transport.commit) : r > stage.cursor}
              IN  \E part \in Chunk(left, {}) :
                    IF ~ part \subseteq stage.listed THEN Throw
                    ELSE /\ stage' = [stage EXCEPT
                               !.cursor = IF part = {} THEN @ ELSE
                                   CHOOSE r \in part : \A q \in part : q <= r,
                               !.retained = IF part = left THEN transport.commit ELSE @]
                         /\ IF part = left THEN UNCHANGED session ELSE Goto("save")
    /\ StageOnly

\* Mutant of Requested: a stage of any commit is handed over.
AnyStage == TRUE

Requested == Staged = session.fetched

\* The validated stage is saved.  Only the stage of the fetched commit is
\* confirmed before it is promoted.
Seal ==
    /\ Working("retention")
    /\ transport.commit \in {Absent, Staged} \/ (stage.anchor = transport.commit /\ ~ NeedsScan)
    /\ stage' = [stage EXCEPT !.sealed = TRUE]
    /\ session' = IF Requested
                    THEN [session EXCEPT !.pc = "confirm", !.staged = TRUE]
                    ELSE [session EXCEPT !.pc = "promote"]
    /\ StageOnly

\* AcceptedIndex.promote: the stage is copied into the inactive slot.  A pinned
\* slot ends the call; the saved stage stays.
Promote ==
    /\ session.pc = "promote"
    /\ IF Pinned(transport.commit, Bases) THEN Leave /\ UNCHANGED indexVars
       ELSE Write(Claimed(Staged, stage.records, stage.retained), "promoted")
    /\ UNCHANGED <<authority, stageVars, world>>

-----------------------------------------------------------------------------
(* Publishing from the cache: DataTransport.commitExtension and            *)
(* prepareAcceptedCandidate.                                               *)

\* A first fetch that had to rebuild the cache ends the call instead.  Whatever
\* stage there was is dropped.
Extension ==
    /\ session.pc = "settle" /\ session.mode = "lazy"
    /\ ~ session.rebuilt \/ session.candidate # Absent
    /\ \E m \in session.index : \E r \in Outgoing \ RecordsIn(m) :
          /\ Len(m.commit) < MaxCommits
          /\ session' = [session EXCEPT !.next = "own",
                !.candidate = Extend(m.commit, RecordsIn(m) \cup {r}, MetaOf(m.commit)),
                !.pc = IF owner = {} THEN "unstage" ELSE "unpin"]
    /\ UNCHANGED <<indexVars, authority, stageVars, world>>

Own ==
    /\ session.pc = "own"
    /\ \E m \in session.index : NewOwner(session.candidate, m.commit)
    /\ UNCHANGED <<indexVars, authority, world>>

\* The delta is saved, sealed, before the candidate is sent.
Offer ==
    /\ session.pc = "offer"
    /\ \E m \in session.index :
          stage' = [NoStage EXCEPT !.phase = "candidate", !.sealed = TRUE,
                      !.records = RecordsOf(session.candidate) \ RecordsIn(m)]
    /\ Goto("push")
    /\ StageOnly

\* The push is a compare-and-swap at the remote; its answer may be lost either
\* way, so the outcome is read back.
Push ==
    /\ session.pc = "push"
    /\ \E o \in owner :
          \/ /\ remote[session.remote] = o.base
             /\ remote' = [remote EXCEPT ![session.remote] = o.commit]
          \/ UNCHANGED remote
    /\ Goto("tip")
    /\ UNCHANGED <<indexVars, authority, stageVars, moves, faults>>

\* DataTransport.closeCache in the finally clause publishes a created index.
Close ==
    /\ session.pc = "close"
    /\ IF session.writer = {} THEN UNCHANGED indexVars
                              ELSE \E w \in session.writer : Publish(w)
    /\ End
    /\ UNCHANGED <<authority, stageVars, moves, faults>>

-----------------------------------------------------------------------------
(* Faults.                                                                 *)

\* The deadline or an abort: the pending call throws, anywhere.
Expire ==
    /\ session.pc \notin {"idle", "publish", "close"} /\ faults < MaxFaults
    /\ faults' = faults + 1
    /\ stage' = IF session.pc \in {"work", "save"} THEN NoStage ELSE stage
    /\ Leave
    /\ UNCHANGED <<indexVars, authority, owner, pinned, remote, moves>>

\* The process is killed: what is on disk stays, but a database that was being
\* written no longer matches its manifest.
Crash ==
    /\ session.pc # "idle" /\ faults < MaxFaults
    /\ faults' = faults + 1
    /\ End
    /\ stage' = IF stage.sealed THEN stage ELSE NoStage
    /\ UNCHANGED <<indexVars, authority, owner, pinned, moves>>

\* A private file or ref is lost or changed behind the program's back.
Damage ==
    /\ session.pc = "idle" /\ faults < MaxFaults
    /\ faults' = faults + 1
    /\ \/ /\ \E m \in manifest : slots' = [slots EXCEPT ![m.slot].whole = FALSE]
          /\ UNCHANGED <<stage, pinned>>
       \/ stage.sealed /\ stage' = NoStage /\ UNCHANGED <<slots, pinned>>
       \/ pinned /\ pinned' = FALSE /\ UNCHANGED <<slots, stage>>
    /\ UNCHANGED <<manifest, authority, owner, session, remote, moves>>

-----------------------------------------------------------------------------
(* The remotes.                                                            *)

\* A session reads a remote in FetchTip and Push only: what happens there between
\* other steps may as well happen before.
Observed == \/ session.pc \in {"idle", "push"}
            \/ session.pc = "tip" /\ session.candidate # Absent

\* Other clones, and manual syncs of this one, append to the remote in use.
Advance(r) ==
    /\ Observed
    /\ r = transport.remote
    /\ Valid(remote[r]) /\ Len(remote[r]) < MaxCommits
    /\ \E records \in SUBSET Record, meta \in Meta :
          /\ RecordsOf(remote[r]) \subseteq records
          /\ remote' = [remote EXCEPT ![r] = Extend(@, records, meta)]
    /\ UNCHANGED <<indexVars, authority, stageVars, session, moves, faults>>

\* The owner of the remote in use commits a tree that lost records or is malformed, or
\* moves the ref back.
Tampered(h) ==
    {Extend(h, kept, MetaOf(h)) : kept \in SUBSET RecordsOf(h) \ {RecordsOf(h)}}
    \cup {Extend(h, RecordsOf(h), Malformed), SubSeq(h, 1, Len(h) - 1)}

Tamper(r) ==
    /\ Observed
    /\ r = transport.remote
    /\ moves < MaxMoves /\ moves' = moves + 1
    /\ Valid(remote[r])
    /\ \E h \in Tampered(remote[r]) \ {Absent} :
          /\ Len(h) <= MaxCommits
          /\ remote' = [remote EXCEPT ![r] = h]
    /\ UNCHANGED <<indexVars, authority, stageVars, session, faults>>

-----------------------------------------------------------------------------

Start == (\E mode \in Mode : StartSync(mode)) \/ \E r \in Remote : StartRebind(r)

Accepting == \/ Unchanged \/ FetchTip \/ Install \/ Load \/ Create
             \/ Confirm \/ Anchor \/ RecordAccepted \/ Settle \/ Published \/ Close

Rebuilding == \/ Unpin \/ Disown \/ Unstage \/ Adopt \/ Pin \/ Rebound
              \/ RecoverCandidate \/ Resume \/ Abandon
              \/ Open \/ List \/ Copy \/ Read \/ Reduce \/ Count \/ Finish
              \/ Retain \/ Seal \/ Promote \/ Save

Publishing == Extension \/ Own \/ Offer \/ Push

Work == Accepting \/ Rebuilding \/ Publishing

World == \/ Damage
         \/ \E r \in Remote : Advance(r) \/ Tamper(r)

Next == Start \/ Work \/ Expire \/ Crash \/ World

Spec == Init /\ [][Next]_vars

-----------------------------------------------------------------------------
(* Properties.                                                             *)

\* A generation that a reader would take is that of a validated commit, with
\* all the records of that commit and no other, whichever way it was built:
\* read at once, staged over several interrupted calls, or extended by a delta.
ServedExact ==
    \A m \in Verified : Valid(m.commit) /\ RecordsIn(m) = RecordsOf(m.commit)

\* What an accepted index or a sealed stage says its commit retains, it retains:
\* assertDescendant takes this word instead of comparing the trees.
RetainedTrue ==
    /\ \A m \in Verified : RecordsOf(m.retained) \subseteq RecordsOf(m.commit)
    /\ \A o \in owner :
          stage.sealed => RecordsOf(stage.retained) \subseteq RecordsOf(o.commit)

\* transport.json only ever moves to an anchored commit that keeps every record
\* of the one before, also when a rebind replaces the remote with it.
ConfirmedRetains ==
    [][transport'.commit # transport.commit \/ transport'.remote # transport.remote =>
          /\ transport'.commit \in anchors
          /\ transport.commit # Absent => Retains(transport.commit, transport'.commit)]_vars

\* An automatic sync confirms from a verified generation of that commit, or from
\* its complete stage on disk, which is then still there to be promoted later.
HandoffSealed ==
    [][(session.mode = "lazy" /\ transport' # transport) =>
          \/ Loaded(transport'.commit) # {}
          \/ /\ stage.sealed /\ stage.phase = "retention" /\ pinned
             /\ \E o \in owner : o.commit = transport'.commit /\ o.base = Absent]_vars

\* While it is the confirmed commit, its generation is not overwritten, be it the
\* current one or the one before.
ConfirmedKept ==
    [][\A m \in Verified : \A s \in Slot :
          (/\ slots[s].whole /\ transport.commit # Absent
           /\ transport.commit = IF s = m.slot THEN m.commit ELSE m.previous
           /\ faults' = faults /\ transport' = transport) => slots'[s] = slots[s]]_vars

\* No interruption leaves the clone without the index it had: only damage from
\* outside does.
CacheSurvives == [][Verified # {} /\ faults' = faults => Verified' # {}]_vars

=============================================================================
