-------------------------------- MODULE Collect --------------------------------
(***************************************************************************)
(* Local collection of usage (collection/collect.ts): sources that grow,   *)
(* are rewritten and disappear; working directories that move; a private   *)
(* policy the user edits; operations that decide old evidence again,       *)
(* resume each source at its checkpoint and journal what they find; and    *)
(* the include and exclude commands (agent-badge commands/controls.ts).    *)
(*                                                                         *)
(* An operation reads the private policy before it takes the lease of      *)
(* StoreLease; everything it journals, it journals holding it.  Each       *)
(* commitBatch is one action, and an operation can stop between any two.   *)
(***************************************************************************)
EXTENDS Attribution, Sequences, SequencesExt, Functions

CONSTANTS
    StartPolicy,   \* the private policy at first
    Edits,         \* policies the user may write
    StartFiles,    \* the sources at first
    StartPlaces,   \* what stands at each working directory at first
    Places,        \* what may stand there later
    Modes,         \* operations that run: manual, full, automatic
    MaxSources,    \* sources one automatic operation looks at (16)
    ScanLimit,     \* entries an automatic operation reads of one source
    Patient,       \* no choice returns while decisions under it are left
    Settled,       \* nobody edits the policy while an operation has read it
    MaxLines,      \* bound: entries of one source
    MaxChanges,    \* bound: changes of sources
    MaxEdits,      \* bound: edits of the policy and moves of working directories
    MaxStops       \* bound: interrupted operations and failed sources

ASSUME CollectAssumption ==
    /\ Source \subseteq Nat \* in the order of identities
    /\ StartPolicy \in Policy /\ Edits \subseteq Policy
    /\ StartFiles \in [Source -> SUBSET [lines : Seq(Unit), epoch : {0}]]
    /\ \A s \in Source : \A f, g \in StartFiles[s] : f = g
    /\ StartPlaces \in [Cwd -> Place] /\ Places \subseteq Place
    /\ Modes \subseteq {"manual", "full", "automatic"}
    /\ MaxSources \in Nat \ {0} /\ ScanLimit \in Nat \ {0}
    /\ Patient \in BOOLEAN /\ Settled \in BOOLEAN
    /\ {MaxLines, MaxChanges, MaxEdits, MaxStops} \subseteq Nat

VARIABLES
    file,        \* the sources as they are
    place,       \* what stands at each working directory
    policy,      \* the private policy of the activation
    decided,     \* journaled observations, each with its latest decision
    recorded,    \* units with a public record in the journal
    chain,       \* the controls of each unit, each superseding the one before
    checkpoint,  \* the latest checkpoint candidate of each source
    flag,        \* whether reconciliation is pending
    offset,      \* where the next automatic operation starts
    waiting,     \* an operation that has read the policy and has no lease yet
    pc,          \* where the operation with the lease stands
    run,         \* that operation
    bounds       \* how many of the bounded events there were

world == << file, place, policy >>
journal == << decided, recorded, chain, checkpoint >>
schedule == << flag, offset >>
vars == << world, journal, schedule, waiting, pc, run, bounds >>

-----------------------------------------------------------------------------
(* Sources, observations and checkpoints.                                    *)

File == [lines : Seq(Unit), epoch : Nat]

\* An observation is known by its hash, which covers source and generation.
Observation == [source : Source, generation : Nat, unit : Unit]

Checkpoint == [lines : Seq(Unit), generation : Nat, epoch : Nat, scope : Policy]

FactsOf(o) == Facts[<< o.source, o.unit >>]

Observed == DOMAIN decided
ObservedIn(s) == {o \in Observed : o.source = s}
ObservedUnit(u) == {o \in Observed : o.unit = u}

Output == [unit : Unit, kind : {"record", "include", "exclude"}]

Put(kind, u) == [unit |-> u, kind |-> kind]

Operation(verdicts) ==
    [mode : {"manual", "full", "automatic", "include", "exclude"},
     policy : Policy,           \* the policy it read
     target : SUBSET Unit,      \* the unit of a command
     dirty : SUBSET Source,     \* sources still to decide again
     now : SUBSET Source,       \* the source whose chunks are being committed
     out : SUBSET Output,       \* public output of it not yet committed
     verdicts : verdicts,       \* decisions of it not yet committed
     cache : [Cwd -> SUBSET Evidence],
     list : Seq(Source),        \* discovered sources
     start : Nat, index : Nat,  \* the rotation of this operation
     clean : BOOLEAN,           \* no failure and nothing left behind
     touched : SUBSET Source]   \* sources changed since it began

NewRun(mode, p, target, dirty) ==
    [mode |-> mode, policy |-> p, target |-> target, dirty |-> dirty, now |-> {}, out |-> {},
     verdicts |-> << >>, cache |-> [c \in Cwd |-> {}], list |-> << >>, start |-> 0, index |-> 0,
     clean |-> TRUE, touched |-> {}]

NoRun == NewRun("manual", StartPolicy, {}, {})

Count(event) == bounds' = [bounds EXCEPT ![event] = @ + 1]

Init ==
    /\ file = StartFiles
    /\ place = StartPlaces
    /\ policy = StartPolicy
    /\ decided = << >>
    /\ recorded = {}
    /\ chain = [u \in Unit |-> << >>]
    /\ checkpoint = [s \in Source |-> {}]
    /\ flag = FALSE
    /\ offset = 0
    /\ waiting = {}
    /\ pc = "idle"
    /\ run = NoRun
    /\ bounds = [changes |-> 0, edits |-> 0, stops |-> 0]

-----------------------------------------------------------------------------
(* Deciding: project() of collect.ts over a set of observations.             *)

\* Facts of directories the operation has looked at already stay as they were.
Look(c) ==
    IF run.cache[c] # {} THEN run.cache[c]
    ELSE {ResolveAttributionEvidence(c, place[c], run.policy)}

Prior(o) == IF o \in Observed THEN {decided[o]} ELSE {}

Changed(o, prior, old, new) == RelevantPolicyChanged(o.unit, FactsOf(o), prior.reason, old, new)

\* Mutant of Reuses: only ambiguous evidence is looked at again.
ReusesUnlessAmbiguous(o, prior) == ~(prior.status = "ambiguous" /\ prior.policy # run.policy)

Reuses(o, prior) ==
    /\ ~Changed(o, prior, prior.policy, run.policy)
    /\ ~(prior.status = "ambiguous" /\ prior.policy # run.policy)

\* The observation's own verified membership outlives the path.
EvidenceFor(o) ==
    LET seen == UNION {Look(c) : c \in FactsOf(o).cwd}
        known == \E prior \in Prior(o) : prior.verified
    IN  {[e EXCEPT !.historical = @ \/ (known /\ ~Resolved(e))] :
            e \in (IF seen = {} THEN {NoDirectory} ELSE seen)}

Judgement(o, result) ==
    [status |-> result.status, reason |-> result.reason, policy |-> run.policy,
     verified |-> \/ result.reason \in {"git-membership", "historical-membership"}
                  \/ \E prior \in Prior(o) : prior.verified]

Judged(o) ==
    CHOOSE d \in {Judgement(o, AttributeObservation(o.unit, FactsOf(o), run.policy, e)) :
                      e \in EvidenceFor(o)} : TRUE

Decide(o) ==
    IF \E prior \in Prior(o) : Reuses(o, prior)
    THEN [decided[o] EXCEPT !.policy = run.policy]
    ELSE Judged(o)

ExplicitChange(o) ==
    \E prior \in Prior(o) : Changed(o, prior, prior.policy, run.policy)

\* Mutant of ExplicitReinclude: only taking a choice back counts as intent.
ReincludeOnRemoval(o) ==
    /\ run.policy.override[o.unit] = "none"
    /\ \E prior \in Prior(o) :
          Changed(o, prior, WithoutAttribute(prior.policy), WithoutAttribute(run.policy))

ExplicitReinclude(o) ==
    /\ run.policy.override[o.unit] # "attribute"
    /\ \E prior \in Prior(o) :
          Changed(o, prior, WithoutAttribute(prior.policy), WithoutAttribute(run.policy))

Decisions(observations) == [o \in observations |-> Decide(o)]

ExplicitExclusion(decision) ==
    decision.status = "excluded" /\ decision.reason = "user-override"

Excluded(u) == chain[u] # << >> /\ Last(chain[u]) = "exclude"

\* What the copies of a unit give: copies that contradict each other stay uncounted.
OutputOf(u, copies, verdicts) ==
    IF \A o \in copies : verdicts[o].status = "included"
    THEN {x \in {Put("record", u)} : u \notin recorded}
         \cup {x \in {Put("include", u)} : Excluded(u) /\ \E o \in copies : ExplicitReinclude(o)}
    ELSE {x \in {Put("exclude", u)} :
            /\ u \in recorded /\ ~Excluded(u)
            /\ \E o \in copies : ExplicitChange(o) \/ ExplicitExclusion(verdicts[o])}

Outputs(verdicts) ==
    UNION {OutputOf(u, {o \in DOMAIN verdicts : o.unit = u}, verdicts) :
              u \in {o.unit : o \in DOMAIN verdicts}}

\* Directories looked at on the way: a reused decision looks at none.
CacheAfter(observations) ==
    [c \in Cwd |->
        IF \E o \in observations : c \in FactsOf(o).cwd /\ ~\E prior \in Prior(o) : Reuses(o, prior)
        THEN Look(c) ELSE run.cache[c]]

AppendControls(controls, out, u) ==
    controls \o SetToSeq({x.kind : x \in {y \in out : y.unit = u /\ y.kind # "record"}})

\* commitBatch: output, decisions and the checkpoint are one journal entry.
Commit(s, out, verdicts, next) ==
    /\ recorded' = recorded \cup {x.unit : x \in {y \in out : y.kind = "record"}}
    /\ chain' = [u \in Unit |-> AppendControls(chain[u], out, u)]
    /\ decided' = [o \in Observed \cup DOMAIN verdicts |->
                     IF o \in DOMAIN verdicts THEN verdicts[o] ELSE decided[o]]
    /\ checkpoint' = [checkpoint EXCEPT ![s] = {next}]

-----------------------------------------------------------------------------
(* The user, the providers and the file system.                              *)

Touch(s) == run' = IF pc = "idle" THEN run ELSE [run EXCEPT !.touched = @ \cup {s}]

ChangeFile(s, new) ==
    /\ bounds.changes < MaxChanges
    /\ file' = [file EXCEPT ![s] = new]
    /\ Touch(s)
    /\ Count("changes")
    /\ UNCHANGED << place, policy, journal, schedule, waiting, pc >>

\* A device, inode and birth time nobody had before.
NewEpoch == bounds.changes + 1

\* A new source may hold no usage yet.
Create(s, lines) ==
    /\ file[s] = {}
    /\ ChangeFile(s, {[lines |-> lines, epoch |-> NewEpoch]})

Grow(s, u) ==
    \E f \in file[s] :
        /\ Len(f.lines) < MaxLines /\ u \notin Range(f.lines)
        /\ ChangeFile(s, {[f EXCEPT !.lines = Append(@, u)]})

Rewrite(s, u) ==
    \E f \in file[s] : \E epoch \in {f.epoch, NewEpoch} :
        ChangeFile(s, {[lines |-> << u >>, epoch |-> epoch]})

Delete(s) ==
    /\ file[s] # {}
    /\ ChangeFile(s, {})

Move(c, p) ==
    /\ bounds.edits < MaxEdits
    /\ p # place[c]
    /\ place' = [place EXCEPT ![c] = p]
    /\ Count("edits")
    /\ UNCHANGED << file, policy, journal, schedule, waiting, pc, run >>

MayEdit == Settled => waiting = {} /\ pc = "idle"

\* The user goes back to an earlier choice about a unit only when every decision
\* about it was taken again since.
Patience(p) ==
    Patient => \A o \in Observed :
        decided[o].policy.override[o.unit] = p.override[o.unit]
            => policy.override[o.unit] = p.override[o.unit]

\* Setup writes the private policy without the lease.
EditPolicy(p) ==
    /\ bounds.edits < MaxEdits
    /\ p # policy
    /\ MayEdit /\ Patience(p)
    /\ policy' = p
    /\ Count("edits")
    /\ UNCHANGED << file, place, journal, schedule, waiting, pc, run >>

-----------------------------------------------------------------------------
(* Operations.                                                               *)

\* The activation is read; the lease is still to be had. Under a settled policy
\* reading while another operation runs gives nothing new.
Load(mode) ==
    /\ waiting = {} /\ (Settled => pc = "idle")
    /\ waiting' = {[mode |-> mode, policy |-> policy]}
    /\ UNCHANGED << world, journal, schedule, pc, run, bounds >>

DirtySources(p) == {s \in Source : \E o \in ObservedIn(s) : decided[o].policy # p}

Start ==
    /\ pc = "idle"
    /\ \E w \in waiting : run' = NewRun(w.mode, w.policy, {}, DirtySources(w.policy))
    /\ waiting' = {}
    /\ pc' = "project"
    /\ UNCHANGED << world, journal, schedule, bounds >>

\* runControlCommand: with the lease, the choice is written to the policy first.
StartControl(kind, u) ==
    LET choice == IF kind = "include" THEN "attribute" ELSE "exclude"
        new == [policy EXCEPT !.override[u] = choice]
    IN  /\ pc = "idle"
        /\ bounds.edits < MaxEdits
        /\ Settled => waiting = {}
        /\ ObservedUnit(u) # {} /\ Patience(new)
        /\ policy' = new
        /\ run' = NewRun(kind, new, {u}, DirtySources(new))
        /\ pc' = "project"
        /\ Count("edits")
        /\ UNCHANGED << file, place, journal, schedule, waiting >>

\* A source whose evidence was decided under another policy is decided again.
Project(s) ==
    /\ pc = "project" /\ run.now = {} /\ s \in run.dirty
    /\ \E verdicts \in {Decisions(ObservedIn(s))} :
        run' = [run EXCEPT !.dirty = @ \ {s}, !.now = {s},
                         !.out = Outputs(verdicts), !.verdicts = verdicts,
                         !.cache = CacheAfter(ObservedIn(s))]
    /\ UNCHANGED << world, journal, schedule, waiting, pc, bounds >>

Rescoped(s) == CHOOSE c \in {[d EXCEPT !.scope = run.policy] : d \in checkpoint[s]} : TRUE

\* Mutant of OutputDurable: chunks in any order.
OutputAnyTime == TRUE

\* Chunks: every public output first, then the decisions.
OutputDurable == run.out = {}

WriteOutput ==
    /\ pc = "project"
    /\ \E s \in run.now, part \in SUBSET run.out :
        /\ part # {}
        /\ Commit(s, part, << >>, Rescoped(s))
        /\ run' = [run EXCEPT !.out = @ \ part]
    /\ UNCHANGED << world, schedule, waiting, pc, bounds >>

WriteVerdicts ==
    /\ pc = "project" /\ OutputDurable
    /\ \E s \in run.now, part \in SUBSET DOMAIN run.verdicts :
        LET rest == DOMAIN run.verdicts \ part
        IN  /\ part # {}
            /\ Commit(s, {}, Restrict(run.verdicts, part), Rescoped(s))
            /\ run' = [run EXCEPT !.verdicts = Restrict(@, rest),
                                 !.now = IF rest = {} THEN {} ELSE @]
    /\ UNCHANGED << world, schedule, waiting, pc, bounds >>

\* The store fails for one source: its earlier chunks stay, the rest is left.
SkipSource ==
    /\ pc = "project" /\ run.now # {}
    /\ bounds.stops < MaxStops
    /\ run' = [run EXCEPT !.now = {}, !.out = {}, !.verdicts = << >>, !.clean = FALSE]
    /\ Count("stops")
    /\ UNCHANGED << world, journal, schedule, waiting, pc >>

Projection ==
    /\ pc = "project" /\ run.now = {} /\ run.dirty = {}
    /\ pc' = IF run.mode \in {"include", "exclude"} THEN "control" ELSE "discover"
    /\ UNCHANGED << world, journal, schedule, waiting, run, bounds >>

Automatic == run.mode = "automatic"

\* Sources in the order of their identities.
Listings(sources) ==
    {list \in [1 .. Cardinality(sources) -> sources] :
        /\ Range(list) = sources
        /\ \A i, j \in DOMAIN list : i < j => list[i] < list[j]}

Discover ==
    /\ pc = "discover"
    /\ \E list \in Listings({s \in Source : file[s] # {}}) :
        LET n == Len(list)
            over == Automatic /\ n > MaxSources
        IN  /\ run' = [run EXCEPT !.list = list, !.clean = @ /\ ~over,
                                 !.start = IF Automatic /\ n > 0 THEN offset % n ELSE 0]
            /\ flag' = (flag \/ over)
            /\ pc' = IF Automatic /\ n > 0 THEN "reserve" ELSE "scan"
    /\ UNCHANGED << world, journal, offset, waiting, bounds >>

\* Mutant of NextStart: every operation starts at the same source.
SameStart == run.start

\* The next operation starts one source further, however far this one gets.
NextStart == (run.start + 1) % Len(run.list)

Reserve ==
    /\ pc = "reserve"
    /\ offset' = NextStart
    /\ pc' = "scan"
    /\ UNCHANGED << world, journal, flag, waiting, run, bounds >>

Slice == IF Automatic THEN Min({MaxSources, Len(run.list)}) ELSE Len(run.list)

Turn(s) ==
    /\ pc = "scan" /\ run.index < Slice
    /\ s = run.list[((run.start + run.index) % Len(run.list)) + 1]

\* An automatic operation trusts no checkpoint of another scope.
OutOfScope(s) == Automatic /\ \E c \in checkpoint[s] : c.scope # run.policy

Resumes(c, f) == c.scope = run.policy /\ c.epoch = f.epoch /\ IsPrefix(c.lines, f.lines)

\* Appends go on in the same generation; a reset chains one from the last.
AlreadyRead(s, f) == Max({0} \cup {Len(c.lines) : c \in {d \in checkpoint[s] : Resumes(d, f)}})

Generation(s, f) ==
    Max({0} \cup {IF Resumes(c, f) THEN c.generation ELSE c.generation + 1 : c \in checkpoint[s]})

Upto(s, f) ==
    IF Automatic THEN Min({AlreadyRead(s, f) + ScanLimit, Len(f.lines)}) ELSE Len(f.lines)

\* Mutant of NextCheckpoint: the cursor is set to the end of the file.
CheckpointAtEnd(s, f) ==
    [lines |-> f.lines, epoch |-> f.epoch,
     generation |-> Generation(s, f), scope |-> run.policy]

NextCheckpoint(s, f) ==
    [lines |-> SubSeq(f.lines, 1, Upto(s, f)), epoch |-> f.epoch,
     generation |-> Generation(s, f), scope |-> run.policy]

Batch(s, f) ==
    {[source |-> s, generation |-> Generation(s, f), unit |-> f.lines[i]] :
        i \in (AlreadyRead(s, f) + 1) .. Upto(s, f)}

\* One source: what is read, decided and journaled is one entry with its checkpoint.
Scan(s) ==
    /\ Turn(s) /\ ~OutOfScope(s)
    /\ \E f \in file[s] : \E verdicts \in {Decisions(Batch(s, f))} :
        LET short == Upto(s, f) < Len(f.lines)
        IN  /\ Commit(s, Outputs(verdicts), verdicts, NextCheckpoint(s, f))
            /\ run' = [run EXCEPT !.index = @ + 1, !.clean = @ /\ ~short,
                                 !.cache = CacheAfter(DOMAIN verdicts)]
            /\ flag' = (flag \/ (Automatic /\ short))
    /\ UNCHANGED << world, offset, waiting, pc, bounds >>

\* Mutant of PassOver: a failed source does not spoil the collection.
PassOverSilently(s, trouble) ==
    /\ Turn(s) /\ trouble
    /\ run' = [run EXCEPT !.index = @ + 1]

PassOver(s, trouble) ==
    /\ Turn(s) /\ trouble
    /\ run' = [run EXCEPT !.index = @ + 1, !.clean = FALSE]

RefuseSource(s) ==
    /\ PassOver(s, OutOfScope(s))
    /\ flag' = TRUE
    /\ UNCHANGED << world, journal, offset, waiting, pc, bounds >>

MissSource(s) ==
    /\ PassOver(s, ~OutOfScope(s) /\ file[s] = {})
    /\ UNCHANGED << world, journal, schedule, waiting, pc, bounds >>

\* What is left of a long source is marked before its batch is committed.
FailSource(s) ==
    /\ PassOver(s, bounds.stops < MaxStops)
    /\ \E left \in {FALSE} \cup {Upto(s, f) < Len(f.lines) : f \in file[s]} :
          flag' = (flag \/ (Automatic /\ left))
    /\ Count("stops")
    /\ UNCHANGED << world, journal, offset, waiting, pc >>

\* The rotation goes past every source this operation looked at.
Rotate ==
    /\ pc = "scan" /\ run.index >= Slice
    /\ offset' = IF Automatic /\ run.index > 1
                 THEN (run.start + run.index) % Len(run.list) ELSE offset
    /\ pc' = "conclude"
    /\ UNCHANGED << world, journal, flag, waiting, run, bounds >>

\* Only a clean full collection, and a synchronization that succeeds, reconciles.
Conclude(synchronized) ==
    /\ pc = "conclude"
    /\ flag' = (flag /\ ~(run.mode = "full" /\ run.clean /\ synchronized))
    /\ pc' = "idle" /\ run' = NoRun
    /\ UNCHANGED << world, journal, offset, waiting, bounds >>

\* The command's own control, whatever its projection came to.
CommitControl ==
    /\ pc = "control"
    /\ chain' = [u \in Unit |-> IF u \in run.target THEN Append(chain[u], run.mode) ELSE chain[u]]
    /\ pc' = "idle" /\ run' = NoRun
    /\ UNCHANGED << world, decided, recorded, checkpoint, schedule, waiting, bounds >>

\* The deadline, a kill or a crash.
Stop ==
    /\ pc # "idle"
    /\ bounds.stops < MaxStops
    /\ pc' = "idle" /\ run' = NoRun
    /\ Count("stops")
    /\ UNCHANGED << world, journal, schedule, waiting >>

-----------------------------------------------------------------------------
Environment ==
    \/ \E s \in Source, u \in Unit : Grow(s, u) \/ Rewrite(s, u) \/ Create(s, << u >>)
    \/ \E s \in Source : Create(s, << >>) \/ Delete(s)
    \/ \E c \in Cwd, p \in Places : Move(c, p)
    \/ \E p \in Edits : EditPolicy(p)

Work ==
    \/ Start
    \/ \E s \in Source : Project(s) \/ Scan(s) \/ RefuseSource(s) \/ MissSource(s)
    \/ WriteOutput \/ WriteVerdicts \/ Projection
    \/ Discover \/ Reserve \/ Rotate \/ \E synchronized \in BOOLEAN : Conclude(synchronized)
    \/ CommitControl

Trouble ==
    \/ SkipSource
    \/ \E s \in Source : FailSource(s)
    \/ Stop

Ask ==
    \/ \E mode \in Modes : Load(mode)
    \/ \E kind \in {"include", "exclude"}, u \in Unit : StartControl(kind, u)

Next == Environment \/ Work \/ Trouble \/ Ask

Spec == Init /\ [][Next]_vars

\* Sessions begin again and again, and the lease holder is never starved: a hook
\* runs on every commit, and the budget of an operation is wall-clock time.
FairSpec == Spec /\ WF_vars(Work) /\ WF_vars(\E mode \in Modes : Load(mode))

-----------------------------------------------------------------------------
(* Properties.                                                               *)

\* Every variable has its type.
TypeOK ==
    /\ file \in [Source -> SUBSET File]
    /\ place \in [Cwd -> Place] /\ policy \in Policy
    /\ Observed \subseteq Observation /\ \A o \in Observed : decided[o] \in Decision
    /\ recorded \subseteq Unit
    /\ chain \in [Unit -> Seq({"include", "exclude"})]
    /\ checkpoint \in [Source -> SUBSET Checkpoint]
    /\ flag \in BOOLEAN /\ offset \in Nat
    /\ waiting \subseteq [mode : Modes, policy : Policy]
    /\ pc \in {"idle", "project", "discover", "reserve", "scan", "conclude", "control"}
    /\ DOMAIN run.verdicts \subseteq Observed
    /\ run \in Operation([DOMAIN run.verdicts -> Decision])
    /\ bounds \in [changes : Nat, edits : Nat, stops : Nat]

\* A checkpoint never promises more than the journal holds: every entry before it
\* is an observation of its own generation.
CursorCovered ==
    \A s \in Source : \A c \in checkpoint[s] : \A i \in DOMAIN c.lines :
        [source |-> s, generation |-> c.generation, unit |-> c.lines[i]] \in Observed

Copies(s, u) == {o \in ObservedIn(s) : o.unit = u}

\* Nothing attributed is lost, however an operation was cut: where one policy has
\* decided every copy a source has of a unit and includes them all, the unit has a
\* public record.
IncludedCaptured ==
    \A s \in Source, u \in Unit :
        LET copies == Copies(s, u)
        IN  /\ copies # {}
            /\ \A o \in copies : decided[o].status = "included"
            /\ \A o, q \in copies : decided[o].policy = decided[q].policy
            => u \in recorded

AllDecided == \A o \in Observed : decided[o].policy = policy

Quiet == pc = "idle" /\ AllDecided

\* The user's decision stands: with nothing left to decide, a unit the policy
\* excludes is not counted, and one it includes is.
UserDecisionHolds ==
    Quiet => \A u \in Unit :
        /\ policy.override[u] = "exclude" /\ u \in recorded => Excluded(u)
        /\ policy.override[u] = "include" /\ ObservedUnit(u) # {}
           => u \in recorded /\ ~Excluded(u)

\* Replay cannot undo a shared control: no collection and no projection counts a
\* unit again while the user's policy excludes it.
ReplayKeepsExclusion ==
    [][\A u \in Unit :
        /\ pc # "control" /\ chain'[u] # chain[u]
        /\ Last(chain'[u]) = "include"
        => policy.override[u] # "exclude"]_vars

UpToDate(s) ==
    \A f \in file[s] : \E c \in checkpoint[s] :
        c.lines = f.lines /\ c.epoch = f.epoch /\ c.scope = run.policy

\* Pending reconciliation is taken back honestly: only when every source that did
\* not change meanwhile is read to its end and all evidence is decided under the
\* policy of the operation.
ReconcileHonest ==
    [][flag /\ ~flag' =>
        /\ \A s \in Source \ run.touched : UpToDate(s)
        /\ \A o \in Observed : decided[o].policy = run.policy]_vars

\* Whatever automatic collections were cut short, rotated past or left behind: once
\* nobody changes anything, all evidence is decided under the policy and every source
\* is read to its end, or reconciliation is pending for a source that was read under
\* another policy and had no evidence, which only a full collection reads again.
EverythingCollected ==
    <>[](/\ AllDecided
         /\ \A s \in Source : \A f \in file[s] :
               \/ \E c \in checkpoint[s] : c.lines = f.lines /\ c.epoch = f.epoch
               \/ flag /\ checkpoint[s] # {} /\ ObservedIn(s) = {})

=============================================================================
