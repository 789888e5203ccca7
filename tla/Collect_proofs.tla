---------------------------- MODULE Collect_proofs ----------------------------
(***************************************************************************)
(* Proofs about collection: what is typed, covered and captured however    *)
(* operations are cut, what replay may never count, when reconciliation is *)
(* taken back, and that the decision of the user stands.                   *)
(***************************************************************************)
EXTENDS Collect, FiniteSetTheorems, TLAPS

-----------------------------------------------------------------------------
(* Least and greatest members.                                               *)

LEMMA LeastRule ==
    ASSUME NEW S \in SUBSET (1 .. 12), 12 \in S
    PROVE  Min(S) \in S /\ \A y \in S : Min(S) <= y
<1>1. \E x \in S : \A y \in S : x <= y
    <2>1. CASE 1 \in S \/ 2 \in S \/ 3 \in S \/ 4 \in S
        BY <2>1
    <2>2. CASE ~(1 \in S \/ 2 \in S \/ 3 \in S \/ 4 \in S) /\ (5 \in S \/ 6 \in S \/ 7 \in S)
        BY <2>2
    <2>3. CASE ~(\E i \in 1 .. 7 : i \in S)
        BY <2>3
    <2>. QED BY <2>1, <2>2, <2>3
<1>. QED BY <1>1 DEF Min

LEMMA LeastOfTwo ==
    ASSUME NEW a \in Nat, NEW b \in Nat
    PROVE  /\ Min({a, b}) \in Nat /\ Min({a, b}) <= a /\ Min({a, b}) <= b
           /\ Min({a, b}) \in {a, b}
<1>1. \E x \in {a, b} : \A y \in {a, b} : x <= y
    OBVIOUS
<1>. QED BY <1>1 DEF Min

LEMMA GreatestAlone == Max({0} \cup {}) = 0
    BY DEF Max

LEMMA GreatestOfTwo ==
    ASSUME NEW n \in Nat
    PROVE  Max({0} \cup {n}) = n
    BY DEF Max

\* One thing enumerated is a sequence of one, nothing is the empty sequence.
LEMMA EnumeratedAlone ==
    /\ SetToSeq({}) = << >>
    /\ \A k : SetToSeq({k}) = << k >>
<1>1. SetToSeq({}) = << >>
    <2>1. Cardinality({}) = 0
        BY FS_EmptySet
    <2>2. << >> \in [1 .. 0 -> {}] /\ IsInjective(<< >>)
        BY DEF IsInjective
    <2>3. \A f \in [1 .. 0 -> {}] : f = << >>
        OBVIOUS
    <2>. QED BY <2>1, <2>2, <2>3 DEF SetToSeq
<1>2. ASSUME NEW k PROVE SetToSeq({k}) = << k >>
    <2>1. Cardinality({k}) = 1
        BY FS_Singleton
    <2>2. << k >> \in [1 .. 1 -> {k}] /\ IsInjective(<< k >>)
        BY DEF IsInjective
    <2>3. \A f \in [1 .. 1 -> {k}] : f = << k >>
        OBVIOUS
    <2>. QED BY <2>1, <2>2, <2>3 DEF SetToSeq
<1>. QED BY <1>1, <1>2

-----------------------------------------------------------------------------
(* Attribution.                                                              *)

Statuses == {"included", "excluded", "ambiguous"}

\* What the rules give is a status with its reason, and the choice of the user
\* about a unit goes before every other rule.
LEMMA RulesDecide ==
    ASSUME NEW unit \in Unit, NEW facts, NEW pol \in Policy, NEW evidence
    PROVE  LET result == AttributeObservation(unit, facts, pol, evidence)
           IN  /\ result.status \in Statuses
               /\ result.reason \in Reason
               /\ pol.override[unit] = "exclude"
                  => result.status = "excluded" /\ result.reason = "user-override"
               /\ pol.override[unit] \in {"include", "attribute"}
                  => result.status = "included"
<1>. DEFINE rules == Rules(unit, facts, pol, evidence)
            when == {i \in DOMAIN rules : rules[i].when}
            result == AttributeObservation(unit, facts, pol, evidence)
<1>1. DOMAIN rules = 1 .. 12
    BY DEF Rules
<1>2. rules[12].when
    BY DEF Rules
<1>3. \A i \in 1 .. 12 : rules[i].status \in Statuses /\ rules[i].reason \in Reason
    BY DEF Rules, Statuses, Reason
<1>4. /\ rules[1].when <=> pol.override[unit] = "exclude"
      /\ rules[1].status = "excluded" /\ rules[1].reason = "user-override"
    BY DEF Rules
<1>5. /\ rules[2].when <=> pol.override[unit] # "none"
      /\ rules[2].status = "included"
    BY DEF Rules
<1>6. result = [status |-> First(rules).status, reason |-> First(rules).reason]
    BY DEF AttributeObservation
<1>7. First(rules) = rules[Min(when)]
    BY DEF First
<1>. HIDE DEF rules, result
<1>8. when \in SUBSET (1 .. 12) /\ 12 \in when
    BY <1>1, <1>2
<1>9. Min(when) \in when /\ \A y \in when : Min(when) <= y
    BY <1>8, LeastRule
<1>10. Min(when) \in 1 .. 12
    BY <1>8, <1>9
<1>. HIDE DEF when
<1>11. result.status \in Statuses /\ result.reason \in Reason
    BY <1>3, <1>6, <1>7, <1>10
<1>12. ASSUME pol.override[unit] = "exclude"
       PROVE  result.status = "excluded" /\ result.reason = "user-override"
    <2>1. 1 \in when
        BY <1>1, <1>4, <1>12 DEF when
    <2>2. Min(when) = 1
        BY <2>1, <1>9, <1>10
    <2>. QED BY <2>2, <1>4, <1>6, <1>7
<1>13. ASSUME pol.override[unit] \in {"include", "attribute"}
       PROVE  result.status = "included"
    <2>1. 2 \in when /\ 1 \notin when
        BY <1>1, <1>4, <1>5, <1>13 DEF when
    <2>2. Min(when) = 2
        BY <2>1, <1>9, <1>10
    <2>. QED BY <2>2, <1>5, <1>6, <1>7
<1>. QED BY <1>11, <1>12, <1>13 DEF result

-----------------------------------------------------------------------------
(* Deciding.                                                                 *)

\* A decision says what the user chose when it was taken.
Sound(o, decision) ==
    /\ decision.policy.override[o.unit] = "exclude" => ExplicitExclusion(decision)
    /\ decision.policy.override[o.unit] \in {"include", "attribute"}
       => decision.status = "included"

LEMMA NothingChanged ==
    ASSUME NEW o, NEW prior, NEW p
    PROVE  ~Changed(o, prior, p, p)
    BY DEF Changed, RelevantPolicyChanged

LEMMA JudgedSound ==
    ASSUME TypeOK, NEW o \in Observation
    PROVE  /\ Judged(o) \in Decision
           /\ Judged(o).policy = run.policy
           /\ Sound(o, Judged(o))
<1>1. EvidenceFor(o) # {}
    BY DEF EvidenceFor
<1>2. PICK e \in EvidenceFor(o) :
        Judged(o) = Judgement(o, AttributeObservation(o.unit, FactsOf(o), run.policy, e))
    BY <1>1 DEF Judged
<1>3. o.unit \in Unit /\ run.policy \in Policy
    BY DEF TypeOK, Observation, Operation
<1>4. PICK result : result = AttributeObservation(o.unit, FactsOf(o), run.policy, e)
    OBVIOUS
<1>5. /\ result.status \in Statuses /\ result.reason \in Reason
      /\ run.policy.override[o.unit] = "exclude"
         => result.status = "excluded" /\ result.reason = "user-override"
      /\ run.policy.override[o.unit] \in {"include", "attribute"} => result.status = "included"
    BY <1>3, <1>4, RulesDecide
<1>6. Judged(o) = Judgement(o, result)
    BY <1>2, <1>4
<1>7. /\ Judged(o).status = result.status /\ Judged(o).reason = result.reason
      /\ Judged(o).policy = run.policy
    BY <1>6 DEF Judgement
<1>8. Judged(o) \in Decision
    BY <1>3, <1>5, <1>6 DEF Judgement, Decision, Statuses
<1>. QED BY <1>5, <1>7, <1>8 DEF Sound, ExplicitExclusion

\* Every decision of an operation carries its policy, and one taken under that
\* very policy is kept as it is.
LEMMA DecideSound ==
    ASSUME TypeOK, \A q \in Observed : Sound(q, decided[q]), NEW o \in Observation
    PROVE  /\ Decide(o) \in Decision
           /\ Decide(o).policy = run.policy
           /\ Sound(o, Decide(o))
           /\ o \in Observed /\ decided[o].policy = run.policy => Decide(o) = decided[o]
<1>1. run.policy \in Policy
    BY DEF TypeOK, Operation
<1>2. CASE \E prior \in Prior(o) : Reuses(o, prior)
    <2>1. o \in Observed /\ Reuses(o, decided[o])
        BY <1>2 DEF Prior
    <2>2. decided[o] \in Decision /\ Sound(o, decided[o])
        BY <2>1 DEF TypeOK
    <2>3. Decide(o) = [decided[o] EXCEPT !.policy = run.policy]
        BY <1>2 DEF Decide
    <2>4. decided[o].policy.override[o.unit] = run.policy.override[o.unit]
        BY <2>1 DEF Reuses, Changed, RelevantPolicyChanged
    <2>5. /\ Decide(o) \in Decision /\ Decide(o).policy = run.policy
          /\ Decide(o).status = decided[o].status /\ Decide(o).reason = decided[o].reason
        BY <1>1, <2>2, <2>3 DEF Decision
    <2>6. Sound(o, Decide(o))
        BY <2>2, <2>4, <2>5 DEF Sound, ExplicitExclusion
    <2>7. decided[o].policy = run.policy => Decide(o) = decided[o]
        BY <2>2, <2>3 DEF Decision
    <2>. QED BY <2>5, <2>6, <2>7
<1>3. CASE ~\E prior \in Prior(o) : Reuses(o, prior)
    <2>1. Decide(o) = Judged(o)
        BY <1>3 DEF Decide
    <2>2. ~(o \in Observed /\ decided[o].policy = run.policy)
        BY <1>3, NothingChanged DEF Prior, Reuses
    <2>. QED BY <2>1, <2>2, JudgedSound
<1>. QED BY <1>2, <1>3

LEMMA DecisionsSound ==
    ASSUME TypeOK, \A q \in Observed : Sound(q, decided[q]), NEW S \in SUBSET Observation
    PROVE  /\ Decisions(S) \in [S -> Decision] /\ DOMAIN Decisions(S) = S
           /\ \A o \in S : /\ Decisions(S)[o] = Decide(o)
                           /\ Decisions(S)[o].policy = run.policy
                           /\ Sound(o, Decisions(S)[o])
    BY DecideSound DEF Decisions

-----------------------------------------------------------------------------
(* What the decisions about the copies of a unit give.                       *)

UnitsOf(verdicts) == {o.unit : o \in DOMAIN verdicts}

VerdictsOn(verdicts, u) == {o \in DOMAIN verdicts : o.unit = u}

LEMMA OutputsOfUnit ==
    ASSUME NEW verdicts, NEW x
    PROVE  x \in Outputs(verdicts)
           <=> /\ x.unit \in UnitsOf(verdicts)
               /\ x \in OutputOf(x.unit, VerdictsOn(verdicts, x.unit), verdicts)
<1>1. \A u : x \in OutputOf(u, VerdictsOn(verdicts, u), verdicts) => x.unit = u
    BY DEF OutputOf, Put
<1>. QED BY <1>1 DEF Outputs, UnitsOf, VerdictsOn

\* Decisions of the running operation.
OfRun(verdicts) ==
    /\ DOMAIN verdicts \subseteq Observation
    /\ verdicts \in [DOMAIN verdicts -> Decision]
    /\ \A o \in DOMAIN verdicts :
          verdicts[o].policy = run.policy /\ Sound(o, verdicts[o])

LEMMA OutputsTyped ==
    ASSUME NEW verdicts, DOMAIN verdicts \subseteq Observation
    PROVE  /\ Outputs(verdicts) \subseteq Output
           /\ \A x \in Outputs(verdicts) : \E o \in DOMAIN verdicts : o.unit = x.unit
           /\ \A u : ~(Put("include", u) \in Outputs(verdicts)
                       /\ Put("exclude", u) \in Outputs(verdicts))
<1>1. ASSUME NEW x \in Outputs(verdicts)
      PROVE  /\ x \in Output
             /\ \E o \in DOMAIN verdicts : o.unit = x.unit
    <2>1. x.unit \in UnitsOf(verdicts)
        BY <1>1, OutputsOfUnit
    <2>2. PICK o \in DOMAIN verdicts : o.unit = x.unit
        BY <2>1 DEF UnitsOf
    <2>3. x.unit \in Unit
        BY <2>2 DEF Observation
    <2>4. x \in OutputOf(x.unit, VerdictsOn(verdicts, x.unit), verdicts)
        BY <1>1, OutputsOfUnit
    <2>5. x = Put("record", x.unit) \/ x = Put("include", x.unit) \/ x = Put("exclude", x.unit)
        BY <2>4 DEF OutputOf
    <2>. QED BY <2>2, <2>3, <2>5 DEF Output, Put
<1>2. ASSUME NEW u, Put("include", u) \in Outputs(verdicts), Put("exclude", u) \in Outputs(verdicts)
      PROVE  FALSE
    <2>1. Put("include", u).unit = u /\ Put("exclude", u).unit = u
        BY DEF Put
    <2>2. /\ Put("include", u) \in OutputOf(u, VerdictsOn(verdicts, u), verdicts)
          /\ Put("exclude", u) \in OutputOf(u, VerdictsOn(verdicts, u), verdicts)
        BY <1>2, <2>1, OutputsOfUnit
    <2>. QED BY <2>2 DEF OutputOf, Put
<1>. QED BY <1>1, <1>2

\* Copies that are all included are recorded.
LEMMA IncludedGivesRecord ==
    ASSUME NEW verdicts, NEW u, u \in UnitsOf(verdicts),
           \A o \in VerdictsOn(verdicts, u) : verdicts[o].status = "included"
    PROVE  u \in recorded \/ Put("record", u) \in Outputs(verdicts)
<1>1. Put("record", u).unit = u
    BY DEF Put
<1>2. u \notin recorded => Put("record", u) \in OutputOf(u, VerdictsOn(verdicts, u), verdicts)
    BY DEF OutputOf
<1>. QED BY <1>1, <1>2, OutputsOfUnit

\* What the user excludes is neither recorded nor included, and is excluded when it
\* is public.
LEMMA ExcludedGivesExclude ==
    ASSUME NEW verdicts, OfRun(verdicts), NEW u, run.policy.override[u] = "exclude"
    PROVE  /\ Put("record", u) \notin Outputs(verdicts)
           /\ Put("include", u) \notin Outputs(verdicts)
           /\ u \in UnitsOf(verdicts) /\ u \in recorded
              => Excluded(u) \/ Put("exclude", u) \in Outputs(verdicts)
<1>1. \A k : Put(k, u).unit = u
    BY DEF Put
<1>2. CASE u \notin UnitsOf(verdicts)
    BY <1>1, <1>2, OutputsOfUnit
<1>3. CASE u \in UnitsOf(verdicts)
    <2>1. PICK o \in VerdictsOn(verdicts, u) : TRUE
        BY <1>3 DEF UnitsOf, VerdictsOn
    <2>2. ExplicitExclusion(verdicts[o])
        BY <2>1 DEF VerdictsOn, OfRun, Sound
    <2>3. ~\A q \in VerdictsOn(verdicts, u) : verdicts[q].status = "included"
        BY <2>1, <2>2 DEF ExplicitExclusion
    <2>4. \A x : x \in OutputOf(u, VerdictsOn(verdicts, u), verdicts)
                 <=> x = Put("exclude", u) /\ u \in recorded /\ ~Excluded(u)
        BY <2>1, <2>2, <2>3 DEF OutputOf
    <2>5. \A k : Put(k, u) \in Outputs(verdicts)
                 <=> k = "exclude" /\ u \in recorded /\ ~Excluded(u)
        BY <1>1, <1>3, <2>4, OutputsOfUnit DEF Put
    <2>. QED BY <2>5
<1>. QED BY <1>2, <1>3

\* What the user includes is not excluded.
LEMMA IncludedGivesNoExclude ==
    ASSUME NEW verdicts, OfRun(verdicts), NEW u,
           run.policy.override[u] \in {"include", "attribute"}
    PROVE  /\ Put("exclude", u) \notin Outputs(verdicts)
           /\ \A o \in VerdictsOn(verdicts, u) : verdicts[o].status = "included"
<1>1. \A o \in VerdictsOn(verdicts, u) : verdicts[o].status = "included"
    BY DEF VerdictsOn, OfRun, Sound
<1>2. Put("exclude", u) \notin OutputOf(u, VerdictsOn(verdicts, u), verdicts)
    BY <1>1 DEF OutputOf, Put
<1>3. Put("exclude", u).unit = u
    BY DEF Put
<1>. QED BY <1>1, <1>2, <1>3, OutputsOfUnit

\* A choice to include that an observation did not have before is shared.
LEMMA ReincludeGivesInclude ==
    ASSUME TypeOK, NEW verdicts, OfRun(verdicts), NEW u \in Unit, Excluded(u),
           run.policy.override[u] = "include",
           NEW o \in VerdictsOn(verdicts, u), o \in Observed,
           decided[o].policy.override[u] # "include"
    PROVE  Put("include", u) \in Outputs(verdicts)
<1>1. \A q \in VerdictsOn(verdicts, u) : verdicts[q].status = "included"
    BY IncludedGivesNoExclude
<1>2. o.unit = u /\ decided[o].policy \in Policy /\ run.policy \in Policy
    BY DEF VerdictsOn, TypeOK, Decision, Operation
<1>3. WithoutAttribute(run.policy).override[u] = "include"
    BY <1>2 DEF WithoutAttribute, Policy
<1>4. WithoutAttribute(decided[o].policy).override[u] # "include"
    BY <1>2 DEF WithoutAttribute, Policy
<1>5. Changed(o, decided[o], WithoutAttribute(decided[o].policy), WithoutAttribute(run.policy))
    BY <1>2, <1>3, <1>4 DEF Changed, RelevantPolicyChanged
<1>6. ExplicitReinclude(o)
    BY <1>2, <1>5 DEF ExplicitReinclude, Prior
<1>7. Put("include", u) \in OutputOf(u, VerdictsOn(verdicts, u), verdicts)
    BY <1>1, <1>6 DEF OutputOf
<1>8. Put("include", u).unit = u /\ u \in UnitsOf(verdicts)
    BY DEF Put, VerdictsOn, UnitsOf
<1>. QED BY <1>7, <1>8, OutputsOfUnit

-----------------------------------------------------------------------------
(* What an entry of the journal changes.                                     *)

OneKind(out) == \A u : ~(Put("include", u) \in out /\ Put("exclude", u) \in out)

Controls == {"include", "exclude"}

LEMMA ControlsAppended ==
    ASSUME NEW out, out \subseteq Output, OneKind(out), NEW u \in Unit,
           NEW controls \in Seq(Controls)
    PROVE  /\ \A k \in Controls : Put(k, u) \in out
              => AppendControls(controls, out, u) = Append(controls, k)
           /\ (\A k \in Controls : Put(k, u) \notin out)
              => AppendControls(controls, out, u) = controls
<1>. DEFINE kinds == {x.kind : x \in {y \in out : y.unit = u /\ y.kind # "record"}}
<1>1. \A y \in out : y = Put(y.kind, y.unit) /\ y.kind \in {"record", "include", "exclude"}
    BY DEF Output, Put
<1>2. \A k : k \in kinds <=> k \in Controls /\ Put(k, u) \in out
    <2>1. ASSUME NEW k \in kinds PROVE k \in Controls /\ Put(k, u) \in out
        BY <1>1 DEF Controls
    <2>2. ASSUME NEW k \in Controls, Put(k, u) \in out PROVE k \in kinds
        <3>1. Put(k, u).unit = u /\ Put(k, u).kind = k
            BY DEF Put
        <3>. QED BY <2>2, <3>1 DEF Controls
    <2>. QED BY <2>1, <2>2
<1>3. AppendControls(controls, out, u) = controls \o SetToSeq(kinds)
    BY DEF AppendControls
<1>. HIDE DEF kinds
<1>4. ASSUME NEW k \in Controls, Put(k, u) \in out
      PROVE  AppendControls(controls, out, u) = Append(controls, k)
    <2>1. kinds = {k}
        BY <1>2, <1>4 DEF OneKind, Controls
    <2>2. SetToSeq(kinds) = << k >>
        BY <2>1, EnumeratedAlone
    <2>. QED BY <1>3, <2>2
<1>5. ASSUME \A k \in Controls : Put(k, u) \notin out
      PROVE  AppendControls(controls, out, u) = controls
    <2>1. kinds = {}
        BY <1>2, <1>5
    <2>2. SetToSeq(kinds) = << >>
        BY <2>1, EnumeratedAlone
    <2>. QED BY <1>3, <2>2
<1>. QED BY <1>4, <1>5

\* Public output reaches the journal as it was decided: a record is there, and the
\* last control of a unit is the one that was output.
LEMMA Published ==
    ASSUME TypeOK, NEW out, out \subseteq Output, OneKind(out),
           NEW s, NEW verdicts, NEW next, Commit(s, out, verdicts, next)
    PROVE  /\ recorded' \subseteq Unit
           /\ chain' \in [Unit -> Seq(Controls)]
           /\ \A u \in Unit :
                /\ u \in recorded' <=> u \in recorded \/ Put("record", u) \in out
                /\ Put("include", u) \in out
                   => chain'[u] = Append(chain[u], "include") /\ ~Excluded(u)'
                /\ Put("exclude", u) \in out
                   => chain'[u] = Append(chain[u], "exclude") /\ Excluded(u)'
                /\ Put("include", u) \notin out /\ Put("exclude", u) \notin out
                   => chain'[u] = chain[u] /\ (Excluded(u)' <=> Excluded(u))
<1>1. chain \in [Unit -> Seq(Controls)]
    BY DEF TypeOK, Controls
<1>2. \A y \in out : y = Put(y.kind, y.unit) /\ y.unit \in Unit
    BY DEF Output, Put
<1>3. /\ recorded' = recorded \cup {x.unit : x \in {y \in out : y.kind = "record"}}
      /\ chain' = [u \in Unit |-> AppendControls(chain[u], out, u)]
    BY DEF Commit
<1>4. recorded' \subseteq Unit
    BY <1>2, <1>3 DEF TypeOK
<1>5. ASSUME NEW u \in Unit
      PROVE  /\ u \in recorded' <=> u \in recorded \/ Put("record", u) \in out
             /\ chain'[u] \in Seq(Controls)
             /\ Put("include", u) \in out
                => chain'[u] = Append(chain[u], "include") /\ ~Excluded(u)'
             /\ Put("exclude", u) \in out
                => chain'[u] = Append(chain[u], "exclude") /\ Excluded(u)'
             /\ Put("include", u) \notin out /\ Put("exclude", u) \notin out
                => chain'[u] = chain[u] /\ (Excluded(u)' <=> Excluded(u))
    <2>1. u \in recorded' <=> u \in recorded \/ Put("record", u) \in out
        <3>1. Put("record", u).unit = u /\ Put("record", u).kind = "record"
            BY DEF Put
        <3>2. u \in {x.unit : x \in {y \in out : y.kind = "record"}} <=> Put("record", u) \in out
            BY <1>2, <3>1
        <3>. QED BY <1>3, <3>2
    <2>2. chain[u] \in Seq(Controls) /\ chain'[u] = AppendControls(chain[u], out, u)
        BY <1>1, <1>3
    <2>3. ASSUME NEW k \in Controls, Put(k, u) \in out
          PROVE  /\ chain'[u] = Append(chain[u], k) /\ chain'[u] \in Seq(Controls)
                 /\ Excluded(u)' <=> k = "exclude"
        <3>1. chain'[u] = Append(chain[u], k)
            BY <2>2, <2>3, ControlsAppended
        <3>2. Append(chain[u], k) \in Seq(Controls)
            BY <2>2, <2>3
        <3>3. /\ chain'[u] # << >> /\ Last(chain'[u]) = k
            BY <2>2, <2>3, <3>1 DEF Last
        <3>. QED BY <3>1, <3>2, <3>3 DEF Excluded
    <2>4. ASSUME \A k \in Controls : Put(k, u) \notin out
          PROVE  chain'[u] = chain[u] /\ (Excluded(u)' <=> Excluded(u))
        <3>1. chain'[u] = chain[u]
            BY <2>2, <2>4, ControlsAppended
        <3>. QED BY <3>1 DEF Excluded
    <2>. QED BY <2>1, <2>2, <2>3, <2>4 DEF Controls
<1>6. chain' \in [Unit -> Seq(Controls)]
    BY <1>3, <1>5
<1>. QED BY <1>4, <1>5, <1>6

-----------------------------------------------------------------------------
(* Reading a source.                                                         *)

OneCheckpoint == \A s \in Source : \A c, d \in checkpoint[s] : c = d

\* An operation resumes where the checkpoint of the source says, or at the start in
\* a new generation, and never reads past the end.
LEMMA Resumed ==
    ASSUME TypeOK, OneCheckpoint, NEW s \in Source, NEW f \in file[s]
    PROVE  /\ Generation(s, f) \in Nat /\ AlreadyRead(s, f) \in 0 .. Len(f.lines)
           /\ \A i \in 1 .. AlreadyRead(s, f) : \E c \in checkpoint[s] :
                 /\ i \in DOMAIN c.lines /\ c.lines[i] = f.lines[i]
                 /\ c.generation = Generation(s, f)
<1>. DEFINE lengths == {Len(c.lines) : c \in {d \in checkpoint[s] : Resumes(d, f)}}
            generations == {IF Resumes(c, f) THEN c.generation ELSE c.generation + 1 :
                               c \in checkpoint[s]}
<1>1. f.lines \in Seq(Unit) /\ checkpoint[s] \subseteq Checkpoint
    BY DEF TypeOK, File
<1>2. AlreadyRead(s, f) = Max({0} \cup lengths) /\ Generation(s, f) = Max({0} \cup generations)
    BY DEF AlreadyRead, Generation
<1>3. CASE checkpoint[s] = {}
    <2>1. lengths = {} /\ generations = {}
        BY <1>3
    <2>. HIDE DEF lengths, generations
    <2>2. AlreadyRead(s, f) = 0 /\ Generation(s, f) = 0
        BY <1>2, <2>1, GreatestAlone
    <2>3. Len(f.lines) \in Nat
        BY <1>1
    <2>. QED BY <2>2, <2>3
<1>4. ASSUME NEW c \in checkpoint[s], Resumes(c, f)
      PROVE  /\ Generation(s, f) = c.generation /\ AlreadyRead(s, f) = Len(c.lines)
             /\ IsPrefix(c.lines, f.lines)
    <2>1. checkpoint[s] = {c} /\ c \in Checkpoint
        BY <1>1, <1>4 DEF OneCheckpoint
    <2>2. lengths = {Len(c.lines)} /\ generations = {c.generation}
        BY <1>4, <2>1
    <2>3. Len(c.lines) \in Nat /\ c.generation \in Nat
        BY <2>1 DEF Checkpoint
    <2>. QED BY <1>2, <1>4, <2>2, <2>3, GreatestOfTwo DEF Resumes
<1>5. ASSUME NEW c \in checkpoint[s], ~Resumes(c, f)
      PROVE  Generation(s, f) = c.generation + 1 /\ AlreadyRead(s, f) = 0
    <2>1. checkpoint[s] = {c} /\ c \in Checkpoint
        BY <1>1, <1>5 DEF OneCheckpoint
    <2>2. lengths = {} /\ generations = {c.generation + 1}
        BY <1>5, <2>1
    <2>3. c.generation + 1 \in Nat
        BY <2>1 DEF Checkpoint
    <2>. QED BY <1>2, <2>2, <2>3, GreatestOfTwo, GreatestAlone
<1>. HIDE DEF lengths, generations
<1>6. CASE \E c \in checkpoint[s] : Resumes(c, f)
    <2>1. PICK c \in checkpoint[s] : Resumes(c, f)
        BY <1>6
    <2>2. c.lines \in Seq(Unit) /\ c.generation \in Nat
        BY <1>1 DEF Checkpoint
    <2>3. /\ Generation(s, f) = c.generation /\ AlreadyRead(s, f) = Len(c.lines)
          /\ Len(c.lines) <= Len(f.lines)
          /\ SubSeq(c.lines, 1, Len(c.lines)) = SubSeq(f.lines, 1, Len(c.lines))
        BY <1>4, <2>1 DEF IsPrefix
    <2>4. ASSUME NEW i \in 1 .. Len(c.lines) PROVE c.lines[i] = f.lines[i]
        <3>1. SubSeq(c.lines, 1, Len(c.lines))[i] = c.lines[i]
            BY <2>2
        <3>2. SubSeq(f.lines, 1, Len(c.lines))[i] = f.lines[i]
            BY <1>1, <2>2, <2>3
        <3>. QED BY <2>3, <3>1, <3>2
    <2>5. DOMAIN c.lines = 1 .. Len(c.lines) /\ Len(c.lines) \in Nat
        BY <2>2
    <2>6. AlreadyRead(s, f) \in 0 .. Len(f.lines) /\ Generation(s, f) \in Nat
        BY <1>1, <2>2, <2>3, <2>5
    <2>7. ASSUME NEW i \in 1 .. AlreadyRead(s, f)
          PROVE  /\ i \in DOMAIN c.lines /\ c.lines[i] = f.lines[i]
                 /\ c.generation = Generation(s, f)
        BY <2>3, <2>4, <2>5, <2>7
    <2>. QED BY <2>1, <2>6, <2>7
<1>7. CASE checkpoint[s] # {} /\ ~\E c \in checkpoint[s] : Resumes(c, f)
    <2>1. PICK c \in checkpoint[s] : ~Resumes(c, f)
        BY <1>7
    <2>2. c.generation \in Nat
        BY <1>1 DEF Checkpoint
    <2>. QED BY <1>1, <1>5, <2>1, <2>2
<1>. QED BY <1>3, <1>6, <1>7

LEMMA ReadOn ==
    ASSUME TypeOK, OneCheckpoint, NEW s \in Source, NEW f \in file[s]
    PROVE  /\ Upto(s, f) \in AlreadyRead(s, f) .. Len(f.lines)
           /\ ~Automatic => Upto(s, f) = Len(f.lines)
           /\ NextCheckpoint(s, f) \in Checkpoint
           /\ DOMAIN NextCheckpoint(s, f).lines = 1 .. Upto(s, f)
           /\ \A i \in 1 .. Upto(s, f) : NextCheckpoint(s, f).lines[i] = f.lines[i]
           /\ Batch(s, f) \subseteq Observation
<1>1. f.lines \in Seq(Unit) /\ f.epoch \in Nat /\ run.policy \in Policy
    BY DEF TypeOK, File, Operation
<1>2. /\ Generation(s, f) \in Nat /\ AlreadyRead(s, f) \in Nat
      /\ AlreadyRead(s, f) <= Len(f.lines) /\ Len(f.lines) \in Nat
    BY <1>1, Resumed
<1>3. /\ Upto(s, f) \in AlreadyRead(s, f) .. Len(f.lines)
      /\ ~Automatic => Upto(s, f) = Len(f.lines)
    <2>1. ScanLimit \in Nat /\ AlreadyRead(s, f) + ScanLimit \in Nat
        BY <1>2, CollectAssumption
    <2>2. PICK m \in {AlreadyRead(s, f) + ScanLimit, Len(f.lines)} :
            /\ m = Min({AlreadyRead(s, f) + ScanLimit, Len(f.lines)})
            /\ m <= Len(f.lines) /\ m \in Nat
        BY <1>2, <2>1, LeastOfTwo
    <2>3. m >= AlreadyRead(s, f)
        BY <1>2, <2>1, <2>2
    <2>4. Upto(s, f) = IF Automatic THEN m ELSE Len(f.lines)
        BY <2>2 DEF Upto
    <2>. QED BY <1>2, <2>2, <2>3, <2>4
<1>4. PICK n \in Nat : n = Upto(s, f) /\ n <= Len(f.lines)
    BY <1>2, <1>3
<1>5. /\ SubSeq(f.lines, 1, n) \in Seq(Unit)
      /\ DOMAIN SubSeq(f.lines, 1, n) = 1 .. n
      /\ \A i \in 1 .. n : SubSeq(f.lines, 1, n)[i] = f.lines[i]
    BY <1>1, <1>4
<1>6. NextCheckpoint(s, f) = [lines |-> SubSeq(f.lines, 1, n), epoch |-> f.epoch,
                              generation |-> Generation(s, f), scope |-> run.policy]
    BY <1>4 DEF NextCheckpoint
<1>7. NextCheckpoint(s, f) \in Checkpoint
    BY <1>1, <1>2, <1>5, <1>6 DEF Checkpoint
<1>8. Batch(s, f) \subseteq Observation
    <2>1. ASSUME NEW i \in (AlreadyRead(s, f) + 1) .. Upto(s, f)
          PROVE  [source |-> s, generation |-> Generation(s, f), unit |-> f.lines[i]]
                    \in Observation
        <3>1. i \in 1 .. Len(f.lines)
            BY <1>2, <1>4, <2>1
        <3>2. f.lines[i] \in Unit
            BY <1>1, <3>1
        <3>. QED BY <1>2, <3>2 DEF Observation
    <2>. QED BY <2>1 DEF Batch
<1>. QED BY <1>3, <1>4, <1>5, <1>6, <1>7, <1>8

-----------------------------------------------------------------------------
(* Types.                                                                    *)

\* The listing is only ever indexed where there is one.
Listed ==
    /\ pc = "reserve" \/ run.index > 0 => run.list # << >>
    /\ pc \notin {"scan", "conclude"} => run.index = 0

\* A source with evidence has exactly one checkpoint.
ShapeInv ==
    /\ decided = [o \in Observed |-> decided[o]]
    /\ OneCheckpoint
    /\ \A o \in Observed : checkpoint[o.source] # {}
    /\ Listed

\* What an operation has decided and not yet written is of the one source at hand.
RunInv ==
    /\ pc # "project" => run.now = {}
    /\ run.now = {} => run.out = {} /\ DOMAIN run.verdicts = {}
    /\ \A s, t \in run.now : s = t
    /\ \A s \in run.dirty : \E o \in Observed : o.source = s
    /\ run.now # {} => DOMAIN run.verdicts # {}
    /\ \A s \in run.now : \A o \in DOMAIN run.verdicts : o.source = s
    /\ OneKind(run.out)
    /\ \A x \in run.out : \E o \in Observed : o.unit = x.unit
    /\ \A u \in run.target : \E o \in Observed : o.unit = u
    /\ pc = "control" => run.mode \in Controls

DecisionInv ==
    /\ \A o \in Observed : Sound(o, decided[o])
    /\ OfRun(run.verdicts)

Core == TypeOK /\ ShapeInv /\ RunInv /\ DecisionInv

\* An operation that has done nothing yet.
Fresh(r, mode, p, target, dirty) ==
    /\ r \in Operation([DOMAIN r.verdicts -> Decision])
    /\ r.now = {} /\ r.out = {} /\ DOMAIN r.verdicts = {} /\ r.dirty = dirty
    /\ r.index = 0 /\ r.list = << >> /\ r.policy = p /\ r.target = target
    /\ r.mode = mode /\ r.clean = TRUE /\ r.start = 0 /\ r.touched = {}

LEMMA NewRunFresh ==
    ASSUME NEW mode \in {"manual", "full", "automatic", "include", "exclude"},
           NEW p \in Policy, NEW target \in SUBSET Unit, NEW dirty \in SUBSET Source
    PROVE  Fresh(NewRun(mode, p, target, dirty), mode, p, target, dirty)
<1>1. PICK r : r = NewRun(mode, p, target, dirty)
    OBVIOUS
<1>2. r = [mode |-> mode, policy |-> p, target |-> target, dirty |-> dirty, now |-> {},
           out |-> {}, verdicts |-> << >>, cache |-> [c \in Cwd |-> {}], list |-> << >>,
           start |-> 0, index |-> 0, clean |-> TRUE, touched |-> {}]
    BY <1>1 DEF NewRun
<1>3. << >> \in [DOMAIN << >> -> Decision] /\ DOMAIN << >> = {}
    OBVIOUS
<1>4. << >> \in Seq(Source) /\ [c \in Cwd |-> {}] \in [Cwd -> SUBSET Evidence]
    OBVIOUS
<1>5. r \in Operation([{} -> Decision])
    BY <1>2, <1>3, <1>4 DEF Operation
<1>6. r.verdicts = << >>
    BY <1>2
<1>7. Fresh(r, mode, p, target, dirty)
    BY <1>2, <1>3, <1>5, <1>6 DEF Fresh
<1>. QED BY <1>1, <1>7

LEMMA NoRunFresh == Fresh(NoRun, "manual", StartPolicy, {}, {})
<1>1. StartPolicy \in Policy /\ {} \in SUBSET Unit /\ {} \in SUBSET Source
    BY CollectAssumption
<1>. QED BY <1>1, NewRunFresh DEF NoRun

LEMMA CoreInit == ASSUME Init PROVE Core
<1>1. StartPolicy \in Policy /\ StartFiles \in [Source -> SUBSET File]
    BY CollectAssumption DEF File
<1>2. Observed = {}
    BY DEF Init, Observed
<1>3. TypeOK
    <2>1. chain \in [Unit -> Seq({"include", "exclude"})]
        BY DEF Init
    <2>. QED BY <1>1, <1>2, <2>1, NoRunFresh, CollectAssumption DEF Init, TypeOK, Fresh
<1>4. ShapeInv
    BY <1>2, NoRunFresh DEF Init, Fresh, ShapeInv, Listed, OneCheckpoint, Observed
<1>5. RunInv
    BY NoRunFresh DEF Init, Fresh, RunInv, OneKind
<1>6. DecisionInv
    BY <1>2, NoRunFresh DEF Init, Fresh, DecisionInv, OfRun, Operation
<1>. QED BY <1>3, <1>4, <1>5, <1>6 DEF Core


-----------------------------------------------------------------------------
(* Steps that leave the journal alone.                                       *)

\* The operation goes on with what it has in hand.
Still ==
    /\ UNCHANGED journal
    /\ run'.now = run.now /\ run'.out = run.out /\ run'.verdicts = run.verdicts
    /\ run'.policy = run.policy /\ run'.dirty = run.dirty
    /\ run'.target = run.target /\ run'.mode = run.mode
    /\ \/ pc' = pc
       \/ run.now = {} /\ pc' \notin {"project", "idle"} /\ pc # "idle"
    /\ pc' = "control" => run.mode \in Controls

\* The operation has nothing in hand, or is over.
Cleared ==
    /\ UNCHANGED << decided, recorded, checkpoint >>
    /\ run'.now = {} /\ run'.out = {} /\ DOMAIN run'.verdicts = {}
    /\ \A s \in run'.dirty : \E o \in Observed : o.source = s
    /\ \A u \in run'.target : \E o \in Observed : o.unit = u
    /\ pc' # "control"

StepTyped == TypeOK' /\ Listed'

WorldTyped ==
    /\ file \in [Source -> SUBSET File]
    /\ place \in [Cwd -> Place] /\ policy \in Policy
    /\ flag \in BOOLEAN /\ offset \in Nat
    /\ waiting \subseteq [mode : Modes, policy : Policy]
    /\ bounds \in [changes : Nat, edits : Nat, stops : Nat]

JournalTyped ==
    /\ Observed \subseteq Observation /\ \A o \in Observed : decided[o] \in Decision
    /\ recorded \subseteq Unit
    /\ chain \in [Unit -> Seq({"include", "exclude"})]
    /\ checkpoint \in [Source -> SUBSET Checkpoint]

RunTyped ==
    /\ pc \in {"idle", "project", "discover", "reserve", "scan", "conclude", "control"}
    /\ run \in Operation([DOMAIN run.verdicts -> Decision])

LEMMA TypeParts ==
    TypeOK <=> WorldTyped /\ JournalTyped /\ RunTyped /\ DOMAIN run.verdicts \subseteq Observed
    BY DEF TypeOK, WorldTyped, JournalTyped, RunTyped

LEMMA JournalKept ==
    ASSUME JournalTyped, UNCHANGED journal
    PROVE  JournalTyped' /\ Observed' = Observed
<1>1. decided' = decided /\ recorded' = recorded /\ chain' = chain /\ checkpoint' = checkpoint
    BY DEF journal
<1>2. Observed' = Observed
    BY <1>1 DEF Observed
<1>. QED BY <1>1, <1>2 DEF JournalTyped

Locations == {"idle", "project", "discover", "reserve", "scan", "conclude", "control"}

LEMMA QuietTyped ==
    ASSUME Core, WorldTyped', UNCHANGED journal, pc' \in Locations,
           run' \in Operation([DOMAIN run'.verdicts -> Decision]),
           DOMAIN run'.verdicts \subseteq Observed
    PROVE  TypeOK'
<1>1. JournalTyped' /\ Observed' = Observed
    BY JournalKept, TypeParts DEF Core
<1>. QED BY <1>1 DEF TypeOK, WorldTyped, JournalTyped, Locations

LEMMA StillStep ==
    ASSUME Core, WorldTyped', UNCHANGED journal, pc' \in Locations,
           run' \in Operation([DOMAIN run.verdicts -> Decision]),
           run'.now = run.now, run'.out = run.out, run'.verdicts = run.verdicts,
           run'.policy = run.policy, run'.dirty = run.dirty,
           run'.target = run.target, run'.mode = run.mode,
           \/ pc' = pc
           \/ run.now = {} /\ pc' \notin {"project", "idle"} /\ pc # "idle",
           pc' = "control" => run.mode \in Controls,
           Listed'
    PROVE  StepTyped /\ Still
<1>1. TypeOK'
    <2>1. DOMAIN run.verdicts \subseteq Observed
        BY TypeParts DEF Core
    <2>. QED BY <2>1, QuietTyped
<1>. QED BY <1>1 DEF StepTyped, Still

LEMMA FileStep ==
    ASSUME Core, NEW s \in Source, NEW new \in SUBSET File, ChangeFile(s, new)
    PROVE  StepTyped /\ Still
<1>1. \/ pc = "idle" /\ run' = run
      \/ run' = [run EXCEPT !.touched = @ \cup {s}]
    BY DEF ChangeFile, Touch
<1>2. /\ run' \in Operation([DOMAIN run.verdicts -> Decision])
      /\ run'.now = run.now /\ run'.out = run.out /\ run'.verdicts = run.verdicts
      /\ run'.policy = run.policy /\ run'.dirty = run.dirty
      /\ run'.target = run.target /\ run'.mode = run.mode
      /\ run'.index = run.index /\ run'.list = run.list
    <2>1. run \in Operation([DOMAIN run.verdicts -> Decision])
        BY DEF Core, TypeOK
    <2>. QED BY <1>1, <2>1 DEF Operation
<1>3. /\ bounds' \in [changes : Nat, edits : Nat, stops : Nat]
      /\ file' \in [Source -> SUBSET File]
    BY DEF ChangeFile, Count, Core, TypeOK
<1>4. UNCHANGED << place, policy, journal, schedule, waiting, pc >>
    BY DEF ChangeFile
<1>5. TypeOK'
    <2>1. WorldTyped /\ JournalTyped /\ RunTyped /\ DOMAIN run.verdicts \subseteq Observed
        BY TypeParts DEF Core
    <2>2. WorldTyped'
        BY <1>3, <1>4, <2>1 DEF WorldTyped, schedule
    <2>3. JournalTyped' /\ Observed' = Observed
        BY <1>4, <2>1, JournalKept
    <2>4. RunTyped' /\ DOMAIN run'.verdicts \subseteq Observed'
        BY <1>2, <1>4, <2>1, <2>3 DEF RunTyped
    <2>. QED BY <2>2, <2>3, <2>4 DEF TypeOK, WorldTyped, JournalTyped, RunTyped
<1>. QED BY <1>2, <1>4, <1>5 DEF Core, ShapeInv, RunInv, StepTyped, Listed, Still, journal

LEMMA SourceStep ==
    ASSUME Core, NEW s \in Source, NEW u \in Unit,
           Grow(s, u) \/ Rewrite(s, u) \/ Create(s, << u >>) \/ Create(s, << >>) \/ Delete(s)
    PROVE  StepTyped /\ Still
<1>1. NewEpoch \in Nat
    BY DEF NewEpoch, Core, TypeOK
<1>2. << u >> \in Seq(Unit) /\ << >> \in Seq(Unit)
    OBVIOUS
<1>3. CASE Grow(s, u)
    <2>1. PICK f \in file[s] : ChangeFile(s, {[f EXCEPT !.lines = Append(@, u)]})
        BY <1>3 DEF Grow
    <2>2. f \in File
        BY DEF Core, TypeOK
    <2>3. {[f EXCEPT !.lines = Append(@, u)]} \in SUBSET File
        BY <2>2 DEF File
    <2>. QED BY <2>1, <2>3, FileStep
<1>4. CASE Rewrite(s, u)
    <2>1. PICK f \in file[s] : \E epoch \in {f.epoch, NewEpoch} :
            ChangeFile(s, {[lines |-> << u >>, epoch |-> epoch]})
        BY <1>4 DEF Rewrite
    <2>2. f \in File
        BY DEF Core, TypeOK
    <2>4. PICK epoch \in {f.epoch, NewEpoch} :
            ChangeFile(s, {[lines |-> << u >>, epoch |-> epoch]})
        BY <2>1
    <2>3. {[lines |-> << u >>, epoch |-> epoch]} \in SUBSET File
        BY <1>1, <1>2, <2>2 DEF File
    <2>. QED BY <2>4, <2>3, FileStep
<1>5. ASSUME NEW lines \in Seq(Unit), Create(s, lines) PROVE StepTyped /\ Still
    <2>1. {[lines |-> lines, epoch |-> NewEpoch]} \in SUBSET File
        BY <1>1 DEF File
    <2>. QED BY <1>5, <2>1, FileStep DEF Create
<1>6. CASE Delete(s)
    BY <1>6, FileStep DEF Delete
<1>. QED BY <1>2, <1>3, <1>4, <1>5, <1>6

LEMMA UserStep ==
    ASSUME Core,
           \/ \E c \in Cwd, p \in Places : Move(c, p)
           \/ \E p \in Edits : EditPolicy(p)
           \/ \E mode \in Modes : Load(mode)
    PROVE  StepTyped /\ Still
<1>1. Places \subseteq Place /\ Edits \subseteq Policy
    BY CollectAssumption
<1>2. WorldTyped /\ RunTyped
    BY TypeParts DEF Core
<1>3. WorldTyped' /\ UNCHANGED << journal, pc, run >>
    <2>1. CASE \E c \in Cwd, p \in Places : Move(c, p)
        BY <1>1, <1>2, <2>1 DEF Move, Count, WorldTyped, schedule
    <2>2. CASE \E p \in Edits : EditPolicy(p)
        BY <1>1, <1>2, <2>2 DEF EditPolicy, Count, WorldTyped, schedule
    <2>3. CASE \E mode \in Modes : Load(mode)
        BY <1>2, <2>3 DEF Load, WorldTyped, schedule, world
    <2>. QED BY <2>1, <2>2, <2>3
<1>4. Listed' /\ (pc = "control" => run.mode \in Controls)
    BY <1>3 DEF Core, ShapeInv, RunInv, Listed
<1>. QED BY <1>2, <1>3, <1>4, StillStep DEF RunTyped, Locations

LEMMA FreshStep ==
    ASSUME Core, WorldTyped', UNCHANGED journal, pc' \in {"idle", "project"},
           NEW mode, NEW p, NEW target, NEW dirty, Fresh(run', mode, p, target, dirty),
           \A s \in dirty : \E o \in Observed : o.source = s,
           \A u \in target : \E o \in Observed : o.unit = u
    PROVE  StepTyped /\ Cleared
<1>1. TypeOK'
    BY QuietTyped DEF Fresh, Locations
<1>. QED BY <1>1 DEF Fresh, StepTyped, Listed, Cleared, journal

LEMMA BeginStep ==
    ASSUME Core, Start \/ \E kind \in {"include", "exclude"}, u \in Unit : StartControl(kind, u)
    PROVE  StepTyped /\ Cleared
<1>1. WorldTyped /\ Modes \subseteq {"manual", "full", "automatic"}
    BY TypeParts, CollectAssumption DEF Core
<1>2. \A p : /\ DirtySources(p) \subseteq Source
             /\ \A s \in DirtySources(p) : \E o \in Observed : o.source = s
    BY DEF DirtySources, ObservedIn
<1>3. CASE Start
    <2>1. PICK w \in waiting : run' = NewRun(w.mode, w.policy, {}, DirtySources(w.policy))
        BY <1>3 DEF Start
    <2>2. w.mode \in {"manual", "full", "automatic"} /\ w.policy \in Policy
        BY <1>1, <2>1 DEF WorldTyped
    <2>3. Fresh(run', w.mode, w.policy, {}, DirtySources(w.policy))
        BY <1>2, <2>1, <2>2, NewRunFresh
    <2>4. WorldTyped' /\ UNCHANGED journal /\ pc' = "project"
        BY <1>1, <1>3 DEF Start, WorldTyped, world, schedule
    <2>. QED BY <1>2, <2>3, <2>4, FreshStep
<1>4. ASSUME NEW kind \in {"include", "exclude"}, NEW u \in Unit, StartControl(kind, u)
      PROVE  StepTyped /\ Cleared
    <2>1. PICK new : /\ new = [policy EXCEPT !.override[u] =
                                  IF kind = "include" THEN "attribute" ELSE "exclude"]
                     /\ policy' = new /\ run' = NewRun(kind, new, {u}, DirtySources(new))
        BY <1>4 DEF StartControl
    <2>2. new \in Policy
        BY <1>1, <2>1 DEF WorldTyped, Policy, Choice
    <2>3. Fresh(run', kind, new, {u}, DirtySources(new))
        BY <1>2, <2>1, <2>2, NewRunFresh
    <2>4. WorldTyped' /\ UNCHANGED journal /\ pc' = "project"
        BY <1>1, <1>4, <2>1, <2>2 DEF StartControl, WorldTyped, Count, schedule
    <2>5. \A v \in {u} : \E o \in Observed : o.unit = v
        BY <1>4 DEF StartControl, ObservedUnit
    <2>. QED BY <1>2, <2>3, <2>4, <2>5, FreshStep
<1>. QED BY <1>3, <1>4

LEMMA EndStep ==
    ASSUME Core, (\E synchronized \in BOOLEAN : Conclude(synchronized)) \/ Stop
    PROVE  StepTyped /\ Cleared
<1>1. WorldTyped
    BY TypeParts DEF Core
<1>2. run' = NoRun /\ pc' = "idle" /\ UNCHANGED journal
    BY DEF Conclude, Stop
<1>3. CASE \E synchronized \in BOOLEAN : Conclude(synchronized)
    <2>1. WorldTyped'
        BY <1>1, <1>3 DEF Conclude, WorldTyped, world
    <2>. QED BY <1>2, <2>1, NoRunFresh, FreshStep
<1>4. CASE Stop
    <2>1. WorldTyped'
        BY <1>1, <1>4 DEF Stop, WorldTyped, world, schedule, Count
    <2>. QED BY <1>2, <2>1, NoRunFresh, FreshStep
<1>. QED BY <1>3, <1>4

LEMMA ControlStep ==
    ASSUME Core, CommitControl
    PROVE  StepTyped /\ Cleared
<1>1. WorldTyped /\ JournalTyped /\ RunTyped
    BY TypeParts DEF Core
<1>2. run' = NoRun /\ pc' = "idle" /\ UNCHANGED << decided, recorded, checkpoint >>
    BY DEF CommitControl
<1>3. Observed' = Observed
    BY <1>2 DEF Observed
<1>4. chain' \in [Unit -> Seq({"include", "exclude"})]
    <2>1. run.mode \in {"include", "exclude"} /\ chain \in [Unit -> Seq({"include", "exclude"})]
        BY <1>1 DEF Core, RunInv, CommitControl, Controls, JournalTyped
    <2>. QED BY <2>1 DEF CommitControl
<1>5. WorldTyped'
    BY <1>1 DEF CommitControl, WorldTyped, world, schedule
<1>6. JournalTyped'
    BY <1>1, <1>2, <1>3, <1>4 DEF JournalTyped
<1>7. TypeOK'
    BY <1>2, <1>3, <1>5, <1>6, NoRunFresh
    DEF Fresh, TypeOK, WorldTyped, JournalTyped
<1>. QED BY <1>2, <1>7, NoRunFresh DEF Fresh, StepTyped, Listed, Cleared


\* Steps of an operation that write nothing.
LEMMA SkipStep ==
    ASSUME Core, SkipSource
    PROVE  StepTyped /\ Cleared
<1>1. WorldTyped /\ RunTyped
    BY TypeParts DEF Core
<1>2. run' = [run EXCEPT !.now = {}, !.out = {}, !.verdicts = << >>, !.clean = FALSE]
    BY DEF SkipSource
<1>3. << >> \in [{} -> Decision] /\ DOMAIN << >> = {}
    OBVIOUS
<1>4. run' \in Operation([{} -> Decision]) /\ run'.verdicts = << >>
    BY <1>1, <1>2, <1>3 DEF RunTyped, Operation
<1>5. /\ run'.now = {} /\ run'.out = {} /\ run'.dirty = run.dirty
      /\ run'.index = run.index /\ run'.list = run.list /\ run'.target = run.target
    BY <1>1, <1>2 DEF RunTyped, Operation
<1>6. WorldTyped' /\ UNCHANGED journal /\ pc' = pc /\ pc = "project"
    BY <1>1 DEF SkipSource, WorldTyped, world, schedule, Count
<1>7. TypeOK'
    BY <1>3, <1>4, <1>6, QuietTyped DEF Locations
<1>. QED BY <1>3, <1>4, <1>5, <1>6, <1>7
         DEF Core, ShapeInv, RunInv, StepTyped, Listed, Cleared, journal

LEMMA ProjectionStep ==
    ASSUME Core, Projection
    PROVE  StepTyped /\ Still
<1>1. WorldTyped /\ RunTyped
    BY TypeParts DEF Core
<1>2. /\ WorldTyped' /\ UNCHANGED << journal, run >> /\ run.now = {} /\ pc = "project"
      /\ pc' \in {"control", "discover"}
    BY <1>1 DEF Projection, WorldTyped, world, schedule
<1>3. pc' = "control" => run.mode \in Controls
    BY DEF Projection, Controls
<1>4. Listed'
    BY <1>2 DEF Core, ShapeInv, Listed
<1>. QED BY <1>1, <1>2, <1>3, <1>4, StillStep DEF RunTyped, Locations

LEMMA DiscoverStep ==
    ASSUME Core, Discover
    PROVE  StepTyped /\ Still
<1>1. WorldTyped /\ RunTyped
    BY TypeParts DEF Core
<1>2. PICK list \in Listings({s \in Source : file[s] # {}}) :
        /\ run' = [run EXCEPT !.list = list,
                              !.clean = @ /\ ~(Automatic /\ Len(list) > MaxSources),
                              !.start = IF Automatic /\ Len(list) > 0
                                        THEN offset % Len(list) ELSE 0]
        /\ flag' = (flag \/ (Automatic /\ Len(list) > MaxSources))
        /\ pc' = IF Automatic /\ Len(list) > 0 THEN "reserve" ELSE "scan"
    BY DEF Discover
<1>3. list \in Seq(Source)
    <2>1. IsFiniteSet({s \in Source : file[s] # {}})
        BY FactsAssumption, FS_Subset
    <2>2. Cardinality({s \in Source : file[s] # {}}) \in Nat
        BY <2>1, FS_CardinalityType
    <2>3. PICK n \in Nat : list \in [1 .. n -> {s \in Source : file[s] # {}}]
        BY <1>2, <2>2 DEF Listings
    <2>4. list \in [1 .. n -> Source]
        BY <2>3
    <2>. QED BY <2>4
<1>4. Len(list) \in Nat /\ (Len(list) > 0 => list # << >> /\ offset % Len(list) \in Nat)
    BY <1>1, <1>3 DEF WorldTyped
<1>5. PICK start \in Nat :
        start = IF Automatic /\ Len(list) > 0 THEN offset % Len(list) ELSE 0
    BY <1>4
<1>6. PICK clean \in BOOLEAN : clean = (run.clean /\ ~(Automatic /\ Len(list) > MaxSources))
    OBVIOUS
<1>7. run' = [run EXCEPT !.list = list, !.clean = clean, !.start = start]
    BY <1>2, <1>5, <1>6
<1>8. /\ run' \in Operation([DOMAIN run.verdicts -> Decision])
      /\ run'.now = run.now /\ run'.out = run.out /\ run'.verdicts = run.verdicts
      /\ run'.policy = run.policy /\ run'.dirty = run.dirty /\ run'.index = run.index
      /\ run'.target = run.target /\ run'.mode = run.mode /\ run'.list = list
    BY <1>1, <1>3, <1>7 DEF RunTyped, Operation
<1>9. WorldTyped' /\ UNCHANGED journal /\ pc = "discover"
    <2>1. UNCHANGED << world, journal, offset, waiting, bounds >> /\ pc = "discover"
        BY DEF Discover
    <2>2. flag' \in BOOLEAN
        BY <1>1, <1>2 DEF WorldTyped
    <2>. QED BY <1>1, <2>1, <2>2 DEF WorldTyped, world
<1>10. run.now = {} /\ pc' \in {"reserve", "scan"}
    BY <1>2, <1>9 DEF Core, RunInv
<1>11. Listed'
    <2>1. pc' = "reserve" => list # << >>
        BY <1>2, <1>4
    <2>2. run'.index = 0
        BY <1>8, <1>9 DEF Core, ShapeInv, Listed
    <2>. QED BY <1>8, <2>1, <2>2 DEF Listed
<1>. QED BY <1>8, <1>9, <1>10, <1>11, StillStep DEF Locations

LEMMA TurnListed ==
    ASSUME Core, NEW s, Turn(s)
    PROVE  run.list # << >> /\ pc = "scan" /\ run.index \in Nat
<1>1. run.list \in Seq(Source) /\ run.index \in Nat /\ MaxSources \in Nat
    BY CollectAssumption DEF Core, TypeOK, Operation
<1>2. Len(run.list) \in Nat /\ (run.list = << >> => Len(run.list) = 0)
    BY <1>1
<1>3. Slice <= Len(run.list) /\ Slice \in Nat
    BY <1>1, <1>2, LeastOfTwo DEF Slice
<1>4. pc = "scan" /\ run.index < Slice
    BY DEF Turn
<1>. QED BY <1>1, <1>2, <1>3, <1>4

LEMMA RemainderTyped ==
    ASSUME NEW i \in Nat, NEW n \in Nat, n > 0
    PROVE  i % n \in Nat
    OBVIOUS

LEMMA OffsetTyped ==
    ASSUME Core, NEW i \in Nat, run.list # << >>
    PROVE  i % Len(run.list) \in Nat
<1>1. run.list \in Seq(Source)
    BY DEF Core, TypeOK, Operation
<1>2. PICK n \in Nat : n = Len(run.list) /\ n > 0
    BY <1>1
<1>3. i % n \in Nat
    BY <1>2, RemainderTyped
<1>. QED BY <1>2, <1>3

LEMMA RotationStep ==
    ASSUME Core, Reserve \/ Rotate
    PROVE  StepTyped /\ Still
<1>1. WorldTyped /\ RunTyped
    BY TypeParts DEF Core
<1>2. /\ UNCHANGED << world, journal, flag, waiting, run, bounds >>
      /\ pc \in {"reserve", "scan"} /\ pc' \in {"scan", "conclude"}
    BY DEF Reserve, Rotate
<1>3. run.start \in Nat /\ run.index \in Nat
    BY <1>1 DEF RunTyped, Operation
<1>4. offset' \in Nat
    <2>1. CASE Reserve
        <3>1. run.list # << >> /\ run.start + 1 \in Nat
            BY <1>3, <2>1 DEF Reserve, Core, ShapeInv, Listed
        <3>. QED BY <2>1, <3>1, OffsetTyped DEF Reserve, NextStart
    <2>2. CASE Rotate
        <3>1. run.index > 1 => run.list # << >> /\ run.start + run.index \in Nat
            BY <1>3 DEF Core, ShapeInv, Listed
        <3>. QED BY <1>1, <2>2, <3>1, OffsetTyped DEF Rotate, WorldTyped
    <2>. QED BY <2>1, <2>2
<1>5. WorldTyped'
    BY <1>1, <1>2, <1>4 DEF WorldTyped, world
<1>6. run.now = {} /\ Listed'
    BY <1>2 DEF Core, RunInv, ShapeInv, Listed
<1>. QED BY <1>1, <1>2, <1>5, <1>6, StillStep DEF RunTyped, Locations

LEMMA PassStep ==
    ASSUME Core, NEW s \in Source, RefuseSource(s) \/ MissSource(s) \/ FailSource(s)
    PROVE  StepTyped /\ Still
<1>1. WorldTyped /\ RunTyped
    BY TypeParts DEF Core
<1>2. Turn(s) /\ run' = [run EXCEPT !.index = @ + 1, !.clean = FALSE]
    BY DEF RefuseSource, MissSource, FailSource, PassOver
<1>3. run.list # << >> /\ pc = "scan"
    BY <1>2, TurnListed
<1>4. /\ run' \in Operation([DOMAIN run.verdicts -> Decision])
      /\ run'.now = run.now /\ run'.out = run.out /\ run'.verdicts = run.verdicts
      /\ run'.policy = run.policy /\ run'.dirty = run.dirty
      /\ run'.target = run.target /\ run'.mode = run.mode /\ run'.list = run.list
    <2>1. PICK k \in Nat : k = run.index + 1
        BY <1>2, TurnListed
    <2>2. run' = [run EXCEPT !.index = k, !.clean = FALSE]
        BY <1>2, <2>1
    <2>. QED BY <1>1, <2>2 DEF RunTyped, Operation
<1>5. /\ UNCHANGED << world, journal, offset, waiting, pc >>
      /\ flag' \in BOOLEAN /\ bounds' \in [changes : Nat, edits : Nat, stops : Nat]
    <2>1. CASE RefuseSource(s)
        BY <1>1, <2>1 DEF RefuseSource, WorldTyped
    <2>2. CASE MissSource(s)
        BY <1>1, <2>2 DEF MissSource, WorldTyped, schedule
    <2>3. CASE FailSource(s)
        <3>1. UNCHANGED << world, journal, offset, waiting, pc >> /\ flag' \in BOOLEAN
            BY <1>1, <2>3 DEF FailSource, WorldTyped
        <3>2. bounds' \in [changes : Nat, edits : Nat, stops : Nat]
            BY <1>1, <2>3 DEF FailSource, Count, WorldTyped
        <3>. QED BY <3>1, <3>2
    <2>. QED BY <2>1, <2>2, <2>3
<1>6. WorldTyped'
    BY <1>1, <1>5 DEF WorldTyped, world
<1>7. Listed'
    BY <1>3, <1>4, <1>5 DEF Listed
<1>. QED BY <1>3, <1>4, <1>5, <1>6, <1>7, StillStep DEF Locations


-----------------------------------------------------------------------------
(* Steps that decide and steps that write.                                   *)

LEMMA CacheTyped ==
    ASSUME TypeOK, NEW S
    PROVE  CacheAfter(S) \in [Cwd -> SUBSET Evidence]
<1>1. run.cache \in [Cwd -> SUBSET Evidence] /\ place \in [Cwd -> Place]
    BY DEF TypeOK, Operation
<1>2. \A c \in Cwd : ResolveAttributionEvidence(c, place[c], run.policy) \in Evidence
    BY <1>1 DEF ResolveAttributionEvidence, Evidence, Place
<1>3. \A c \in Cwd : Look(c) \in SUBSET Evidence
    BY <1>1, <1>2 DEF Look
<1>. QED BY <1>1, <1>3 DEF CacheAfter

LEMMA ProjectStep ==
    ASSUME Core, NEW s \in Source, Project(s)
    PROVE  /\ StepTyped /\ UNCHANGED << journal, world, waiting, pc >> /\ pc = "project"
           /\ run.now = {} /\ run'.now = {s} /\ ObservedIn(s) # {}
           /\ run'.verdicts = Decisions(ObservedIn(s))
           /\ run'.out = Outputs(Decisions(ObservedIn(s)))
           /\ run'.policy = run.policy /\ run'.dirty = run.dirty \ {s}
           /\ run'.target = run.target /\ run'.mode = run.mode
           /\ run'.clean = run.clean /\ run'.touched = run.touched
<1>1. WorldTyped /\ RunTyped /\ JournalTyped
    BY TypeParts DEF Core
<1>2. PICK verdicts :
        /\ verdicts = Decisions(ObservedIn(s))
        /\ run' = [run EXCEPT !.dirty = @ \ {s}, !.now = {s}, !.out = Outputs(verdicts),
                              !.verdicts = verdicts, !.cache = CacheAfter(ObservedIn(s))]
    BY DEF Project
<1>3. ObservedIn(s) \in SUBSET Observation
    BY <1>1 DEF ObservedIn, JournalTyped
<1>4. verdicts \in [ObservedIn(s) -> Decision] /\ DOMAIN verdicts = ObservedIn(s)
    BY <1>2, <1>3, DecisionsSound DEF Core, DecisionInv
<1>5. Outputs(verdicts) \subseteq Output
    BY <1>3, <1>4, OutputsTyped
<1>6. CacheAfter(ObservedIn(s)) \in [Cwd -> SUBSET Evidence]
    BY CacheTyped DEF Core
<1>7. /\ run' \in Operation([DOMAIN run'.verdicts -> Decision])
      /\ run'.now = {s} /\ run'.verdicts = verdicts /\ run'.out = Outputs(verdicts)
      /\ run'.policy = run.policy /\ run'.dirty = run.dirty \ {s}
      /\ run'.target = run.target /\ run'.mode = run.mode
      /\ run'.clean = run.clean /\ run'.touched = run.touched
      /\ run'.index = run.index /\ run'.list = run.list
    <2>1. DOMAIN run' = DOMAIN run /\ run'.verdicts = verdicts
        BY <1>1, <1>2 DEF RunTyped, Operation
    <2>2. run' \in Operation([ObservedIn(s) -> Decision])
        BY <1>1, <1>2, <1>4, <1>5, <1>6 DEF RunTyped, Operation
    <2>3. run' \in Operation([DOMAIN run'.verdicts -> Decision])
        BY <1>4, <2>1, <2>2
    <2>. QED BY <1>1, <1>2, <2>3 DEF RunTyped, Operation
<1>8. /\ UNCHANGED << world, journal, schedule, waiting, pc, bounds >>
      /\ pc = "project" /\ run.now = {} /\ s \in run.dirty
    BY DEF Project
<1>9. ObservedIn(s) # {}
    BY <1>8 DEF Core, RunInv, ObservedIn
<1>10. WorldTyped'
    BY <1>1, <1>8 DEF WorldTyped, world, schedule
<1>11. TypeOK'
    <2>1. DOMAIN run'.verdicts \subseteq Observed
        BY <1>4, <1>7 DEF ObservedIn
    <2>. QED BY <1>7, <1>8, <1>10, <2>1, QuietTyped DEF Locations
<1>12. Listed'
    BY <1>7, <1>8 DEF Core, ShapeInv, Listed
<1>. QED BY <1>2, <1>7, <1>8, <1>9, <1>11, <1>12 DEF StepTyped

\* What a journal entry makes of the decisions and the checkpoint.
LEMMA Journaled ==
    ASSUME Core, NEW s \in Source, NEW out, out \subseteq Output, OneKind(out),
           NEW verdicts, DOMAIN verdicts \subseteq Observation,
           verdicts \in [DOMAIN verdicts -> Decision],
           NEW next \in Checkpoint, Commit(s, out, verdicts, next)
    PROVE  /\ JournalTyped'
           /\ Observed' = Observed \cup DOMAIN verdicts
           /\ decided' = [o \in Observed' |-> decided'[o]]
           /\ \A o \in DOMAIN verdicts : decided'[o] = verdicts[o]
           /\ \A o \in Observed \ DOMAIN verdicts : decided'[o] = decided[o]
           /\ checkpoint'[s] = {next}
           /\ \A t \in Source \ {s} : checkpoint'[t] = checkpoint[t]
<1>1. JournalTyped
    BY TypeParts DEF Core
<1>2. recorded' \subseteq Unit /\ chain' \in [Unit -> Seq({"include", "exclude"})]
    BY Published DEF Core, Controls
<1>3. decided' = [o \in Observed \cup DOMAIN verdicts |->
                     IF o \in DOMAIN verdicts THEN verdicts[o] ELSE decided[o]]
    BY DEF Commit
<1>4. Observed' = Observed \cup DOMAIN verdicts
    BY <1>3 DEF Observed
<1>5. /\ \A o \in DOMAIN verdicts : decided'[o] = verdicts[o]
      /\ \A o \in Observed \ DOMAIN verdicts : decided'[o] = decided[o]
      /\ decided' = [o \in Observed' |-> decided'[o]]
    BY <1>3, <1>4
<1>6. \A o \in Observed' : decided'[o] \in Decision
    BY <1>1, <1>4, <1>5 DEF JournalTyped
<1>7. checkpoint' = [checkpoint EXCEPT ![s] = {next}]
    BY DEF Commit
<1>8. /\ checkpoint' \in [Source -> SUBSET Checkpoint] /\ checkpoint'[s] = {next}
      /\ \A t \in Source \ {s} : checkpoint'[t] = checkpoint[t]
    BY <1>1, <1>7 DEF JournalTyped
<1>. QED BY <1>1, <1>2, <1>4, <1>5, <1>6, <1>8 DEF JournalTyped

LEMMA RescopedTyped ==
    ASSUME Core, NEW s \in run.now
    PROVE  /\ s \in Source
           /\ \E c \in checkpoint[s] : Rescoped(s) = [c EXCEPT !.scope = run.policy]
           /\ Rescoped(s) \in Checkpoint
<1>1. /\ s \in Source /\ run.policy \in Policy /\ checkpoint[s] \subseteq Checkpoint
      /\ DOMAIN run.verdicts \subseteq Observed
    BY DEF Core, TypeOK, Operation
<1>2. PICK o \in DOMAIN run.verdicts : o.source = s
    BY DEF Core, RunInv
<1>3. checkpoint[s] # {}
    BY <1>1, <1>2 DEF Core, ShapeInv
<1>4. PICK c \in checkpoint[s] : Rescoped(s) = [c EXCEPT !.scope = run.policy]
    BY <1>3 DEF Rescoped
<1>. QED BY <1>1, <1>4 DEF Checkpoint


\* Only `out` and `verdicts` of the operation change, and `now` when all is written.
Keeps ==
    /\ run'.policy = run.policy /\ run'.dirty = run.dirty
    /\ run'.target = run.target /\ run'.mode = run.mode
    /\ run'.touched = run.touched /\ run'.index = run.index /\ run'.list = run.list

OutputWritten(s, part) ==
    /\ pc = "project" /\ Commit(s, part, << >>, Rescoped(s))
    /\ run' = [run EXCEPT !.out = @ \ part]
    /\ UNCHANGED << world, schedule, waiting, pc, bounds >>

LEMMA OutputStep ==
    ASSUME Core, NEW s \in run.now, NEW part \in SUBSET run.out, OutputWritten(s, part)
    PROVE  /\ StepTyped /\ Keeps /\ run'.clean = run.clean
           /\ decided' = decided /\ Observed' = Observed
           /\ run'.now = run.now /\ run'.verdicts = run.verdicts
           /\ run'.out = run.out \ part
           /\ checkpoint'[s] = {Rescoped(s)}
           /\ \A t \in Source \ {s} : checkpoint'[t] = checkpoint[t]
<1>. USE DEF OutputWritten
<1>1. WorldTyped /\ RunTyped /\ JournalTyped /\ DOMAIN run.verdicts \subseteq Observed
    BY TypeParts DEF Core
<1>2. s \in Source /\ Rescoped(s) \in Checkpoint
    BY RescopedTyped
<1>3. part \subseteq Output /\ OneKind(part)
    BY <1>1 DEF RunTyped, Operation, Core, RunInv, OneKind
<1>4. DOMAIN << >> = {} /\ << >> \in [{} -> Decision]
    OBVIOUS
<1>5. /\ JournalTyped' /\ Observed' = Observed
      /\ checkpoint'[s] = {Rescoped(s)}
      /\ \A t \in Source \ {s} : checkpoint'[t] = checkpoint[t]
    BY <1>2, <1>3, <1>4, Journaled
<1>6. decided' = decided
    <2>1. decided' = [o \in Observed |-> decided[o]]
        BY <1>4 DEF Commit
    <2>. QED BY <2>1 DEF Core, ShapeInv
<1>7. /\ run' \in Operation([DOMAIN run.verdicts -> Decision])
      /\ run'.now = run.now /\ run'.verdicts = run.verdicts /\ run'.out = run.out \ part
      /\ Keeps /\ run'.clean = run.clean
    BY <1>1 DEF RunTyped, Operation, Keeps
<1>8. TypeOK'
    BY <1>1, <1>5, <1>7 DEF TypeOK, WorldTyped, JournalTyped, RunTyped, world, schedule
<1>9. Listed'
    BY <1>7 DEF Core, ShapeInv, Listed, Keeps
<1>. QED BY <1>5, <1>6, <1>7, <1>8, <1>9 DEF StepTyped

VerdictsWritten(s, part) ==
    /\ pc = "project" /\ OutputDurable
    /\ Commit(s, {}, Restrict(run.verdicts, part), Rescoped(s))
    /\ run' = [run EXCEPT !.verdicts = Restrict(@, DOMAIN run.verdicts \ part),
                          !.now = IF DOMAIN run.verdicts \ part = {} THEN {} ELSE @]
    /\ UNCHANGED << world, schedule, waiting, pc, bounds >>

LEMMA VerdictStep ==
    ASSUME Core, NEW s \in run.now, NEW part \in SUBSET DOMAIN run.verdicts,
           VerdictsWritten(s, part)
    PROVE  /\ StepTyped /\ Keeps /\ run'.clean = run.clean
           /\ recorded' = recorded /\ chain' = chain /\ Observed' = Observed
           /\ decided' = [o \in Observed' |-> decided'[o]]
           /\ \A o \in part : decided'[o] = run.verdicts[o]
           /\ \A o \in Observed \ part : decided'[o] = decided[o]
           /\ run'.now = IF DOMAIN run.verdicts \ part = {} THEN {} ELSE run.now
           /\ DOMAIN run'.verdicts = DOMAIN run.verdicts \ part
           /\ \A o \in DOMAIN run'.verdicts : run'.verdicts[o] = run.verdicts[o]
           /\ run.out = {} /\ run'.out = {}
           /\ checkpoint'[s] = {Rescoped(s)}
           /\ \A t \in Source \ {s} : checkpoint'[t] = checkpoint[t]
<1>. DEFINE rest == DOMAIN run.verdicts \ part
<1>. USE DEF VerdictsWritten
<1>1. WorldTyped /\ RunTyped /\ JournalTyped /\ DOMAIN run.verdicts \subseteq Observed
    BY TypeParts DEF Core
<1>2. s \in Source /\ Rescoped(s) \in Checkpoint
    BY RescopedTyped
<1>3. run.verdicts \in [DOMAIN run.verdicts -> Decision]
    BY <1>1 DEF RunTyped, Operation
<1>4. /\ Restrict(run.verdicts, part) \in [part -> Decision]
      /\ DOMAIN Restrict(run.verdicts, part) = part
      /\ \A o \in part : Restrict(run.verdicts, part)[o] = run.verdicts[o]
    BY <1>3 DEF Restrict
<1>5. /\ Restrict(run.verdicts, rest) \in [rest -> Decision]
      /\ DOMAIN Restrict(run.verdicts, rest) = rest
      /\ \A o \in rest : Restrict(run.verdicts, rest)[o] = run.verdicts[o]
    BY <1>3 DEF Restrict
<1>6. part \subseteq Observation /\ part \subseteq Observed
    BY <1>1 DEF JournalTyped
<1>7. OneKind({}) /\ {} \subseteq Output
    BY DEF OneKind
<1>8. /\ JournalTyped' /\ Observed' = Observed
      /\ decided' = [o \in Observed' |-> decided'[o]]
      /\ \A o \in part : decided'[o] = run.verdicts[o]
      /\ \A o \in Observed \ part : decided'[o] = decided[o]
      /\ checkpoint'[s] = {Rescoped(s)}
      /\ \A t \in Source \ {s} : checkpoint'[t] = checkpoint[t]
    <2>1. PICK v : v = Restrict(run.verdicts, part)
        OBVIOUS
    <2>2. /\ DOMAIN v = part /\ v \in [DOMAIN v -> Decision]
          /\ \A o \in part : v[o] = run.verdicts[o]
        BY <1>4, <2>1
    <2>3. Commit(s, {}, v, Rescoped(s)) /\ DOMAIN v \subseteq Observation
        BY <1>6, <2>1, <2>2
    <2>4. PICK next \in Checkpoint : next = Rescoped(s)
        BY <1>2
    <2>5. Commit(s, {}, v, next)
        BY <2>3, <2>4
    <2>6. /\ JournalTyped' /\ Observed' = Observed \cup DOMAIN v
          /\ decided' = [o \in Observed' |-> decided'[o]]
          /\ \A o \in DOMAIN v : decided'[o] = v[o]
          /\ \A o \in Observed \ DOMAIN v : decided'[o] = decided[o]
          /\ checkpoint'[s] = {next}
          /\ \A t \in Source \ {s} : checkpoint'[t] = checkpoint[t]
        BY <1>2, <1>7, <2>2, <2>3, <2>5, Journaled
    <2>. QED BY <1>6, <2>2, <2>4, <2>6
<1>9. recorded' = recorded /\ chain' = chain
    <2>1. recorded' = recorded
        BY DEF Commit
    <2>2. \A u \in Unit : chain'[u] = chain[u]
        BY <1>7, Published DEF Core
    <2>3. chain \in [Unit -> Seq({"include", "exclude"})]
        BY <1>1 DEF JournalTyped
    <2>4. chain' \in [Unit -> Seq({"include", "exclude"})]
        BY <1>8 DEF JournalTyped
    <2>. QED BY <2>1, <2>2, <2>3, <2>4
<1>10. run' = [run EXCEPT !.verdicts = Restrict(run.verdicts, rest),
                          !.now = IF rest = {} THEN {} ELSE run.now]
    OBVIOUS
<1>. HIDE DEF rest
<1>11. /\ run' \in Operation([rest -> Decision]) /\ run'.verdicts = Restrict(run.verdicts, rest)
       /\ run'.now = IF rest = {} THEN {} ELSE run.now
       /\ run'.out = run.out /\ Keeps /\ run'.clean = run.clean
    <2>1. PICK v \in [rest -> Decision] : v = Restrict(run.verdicts, rest)
        BY <1>5
    <2>2. PICK now \in SUBSET Source : now = IF rest = {} THEN {} ELSE run.now
        BY <1>1 DEF RunTyped, Operation
    <2>3. run' = [run EXCEPT !.verdicts = v, !.now = now]
        BY <1>10, <2>1, <2>2
    <2>4. run' \in Operation([rest -> Decision])
        BY <1>1, <2>3 DEF RunTyped, Operation
    <2>5. /\ run'.verdicts = v /\ run'.now = now
          /\ run'.out = run.out /\ Keeps /\ run'.clean = run.clean
        BY <1>1, <2>3 DEF RunTyped, Operation, Keeps
    <2>. QED BY <2>1, <2>2, <2>4, <2>5
<1>12. DOMAIN run'.verdicts = rest /\ \A o \in rest : run'.verdicts[o] = run.verdicts[o]
    BY <1>5, <1>11
<1>13. TypeOK'
    <2>1. rest \subseteq Observed'
        BY <1>1, <1>8 DEF rest
    <2>. QED BY <1>1, <1>8, <1>11, <1>12, <2>1
             DEF TypeOK, WorldTyped, JournalTyped, RunTyped, world, schedule
<1>14. Listed'
    BY <1>11 DEF Core, ShapeInv, Listed, Keeps
<1>. QED BY <1>8, <1>9, <1>11, <1>12, <1>13, <1>14 DEF StepTyped, OutputDurable, rest


\* A scan of source s, whose contents are f, that decides v.
Scanned(s, f, v) ==
    /\ Turn(s) /\ v = Decisions(Batch(s, f))
    /\ Commit(s, Outputs(v), v, NextCheckpoint(s, f))
    /\ run' = [run EXCEPT !.index = @ + 1, !.clean = @ /\ ~(Upto(s, f) < Len(f.lines)),
                          !.cache = CacheAfter(DOMAIN v)]
    /\ flag' = (flag \/ (Automatic /\ Upto(s, f) < Len(f.lines)))
    /\ UNCHANGED << world, offset, waiting, pc, bounds >>

LEMMA ScanIsScanned ==
    ASSUME NEW s, Scan(s)
    PROVE  \E f \in file[s] : \E v : Scanned(s, f, v)
    BY DEF Scan, Scanned

LEMMA ScanStep ==
    ASSUME Core, NEW s \in Source, NEW f \in file[s], NEW v, Scanned(s, f, v)
    PROVE  /\ StepTyped /\ OfRun(v) /\ DOMAIN v = Batch(s, f)
           /\ UNCHANGED << world, waiting, pc >> /\ pc = "scan"
           /\ run.now = {} /\ run'.now = {}
           /\ run'.out = run.out /\ run'.verdicts = run.verdicts
           /\ run'.policy = run.policy /\ run'.dirty = run.dirty
           /\ run'.target = run.target /\ run'.mode = run.mode
           /\ run'.touched = run.touched /\ run'.list = run.list
           /\ run'.start = run.start /\ run'.index = run.index + 1
           /\ run'.clean => run.clean
           /\ Observed' = Observed \cup DOMAIN v
           /\ decided' = [o \in Observed' |-> decided'[o]]
           /\ \A o \in DOMAIN v : decided'[o] = v[o]
           /\ \A o \in Observed \ DOMAIN v : decided'[o] = decided[o]
           /\ checkpoint'[s] = {NextCheckpoint(s, f)}
           /\ \A t \in Source \ {s} : checkpoint'[t] = checkpoint[t]
<1>1. /\ WorldTyped /\ RunTyped /\ JournalTyped /\ DOMAIN run.verdicts \subseteq Observed
      /\ OneCheckpoint
    BY TypeParts DEF Core, ShapeInv
<1>2. NextCheckpoint(s, f) \in Checkpoint /\ Batch(s, f) \in SUBSET Observation
    BY <1>1, ReadOn DEF Core
<1>3. /\ v \in [Batch(s, f) -> Decision] /\ DOMAIN v = Batch(s, f)
      /\ \A o \in Batch(s, f) : v[o].policy = run.policy /\ Sound(o, v[o])
    BY <1>2, DecisionsSound DEF Core, DecisionInv, Scanned
<1>4. OfRun(v)
    BY <1>2, <1>3 DEF OfRun
<1>5. Outputs(v) \subseteq Output /\ OneKind(Outputs(v))
    BY <1>2, <1>3, OutputsTyped DEF OneKind
<1>6. PICK next \in Checkpoint : next = NextCheckpoint(s, f)
    BY <1>2
<1>7. PICK out : out = Outputs(v)
    OBVIOUS
<1>8. /\ JournalTyped' /\ Observed' = Observed \cup DOMAIN v
      /\ decided' = [o \in Observed' |-> decided'[o]]
      /\ \A o \in DOMAIN v : decided'[o] = v[o]
      /\ \A o \in Observed \ DOMAIN v : decided'[o] = decided[o]
      /\ checkpoint'[s] = {next}
      /\ \A t \in Source \ {s} : checkpoint'[t] = checkpoint[t]
    <2>1. Commit(s, out, v, next)
        BY <1>6, <1>7 DEF Scanned
    <2>2. out \subseteq Output /\ OneKind(out)
        BY <1>5, <1>7
    <2>3. DOMAIN v \subseteq Observation /\ v \in [DOMAIN v -> Decision]
        BY <1>2, <1>3
    <2>. QED BY <2>1, <2>2, <2>3, Journaled
<1>9. run.list # << >> /\ pc = "scan" /\ run.index \in Nat
    BY TurnListed DEF Scanned
<1>10. PICK k \in Nat : k = run.index + 1
    BY <1>9
<1>11. PICK cache \in [Cwd -> SUBSET Evidence] : cache = CacheAfter(DOMAIN v)
    BY CacheTyped DEF Core
<1>12. PICK clean \in BOOLEAN : clean = (run.clean /\ ~(Upto(s, f) < Len(f.lines)))
    OBVIOUS
<1>13. run' = [run EXCEPT !.index = k, !.clean = clean, !.cache = cache]
    BY <1>10, <1>11, <1>12 DEF Scanned
<1>14. /\ run' \in Operation([DOMAIN run.verdicts -> Decision])
       /\ run'.now = run.now /\ run'.verdicts = run.verdicts /\ run'.out = run.out
       /\ run'.policy = run.policy /\ run'.dirty = run.dirty
       /\ run'.target = run.target /\ run'.mode = run.mode
       /\ run'.touched = run.touched /\ run'.list = run.list
       /\ run'.start = run.start /\ run'.index = run.index + 1
       /\ run'.clean => run.clean
    BY <1>1, <1>10, <1>13, <1>12 DEF RunTyped, Operation
<1>15. UNCHANGED << world, offset, waiting, pc, bounds >> /\ flag' \in BOOLEAN
    BY <1>1 DEF Scanned, WorldTyped
<1>16. TypeOK'
    BY <1>1, <1>8, <1>14, <1>15 DEF TypeOK, WorldTyped, JournalTyped, RunTyped, world
<1>17. Listed'
    BY <1>9, <1>14, <1>15 DEF Listed
<1>18. run.now = {}
    BY <1>9 DEF Core, RunInv
<1>. QED BY <1>3, <1>4, <1>6, <1>8, <1>9, <1>14, <1>15, <1>16, <1>17, <1>18 DEF StepTyped


-----------------------------------------------------------------------------
(* Every step is one of six.                                                 *)

LEMMA Steps ==
    ASSUME Core, [Next]_vars
    PROVE  \/ StepTyped /\ Still
           \/ StepTyped /\ Cleared
           \/ \E s \in Source : Project(s)
           \/ \E s \in run.now, part \in SUBSET run.out : OutputWritten(s, part)
           \/ \E s \in run.now, part \in SUBSET DOMAIN run.verdicts : VerdictsWritten(s, part)
           \/ \E s \in Source : \E f \in file[s] : \E v : Scanned(s, f, v)
<1>1. CASE UNCHANGED vars
    <2>1. UNCHANGED << world, journal, schedule, waiting, pc, run, bounds >>
        BY <1>1 DEF vars
    <2>2. WorldTyped /\ RunTyped
        BY TypeParts DEF Core
    <2>3. WorldTyped'
        BY <2>1, <2>2 DEF WorldTyped, world, schedule
    <2>4. Listed' /\ (pc' = "control" => run.mode \in Controls)
        BY <2>1 DEF Core, ShapeInv, RunInv, Listed
    <2>. QED BY <2>1, <2>2, <2>3, <2>4, StillStep DEF RunTyped, Locations
<1>2. CASE Environment
    <2>1. CASE \E s \in Source, u \in Unit : Grow(s, u) \/ Rewrite(s, u) \/ Create(s, << u >>)
        BY <2>1, SourceStep
    <2>2. CASE \E s \in Source : Create(s, << >>) \/ Delete(s)
        <3>1. PICK s \in Source : Create(s, << >>) \/ Delete(s)
            BY <2>2
        <3>2. {[lines |-> << >>, epoch |-> NewEpoch]} \in SUBSET File /\ {} \in SUBSET File
            BY DEF Core, TypeOK, NewEpoch, File
        <3>. QED BY <3>1, <3>2, FileStep DEF Create, Delete
    <2>3. CASE \/ \E c \in Cwd, p \in Places : Move(c, p)
               \/ \E p \in Edits : EditPolicy(p)
        BY <2>3, UserStep
    <2>. QED BY <1>2, <2>1, <2>2, <2>3 DEF Environment
<1>3. CASE Ask
    BY <1>3, UserStep, BeginStep DEF Ask
<1>4. CASE Trouble
    BY <1>4, SkipStep, PassStep, EndStep DEF Trouble
<1>5. CASE Work
    <2>1. CASE Start
        BY <2>1, BeginStep
    <2>2. CASE \E s \in Source : Project(s)
        BY <2>2
    <2>3. CASE \E s \in Source : Scan(s)
        BY <2>3, ScanIsScanned
    <2>4. CASE \E s \in Source : RefuseSource(s) \/ MissSource(s)
        BY <2>4, PassStep
    <2>5. CASE WriteOutput
        BY <2>5 DEF WriteOutput, OutputWritten
    <2>6. CASE WriteVerdicts
        BY <2>6 DEF WriteVerdicts, VerdictsWritten
    <2>7. CASE Projection \/ Discover \/ Reserve \/ Rotate
        BY <2>7, ProjectionStep, DiscoverStep, RotationStep
    <2>8. CASE (\E synchronized \in BOOLEAN : Conclude(synchronized)) \/ CommitControl
        BY <2>8, EndStep, ControlStep
    <2>. QED BY <1>5, <2>1, <2>2, <2>3, <2>4, <2>5, <2>6, <2>7, <2>8 DEF Work
<1>. QED BY <1>1, <1>2, <1>3, <1>4, <1>5 DEF Next

LEMMA CoreStep ==
    ASSUME Core, [Next]_vars
    PROVE  Core'
<1>1. CASE StepTyped /\ Still
    <2>1. /\ decided' = decided /\ checkpoint' = checkpoint /\ Observed' = Observed
          /\ TypeOK' /\ Listed'
        BY <1>1 DEF Still, journal, Observed, StepTyped
    <2>2. ShapeInv'
        BY <2>1 DEF Core, ShapeInv, OneCheckpoint
    <2>3. RunInv'
        BY <1>1, <2>1 DEF Core, RunInv, Still, OneKind
    <2>4. DecisionInv'
        BY <1>1, <2>1 DEF Core, DecisionInv, Still, OfRun
    <2>. QED BY <2>1, <2>2, <2>3, <2>4 DEF Core
<1>2. CASE StepTyped /\ Cleared
    <2>1. /\ decided' = decided /\ checkpoint' = checkpoint /\ Observed' = Observed
          /\ TypeOK' /\ Listed'
        BY <1>2 DEF Cleared, Observed, StepTyped
    <2>2. ShapeInv'
        BY <2>1 DEF Core, ShapeInv, OneCheckpoint
    <2>3. RunInv'
        BY <1>2, <2>1 DEF Core, RunInv, Cleared, OneKind
    <2>4. DecisionInv'
        <3>1. run'.verdicts \in [DOMAIN run'.verdicts -> Decision]
            BY <2>1 DEF TypeOK, Operation
        <3>. QED BY <1>2, <2>1, <3>1 DEF Core, DecisionInv, Cleared, OfRun
    <2>. QED BY <2>1, <2>2, <2>3, <2>4 DEF Core
<1>3. ASSUME NEW s \in Source, Project(s) PROVE Core'
    <2>1. PICK v : v = Decisions(ObservedIn(s))
        OBVIOUS
    <2>2. /\ StepTyped /\ UNCHANGED << journal, pc >> /\ pc = "project"
          /\ run'.now = {s} /\ ObservedIn(s) # {} /\ run'.verdicts = v
          /\ run'.out = Outputs(v) /\ run'.policy = run.policy
          /\ run'.dirty \subseteq run.dirty /\ run'.target = run.target
          /\ run'.mode = run.mode
        BY <1>3, <2>1, ProjectStep
    <2>3. ObservedIn(s) \in SUBSET Observation /\ ObservedIn(s) \subseteq Observed
        BY DEF Core, TypeOK, ObservedIn
    <2>4. /\ v \in [ObservedIn(s) -> Decision] /\ DOMAIN v = ObservedIn(s)
          /\ \A o \in ObservedIn(s) : v[o].policy = run.policy /\ Sound(o, v[o])
        BY <2>1, <2>3, DecisionsSound DEF Core, DecisionInv
    <2>5. /\ OneKind(Outputs(v))
          /\ \A x \in Outputs(v) : \E o \in DOMAIN v : o.unit = x.unit
        BY <2>3, <2>4, OutputsTyped DEF OneKind
    <2>6. /\ decided' = decided /\ checkpoint' = checkpoint /\ Observed' = Observed
          /\ TypeOK' /\ Listed'
        BY <2>2 DEF journal, Observed, StepTyped
    <2>7. ShapeInv'
        BY <2>6 DEF Core, ShapeInv, OneCheckpoint
    <2>8. RunInv'
        <3>1. \A o \in DOMAIN v : o.source = s
            BY <2>4 DEF ObservedIn
        <3>2. \A x \in run'.out : \E o \in Observed : o.unit = x.unit
            BY <2>2, <2>3, <2>4, <2>5
        <3>3. OneKind(run.out)'
            BY <2>2, <2>5 DEF OneKind
        <3>. QED BY <2>2, <2>4, <2>6, <3>1, <3>2, <3>3 DEF Core, RunInv
    <2>9. DecisionInv'
        <3>1. OfRun(run.verdicts)'
            BY <2>2, <2>3, <2>4 DEF OfRun
        <3>. QED BY <2>6, <3>1 DEF Core, DecisionInv
    <2>. QED BY <2>6, <2>7, <2>8, <2>9 DEF Core
<1>4. ASSUME NEW s \in run.now, NEW part \in SUBSET run.out, OutputWritten(s, part)
      PROVE  Core'
    <2>1. /\ StepTyped /\ Keeps
          /\ decided' = decided /\ Observed' = Observed
          /\ run'.now = run.now /\ run'.verdicts = run.verdicts
          /\ run'.out = run.out \ part /\ checkpoint'[s] = {Rescoped(s)}
          /\ \A t \in Source \ {s} : checkpoint'[t] = checkpoint[t]
        BY <1>4, OutputStep
    <2>2. pc' = pc /\ TypeOK' /\ Listed'
        BY <1>4, <2>1 DEF OutputWritten, StepTyped
    <2>3. ShapeInv'
        <3>1. \A t \in Source : checkpoint[t] # {} => checkpoint'[t] # {}
            BY <2>1
        <3>2. \A o \in Observed : o.source \in Source
            BY DEF Core, TypeOK, Observation
        <3>3. OneCheckpoint'
            BY <2>1 DEF Core, ShapeInv, OneCheckpoint
        <3>. QED BY <2>1, <2>2, <3>1, <3>2, <3>3 DEF Core, ShapeInv
    <2>4. RunInv'
        <3>1. OneKind(run.out)'
            BY <2>1 DEF Core, RunInv, OneKind
        <3>2. run.now # {}
            BY <1>4
        <3>. QED BY <2>1, <2>2, <3>1, <3>2 DEF Core, RunInv, Keeps
    <2>5. DecisionInv'
        BY <2>1 DEF Core, DecisionInv, OfRun, Keeps
    <2>. QED BY <2>2, <2>3, <2>4, <2>5 DEF Core
<1>5. ASSUME NEW s \in run.now, NEW part \in SUBSET DOMAIN run.verdicts,
             VerdictsWritten(s, part)
      PROVE  Core'
    <2>1. /\ StepTyped /\ Keeps /\ Observed' = Observed
          /\ decided' = [o \in Observed' |-> decided'[o]]
          /\ \A o \in part : decided'[o] = run.verdicts[o]
          /\ \A o \in Observed \ part : decided'[o] = decided[o]
          /\ run'.now = IF DOMAIN run.verdicts \ part = {} THEN {} ELSE run.now
          /\ DOMAIN run'.verdicts = DOMAIN run.verdicts \ part
          /\ \A o \in DOMAIN run'.verdicts : run'.verdicts[o] = run.verdicts[o]
          /\ run'.out = {} /\ checkpoint'[s] = {Rescoped(s)}
          /\ \A t \in Source \ {s} : checkpoint'[t] = checkpoint[t]
        BY <1>5, VerdictStep
    <2>2. pc' = pc /\ TypeOK' /\ Listed'
        BY <1>5, <2>1 DEF VerdictsWritten, StepTyped
    <2>3. ShapeInv'
        <3>1. \A t \in Source : checkpoint[t] # {} => checkpoint'[t] # {}
            BY <2>1
        <3>2. \A o \in Observed : o.source \in Source
            BY DEF Core, TypeOK, Observation
        <3>3. OneCheckpoint'
            BY <2>1 DEF Core, ShapeInv, OneCheckpoint
        <3>. QED BY <2>1, <2>2, <3>1, <3>2, <3>3 DEF Core, ShapeInv
    <2>4. RunInv'
        <3>1. OneKind(run.out)'
            BY <2>1 DEF OneKind
        <3>. QED BY <2>1, <2>2, <3>1 DEF Core, RunInv, Keeps
    <2>5. DecisionInv'
        <3>1. OfRun(run.verdicts)'
            <4>1. run'.verdicts \in [DOMAIN run'.verdicts -> Decision]
                BY <2>2 DEF TypeOK, Operation
            <4>. QED BY <2>1, <4>1 DEF Core, DecisionInv, OfRun, Keeps
        <3>2. \A o \in Observed' : Sound(o, decided'[o])
            BY <2>1 DEF Core, DecisionInv, OfRun
        <3>. QED BY <3>1, <3>2 DEF DecisionInv
    <2>. QED BY <2>2, <2>3, <2>4, <2>5 DEF Core
<1>6. ASSUME NEW s \in Source, NEW f \in file[s], NEW v, Scanned(s, f, v)
      PROVE  Core'
    <2>1. /\ StepTyped /\ OfRun(v) /\ DOMAIN v = Batch(s, f)
          /\ pc' = pc /\ pc = "scan" /\ run.now = {} /\ run'.now = {}
          /\ run'.out = run.out /\ run'.verdicts = run.verdicts
          /\ run'.policy = run.policy /\ run'.dirty = run.dirty
          /\ run'.target = run.target /\ run'.mode = run.mode
          /\ Observed' = Observed \cup DOMAIN v
          /\ decided' = [o \in Observed' |-> decided'[o]]
          /\ \A o \in DOMAIN v : decided'[o] = v[o]
          /\ \A o \in Observed \ DOMAIN v : decided'[o] = decided[o]
          /\ checkpoint'[s] = {NextCheckpoint(s, f)}
          /\ \A t \in Source \ {s} : checkpoint'[t] = checkpoint[t]
        BY <1>6, ScanStep
    <2>2. TypeOK' /\ Listed'
        BY <2>1 DEF StepTyped
    <2>3. ShapeInv'
        <3>1. \A t \in Source : checkpoint[t] # {} => checkpoint'[t] # {}
            BY <2>1
        <3>2. \A o \in Observed : o.source \in Source
            BY DEF Core, TypeOK, Observation
        <3>3. \A o \in DOMAIN v : o.source = s
            BY <2>1 DEF Batch
        <3>4. OneCheckpoint'
            BY <2>1 DEF Core, ShapeInv, OneCheckpoint
        <3>. QED BY <2>1, <2>2, <3>1, <3>2, <3>3, <3>4 DEF Core, ShapeInv
    <2>4. RunInv'
        <3>1. OneKind(run.out)'
            BY <2>1 DEF Core, RunInv, OneKind
        <3>. QED BY <2>1, <3>1 DEF Core, RunInv
    <2>5. DecisionInv'
        <3>1. OfRun(run.verdicts)'
            BY <2>1 DEF Core, DecisionInv, OfRun
        <3>2. \A o \in Observed' : Sound(o, decided'[o])
            BY <2>1 DEF Core, DecisionInv, OfRun
        <3>. QED BY <3>1, <3>2 DEF DecisionInv
    <2>. QED BY <2>2, <2>3, <2>4, <2>5 DEF Core
<1>. QED BY <1>1, <1>2, <1>3, <1>4, <1>5, <1>6, Steps

\* Every variable of a collection has its type, whatever the sources and the user do.
THEOREM CollectTypeCorrect == Spec => []TypeOK
<1>1. Init => Core
    BY CoreInit
<1>2. Core /\ [Next]_vars => Core'
    BY CoreStep
<1>3. Core => TypeOK
    BY DEF Core
<1>. QED BY <1>1, <1>2, <1>3, PTL DEF Spec

-----------------------------------------------------------------------------
(* The cursor promises nothing the journal does not hold.                    *)

EntryOf(s, c, i) == [source |-> s, generation |-> c.generation, unit |-> c.lines[i]]

LEMMA CursorStep ==
    ASSUME Core, CursorCovered, [Next]_vars
    PROVE  CursorCovered'
<1>1. \A s \in Source : \A c \in checkpoint[s] : \A i \in DOMAIN c.lines :
        EntryOf(s, c, i) \in Observed
    BY DEF CursorCovered, EntryOf
<1>2. SUFFICES \A s \in Source : \A c \in checkpoint'[s] : \A i \in DOMAIN c.lines :
                  EntryOf(s, c, i) \in Observed'
    BY DEF CursorCovered, EntryOf
<1>3. CASE Observed' = Observed /\ checkpoint' = checkpoint
    BY <1>1, <1>3
<1>4. ASSUME NEW s \in run.now, Observed' = Observed, checkpoint'[s] = {Rescoped(s)},
             \A t \in Source \ {s} : checkpoint'[t] = checkpoint[t]
      PROVE  \A t \in Source : \A c \in checkpoint'[t] : \A i \in DOMAIN c.lines :
                EntryOf(t, c, i) \in Observed'
    <2>1. PICK c \in checkpoint[s] : Rescoped(s) = [c EXCEPT !.scope = run.policy]
        BY RescopedTyped
    <2>2. s \in Source /\ c \in Checkpoint
        BY RescopedTyped DEF Core, TypeOK
    <2>3. Rescoped(s).lines = c.lines /\ Rescoped(s).generation = c.generation
        BY <2>1, <2>2 DEF Checkpoint
    <2>4. \A i \in DOMAIN Rescoped(s).lines : EntryOf(s, Rescoped(s), i) \in Observed
        BY <1>1, <2>2, <2>3 DEF EntryOf
    <2>. QED BY <1>1, <1>4, <2>4
<1>5. ASSUME NEW s \in Source, NEW f \in file[s], NEW v, Scanned(s, f, v)
      PROVE  \A t \in Source : \A c \in checkpoint'[t] : \A i \in DOMAIN c.lines :
                EntryOf(t, c, i) \in Observed'
    <2>1. /\ DOMAIN v = Batch(s, f) /\ Observed' = Observed \cup DOMAIN v
          /\ checkpoint'[s] = {NextCheckpoint(s, f)}
          /\ \A t \in Source \ {s} : checkpoint'[t] = checkpoint[t]
        BY <1>5, ScanStep
    <2>2. PICK next : next = NextCheckpoint(s, f)
        OBVIOUS
    <2>3. /\ DOMAIN next.lines = 1 .. Upto(s, f)
          /\ \A i \in 1 .. Upto(s, f) : next.lines[i] = f.lines[i]
          /\ next.generation = Generation(s, f)
          /\ Upto(s, f) \in AlreadyRead(s, f) .. Len(f.lines)
        BY <2>2, ReadOn DEF Core, ShapeInv, NextCheckpoint
    <2>4. /\ AlreadyRead(s, f) \in Nat
          /\ \A i \in 1 .. AlreadyRead(s, f) : \E c \in checkpoint[s] :
                /\ i \in DOMAIN c.lines /\ c.lines[i] = f.lines[i]
                /\ c.generation = Generation(s, f)
        BY Resumed DEF Core, ShapeInv
    <2>5. ASSUME NEW i \in 1 .. Upto(s, f) PROVE EntryOf(s, next, i) \in Observed'
        <3>1. CASE i <= AlreadyRead(s, f)
            <4>1. i \in 1 .. AlreadyRead(s, f)
                BY <2>3, <2>4, <3>1
            <4>2. PICK c \in checkpoint[s] :
                    /\ i \in DOMAIN c.lines /\ c.lines[i] = f.lines[i]
                    /\ c.generation = Generation(s, f)
                BY <2>4, <4>1
            <4>3. EntryOf(s, c, i) \in Observed /\ EntryOf(s, c, i) = EntryOf(s, next, i)
                BY <1>1, <2>3, <4>2 DEF EntryOf
            <4>. QED BY <2>1, <4>3
        <3>2. CASE ~(i <= AlreadyRead(s, f))
            <4>1. i \in (AlreadyRead(s, f) + 1) .. Upto(s, f)
                BY <2>3, <2>4, <3>2
            <4>2. EntryOf(s, next, i) \in Batch(s, f)
                BY <2>3, <4>1 DEF EntryOf, Batch
            <4>. QED BY <2>1, <4>2
        <3>. QED BY <3>1, <3>2
    <2>6. \A i \in DOMAIN next.lines : EntryOf(s, next, i) \in Observed'
        BY <2>3, <2>5
    <2>. QED BY <1>1, <2>1, <2>2, <2>6
<1>6. CASE Still \/ Cleared
    BY <1>3, <1>6 DEF Still, Cleared, journal, Observed
<1>7. CASE \E s \in Source : Project(s)
    <2>1. UNCHANGED journal
        BY <1>7, ProjectStep
    <2>. QED BY <1>3, <2>1 DEF journal, Observed
<1>8. CASE \E s \in run.now, part \in SUBSET run.out : OutputWritten(s, part)
    BY <1>4, <1>8, OutputStep
<1>9. CASE \E s \in run.now, part \in SUBSET DOMAIN run.verdicts : VerdictsWritten(s, part)
    BY <1>4, <1>9, VerdictStep
<1>. QED BY <1>5, <1>6, <1>7, <1>8, <1>9, Steps

\* However operations are cut and sources change, every entry before a checkpoint is
\* an observation of its own generation in the journal.
THEOREM CheckpointsCovered == Spec => []CursorCovered
<1>1. Init => Core /\ CursorCovered
    BY CoreInit DEF Init, CursorCovered
<1>2. Core /\ CursorCovered /\ [Next]_vars => (Core /\ CursorCovered)'
    BY CoreStep, CursorStep
<1>. QED BY <1>1, <1>2, PTL DEF Spec


-----------------------------------------------------------------------------
(* Nothing attributed is lost.                                               *)

\* The decision about o once everything in hand is written.
Final(o) == IF o \in DOMAIN run.verdicts THEN run.verdicts[o] ELSE decided[o]

\* In the source at hand, what is not yet decided again is in hand, what was decided
\* under the policy of the operation stays, and what will be included is recorded or
\* about to be.
HandInv ==
    \A s \in run.now :
        /\ \A o \in ObservedIn(s) :
              o \in DOMAIN run.verdicts \/ decided[o].policy = run.policy
        /\ \A o \in DOMAIN run.verdicts :
              decided[o].policy = run.policy => run.verdicts[o] = decided[o]
        /\ \A u \in Unit :
              /\ Copies(s, u) # {}
              /\ \A o \in Copies(s, u) : Final(o).status = "included"
              => u \in recorded \/ Put("record", u) \in run.out

CaptureInv == HandInv /\ IncludedCaptured

AgreedIncluded(s, u) ==
    /\ Copies(s, u) # {}
    /\ \A o \in Copies(s, u) : decided[o].status = "included"
    /\ \A o, q \in Copies(s, u) : decided[o].policy = decided[q].policy

LEMMA CapturedAs ==
    IncludedCaptured
    <=> \A s \in Source, u \in Unit : AgreedIncluded(s, u) => u \in recorded
    BY DEF IncludedCaptured, AgreedIncluded

LEMMA ProjectCaptures ==
    ASSUME Core, CaptureInv, NEW s \in Source, Project(s)
    PROVE  HandInv'
<1>1. PICK v : v = Decisions(ObservedIn(s))
    OBVIOUS
<1>2. /\ run'.now = {s} /\ run'.verdicts = v /\ run'.out = Outputs(v)
      /\ run'.policy = run.policy /\ decided' = decided /\ recorded' = recorded
    BY <1>1, ProjectStep DEF journal
<1>3. ObservedIn(s) \in SUBSET Observation /\ ObservedIn(s) \subseteq Observed
    BY DEF Core, TypeOK, ObservedIn
<1>4. /\ DOMAIN v = ObservedIn(s)
      /\ \A o \in ObservedIn(s) : v[o] = Decide(o)
    BY <1>1, <1>3, DecisionsSound DEF Core, DecisionInv
<1>5. Observed' = Observed /\ ObservedIn(s)' = ObservedIn(s)
    BY <1>2 DEF Observed, ObservedIn
<1>6. \A u : Copies(s, u)' = Copies(s, u)
    BY <1>5 DEF Copies
<1>7. \A o \in ObservedIn(s) : decided[o].policy = run.policy => v[o] = decided[o]
    BY <1>3, <1>4, DecideSound DEF Core, DecisionInv
<1>8. ASSUME NEW u \in Unit, Copies(s, u) # {},
             \A o \in Copies(s, u) : Final(o)'.status = "included"
      PROVE  u \in recorded \/ Put("record", u) \in Outputs(v)
    <2>1. VerdictsOn(v, u) = Copies(s, u) /\ Copies(s, u) \subseteq ObservedIn(s)
        BY <1>4 DEF VerdictsOn, Copies
    <2>2. \A o \in Copies(s, u) : Final(o)' = v[o]
        BY <1>2, <1>4, <2>1 DEF Final
    <2>3. u \in UnitsOf(v)
        BY <1>8, <2>1 DEF VerdictsOn, UnitsOf
    <2>4. \A o \in VerdictsOn(v, u) : v[o].status = "included"
        BY <1>8, <2>1, <2>2
    <2>. QED BY <2>3, <2>4, IncludedGivesRecord
<1>. QED BY <1>2, <1>4, <1>5, <1>6, <1>7, <1>8 DEF HandInv

LEMMA OutputCaptures ==
    ASSUME Core, CaptureInv, NEW s \in run.now, NEW part \in SUBSET run.out,
           OutputWritten(s, part)
    PROVE  CaptureInv'
<1>1. /\ decided' = decided /\ Observed' = Observed
      /\ run'.now = run.now /\ run'.verdicts = run.verdicts
      /\ run'.policy = run.policy /\ run'.out = run.out \ part
    BY OutputStep DEF Keeps
<1>2. part \subseteq Output /\ OneKind(part)
    BY DEF Core, TypeOK, Operation, RunInv, OneKind
<1>3. PICK next, none : Commit(s, part, none, next)
    BY DEF OutputWritten
<1>4. \A u \in Unit : u \in recorded' <=> u \in recorded \/ Put("record", u) \in part
    BY <1>2, <1>3, Published DEF Core
<1>5. /\ \A t : ObservedIn(t)' = ObservedIn(t) /\ \A u : Copies(t, u)' = Copies(t, u)
      /\ \A o : Final(o)' = Final(o)
      /\ \A t, u : AgreedIncluded(t, u)' = AgreedIncluded(t, u)
    BY <1>1 DEF ObservedIn, Copies, Final, AgreedIncluded
<1>6. HandInv'
    BY <1>1, <1>4, <1>5 DEF CaptureInv, HandInv
<1>7. \A t \in Source, u \in Unit : AgreedIncluded(t, u) => u \in recorded
    BY CapturedAs DEF CaptureInv
<1>8. IncludedCaptured'
    BY <1>1, <1>4, <1>5, <1>7 DEF IncludedCaptured, AgreedIncluded
<1>. QED BY <1>6, <1>8 DEF CaptureInv

LEMMA VerdictCaptures ==
    ASSUME Core, CaptureInv, NEW s \in run.now, NEW part \in SUBSET DOMAIN run.verdicts,
           VerdictsWritten(s, part)
    PROVE  CaptureInv'
<1>1. /\ recorded' = recorded /\ Observed' = Observed
      /\ \A o \in part : decided'[o] = run.verdicts[o]
      /\ \A o \in Observed \ part : decided'[o] = decided[o]
      /\ run'.now \subseteq run.now /\ run'.policy = run.policy
      /\ DOMAIN run'.verdicts = DOMAIN run.verdicts \ part
      /\ \A o \in DOMAIN run'.verdicts : run'.verdicts[o] = run.verdicts[o]
      /\ run.out = {} /\ run'.out = {}
    BY VerdictStep DEF Keeps
<1>2. \A t : ObservedIn(t)' = ObservedIn(t) /\ \A u : Copies(t, u)' = Copies(t, u)
    BY <1>1 DEF ObservedIn, Copies
<1>3. \A o \in DOMAIN run.verdicts : o \in Observed /\ o.source = s
    BY DEF Core, TypeOK, RunInv
<1>4. \A o \in DOMAIN run.verdicts : run.verdicts[o].policy = run.policy
    BY DEF Core, DecisionInv, OfRun
<1>5. \A t \in run.now : t = s
    BY DEF Core, RunInv
<1>6. \A o \in Observed : Final(o)' = Final(o)
    BY <1>1 DEF Final
<1>7. HandInv'
    <2>1. ASSUME NEW t \in run'.now
          PROVE  /\ \A o \in ObservedIn(t) :
                       o \in DOMAIN run'.verdicts \/ decided'[o].policy = run'.policy
                 /\ \A o \in DOMAIN run'.verdicts :
                       decided'[o].policy = run'.policy => run'.verdicts[o] = decided'[o]
                 /\ \A u \in Unit :
                       /\ Copies(t, u) # {}
                       /\ \A o \in Copies(t, u) : Final(o)'.status = "included"
                       => u \in recorded' \/ Put("record", u) \in run'.out
        <3>1. t \in run.now
            BY <1>1, <2>1
        <3>2. ASSUME NEW o \in ObservedIn(t)
              PROVE  o \in DOMAIN run'.verdicts \/ decided'[o].policy = run'.policy
            <4>1. o \in Observed
                BY DEF ObservedIn
            <4>2. o \in DOMAIN run.verdicts \/ decided[o].policy = run.policy
                BY <3>1 DEF CaptureInv, HandInv
            <4>. QED BY <1>1, <1>4, <4>1, <4>2
        <3>3. ASSUME NEW o \in DOMAIN run'.verdicts, decided'[o].policy = run'.policy
              PROVE  run'.verdicts[o] = decided'[o]
            <4>1. o \in DOMAIN run.verdicts /\ o \notin part /\ o \in Observed
                BY <1>1, <1>3
            <4>2. decided'[o] = decided[o] /\ run'.verdicts[o] = run.verdicts[o]
                BY <1>1, <4>1
            <4>. QED BY <1>1, <3>1, <3>3, <4>1, <4>2 DEF CaptureInv, HandInv
        <3>4. ASSUME NEW u \in Unit, Copies(t, u) # {},
                     \A o \in Copies(t, u) : Final(o)'.status = "included"
              PROVE  u \in recorded' \/ Put("record", u) \in run'.out
            <4>1. \A o \in Copies(t, u) : Final(o).status = "included"
                BY <1>6, <3>4 DEF Copies, ObservedIn
            <4>. QED BY <1>1, <3>1, <3>4, <4>1 DEF CaptureInv, HandInv
        <3>. QED BY <3>2, <3>3, <3>4
    <2>. QED BY <1>2, <2>1 DEF HandInv
<1>8. ASSUME NEW t \in Source, NEW u \in Unit, AgreedIncluded(t, u)'
      PROVE  u \in recorded'
    <2>1. /\ Copies(t, u) # {}
          /\ \A o \in Copies(t, u) : decided'[o].status = "included"
          /\ \A o, q \in Copies(t, u) : decided'[o].policy = decided'[q].policy
        BY <1>2, <1>8 DEF AgreedIncluded
    <2>2. Copies(t, u) \subseteq ObservedIn(t) /\ ObservedIn(t) \subseteq Observed
        BY DEF Copies, ObservedIn
    <2>3. CASE Copies(t, u) \cap part = {}
        <3>1. \A o \in Copies(t, u) : decided'[o] = decided[o]
            BY <1>1, <2>2, <2>3
        <3>2. AgreedIncluded(t, u)
            BY <2>1, <3>1 DEF AgreedIncluded
        <3>. QED BY <1>1, <3>2, CapturedAs DEF CaptureInv
    <2>4. CASE Copies(t, u) \cap part # {}
        <3>1. PICK q \in Copies(t, u) : q \in part
            BY <2>4
        <3>2. t = s /\ decided'[q].policy = run.policy
            BY <1>1, <1>3, <1>4, <3>1 DEF Copies, ObservedIn
        <3>3. ASSUME NEW o \in Copies(t, u) PROVE Final(o).status = "included"
            <4>1. decided'[o].status = "included" /\ decided'[o].policy = run.policy
                BY <2>1, <3>1, <3>2
            <4>2. CASE o \in part
                BY <1>1, <4>1, <4>2 DEF Final
            <4>3. CASE o \notin part
                <5>1. decided'[o] = decided[o]
                    BY <1>1, <2>2, <4>3
                <5>2. o \in DOMAIN run.verdicts => run.verdicts[o] = decided[o]
                    BY <4>1, <5>1 DEF CaptureInv, HandInv
                <5>. QED BY <4>1, <5>1, <5>2 DEF Final
            <4>. QED BY <4>2, <4>3
        <3>4. u \in recorded \/ Put("record", u) \in run.out
            BY <2>1, <3>2, <3>3 DEF CaptureInv, HandInv
        <3>. QED BY <1>1, <3>4
    <2>. QED BY <2>3, <2>4
<1>9. IncludedCaptured'
    BY <1>8 DEF IncludedCaptured, AgreedIncluded
<1>. QED BY <1>7, <1>9 DEF CaptureInv

LEMMA ScanCaptures ==
    ASSUME Core, CaptureInv, NEW s \in Source, NEW f \in file[s], NEW v, Scanned(s, f, v)
    PROVE  CaptureInv'
<1>1. /\ OfRun(v) /\ run'.now = {} /\ Observed' = Observed \cup DOMAIN v
      /\ DOMAIN v = Batch(s, f)
      /\ \A o \in DOMAIN v : decided'[o] = v[o]
      /\ \A o \in Observed \ DOMAIN v : decided'[o] = decided[o]
    BY ScanStep
<1>2. Outputs(v) \subseteq Output /\ OneKind(Outputs(v))
    BY <1>1, OutputsTyped DEF OfRun, OneKind
<1>3. PICK out : out = Outputs(v)
    OBVIOUS
<1>4. \A u \in Unit : u \in recorded' <=> u \in recorded \/ Put("record", u) \in out
    <2>1. Commit(s, out, v, NextCheckpoint(s, f))
        BY <1>3 DEF Scanned
    <2>. QED BY <1>2, <1>3, <2>1, Published DEF Core
<1>5. HandInv'
    BY <1>1 DEF HandInv
<1>6. ASSUME NEW t \in Source, NEW u \in Unit, AgreedIncluded(t, u)'
      PROVE  u \in recorded'
    <2>1. /\ Copies(t, u)' # {}
          /\ \A o \in Copies(t, u)' : decided'[o].status = "included"
          /\ \A o, q \in Copies(t, u)' : decided'[o].policy = decided'[q].policy
        BY <1>6 DEF AgreedIncluded
    <2>2. \A o : o \in Copies(t, u)' <=> o \in Observed' /\ o.source = t /\ o.unit = u
        BY DEF Copies, ObservedIn
    <2>3. \A o : o \in Copies(t, u) <=> o \in Observed /\ o.source = t /\ o.unit = u
        BY DEF Copies, ObservedIn
    <2>4. CASE Copies(t, u)' \cap DOMAIN v = {}
        <3>1. \A o : o \in Copies(t, u)' <=> o \in Copies(t, u)
            BY <1>1, <2>2, <2>3, <2>4
        <3>2. \A o \in Copies(t, u) : decided'[o] = decided[o]
            BY <1>1, <2>2, <2>3, <2>4, <3>1
        <3>3. AgreedIncluded(t, u)
            BY <2>1, <3>1, <3>2 DEF AgreedIncluded
        <3>. QED BY <1>4, <3>3, CapturedAs DEF CaptureInv
    <2>5. CASE Copies(t, u)' \cap DOMAIN v # {}
        <3>1. PICK q \in DOMAIN v : q \in Copies(t, u)'
            BY <2>5
        <3>2. \A o \in DOMAIN v : o.source = s
            BY <1>1 DEF Batch
        <3>3. t = s /\ u \in UnitsOf(v)
            BY <2>2, <3>1, <3>2 DEF UnitsOf
        <3>4. ASSUME NEW o \in VerdictsOn(v, u) PROVE v[o].status = "included"
            <4>1. o \in DOMAIN v /\ o.unit = u /\ o.source = t /\ o \in Observed'
                BY <1>1, <3>2, <3>3 DEF VerdictsOn
            <4>2. o \in Copies(t, u)' /\ decided'[o] = v[o]
                BY <1>1, <2>2, <4>1
            <4>. QED BY <2>1, <4>2
        <3>5. u \in recorded \/ Put("record", u) \in Outputs(v)
            BY <3>3, <3>4, IncludedGivesRecord
        <3>. QED BY <1>3, <1>4, <3>5
    <2>. QED BY <2>4, <2>5
<1>7. IncludedCaptured'
    BY <1>6 DEF IncludedCaptured, AgreedIncluded
<1>. QED BY <1>5, <1>7 DEF CaptureInv

LEMMA CaptureStep ==
    ASSUME Core, CaptureInv, [Next]_vars
    PROVE  CaptureInv'
<1>1. ASSUME decided' = decided, recorded' = recorded PROVE IncludedCaptured'
    BY <1>1 DEF CaptureInv, IncludedCaptured, Copies, ObservedIn, Observed
<1>2. CASE Still
    <2>1. HandInv'
        BY <1>2 DEF Still, journal, CaptureInv, HandInv, Copies, ObservedIn, Observed, Final
    <2>. QED BY <1>1, <1>2, <2>1 DEF Still, journal, CaptureInv
<1>3. CASE Cleared
    <2>1. HandInv'
        BY <1>3 DEF Cleared, HandInv
    <2>. QED BY <1>1, <1>3, <2>1 DEF Cleared, CaptureInv
<1>4. ASSUME NEW s \in Source, Project(s) PROVE CaptureInv'
    <2>1. UNCHANGED journal
        BY <1>4, ProjectStep
    <2>. QED BY <1>1, <1>4, <2>1, ProjectCaptures DEF journal, CaptureInv
<1>. QED BY <1>2, <1>3, <1>4, Steps, OutputCaptures, VerdictCaptures, ScanCaptures

\* Nothing attributed is lost, however an operation was cut: a unit of which a source
\* has only copies included under one policy has a public record.
THEOREM AttributedCaptured == Spec => []IncludedCaptured
<1>1. Init => Core /\ CaptureInv
    <2>1. ASSUME Init PROVE HandInv /\ IncludedCaptured
        BY <2>1, NoRunFresh
        DEF Init, Fresh, HandInv, IncludedCaptured, Copies, ObservedIn, Observed
    <2>. QED BY <2>1, CoreInit DEF CaptureInv
<1>2. Core /\ CaptureInv /\ [Next]_vars => (Core /\ CaptureInv)'
    BY CoreStep, CaptureStep
<1>3. CaptureInv => IncludedCaptured
    BY DEF CaptureInv
<1>. QED BY <1>1, <1>2, <1>3, PTL DEF Spec


-----------------------------------------------------------------------------
(* Replay never counts what the user excludes.                               *)

\* What is about to be written agrees with the choice the operation has read.
OutInv ==
    \A u \in Unit :
        /\ Put("record", u) \in run.out \/ Put("include", u) \in run.out
           => run.policy.override[u] # "exclude"
        /\ Put("exclude", u) \in run.out
           => run.policy.override[u] \notin {"include", "attribute"}

LEMMA OutputsAgree ==
    ASSUME NEW v, OfRun(v), NEW u \in Unit
    PROVE  /\ Put("record", u) \in Outputs(v) \/ Put("include", u) \in Outputs(v)
              => run.policy.override[u] # "exclude"
           /\ Put("exclude", u) \in Outputs(v)
              => run.policy.override[u] \notin {"include", "attribute"}
<1>1. Put("record", u) \in Outputs(v) \/ Put("include", u) \in Outputs(v)
      => run.policy.override[u] # "exclude"
    BY ExcludedGivesExclude
<1>2. Put("exclude", u) \in Outputs(v)
      => run.policy.override[u] \notin {"include", "attribute"}
    BY IncludedGivesNoExclude
<1>. QED BY <1>1, <1>2

LEMMA OutStep ==
    ASSUME Core, OutInv, [Next]_vars
    PROVE  OutInv'
<1>1. CASE Still
    BY <1>1 DEF Still, OutInv
<1>2. ASSUME run'.out = {} PROVE OutInv'
    BY <1>2 DEF OutInv
<1>3. ASSUME NEW s \in Source, Project(s) PROVE OutInv'
    <2>1. PICK v : v = Decisions(ObservedIn(s))
        OBVIOUS
    <2>2. run'.out = Outputs(v) /\ run'.policy = run.policy
        BY <1>3, <2>1, ProjectStep
    <2>3. ObservedIn(s) \in SUBSET Observation
        BY DEF Core, TypeOK, ObservedIn
    <2>4. OfRun(v)
        BY <2>1, <2>3, DecisionsSound DEF Core, DecisionInv, OfRun
    <2>. QED BY <2>2, <2>4, OutputsAgree DEF OutInv
<1>4. ASSUME NEW s \in run.now, NEW part \in SUBSET run.out, OutputWritten(s, part)
      PROVE  OutInv'
    <2>1. run'.out \subseteq run.out /\ run'.policy = run.policy
        BY <1>4, OutputStep DEF Keeps
    <2>. QED BY <2>1 DEF OutInv
<1>5. ASSUME NEW s \in Source, NEW f \in file[s], NEW v, Scanned(s, f, v)
      PROVE  OutInv'
    <2>1. run'.out = {}
        BY <1>5, ScanStep DEF Core, RunInv
    <2>. QED BY <1>2, <2>1
<1>6. CASE Cleared
    BY <1>2, <1>6 DEF Cleared
<1>7. CASE \E s \in run.now, part \in SUBSET DOMAIN run.verdicts : VerdictsWritten(s, part)
    BY <1>2, <1>7, VerdictStep
<1>. QED BY <1>1, <1>3, <1>4, <1>5, <1>6, <1>7, Steps

\* The policy of the running operation, and of one that waits, is the policy.
PolicyInv ==
    /\ pc # "idle" => run.policy = policy
    /\ \A w \in waiting : w.policy = policy

LEMMA PolicyStep ==
    ASSUME Core, Settled, PolicyInv, [Next]_vars
    PROVE  PolicyInv'
<1>1. ASSUME policy' = policy, waiting' = waiting,
             \/ pc' = "idle"
             \/ run'.policy = run.policy /\ pc # "idle"
      PROVE  PolicyInv'
    BY <1>1 DEF PolicyInv
<1>2. ASSUME policy' = policy, waiting' = waiting, Still PROVE PolicyInv'
    <2>1. run'.policy = run.policy /\ (pc' # "idle" => pc # "idle")
        BY <1>2 DEF Still
    <2>. QED BY <1>2, <2>1 DEF PolicyInv
<1>3. CASE UNCHANGED vars
    BY <1>3 DEF vars, world, PolicyInv
<1>4. CASE Environment
    <2>1. CASE \E p \in Edits : EditPolicy(p)
        BY <2>1 DEF EditPolicy, MayEdit, PolicyInv
    <2>2. CASE ~\E p \in Edits : EditPolicy(p)
        <3>1. policy' = policy /\ waiting' = waiting
            BY <1>4, <2>2 DEF Environment, Grow, Rewrite, Create, Delete, ChangeFile, Move
        <3>2. Still
            <4>1. CASE \E s \in Source, u \in Unit :
                        Grow(s, u) \/ Rewrite(s, u) \/ Create(s, << u >>)
                BY <4>1, SourceStep
            <4>2. CASE \E s \in Source : Create(s, << >>) \/ Delete(s)
                <5>1. PICK s \in Source : Create(s, << >>) \/ Delete(s)
                    BY <4>2
                <5>2. /\ {[lines |-> << >>, epoch |-> NewEpoch]} \in SUBSET File
                      /\ {} \in SUBSET File
                    BY DEF Core, TypeOK, NewEpoch, File
                <5>. QED BY <5>1, <5>2, FileStep DEF Create, Delete
            <4>3. CASE \E c \in Cwd, p \in Places : Move(c, p)
                BY <4>3, UserStep
            <4>. QED BY <1>4, <2>2, <4>1, <4>2, <4>3 DEF Environment
        <3>. QED BY <1>2, <3>1, <3>2
    <2>. QED BY <2>1, <2>2
<1>5. CASE Ask
    <2>1. CASE \E mode \in Modes : Load(mode)
        BY <2>1 DEF Load, world, PolicyInv
    <2>2. ASSUME NEW kind \in {"include", "exclude"}, NEW u \in Unit, StartControl(kind, u)
          PROVE  PolicyInv'
        <3>1. PICK new : policy' = new /\ run' = NewRun(kind, new, {u}, DirtySources(new))
            BY <2>2 DEF StartControl
        <3>2. run'.policy = new
            BY <3>1 DEF NewRun
        <3>3. waiting' = {}
            BY <2>2 DEF StartControl
        <3>. QED BY <3>1, <3>2, <3>3 DEF PolicyInv
    <2>. QED BY <1>5, <2>1, <2>2 DEF Ask
<1>6. CASE Trouble
    <2>1. CASE SkipSource
        <3>1. run.policy = run'.policy
            BY <2>1 DEF SkipSource, Core, TypeOK, Operation
        <3>. QED BY <1>1, <2>1, <3>1 DEF SkipSource, world
    <2>2. CASE \E s \in Source : FailSource(s)
        BY <1>2, <2>2, PassStep DEF FailSource, world
    <2>3. CASE Stop
        BY <1>1, <2>3 DEF Stop, world
    <2>. QED BY <1>6, <2>1, <2>2, <2>3 DEF Trouble
<1>7. CASE Work
    <2>1. CASE Start
        <3>1. PICK w \in waiting : run' = NewRun(w.mode, w.policy, {}, DirtySources(w.policy))
            BY <2>1 DEF Start
        <3>2. run'.policy = w.policy
            BY <3>1 DEF NewRun
        <3>. QED BY <2>1, <3>2 DEF Start, world, PolicyInv
    <2>2. ASSUME NEW s \in Source, Project(s) PROVE PolicyInv'
        BY <1>1, <2>2, ProjectStep DEF world
    <2>3. ASSUME NEW s \in Source, Scan(s) PROVE PolicyInv'
        <3>1. PICK f \in file[s] : \E v : Scanned(s, f, v)
            BY <2>3, ScanIsScanned
        <3>2. run'.policy = run.policy /\ UNCHANGED << world, waiting >> /\ pc = "scan"
            BY <3>1, ScanStep
        <3>. QED BY <1>1, <3>2 DEF world
    <2>4. CASE \E s \in Source : RefuseSource(s) \/ MissSource(s)
        BY <1>2, <2>4, PassStep DEF RefuseSource, MissSource, world
    <2>5. CASE WriteOutput
        <3>1. PICK s \in run.now, part \in SUBSET run.out : OutputWritten(s, part)
            BY <2>5 DEF WriteOutput, OutputWritten
        <3>. QED BY <1>1, <3>1, OutputStep DEF OutputWritten, Keeps, world
    <2>6. CASE WriteVerdicts
        <3>1. PICK s \in run.now, part \in SUBSET DOMAIN run.verdicts : VerdictsWritten(s, part)
            BY <2>6 DEF WriteVerdicts, VerdictsWritten
        <3>. QED BY <1>1, <3>1, VerdictStep DEF VerdictsWritten, Keeps, world
    <2>7. CASE Projection \/ Discover \/ Reserve \/ Rotate
        <3>1. Still
            BY <2>7, ProjectionStep, DiscoverStep, RotationStep
        <3>. QED BY <1>2, <2>7, <3>1 DEF Projection, Discover, Reserve, Rotate, world
    <2>8. CASE (\E synchronized \in BOOLEAN : Conclude(synchronized)) \/ CommitControl
        BY <1>1, <2>8 DEF Conclude, CommitControl, world
    <2>. QED BY <1>7, <2>1, <2>2, <2>3, <2>4, <2>5, <2>6, <2>7, <2>8 DEF Work
<1>. QED BY <1>3, <1>4, <1>5, <1>6, <1>7 DEF Next


LEMMA ChainSteps ==
    ASSUME [Next]_vars, pc # "control"
    PROVE  \/ chain' = chain
           \/ \E s \in run.now, part \in SUBSET run.out : OutputWritten(s, part)
           \/ \E s \in run.now, part \in SUBSET DOMAIN run.verdicts : VerdictsWritten(s, part)
           \/ \E s \in Source : \E f \in file[s] : \E v : Scanned(s, f, v)
<1>1. CASE UNCHANGED vars
    BY <1>1 DEF vars, journal
<1>2. CASE Environment
    BY <1>2 DEF Environment, Grow, Rewrite, Create, Delete, ChangeFile, Move, EditPolicy, journal
<1>3. CASE Ask
    BY <1>3 DEF Ask, Load, StartControl, journal
<1>4. CASE Trouble
    BY <1>4 DEF Trouble, SkipSource, FailSource, Stop, journal
<1>5. CASE Work
    <2>1. CASE \E s \in Source : Scan(s)
        BY <2>1, ScanIsScanned
    <2>2. CASE WriteOutput
        BY <2>2 DEF WriteOutput, OutputWritten
    <2>3. CASE WriteVerdicts
        BY <2>3 DEF WriteVerdicts, VerdictsWritten
    <2>4. CASE \E s \in Source : Project(s) \/ RefuseSource(s) \/ MissSource(s)
        BY <2>4 DEF Project, RefuseSource, MissSource, journal
    <2>5. CASE \/ Start \/ Projection \/ Discover \/ Reserve \/ Rotate
               \/ \E synchronized \in BOOLEAN : Conclude(synchronized)
        BY <2>5 DEF Start, Projection, Discover, Reserve, Rotate, Conclude, journal
    <2>6. CASE CommitControl
        BY <2>6 DEF CommitControl
    <2>. QED BY <1>5, <2>1, <2>2, <2>3, <2>4, <2>5, <2>6 DEF Work
<1>. QED BY <1>1, <1>2, <1>3, <1>4, <1>5 DEF Next

\* An entry of the journal that ends the controls of a unit on an inclusion, and
\* changes them, includes the unit.
LEMMA IncludedByEntry ==
    ASSUME TypeOK, NEW out, out \subseteq Output, OneKind(out),
           NEW s, NEW verdicts, NEW next, Commit(s, out, verdicts, next),
           NEW u \in Unit, chain'[u] # chain[u], Last(chain'[u]) = "include"
    PROVE  Put("include", u) \in out
<1>1. chain[u] \in Seq(Controls)
    BY DEF TypeOK, Controls
<1>2. CASE Put("exclude", u) \in out
    <2>1. chain'[u] = Append(chain[u], "exclude")
        BY <1>2, Published
    <2>2. Last(chain'[u]) = "exclude"
        BY <1>1, <2>1 DEF Last
    <2>. QED BY <2>2
<1>3. CASE Put("exclude", u) \notin out /\ Put("include", u) \notin out
    BY <1>3, Published
<1>. QED BY <1>2, <1>3

LEMMA ReplayStep ==
    ASSUME Core, OutInv, PolicyInv, [Next]_vars,
           NEW u \in Unit, pc # "control", chain'[u] # chain[u], Last(chain'[u]) = "include"
    PROVE  policy.override[u] # "exclude"
<1>1. CASE \E s \in run.now, part \in SUBSET run.out : OutputWritten(s, part)
    <2>1. PICK s \in run.now, part \in SUBSET run.out : OutputWritten(s, part)
        BY <1>1
    <2>2. part \subseteq Output /\ OneKind(part) /\ pc = "project"
        BY <2>1 DEF Core, TypeOK, Operation, RunInv, OneKind, OutputWritten
    <2>3. Put("include", u) \in part
        BY <2>1, <2>2, IncludedByEntry DEF OutputWritten, Core
    <2>. QED BY <2>2, <2>3 DEF OutInv, PolicyInv
<1>2. CASE \E s \in run.now, part \in SUBSET DOMAIN run.verdicts : VerdictsWritten(s, part)
    BY <1>2, VerdictStep
<1>3. CASE \E s \in Source : \E f \in file[s] : \E v : Scanned(s, f, v)
    <2>1. PICK s \in Source : \E f \in file[s] : \E v : Scanned(s, f, v)
        BY <1>3
    <2>2. PICK f \in file[s] : \E v : Scanned(s, f, v)
        BY <2>1
    <2>3. PICK v : Scanned(s, f, v)
        BY <2>2
    <2>4. OfRun(v) /\ pc = "scan"
        BY <2>3, ScanStep
    <2>5. Outputs(v) \subseteq Output /\ OneKind(Outputs(v))
        BY <2>4, OutputsTyped DEF OfRun, OneKind
    <2>6. Put("include", u) \in Outputs(v)
        BY <2>3, <2>5, IncludedByEntry DEF Scanned, Core
    <2>. QED BY <2>4, <2>6, OutputsAgree DEF PolicyInv
<1>. QED BY <1>1, <1>2, <1>3, ChainSteps

\* Replay never counts what the user excludes: while nobody edits the policy behind
\* an operation that has read it, no entry but the include command's own ends the
\* controls of a unit the policy excludes on an inclusion.
THEOREM ReplayNeverCounts ==
    ASSUME Settled
    PROVE  Spec => ReplayKeepsExclusion
<1>1. Init => Core /\ OutInv /\ PolicyInv
    <2>1. ASSUME Init PROVE OutInv /\ PolicyInv
        BY <2>1, NoRunFresh DEF Init, Fresh, OutInv, PolicyInv
    <2>. QED BY <2>1, CoreInit
<1>2. Core /\ OutInv /\ PolicyInv /\ [Next]_vars => (Core /\ OutInv /\ PolicyInv)'
    BY CoreStep, OutStep, PolicyStep
<1>3. Core /\ OutInv /\ PolicyInv /\ [Next]_vars
      => [\A u \in Unit :
            /\ pc # "control" /\ chain'[u] # chain[u]
            /\ Last(chain'[u]) = "include"
            => policy.override[u] # "exclude"]_vars
    BY ReplayStep
<1>. QED BY <1>1, <1>2, <1>3, PTL DEF Spec, ReplayKeepsExclusion



-----------------------------------------------------------------------------
(* Reconciliation is taken back honestly.                                    *)

\* Evidence the operation has still to decide again, or to write.
InHand(o) == pc = "project" /\ (o.source \in run.dirty \/ o \in DOMAIN run.verdicts)

\* While nothing failed, all other evidence is decided under its policy.
CleanInv ==
    pc # "idle" /\ run.clean
    => \A o \in Observed : decided[o].policy = run.policy \/ InHand(o)

OneFile == \A s \in Source : \A f, g \in file[s] : f = g

\* While nothing failed, a full collection lists every source that did not change
\* meanwhile, and has read to its end every one it is past.
ReadInv ==
    /\ pc = "reserve" => Automatic
    /\ pc \in {"scan", "conclude"} /\ run.mode = "full" /\ run.clean
       => /\ run.start = 0
          /\ \A s \in Source :
                file[s] # {} => s \in run.touched \/ \E i \in DOMAIN run.list : run.list[i] = s
          /\ \A i \in DOMAIN run.list :
                i <= run.index => run.list[i] \in run.touched \/ UpToDate(run.list[i])
          /\ pc = "conclude" => run.index >= Len(run.list)

HonestInv == OneFile /\ CleanInv /\ ReadInv

LEMMA HonestInit == ASSUME Init PROVE HonestInv
<1>1. OneFile
    BY CollectAssumption DEF Init, OneFile
<1>. QED BY <1>1 DEF Init, HonestInv, CleanInv, ReadInv

LEMMA HonestKept ==
    ASSUME HonestInv, UNCHANGED << file, decided, checkpoint, pc, run >>
    PROVE  HonestInv'
<1>1. file' = file /\ decided' = decided /\ checkpoint' = checkpoint /\ pc' = pc /\ run' = run
    OBVIOUS
<1>2. Observed' = Observed /\ (Automatic' <=> Automatic) /\ \A s : UpToDate(s)' <=> UpToDate(s)
    BY <1>1 DEF Observed, Automatic, UpToDate
<1>3. OneFile'
    BY <1>1 DEF HonestInv, OneFile
<1>4. CleanInv'
    BY <1>1, <1>2 DEF HonestInv, CleanInv, InHand
<1>5. ReadInv'
    BY <1>1, <1>2 DEF HonestInv, ReadInv
<1>. QED BY <1>3, <1>4, <1>5 DEF HonestInv

\* Where an operation has failed, or none runs, there is nothing to be honest about.
LEMMA HonestSpoiled ==
    ASSUME HonestInv, file' = file, pc' = "idle" \/ (pc' # "reserve" /\ ~run'.clean)
    PROVE  HonestInv'
<1>1. OneFile'
    BY DEF HonestInv, OneFile
<1>. QED BY <1>1 DEF HonestInv, CleanInv, ReadInv

\* Before anything is read, only the decisions matter.
LEMMA HonestDeciding ==
    ASSUME HonestInv, file' = file, CleanInv', pc' \in {"project", "discover", "control"}
    PROVE  HonestInv'
<1>1. OneFile'
    BY DEF HonestInv, OneFile
<1>. QED BY <1>1 DEF HonestInv, ReadInv

LEMMA ChangeHonest ==
    ASSUME Core, HonestInv, NEW s \in Source, NEW new \in SUBSET File, ChangeFile(s, new),
           \A f, g \in new : f = g
    PROVE  HonestInv'
<1>1. /\ file' = [file EXCEPT ![s] = new] /\ file \in [Source -> SUBSET File]
      /\ decided' = decided /\ checkpoint' = checkpoint /\ pc' = pc
    BY DEF ChangeFile, journal, Core, TypeOK
<1>2. OneFile'
    BY <1>1 DEF HonestInv, OneFile
<1>3. CASE pc = "idle"
    BY <1>1, <1>2, <1>3 DEF HonestInv, CleanInv, ReadInv
<1>4. CASE pc # "idle"
    <2>1. run' = [run EXCEPT !.touched = run.touched \cup {s}]
        BY <1>4 DEF ChangeFile, Touch
    <2>2. /\ run'.touched = run.touched \cup {s} /\ run'.clean = run.clean
          /\ run'.policy = run.policy /\ run'.dirty = run.dirty
          /\ run'.verdicts = run.verdicts /\ run'.mode = run.mode
          /\ run'.start = run.start /\ run'.list = run.list /\ run'.index = run.index
        BY <2>1 DEF Core, TypeOK, Operation
    <2>3. Observed' = Observed /\ (Automatic' <=> Automatic)
        BY <1>1, <2>2 DEF Observed, Automatic
    <2>4. CleanInv'
        BY <1>1, <2>2, <2>3 DEF HonestInv, CleanInv, InHand
    <2>5. \A t \in Source \ {s} : file'[t] = file[t] /\ (UpToDate(t)' <=> UpToDate(t))
        BY <1>1, <2>2 DEF UpToDate
    <2>6. \A i \in DOMAIN run.list : run.list[i] \in Source
        BY DEF Core, TypeOK, Operation
    <2>7. ReadInv'
        BY <1>1, <2>2, <2>3, <2>5, <2>6 DEF HonestInv, ReadInv
    <2>. QED BY <1>2, <2>4, <2>7 DEF HonestInv
<1>. QED BY <1>3, <1>4

LEMMA EnvironmentHonest ==
    ASSUME Core, HonestInv, Environment
    PROVE  HonestInv'
<1>. /\ file \in [Source -> SUBSET File] /\ NewEpoch \in Nat
     /\ \A s \in Source : \A f \in file[s] : f \in File
    BY DEF Core, TypeOK, NewEpoch
<1>1. CASE (\E c \in Cwd, p \in Places : Move(c, p)) \/ \E p \in Edits : EditPolicy(p)
    BY <1>1, HonestKept DEF Move, EditPolicy, journal
<1>2. ASSUME NEW s \in Source, Create(s, << >>) \/ Delete(s) PROVE HonestInv'
    <2>1. /\ {[lines |-> << >>, epoch |-> NewEpoch]} \in SUBSET File
          /\ {} \in SUBSET File
        BY DEF File
    <2>. QED BY <1>2, <2>1, ChangeHonest DEF Create, Delete
<1>3. ASSUME NEW s \in Source, NEW u \in Unit, Create(s, << u >>) PROVE HonestInv'
    <2>1. {[lines |-> << u >>, epoch |-> NewEpoch]} \in SUBSET File
        BY DEF File
    <2>. QED BY <1>3, <2>1, ChangeHonest DEF Create
<1>4. ASSUME NEW s \in Source, NEW u \in Unit, Grow(s, u) PROVE HonestInv'
    <2>1. PICK f \in file[s] : ChangeFile(s, {[f EXCEPT !.lines = Append(f.lines, u)]})
        BY <1>4 DEF Grow
    <2>2. {[f EXCEPT !.lines = Append(f.lines, u)]} \in SUBSET File
        BY DEF File
    <2>. QED BY <2>1, <2>2, ChangeHonest
<1>5. ASSUME NEW s \in Source, NEW u \in Unit, Rewrite(s, u) PROVE HonestInv'
    <2>1. PICK f \in file[s] : \E epoch \in {f.epoch, NewEpoch} :
              ChangeFile(s, {[lines |-> << u >>, epoch |-> epoch]})
        BY <1>5 DEF Rewrite
    <2>2. PICK epoch \in {f.epoch, NewEpoch} :
              ChangeFile(s, {[lines |-> << u >>, epoch |-> epoch]})
        BY <2>1
    <2>3. {[lines |-> << u >>, epoch |-> epoch]} \in SUBSET File
        BY DEF File
    <2>. QED BY <2>2, <2>3, ChangeHonest
<1>. QED BY <1>1, <1>2, <1>3, <1>4, <1>5 DEF Environment

LEMMA BeginHonest ==
    ASSUME Core, HonestInv,
           Start \/ \E kind \in {"include", "exclude"}, u \in Unit : StartControl(kind, u)
    PROVE  HonestInv'
<1>1. PICK mode, p, target : run' = NewRun(mode, p, target, DirtySources(p))
    BY DEF Start, StartControl
<1>2. /\ run'.policy = p /\ run'.dirty = DirtySources(p)
      /\ file' = file /\ decided' = decided /\ pc' = "project"
    BY <1>1 DEF NewRun, Start, StartControl, world, journal
<1>3. Observed' = Observed /\ \A o \in Observed : o.source \in Source
    BY <1>2 DEF Observed, Core, TypeOK, Observation
<1>4. \A o \in Observed : decided[o].policy # p => o.source \in DirtySources(p)
    BY <1>3 DEF DirtySources, ObservedIn
<1>5. CleanInv'
    BY <1>2, <1>3, <1>4 DEF CleanInv, InHand
<1>. QED BY <1>2, <1>5, HonestDeciding


LEMMA DecidingHonest ==
    ASSUME Core, HonestInv,
           \/ \E s \in Source : Project(s)
           \/ \E s \in run.now, part \in SUBSET run.out : OutputWritten(s, part)
           \/ \E s \in run.now, part \in SUBSET DOMAIN run.verdicts : VerdictsWritten(s, part)
           \/ Projection
    PROVE  HonestInv'
<1>1. ASSUME NEW s \in Source, Project(s) PROVE HonestInv'
    <2>1. /\ decided' = decided /\ file' = file /\ pc' = "project" /\ pc = "project"
          /\ run.now = {} /\ run'.verdicts = Decisions(ObservedIn(s))
          /\ run'.policy = run.policy /\ run'.dirty = run.dirty \ {s}
          /\ run'.clean = run.clean
        BY <1>1, ProjectStep DEF journal, world
    <2>2. DOMAIN run'.verdicts = ObservedIn(s)
        BY <2>1 DEF Decisions
    <2>3. Observed' = Observed /\ DOMAIN run.verdicts = {}
        BY <2>1 DEF Observed, Core, RunInv
    <2>4. CleanInv'
        BY <2>1, <2>2, <2>3 DEF HonestInv, CleanInv, InHand, ObservedIn
    <2>. QED BY <2>1, <2>4, HonestDeciding
<1>2. ASSUME NEW s \in run.now, NEW part \in SUBSET run.out, OutputWritten(s, part)
      PROVE  HonestInv'
    <2>1. /\ decided' = decided /\ Observed' = Observed /\ run'.clean = run.clean
          /\ run'.policy = run.policy /\ run'.dirty = run.dirty /\ run'.verdicts = run.verdicts
        BY <1>2, OutputStep DEF Keeps
    <2>2. pc' = pc /\ pc = "project" /\ file' = file
        BY <1>2 DEF OutputWritten, world
    <2>3. CleanInv'
        BY <2>1, <2>2 DEF HonestInv, CleanInv, InHand
    <2>. QED BY <2>2, <2>3, HonestDeciding
<1>3. ASSUME NEW s \in run.now, NEW part \in SUBSET DOMAIN run.verdicts,
             VerdictsWritten(s, part)
      PROVE  HonestInv'
    <2>1. /\ Observed' = Observed /\ run'.clean = run.clean
          /\ run'.policy = run.policy /\ run'.dirty = run.dirty
          /\ \A o \in part : decided'[o] = run.verdicts[o]
          /\ \A o \in Observed \ part : decided'[o] = decided[o]
          /\ DOMAIN run'.verdicts = DOMAIN run.verdicts \ part
        BY <1>3, VerdictStep DEF Keeps
    <2>2. pc' = pc /\ pc = "project" /\ file' = file
        BY <1>3 DEF VerdictsWritten, world
    <2>3. \A o \in part : run.verdicts[o].policy = run.policy
        BY DEF Core, DecisionInv, OfRun
    <2>4. CleanInv'
        BY <2>1, <2>2, <2>3 DEF HonestInv, CleanInv, InHand
    <2>. QED BY <2>2, <2>4, HonestDeciding
<1>4. CASE Projection
    <2>1. /\ run' = run /\ decided' = decided /\ file' = file
          /\ pc = "project" /\ pc' \in {"control", "discover"}
          /\ run.now = {} /\ run.dirty = {}
        BY <1>4 DEF Projection, journal, world
    <2>2. Observed' = Observed /\ DOMAIN run.verdicts = {}
        BY <2>1 DEF Observed, Core, RunInv
    <2>3. CleanInv'
        BY <2>1, <2>2 DEF HonestInv, CleanInv, InHand
    <2>. QED BY <2>1, <2>3, HonestDeciding
<1>. QED BY <1>1, <1>2, <1>3, <1>4

LEMMA DiscoverHonest ==
    ASSUME Core, HonestInv, Discover
    PROVE  HonestInv'
<1>1. PICK list \in Listings({s \in Source : file[s] # {}}) :
        /\ run' = [run EXCEPT !.list = list,
                              !.clean = @ /\ ~(Automatic /\ Len(list) > MaxSources),
                              !.start = IF Automatic /\ Len(list) > 0
                                        THEN offset % Len(list) ELSE 0]
        /\ pc' = IF Automatic /\ Len(list) > 0 THEN "reserve" ELSE "scan"
    BY DEF Discover
<1>2. PICK start : start = IF Automatic /\ Len(list) > 0 THEN offset % Len(list) ELSE 0
    OBVIOUS
<1>3. PICK clean : clean = (run.clean /\ ~(Automatic /\ Len(list) > MaxSources))
    OBVIOUS
<1>4. run' = [run EXCEPT !.list = list, !.clean = clean, !.start = start]
    BY <1>1, <1>2, <1>3
<1>5. /\ run'.list = list /\ run'.clean = clean /\ run'.start = start
      /\ run'.policy = run.policy /\ run'.dirty = run.dirty /\ run'.mode = run.mode
      /\ run'.verdicts = run.verdicts /\ run'.index = run.index /\ run'.touched = run.touched
    BY <1>4 DEF Core, TypeOK, Operation
<1>6. /\ file' = file /\ decided' = decided /\ checkpoint' = checkpoint
      /\ pc = "discover" /\ pc' \in {"reserve", "scan"}
    BY <1>1 DEF Discover, world, journal
<1>7. Observed' = Observed /\ (Automatic' <=> Automatic)
    BY <1>5, <1>6 DEF Observed, Automatic
<1>8. run.index = 0
    BY <1>6 DEF Core, ShapeInv, Listed
<1>9. CleanInv'
    BY <1>3, <1>5, <1>6, <1>7 DEF HonestInv, CleanInv, InHand
<1>10. \A s \in Source : file[s] # {} => \E i \in DOMAIN list : list[i] = s
    <2>1. Range(list) = {s \in Source : file[s] # {}}
        BY <1>1 DEF Listings
    <2>. QED BY <2>1 DEF Range
<1>11. \A i \in DOMAIN list : ~(i <= 0)
    <2>1. run'.list \in Seq(Source)
        BY DiscoverStep DEF StepTyped, TypeOK, Operation
    <2>2. DOMAIN list = 1 .. Len(list)
        BY <1>5, <2>1
    <2>3. Len(list) \in Nat
        BY <1>5, <2>1
    <2>. QED BY <2>2, <2>3
<1>12. pc' = "reserve" => Automatic
    BY <1>1
<1>13. run.mode = "full" => start = 0
    BY <1>2 DEF Automatic
<1>14. ReadInv'
    BY <1>5, <1>6, <1>7, <1>8, <1>10, <1>11, <1>12, <1>13 DEF ReadInv
<1>15. OneFile'
    BY <1>6 DEF HonestInv, OneFile
<1>. QED BY <1>9, <1>14, <1>15 DEF HonestInv

LEMMA RotationHonest ==
    ASSUME Core, HonestInv, Reserve \/ Rotate
    PROVE  HonestInv'
<1>1. /\ file' = file /\ decided' = decided /\ checkpoint' = checkpoint /\ run' = run
      /\ pc \in {"reserve", "scan"} /\ pc' \in {"scan", "conclude"}
      /\ pc = "reserve" => Reserve
      /\ pc' = "conclude" => pc = "scan" /\ run.index >= Slice
    BY DEF Reserve, Rotate, world, journal
<1>2. Observed' = Observed /\ \A s : UpToDate(s)' <=> UpToDate(s)
    BY <1>1 DEF Observed, UpToDate
<1>3. CleanInv'
    BY <1>1, <1>2 DEF HonestInv, CleanInv, InHand
<1>4. OneFile'
    BY <1>1 DEF HonestInv, OneFile
<1>5. pc = "reserve" => run.mode # "full"
    BY DEF HonestInv, ReadInv, Automatic
<1>6. run.mode = "full" => Slice = Len(run.list)
    BY DEF Slice, Automatic
<1>7. ReadInv'
    BY <1>1, <1>2, <1>5, <1>6 DEF HonestInv, ReadInv
<1>. QED BY <1>3, <1>4, <1>7 DEF HonestInv


LEMMA TroubleHonest ==
    ASSUME Core, HonestInv,
           \/ Trouble
           \/ \E s \in Source : RefuseSource(s) \/ MissSource(s)
           \/ \E synchronized \in BOOLEAN : Conclude(synchronized)
           \/ CommitControl
    PROVE  HonestInv'
<1>1. CASE Stop \/ CommitControl \/ \E synchronized \in BOOLEAN : Conclude(synchronized)
    <2>1. file' = file /\ pc' = "idle"
        BY <1>1 DEF Stop, CommitControl, Conclude, world
    <2>. QED BY <2>1, HonestSpoiled
<1>2. CASE SkipSource
    <2>1. run' = [run EXCEPT !.now = {}, !.out = {}, !.verdicts = << >>, !.clean = FALSE]
        BY <1>2 DEF SkipSource
    <2>2. ~run'.clean
        BY <2>1 DEF Core, TypeOK, Operation
    <2>3. file' = file /\ pc' # "reserve"
        BY <1>2 DEF SkipSource, world
    <2>. QED BY <2>2, <2>3, HonestSpoiled
<1>3. ASSUME NEW s \in Source, RefuseSource(s) \/ MissSource(s) \/ FailSource(s)
      PROVE  HonestInv'
    <2>1. Turn(s) /\ run' = [run EXCEPT !.index = run.index + 1, !.clean = FALSE]
        BY <1>3 DEF RefuseSource, MissSource, FailSource, PassOver
    <2>2. ~run'.clean
        BY <2>1 DEF Core, TypeOK, Operation
    <2>3. file' = file /\ pc' = pc
        BY <1>3 DEF RefuseSource, MissSource, FailSource, world
    <2>4. pc' # "reserve"
        BY <2>1, <2>3, TurnListed
    <2>. QED BY <2>2, <2>3, <2>4, HonestSpoiled
<1>. QED BY <1>1, <1>2, <1>3 DEF Trouble

\* The first to the last entry of a sequence are all of it.
LEMMA WholeSequence ==
    ASSUME NEW S, NEW q \in Seq(S)
    PROVE  SubSeq(q, 1, Len(q)) = q
    OBVIOUS

LEMMA ScanReads ==
    ASSUME Core, HonestInv, NEW s \in Source, NEW f \in file[s], NEW v, Scanned(s, f, v),
           run.mode = "full"
    PROVE  UpToDate(s)'
<1>1. /\ checkpoint'[s] = {NextCheckpoint(s, f)} /\ file' = file /\ run'.policy = run.policy
    BY ScanStep DEF world
<1>2. f.lines \in Seq(Unit)
    BY DEF Core, TypeOK, File
<1>3. Upto(s, f) = Len(f.lines)
    BY DEF Upto, Automatic
<1>4. PICK c : c = NextCheckpoint(s, f)
    OBVIOUS
<1>5. c.lines = f.lines /\ c.epoch = f.epoch /\ c.scope = run.policy
    BY <1>2, <1>3, <1>4, WholeSequence DEF NextCheckpoint
<1>6. \A g \in file'[s] : g = f
    BY <1>1 DEF HonestInv, OneFile
<1>. QED BY <1>1, <1>4, <1>5, <1>6 DEF UpToDate

LEMMA SmallRemainder ==
    ASSUME NEW n \in Nat, NEW i \in Nat, i < n
    PROVE  (0 + i) % n = i
    OBVIOUS

LEMMA ScanHonest ==
    ASSUME Core, HonestInv, NEW s \in Source, NEW f \in file[s], NEW v, Scanned(s, f, v)
    PROVE  HonestInv'
<1>1. /\ OfRun(v) /\ file' = file /\ pc' = pc /\ pc = "scan"
      /\ run'.policy = run.policy /\ run'.dirty = run.dirty /\ run'.verdicts = run.verdicts
      /\ run'.mode = run.mode /\ run'.touched = run.touched /\ run'.list = run.list
      /\ run'.start = run.start /\ run'.index = run.index + 1
      /\ run'.clean => run.clean
      /\ Observed' = Observed \cup DOMAIN v
      /\ \A o \in DOMAIN v : decided'[o] = v[o]
      /\ \A o \in Observed \ DOMAIN v : decided'[o] = decided[o]
      /\ \A t \in Source \ {s} : checkpoint'[t] = checkpoint[t]
    BY ScanStep DEF world
<1>2. OneFile'
    BY <1>1 DEF HonestInv, OneFile
<1>3. CleanInv'
    <2>1. \A o \in DOMAIN v : v[o].policy = run.policy
        BY <1>1 DEF OfRun
    <2>2. run.clean => \A o \in Observed : decided[o].policy = run.policy
        BY <1>1 DEF HonestInv, CleanInv, InHand
    <2>3. run.clean => \A o \in Observed' : decided'[o].policy = run.policy
        BY <1>1, <2>1, <2>2
    <2>4. (run'.clean => run.clean) /\ run'.policy = run.policy
        BY <1>1
    <2>. QED BY <2>3, <2>4 DEF CleanInv
<1>4. ASSUME run.mode = "full", run.clean, NEW i \in DOMAIN run.list, i <= run.index + 1,
             NEW t, t = run.list[i]
      PROVE  t \in run.touched \/ UpToDate(t)'
    <2>1. run.list \in Seq(Source) /\ run.index \in Nat /\ Len(run.list) \in Nat
        BY DEF Core, TypeOK, Operation
    <2>2. run.index < Len(run.list)
        BY <1>4 DEF Scanned, Turn, Slice, Automatic
    <2>3. run.start = 0
        BY <1>1, <1>4 DEF HonestInv, ReadInv
    <2>4. s = run.list[run.index + 1]
        <3>1. s = run.list[((0 + run.index) % Len(run.list)) + 1]
            BY <2>3 DEF Scanned, Turn
        <3>. QED BY <2>1, <2>2, <3>1, SmallRemainder
    <2>5. i \in Nat /\ t \in Source
        BY <1>4, <2>1
    <2>6. CASE t = s
        BY <1>4, <2>6, ScanReads
    <2>7. CASE t # s
        <3>1. i <= run.index
            BY <1>4, <2>1, <2>4, <2>5, <2>7
        <3>2. t \in run.touched \/ UpToDate(t)
            BY <1>1, <1>4, <3>1 DEF HonestInv, ReadInv
        <3>3. checkpoint'[t] = checkpoint[t]
            BY <1>1, <2>5, <2>7
        <3>. QED BY <1>1, <3>2, <3>3 DEF UpToDate
    <2>. QED BY <2>6, <2>7
<1>5. ReadInv'
    <2>1. (run'.clean => run.clean) /\ pc' = pc /\ pc = "scan" /\ run'.mode = run.mode
        BY <1>1
    <2>2. ASSUME run.mode = "full", run.clean
          PROVE  /\ run'.start = 0
                 /\ \A t \in Source :
                       file'[t] # {}
                       => t \in run'.touched \/ \E i \in DOMAIN run'.list : run'.list[i] = t
                 /\ \A i \in DOMAIN run'.list :
                       i <= run'.index => run'.list[i] \in run'.touched \/ UpToDate(run.list[i])'
        <3>1. /\ run.start = 0
              /\ \A t \in Source :
                    file[t] # {}
                    => t \in run.touched \/ \E i \in DOMAIN run.list : run.list[i] = t
            BY <1>1, <2>2 DEF HonestInv, ReadInv
        <3>2. ASSUME NEW i \in DOMAIN run'.list, i <= run'.index
              PROVE  run'.list[i] \in run'.touched \/ UpToDate(run.list[i])'
            <4>1. PICK t : t = run.list[i]
                OBVIOUS
            <4>2. t \in run.touched \/ UpToDate(t)'
                BY <1>1, <1>4, <2>2, <3>2, <4>1
            <4>3. run'.list[i] = t
                BY <1>1, <4>1
            <4>. QED BY <1>1, <4>2, <4>3 DEF UpToDate
        <3>. QED BY <1>1, <3>1, <3>2
    <2>. QED BY <2>1, <2>2 DEF ReadInv
<1>. QED BY <1>2, <1>3, <1>5 DEF HonestInv

LEMMA HonestStep ==
    ASSUME Core, HonestInv, [Next]_vars
    PROVE  HonestInv'
<1>1. CASE UNCHANGED vars
    BY <1>1, HonestKept DEF vars, world, journal
<1>2. CASE Ask
    <2>1. CASE \E mode \in Modes : Load(mode)
        BY <2>1, HonestKept DEF Load, world, journal
    <2>. QED BY <1>2, <2>1, BeginHonest DEF Ask
<1>3. CASE Work
    <2>1. ASSUME NEW s \in Source, Scan(s) PROVE HonestInv'
        BY <2>1, ScanIsScanned, ScanHonest
    <2>2. CASE WriteOutput
        BY <2>2, DecidingHonest DEF WriteOutput, OutputWritten
    <2>3. CASE WriteVerdicts
        BY <2>3, DecidingHonest DEF WriteVerdicts, VerdictsWritten
    <2>. QED BY <1>3, <2>1, <2>2, <2>3, BeginHonest, DecidingHonest, DiscoverHonest,
                RotationHonest, TroubleHonest DEF Work
<1>. QED BY <1>1, <1>2, <1>3, EnvironmentHonest, TroubleHonest DEF Next

\* Only the end of a clean full collection takes pending reconciliation back.
LEMMA FlagTakenBack ==
    ASSUME TypeOK, [Next]_vars, flag, ~flag'
    PROVE  pc = "conclude" /\ run.mode = "full" /\ run.clean /\ UNCHANGED << file, decided, checkpoint >>
<1>1. CASE UNCHANGED vars
    BY <1>1 DEF vars, schedule
<1>2. CASE Environment
    BY <1>2 DEF Environment, Grow, Rewrite, Create, Delete, ChangeFile, Move, EditPolicy, schedule
<1>3. CASE Ask
    BY <1>3 DEF Ask, Load, StartControl, schedule
<1>4. CASE Trouble
    BY <1>4 DEF Trouble, SkipSource, FailSource, Stop, schedule
<1>5. CASE Work
    <2>1. CASE \E s \in Source : Project(s) \/ Scan(s) \/ RefuseSource(s) \/ MissSource(s)
        BY <2>1 DEF Project, Scan, RefuseSource, MissSource, schedule
    <2>2. CASE \/ Start \/ WriteOutput \/ WriteVerdicts \/ Projection
               \/ Discover \/ Reserve \/ Rotate \/ CommitControl
        BY <2>2 DEF Start, WriteOutput, WriteVerdicts, Projection, Discover, Reserve, Rotate,
                    CommitControl, schedule
    <2>3. CASE \E synchronized \in BOOLEAN : Conclude(synchronized)
        BY <2>3 DEF Conclude, world, journal
    <2>. QED BY <1>5, <2>1, <2>2, <2>3 DEF Work
<1>. QED BY <1>1, <1>2, <1>3, <1>4, <1>5 DEF Next

LEMMA TakenBackHonestly ==
    ASSUME Core, HonestInv, [Next]_vars, flag, ~flag'
    PROVE  /\ \A s \in Source \ run.touched : UpToDate(s)
           /\ \A o \in Observed : decided[o].policy = run.policy
<1>1. pc = "conclude" /\ run.mode = "full" /\ run.clean
    BY FlagTakenBack DEF Core
<1>2. \A o \in Observed : decided[o].policy = run.policy
    BY <1>1 DEF HonestInv, CleanInv, InHand
<1>3. ASSUME NEW s \in Source \ run.touched PROVE UpToDate(s)
    <2>1. CASE file[s] = {}
        BY <2>1 DEF UpToDate
    <2>2. CASE file[s] # {}
        <3>1. PICK i \in DOMAIN run.list : run.list[i] = s
            BY <1>1, <2>2 DEF HonestInv, ReadInv
        <3>2. run.list \in Seq(Source) /\ run.index \in Nat
            BY DEF Core, TypeOK, Operation
        <3>3. run.index >= Len(run.list)
            BY <1>1 DEF HonestInv, ReadInv
        <3>4. i <= run.index
            BY <3>2, <3>3
        <3>. QED BY <1>1, <3>1, <3>4 DEF HonestInv, ReadInv
    <2>. QED BY <2>1, <2>2
<1>. QED BY <1>2, <1>3

\* Pending reconciliation is taken back honestly, whatever fails, is cut or changes
\* meanwhile: only when every source that did not change since the collection began
\* is read to its end and all evidence is decided under its policy.
THEOREM ReconciledHonestly == Spec => ReconcileHonest
<1>1. Init => Core /\ HonestInv
    BY CoreInit, HonestInit
<1>2. Core /\ HonestInv /\ [Next]_vars => (Core /\ HonestInv)'
    BY CoreStep, HonestStep
<1>3. Core /\ HonestInv /\ [Next]_vars
      => [flag /\ ~flag' =>
            /\ \A s \in Source \ run.touched : UpToDate(s)
            /\ \A o \in Observed : decided[o].policy = run.policy]_vars
    BY TakenBackHonestly
<1>. QED BY <1>1, <1>2, <1>3, PTL DEF Spec, ReconcileHonest



-----------------------------------------------------------------------------
(* The decision of the user stands.                                          *)

\* Where the journal does not yet say of a unit what the policy does, a decision about
\* the unit is left that was not taken under this choice, and will be taken again.
ChoicesStand ==
    \A u \in Unit :
        /\ policy.override[u] = "exclude" /\ u \in recorded
           => \/ Excluded(u)
              \/ \E o \in ObservedUnit(u) : decided[o].policy.override[u] # "exclude"
        /\ policy.override[u] = "include" /\ Excluded(u)
           => \E o \in ObservedUnit(u) : decided[o].policy.override[u] # "include"
        /\ chain[u] # << >> \/ u \in recorded => ObservedUnit(u) # {}

\* What the decisions in hand make of the choice is in the journal or about to be.
HandChoices ==
    \A u \in Unit :
        /\ /\ run.policy.override[u] = "exclude" /\ u \in recorded
           /\ VerdictsOn(run.verdicts, u) # {}
           => Excluded(u) \/ Put("exclude", u) \in run.out
        /\ /\ run.policy.override[u] = "include" /\ Excluded(u)
           /\ Put("include", u) \notin run.out
           => \A o \in VerdictsOn(run.verdicts, u) : decided[o].policy.override[u] = "include"

\* A command runs under the choice it has written.
CommandInv ==
    pc # "idle"
    => \A u \in run.target :
          /\ run.mode = "include" => run.policy.override[u] = "attribute"
          /\ run.mode = "exclude" => run.policy.override[u] = "exclude"

ChoiceInv == ChoicesStand /\ HandChoices /\ CommandInv

LEMMA JournalSame ==
    ASSUME UNCHANGED journal
    PROVE  /\ decided' = decided /\ recorded' = recorded /\ chain' = chain
           /\ \A u : (Excluded(u)' <=> Excluded(u)) /\ ObservedUnit(u)' = ObservedUnit(u)
    BY DEF journal, Excluded, ObservedUnit, Observed

LEMMA ChoiceMade ==
    ASSUME Core, ChoicesStand, Patient, UNCHANGED journal, Patience(policy')
    PROVE  ChoicesStand'
<1>1. \A o \in Observed :
          decided[o].policy.override[o.unit] = policy'.override[o.unit]
          => policy.override[o.unit] = policy'.override[o.unit]
    BY DEF Patience
<1>2. ASSUME NEW u \in Unit, policy'.override[u] = "exclude", u \in recorded, ~Excluded(u)
      PROVE  \E o \in ObservedUnit(u) : decided[o].policy.override[u] # "exclude"
    <2>1. CASE policy.override[u] = "exclude"
        BY <1>2, <2>1 DEF ChoicesStand
    <2>2. CASE policy.override[u] # "exclude"
        <3>1. PICK o \in ObservedUnit(u) : TRUE
            BY <1>2 DEF ChoicesStand
        <3>. QED BY <1>1, <1>2, <2>2, <3>1 DEF ObservedUnit
    <2>. QED BY <2>1, <2>2
<1>3. ASSUME NEW u \in Unit, policy'.override[u] = "include", Excluded(u)
      PROVE  \E o \in ObservedUnit(u) : decided[o].policy.override[u] # "include"
    <2>1. CASE policy.override[u] = "include"
        BY <1>3, <2>1 DEF ChoicesStand
    <2>2. CASE policy.override[u] # "include"
        <3>1. PICK o \in ObservedUnit(u) : TRUE
            BY <1>3 DEF ChoicesStand, Excluded
        <3>. QED BY <1>1, <1>3, <2>2, <3>1 DEF ObservedUnit
    <2>. QED BY <2>1, <2>2
<1>4. \A u \in Unit : chain[u] # << >> \/ u \in recorded => ObservedUnit(u) # {}
    BY DEF ChoicesStand
<1>5. /\ decided' = decided /\ recorded' = recorded /\ chain' = chain
      /\ \A u : (Excluded(u)' <=> Excluded(u)) /\ ObservedUnit(u)' = ObservedUnit(u)
    BY JournalSame
<1>. QED BY <1>2, <1>3, <1>4, <1>5 DEF ChoicesStand

LEMMA ChoicesKept ==
    ASSUME ChoicesStand, UNCHANGED << journal, policy >>
    PROVE  ChoicesStand'
<1>1. /\ decided' = decided /\ recorded' = recorded /\ chain' = chain /\ policy' = policy
      /\ \A u : (Excluded(u)' <=> Excluded(u)) /\ ObservedUnit(u)' = ObservedUnit(u)
    BY JournalSame
<1>. QED BY <1>1 DEF ChoicesStand

\* The steps that bear on a choice.
LEMMA ChoiceSteps ==
    ASSUME [Next]_vars
    PROVE  \/ UNCHANGED << journal, policy >>
           \/ Patience(policy') /\ UNCHANGED journal
           \/ CommitControl
           \/ \E s \in run.now, part \in SUBSET run.out : OutputWritten(s, part)
           \/ \E s \in run.now, part \in SUBSET DOMAIN run.verdicts : VerdictsWritten(s, part)
           \/ \E s \in Source : \E f \in file[s] : \E v : Scanned(s, f, v)
<1>1. CASE UNCHANGED vars
    BY <1>1 DEF vars, world
<1>2. CASE Environment
    <2>1. CASE \E p \in Edits : EditPolicy(p)
        BY <2>1 DEF EditPolicy
    <2>. QED BY <1>2, <2>1 DEF Environment, Grow, Rewrite, Create, Delete, ChangeFile, Move
<1>3. CASE Ask
    <2>1. CASE \E mode \in Modes : Load(mode)
        BY <2>1 DEF Load, world
    <2>2. ASSUME NEW kind \in {"include", "exclude"}, NEW u \in Unit, StartControl(kind, u)
          PROVE  Patience(policy') /\ UNCHANGED journal
        <3>1. PICK new : Patience(new) /\ policy' = new
            BY <2>2 DEF StartControl
        <3>. QED BY <2>2, <3>1 DEF StartControl
    <2>. QED BY <1>3, <2>1, <2>2 DEF Ask
<1>4. CASE Trouble
    BY <1>4 DEF Trouble, SkipSource, FailSource, Stop, world
<1>5. CASE Work
    <2>1. CASE \E s \in Source : Scan(s)
        BY <2>1, ScanIsScanned
    <2>2. CASE WriteOutput
        BY <2>2 DEF WriteOutput, OutputWritten
    <2>3. CASE WriteVerdicts
        BY <2>3 DEF WriteVerdicts, VerdictsWritten
    <2>4. CASE \E s \in Source : Project(s) \/ RefuseSource(s) \/ MissSource(s)
        BY <2>4 DEF Project, RefuseSource, MissSource, world
    <2>5. CASE \/ Start \/ Projection \/ Discover \/ Reserve \/ Rotate
               \/ \E synchronized \in BOOLEAN : Conclude(synchronized)
        BY <2>5 DEF Start, Projection, Discover, Reserve, Rotate, Conclude, world
    <2>. QED BY <1>5, <2>1, <2>2, <2>3, <2>4, <2>5 DEF Work
<1>. QED BY <1>1, <1>2, <1>3, <1>4, <1>5 DEF Next

LEMMA ControlChoices ==
    ASSUME Core, PolicyInv, ChoiceInv, CommitControl
    PROVE  ChoicesStand'
<1>1. /\ pc = "control" /\ decided' = decided /\ recorded' = recorded /\ policy' = policy
      /\ chain' = [u \in Unit |-> IF u \in run.target THEN Append(chain[u], run.mode)
                                  ELSE chain[u]]
    BY DEF CommitControl, world
<1>2. \A u : ObservedUnit(u)' = ObservedUnit(u)
    BY <1>1 DEF ObservedUnit, Observed
<1>3. run.mode \in {"include", "exclude"} /\ run.policy = policy
    BY <1>1 DEF Core, RunInv, Controls, PolicyInv
<1>4. ASSUME NEW u \in Unit, u \notin run.target
      PROVE  chain'[u] = chain[u] /\ (Excluded(u)' <=> Excluded(u))
    BY <1>1, <1>4 DEF Excluded
<1>5. ASSUME NEW u \in Unit, u \in run.target
      PROVE  /\ ObservedUnit(u) # {}
             /\ \/ policy.override[u] = "exclude" /\ Excluded(u)'
                \/ policy.override[u] = "attribute"
    <2>1. ObservedUnit(u) # {}
        BY <1>5 DEF Core, RunInv, ObservedUnit
    <2>2. chain[u] \in Seq({"include", "exclude"}) /\ chain'[u] = Append(chain[u], run.mode)
        BY <1>1, <1>5 DEF Core, TypeOK
    <2>3. chain'[u] # << >> /\ Last(chain'[u]) = run.mode
        BY <1>3, <2>2 DEF Last
    <2>4. run.mode = "exclude" => Excluded(u)'
        BY <2>3 DEF Excluded
    <2>. QED BY <1>1, <1>3, <1>5, <2>1, <2>4 DEF ChoiceInv, CommandInv
<1>. QED BY <1>1, <1>2, <1>4, <1>5 DEF ChoiceInv, ChoicesStand


\* Writing output brings the journal closer to the choice.
LEMMA OutputChoices ==
    ASSUME Core, OutInv, PolicyInv, ChoiceInv,
           NEW s \in run.now, NEW part \in SUBSET run.out, OutputWritten(s, part)
    PROVE  ChoicesStand' /\ HandChoices'
<1>1. /\ decided' = decided /\ Observed' = Observed
      /\ run'.verdicts = run.verdicts /\ run'.out = run.out \ part
      /\ run'.policy = run.policy
    BY OutputStep DEF Keeps
<1>2. policy' = policy /\ run.policy = policy /\ Commit(s, part, << >>, Rescoped(s))
    BY DEF OutputWritten, world, PolicyInv
<1>3. part \subseteq Output /\ OneKind(part)
    BY DEF Core, TypeOK, Operation, RunInv, OneKind
<1>4. \A u \in Unit :
        /\ u \in recorded' <=> u \in recorded \/ Put("record", u) \in part
        /\ Put("include", u) \in part => ~Excluded(u)'
        /\ Put("exclude", u) \in part => Excluded(u)'
        /\ Put("include", u) \notin part /\ Put("exclude", u) \notin part
           => chain'[u] = chain[u] /\ (Excluded(u)' <=> Excluded(u))
    BY <1>2, <1>3, Published DEF Core
<1>5. \A u : ObservedUnit(u)' = ObservedUnit(u)
    BY <1>1 DEF ObservedUnit
<1>6. \A u \in Unit : \A k : Put(k, u) \in run.out => ObservedUnit(u) # {}
    <2>1. \A u, k : Put(k, u).unit = u
        BY DEF Put
    <2>. QED BY <2>1 DEF Core, RunInv, ObservedUnit
<1>7. ASSUME NEW u \in Unit
      PROVE  /\ Put("record", u) \in part \/ Put("include", u) \in part
                => policy.override[u] # "exclude"
             /\ Put("exclude", u) \in part => policy.override[u] # "include"
    BY <1>2 DEF OutInv
<1>8. ASSUME NEW u \in Unit
      PROVE  /\ policy.override[u] = "exclude" /\ u \in recorded' => u \in recorded
             /\ policy.override[u] = "exclude" /\ Excluded(u) => Excluded(u)'
             /\ policy.override[u] = "include" /\ Excluded(u)'
                => Excluded(u) /\ Put("include", u) \notin part
    BY <1>4, <1>7
<1>9. ChoicesStand'
    <2>1. ASSUME NEW u \in Unit, chain'[u] # << >> \/ u \in recorded'
          PROVE  ObservedUnit(u) # {}
        BY <1>4, <1>6, <2>1 DEF ChoiceInv, ChoicesStand
    <2>. QED BY <1>1, <1>2, <1>5, <1>8, <2>1 DEF ChoiceInv, ChoicesStand
<1>10. HandChoices'
    <2>1. \A u : VerdictsOn(run.verdicts, u)' = VerdictsOn(run.verdicts, u)
        BY <1>1 DEF VerdictsOn
    <2>2. ASSUME NEW u \in Unit, policy.override[u] = "exclude", u \in recorded',
                 VerdictsOn(run.verdicts, u) # {}
          PROVE  Excluded(u)' \/ Put("exclude", u) \in run'.out
        <3>1. Excluded(u) \/ Put("exclude", u) \in run.out
            BY <1>2, <1>8, <2>2 DEF ChoiceInv, HandChoices
        <3>. QED BY <1>1, <1>4, <1>8, <2>2, <3>1
    <2>3. ASSUME NEW u \in Unit, policy.override[u] = "include", Excluded(u)',
                 Put("include", u) \notin run'.out,
                 NEW o \in VerdictsOn(run.verdicts, u)
          PROVE  decided[o].policy.override[u] = "include"
        <3>1. Excluded(u) /\ Put("include", u) \notin run.out
            BY <1>1, <1>8, <2>3
        <3>. QED BY <1>2, <2>3, <3>1 DEF ChoiceInv, HandChoices
    <2>. QED BY <1>1, <1>2, <2>1, <2>2, <2>3 DEF HandChoices
<1>. QED BY <1>9, <1>10

\* A decision taken again is written when the journal says what it makes of the choice.
LEMMA VerdictChoices ==
    ASSUME Core, OutInv, PolicyInv, ChoiceInv,
           NEW s \in run.now, NEW part \in SUBSET DOMAIN run.verdicts, VerdictsWritten(s, part)
    PROVE  ChoicesStand' /\ HandChoices'
<1>1. /\ recorded' = recorded /\ chain' = chain /\ Observed' = Observed
      /\ \A o \in Observed \ part : decided'[o] = decided[o]
      /\ DOMAIN run'.verdicts = DOMAIN run.verdicts \ part
      /\ run.out = {} /\ run'.out = {} /\ run'.policy = run.policy
    BY VerdictStep DEF Keeps
<1>2. policy' = policy /\ run.policy = policy
    BY DEF VerdictsWritten, world, PolicyInv
<1>3. \A u : ObservedUnit(u)' = ObservedUnit(u) /\ (Excluded(u)' <=> Excluded(u))
    BY <1>1 DEF ObservedUnit, Excluded
<1>4. DOMAIN run.verdicts \subseteq Observed
    BY DEF Core, TypeOK
<1>5. ASSUME NEW u \in Unit, policy.override[u] = "exclude", u \in recorded, ~Excluded(u)
      PROVE  \E o \in ObservedUnit(u) : decided'[o].policy.override[u] # "exclude"
    <2>1. VerdictsOn(run.verdicts, u) = {}
        BY <1>1, <1>2, <1>5 DEF ChoiceInv, HandChoices
    <2>2. PICK o \in ObservedUnit(u) : decided[o].policy.override[u] # "exclude"
        BY <1>5 DEF ChoiceInv, ChoicesStand
    <2>3. o \in Observed \ part
        BY <2>1, <2>2 DEF VerdictsOn, ObservedUnit
    <2>. QED BY <1>1, <2>2, <2>3
<1>6. ASSUME NEW u \in Unit, policy.override[u] = "include", Excluded(u)
      PROVE  \E o \in ObservedUnit(u) : decided'[o].policy.override[u] # "include"
    <2>1. \A o \in VerdictsOn(run.verdicts, u) : decided[o].policy.override[u] = "include"
        BY <1>1, <1>2, <1>6 DEF ChoiceInv, HandChoices
    <2>2. PICK o \in ObservedUnit(u) : decided[o].policy.override[u] # "include"
        BY <1>6 DEF ChoiceInv, ChoicesStand
    <2>3. o \in Observed \ part
        BY <2>1, <2>2 DEF VerdictsOn, ObservedUnit
    <2>. QED BY <1>1, <2>2, <2>3
<1>7. ChoicesStand'
    <2>1. \A u \in Unit : chain'[u] # << >> \/ u \in recorded' => ObservedUnit(u)' # {}
        BY <1>1, <1>3 DEF ChoiceInv, ChoicesStand
    <2>. QED BY <1>1, <1>2, <1>3, <1>5, <1>6, <2>1 DEF ChoicesStand
<1>8. HandChoices'
    <2>1. \A u : /\ VerdictsOn(run.verdicts, u)' \subseteq VerdictsOn(run.verdicts, u)
                 /\ \A o \in VerdictsOn(run.verdicts, u)' : decided'[o] = decided[o]
        BY <1>1, <1>4 DEF VerdictsOn
    <2>. QED BY <1>1, <1>3, <2>1 DEF ChoiceInv, HandChoices
<1>. QED BY <1>7, <1>8

LEMMA HandEmpty ==
    ASSUME DOMAIN run'.verdicts = {}
    PROVE  HandChoices'
<1>1. \A u : VerdictsOn(run.verdicts, u)' = {}
    BY DEF VerdictsOn
<1>. QED BY <1>1 DEF HandChoices

LEMMA ScanChoices ==
    ASSUME Core, PolicyInv, ChoiceInv,
           NEW s \in Source, NEW f \in file[s], NEW v, Scanned(s, f, v)
    PROVE  ChoicesStand'
<1>1. /\ OfRun(v) /\ policy' = policy /\ pc = "scan"
      /\ Observed' = Observed \cup DOMAIN v
      /\ \A o \in DOMAIN v : decided'[o] = v[o]
      /\ \A o \in Observed \ DOMAIN v : decided'[o] = decided[o]
    BY ScanStep DEF world
<1>2. run.policy = policy
    BY <1>1 DEF PolicyInv
<1>3. /\ Outputs(v) \subseteq Output /\ OneKind(Outputs(v))
      /\ \A x \in Outputs(v) : \E o \in DOMAIN v : o.unit = x.unit
    BY <1>1, OutputsTyped DEF OfRun, OneKind
<1>4. \A u \in Unit :
        /\ u \in recorded' <=> u \in recorded \/ Put("record", u) \in Outputs(v)
        /\ Put("include", u) \in Outputs(v) => ~Excluded(u)'
        /\ Put("exclude", u) \in Outputs(v) => Excluded(u)'
        /\ Put("include", u) \notin Outputs(v) /\ Put("exclude", u) \notin Outputs(v)
           => chain'[u] = chain[u] /\ (Excluded(u)' <=> Excluded(u))
    BY <1>3, Published DEF Scanned, Core
<1>5. \A u : ObservedUnit(u)' = ObservedUnit(u) \cup VerdictsOn(v, u)
    BY <1>1 DEF ObservedUnit, VerdictsOn
<1>6. \A u, k : Put(k, u) \in Outputs(v) => VerdictsOn(v, u) # {}
    <2>1. \A u, k : Put(k, u).unit = u
        BY DEF Put
    <2>. QED BY <1>3, <2>1 DEF VerdictsOn
<1>7. \A u \in Unit : \A o \in ObservedUnit(u) :
          o \notin VerdictsOn(v, u) => decided'[o] = decided[o]
    BY <1>1 DEF ObservedUnit, VerdictsOn
<1>8. ASSUME NEW u \in Unit, policy.override[u] = "exclude", u \in recorded', ~Excluded(u)'
      PROVE  \E o \in ObservedUnit(u) : decided'[o].policy.override[u] # "exclude"
    <2>1. Put("record", u) \notin Outputs(v) /\ Put("include", u) \notin Outputs(v)
        BY <1>1, <1>2, <1>8, ExcludedGivesExclude
    <2>2. u \in recorded /\ Put("exclude", u) \notin Outputs(v) /\ ~Excluded(u)
        BY <1>4, <1>8, <2>1
    <2>3. u \notin UnitsOf(v)
        BY <1>1, <1>2, <1>8, <2>2, ExcludedGivesExclude
    <2>4. VerdictsOn(v, u) = {}
        BY <2>3 DEF UnitsOf, VerdictsOn
    <2>5. PICK o \in ObservedUnit(u) : decided[o].policy.override[u] # "exclude"
        BY <1>8, <2>2 DEF ChoiceInv, ChoicesStand
    <2>. QED BY <1>7, <2>4, <2>5
<1>9. ASSUME NEW u \in Unit, policy.override[u] = "include", Excluded(u)'
      PROVE  \E o \in ObservedUnit(u) : decided'[o].policy.override[u] # "include"
    <2>1. Put("exclude", u) \notin Outputs(v)
        BY <1>1, <1>2, <1>9, IncludedGivesNoExclude
    <2>2. Put("include", u) \notin Outputs(v) /\ Excluded(u)
        BY <1>4, <1>9, <2>1
    <2>3. PICK o \in ObservedUnit(u) : decided[o].policy.override[u] # "include"
        BY <1>9, <2>2 DEF ChoiceInv, ChoicesStand
    <2>4. o \notin VerdictsOn(v, u)
        BY <1>1, <1>2, <1>9, <2>2, <2>3, ReincludeGivesInclude DEF Core, ObservedUnit
    <2>. QED BY <1>7, <2>3, <2>4
<1>10. ASSUME NEW u \in Unit, chain'[u] # << >> \/ u \in recorded'
       PROVE  ObservedUnit(u)' # {}
    BY <1>4, <1>5, <1>6, <1>10 DEF ChoiceInv, ChoicesStand
<1>11. \A u : ObservedUnit(u) \subseteq ObservedUnit(u)'
    BY <1>5
<1>. QED BY <1>1, <1>8, <1>9, <1>10, <1>11 DEF ChoicesStand


LEMMA ProjectChoices ==
    ASSUME Core, NEW s \in Source, Project(s)
    PROVE  HandChoices'
<1>1. PICK v : v = Decisions(ObservedIn(s))
    OBVIOUS
<1>2. /\ run'.verdicts = v /\ run'.out = Outputs(v) /\ run'.policy = run.policy
      /\ decided' = decided /\ recorded' = recorded
      /\ \A u : Excluded(u)' <=> Excluded(u)
    BY <1>1, ProjectStep, JournalSame
<1>3. ObservedIn(s) \in SUBSET Observation /\ ObservedIn(s) \subseteq Observed
    BY DEF Core, TypeOK, ObservedIn
<1>4. OfRun(v) /\ DOMAIN v = ObservedIn(s)
    BY <1>1, <1>3, DecisionsSound DEF Core, DecisionInv, OfRun
<1>5. \A u : VerdictsOn(run.verdicts, u)' = VerdictsOn(v, u)
    BY <1>2 DEF VerdictsOn
<1>6. ASSUME NEW u \in Unit, run.policy.override[u] = "exclude", u \in recorded,
             VerdictsOn(v, u) # {}
      PROVE  Excluded(u) \/ Put("exclude", u) \in Outputs(v)
    <2>1. u \in UnitsOf(v)
        BY <1>6 DEF VerdictsOn, UnitsOf
    <2>. QED BY <1>4, <1>6, <2>1, ExcludedGivesExclude
<1>7. ASSUME NEW u \in Unit, run.policy.override[u] = "include", Excluded(u),
             Put("include", u) \notin Outputs(v), NEW o \in VerdictsOn(v, u)
      PROVE  decided[o].policy.override[u] = "include"
    <2>1. o \in Observed
        BY <1>3, <1>4 DEF VerdictsOn
    <2>. QED BY <1>4, <1>7, <2>1, ReincludeGivesInclude DEF Core
<1>. QED BY <1>2, <1>5, <1>6, <1>7 DEF HandChoices

LEMMA HandStep ==
    ASSUME Core, OutInv, PolicyInv, ChoiceInv, [Next]_vars
    PROVE  HandChoices'
<1>1. CASE Still
    <2>1. /\ run'.verdicts = run.verdicts /\ run'.out = run.out /\ run'.policy = run.policy
          /\ UNCHANGED journal
        BY <1>1 DEF Still
    <2>2. \A u : VerdictsOn(run.verdicts, u)' = VerdictsOn(run.verdicts, u)
        BY <2>1 DEF VerdictsOn
    <2>. QED BY <2>1, <2>2, JournalSame DEF ChoiceInv, HandChoices
<1>2. CASE Cleared
    BY <1>2, HandEmpty DEF Cleared
<1>3. ASSUME NEW s \in Source, NEW f \in file[s], NEW v, Scanned(s, f, v) PROVE HandChoices'
    <2>1. DOMAIN run'.verdicts = {}
        BY <1>3, ScanStep DEF Core, RunInv
    <2>. QED BY <2>1, HandEmpty
<1>. QED BY <1>1, <1>2, <1>3, Steps, ProjectChoices, OutputChoices, VerdictChoices

LEMMA ChoicesStep ==
    ASSUME Patient, Core, OutInv, PolicyInv, ChoiceInv, [Next]_vars
    PROVE  ChoicesStand'
<1>1. ChoicesStand
    BY DEF ChoiceInv
<1>. QED BY <1>1, ChoiceSteps, ChoicesKept, ChoiceMade, ControlChoices, OutputChoices,
            VerdictChoices, ScanChoices

LEMMA CommandStep ==
    ASSUME Core, CommandInv, [Next]_vars
    PROVE  CommandInv'
<1>1. CASE pc' = "idle"
    BY <1>1 DEF CommandInv
<1>2. ASSUME run'.mode = run.mode, run'.target = run.target, run'.policy = run.policy,
             pc' # "idle" => pc # "idle"
      PROVE  CommandInv'
    BY <1>2 DEF CommandInv
<1>3. CASE Still
    BY <1>2, <1>3 DEF Still
<1>4. CASE UNCHANGED << pc, run >>
    BY <1>2, <1>4
<1>5. CASE Start
    <2>1. PICK w \in waiting : run' = NewRun(w.mode, w.policy, {}, DirtySources(w.policy))
        BY <1>5 DEF Start
    <2>2. run'.target = {}
        BY <2>1 DEF NewRun
    <2>. QED BY <2>2 DEF CommandInv
<1>6. ASSUME NEW kind \in {"include", "exclude"}, NEW u \in Unit, StartControl(kind, u)
      PROVE  CommandInv'
    <2>1. PICK new : /\ new = [policy EXCEPT !.override[u] =
                                  IF kind = "include" THEN "attribute" ELSE "exclude"]
                     /\ run' = NewRun(kind, new, {u}, DirtySources(new))
        BY <1>6 DEF StartControl
    <2>2. run'.target = {u} /\ run'.mode = kind /\ run'.policy = new
        BY <2>1 DEF NewRun
    <2>3. new.override[u] = IF kind = "include" THEN "attribute" ELSE "exclude"
        BY <2>1 DEF Core, TypeOK, Policy
    <2>. QED BY <1>6, <2>2, <2>3 DEF CommandInv
<1>7. CASE SkipSource
    <2>1. run' = [run EXCEPT !.now = {}, !.out = {}, !.verdicts = << >>, !.clean = FALSE]
        BY <1>7 DEF SkipSource
    <2>2. run'.mode = run.mode /\ run'.target = run.target /\ run'.policy = run.policy
        BY <2>1 DEF Core, TypeOK, Operation
    <2>. QED BY <1>2, <1>7, <2>2 DEF SkipSource
<1>8. CASE Stop \/ CommitControl \/ \E synchronized \in BOOLEAN : Conclude(synchronized)
    BY <1>1, <1>8 DEF Stop, CommitControl, Conclude
<1>9. ASSUME NEW s \in Source, Project(s) PROVE CommandInv'
    BY <1>2, <1>9, ProjectStep
<1>10. ASSUME NEW s \in Source, Scan(s) PROVE CommandInv'
    <2>1. PICK f \in file[s] : \E v : Scanned(s, f, v)
        BY <1>10, ScanIsScanned
    <2>. QED BY <1>2, <2>1, ScanStep
<1>11. CASE WriteOutput
    <2>1. PICK s \in run.now, part \in SUBSET run.out : OutputWritten(s, part)
        BY <1>11 DEF WriteOutput, OutputWritten
    <2>. QED BY <1>2, <2>1, OutputStep DEF OutputWritten, Keeps
<1>12. CASE WriteVerdicts
    <2>1. PICK s \in run.now, part \in SUBSET DOMAIN run.verdicts : VerdictsWritten(s, part)
        BY <1>12 DEF WriteVerdicts, VerdictsWritten
    <2>. QED BY <1>2, <2>1, VerdictStep DEF VerdictsWritten, Keeps
<1>13. CASE Projection \/ Discover \/ Reserve \/ Rotate
    BY <1>3, <1>13, ProjectionStep, DiscoverStep, RotationStep
<1>14. ASSUME NEW s \in Source, RefuseSource(s) \/ MissSource(s) \/ FailSource(s)
       PROVE  CommandInv'
    BY <1>3, <1>14, PassStep
<1>15. CASE Environment
    <2>1. ASSUME NEW s \in Source, Create(s, << >>) \/ Delete(s) PROVE Still
        <3>1. /\ {[lines |-> << >>, epoch |-> NewEpoch]} \in SUBSET File
              /\ {} \in SUBSET File
            BY DEF Core, TypeOK, NewEpoch, File
        <3>. QED BY <2>1, <3>1, FileStep DEF Create, Delete
    <2>2. CASE \E s \in Source, u \in Unit :
                Grow(s, u) \/ Rewrite(s, u) \/ Create(s, << u >>)
        BY <1>3, <2>2, SourceStep
    <2>3. CASE \/ \E c \in Cwd, p \in Places : Move(c, p)
               \/ \E p \in Edits : EditPolicy(p)
        BY <1>3, <2>3, UserStep
    <2>. QED BY <1>3, <1>15, <2>1, <2>2, <2>3 DEF Environment
<1>16. CASE \E mode \in Modes : Load(mode)
    BY <1>4, <1>16 DEF Load
<1>17. CASE UNCHANGED vars
    BY <1>4, <1>17 DEF vars
<1>. QED BY <1>5, <1>6, <1>7, <1>8, <1>9, <1>10, <1>11, <1>12, <1>13, <1>14, <1>15, <1>16,
            <1>17 DEF Next, Work, Trouble, Ask

\* With nothing left to decide, what stands in the journal is what the user chose.
LEMMA DecisionStands ==
    ASSUME Core, CaptureInv, ChoiceInv
    PROVE  UserDecisionHolds
<1>. SUFFICES ASSUME Quiet, NEW u \in Unit
              PROVE  /\ policy.override[u] = "exclude" /\ u \in recorded => Excluded(u)
                     /\ policy.override[u] = "include" /\ ObservedUnit(u) # {}
                        => u \in recorded /\ ~Excluded(u)
    BY DEF UserDecisionHolds
<1>1. \A o \in ObservedUnit(u) : decided[o].policy = policy
    BY DEF Quiet, AllDecided, ObservedUnit
<1>2. policy.override[u] = "exclude" /\ u \in recorded => Excluded(u)
    BY <1>1 DEF ChoiceInv, ChoicesStand
<1>3. policy.override[u] = "include" => ~Excluded(u)
    BY <1>1 DEF ChoiceInv, ChoicesStand
<1>4. ASSUME policy.override[u] = "include", NEW o \in ObservedUnit(u)
      PROVE  u \in recorded
    <2>1. o \in Copies(o.source, u) /\ o.source \in Source
        BY <1>4 DEF Copies, ObservedIn, ObservedUnit, Core, TypeOK, Observation
    <2>2. \A q \in Copies(o.source, u) : q \in ObservedUnit(u) /\ q \in Observed /\ q.unit = u
        BY DEF Copies, ObservedIn, ObservedUnit
    <2>3. \A q \in Copies(o.source, u) :
            decided[q].policy = policy /\ decided[q].status = "included"
        BY <1>1, <1>4, <2>2 DEF Core, DecisionInv, Sound
    <2>4. AgreedIncluded(o.source, u)
        BY <2>1, <2>3 DEF AgreedIncluded
    <2>. QED BY <2>1, <2>4, CapturedAs DEF CaptureInv
<1>. QED BY <1>2, <1>3, <1>4

\* The decision of the user stands, however operations are cut and sources change:
\* when all evidence is decided under the policy, a unit it excludes is not counted
\* and one it includes is. It is so where nobody edits the policy behind an operation
\* that has read it, and no choice returns while decisions under it are left.
THEOREM UserDecides ==
    ASSUME Settled, Patient
    PROVE  Spec => []UserDecisionHolds
<1>1. Init => Core /\ CaptureInv /\ OutInv /\ PolicyInv /\ ChoiceInv
    <2>1. ASSUME Init PROVE HandInv /\ IncludedCaptured /\ OutInv /\ PolicyInv
        BY <2>1, NoRunFresh
        DEF Init, Fresh, HandInv, IncludedCaptured, Copies, ObservedIn, Observed,
            OutInv, PolicyInv
    <2>2. ASSUME Init PROVE ChoiceInv
        <3>1. \A u : VerdictsOn(run.verdicts, u) = {}
            BY <2>2, NoRunFresh DEF Init, Fresh, VerdictsOn
        <3>2. \A u \in Unit : chain[u] = << >> /\ recorded = {}
            BY <2>2 DEF Init
        <3>3. pc = "idle"
            BY <2>2 DEF Init
        <3>. QED BY <3>1, <3>2, <3>3
                 DEF ChoiceInv, ChoicesStand, HandChoices, CommandInv, Excluded
    <2>. QED BY <2>1, <2>2, CoreInit DEF CaptureInv
<1>2. Core /\ CaptureInv /\ OutInv /\ PolicyInv /\ ChoiceInv /\ [Next]_vars
      => (Core /\ CaptureInv /\ OutInv /\ PolicyInv /\ ChoiceInv)'
    <2>1. Core /\ OutInv /\ PolicyInv /\ ChoiceInv /\ [Next]_vars => ChoiceInv'
        BY ChoicesStep, HandStep, CommandStep DEF ChoiceInv
    <2>. QED BY <2>1, CoreStep, CaptureStep, OutStep, PolicyStep
<1>3. Core /\ CaptureInv /\ ChoiceInv => UserDecisionHolds
    BY DecisionStands
<1>. QED BY <1>1, <1>2, <1>3, PTL DEF Spec


=============================================================================
