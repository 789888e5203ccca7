------------------------------ MODULE Attribution ------------------------------
(***************************************************************************)
(* Whose usage is it: the precedence over already resolved evidence of     *)
(* collection/attribution.ts, the evidence a working directory gives       *)
(* (collection/source-resolver.ts), and which edits of the private policy  *)
(* make an old decision worth taking again (collection/collect.ts).        *)
(*                                                                         *)
(* Paths are compared by containment in the code; here a working directory *)
(* has at most one mapping, the closest, and at most one enrollment.       *)
(***************************************************************************)
EXTENDS Integers, FiniteSetsExt

CONSTANTS
    Unit,      \* usage units: provider, representation and native identity
    Cwd,       \* working directories named by usage
    Remote,    \* canonical remotes
    Source,    \* transcripts and databases of providers
    Facts      \* what the copy of a unit in a source says of itself

Choice == {"none", "include", "exclude", "attribute"}
Owner == {"none", "own", "other"}

\* `aliases` is the list of allowed remotes, `enrolled` the verified worktrees.
Policy ==
    [override : [Unit -> Choice], mapping : [Cwd -> Owner],
     aliases : SUBSET Remote, enrolled : SUBSET Cwd]

ASSUME FactsAssumption ==
    /\ IsFiniteSet(Unit) /\ IsFiniteSet(Source)
    /\ Facts \in [Source \X Unit ->
                     [cwd : SUBSET Cwd, remote : SUBSET Remote, repository : Owner]]
    /\ \A x \in Source \X Unit :
          \A a, b \in Facts[x].cwd : a = b

\* What stands at a path: this repository, another one, one nested in this
\* one, nothing, or something that could not be read.
Live == {"member", "foreign", "nested", "missing", "blocked"}

Place == [kind : Live, origin : SUBSET Remote]

Evidence == [live : Live, remote : SUBSET Remote, historical : BOOLEAN]

Resolved(evidence) == evidence.live \in {"member", "foreign", "nested"}

ResolveAttributionEvidence(cwd, place, policy) ==
    [live |-> place.kind,
     remote |-> IF place.kind \in {"missing", "blocked"} THEN {} ELSE place.origin,
     historical |-> place.kind = "missing" /\ cwd \in policy.enrolled]

NoDirectory == [live |-> "blocked", remote |-> {}, historical |-> FALSE]

Reason ==
    {"user-override", "repository-mismatch", "invalid-cwd", "nested-repository",
     "remote-mismatch", "git-membership", "remote-alias", "private-mapping",
     "historical-membership", "missing-evidence"}

MappedTo(cwds, policy, owners) == \E c \in cwds : policy.mapping[c] \in owners

\* The rules in the order they are tried.
Rules(unit, facts, policy, evidence) ==
    << [when |-> policy.override[unit] = "exclude",
        status |-> "excluded", reason |-> "user-override"],
       [when |-> policy.override[unit] # "none",
        status |-> "included", reason |-> "user-override"],
       [when |-> facts.repository = "other",
        status |-> "excluded", reason |-> "repository-mismatch"],
       [when |-> facts.cwd = {},
        status |-> "ambiguous", reason |-> "invalid-cwd"],
       [when |-> evidence.live = "nested",
        status |-> "excluded", reason |-> "nested-repository"],
       [when |-> /\ policy.aliases # {}
                 /\ ~(facts.remote \cup evidence.remote) \subseteq policy.aliases,
        status |-> "excluded", reason |-> "remote-mismatch"],
       [when |-> MappedTo(facts.cwd, policy, {"other"}),
        status |-> "excluded", reason |-> "repository-mismatch"],
       [when |-> evidence.live = "member",
        status |-> "included", reason |-> "git-membership"],
       [when |-> Resolved(evidence) /\ facts.remote \cap policy.aliases # {},
        status |-> "included", reason |-> "remote-alias"],
       [when |-> MappedTo(facts.cwd, policy, {"own"}),
        status |-> "included", reason |-> "private-mapping"],
       [when |-> evidence.historical,
        status |-> "included", reason |-> "historical-membership"],
       [when |-> TRUE,
        status |-> "ambiguous", reason |-> "missing-evidence"] >>

First(rules) == rules[Min({i \in DOMAIN rules : rules[i].when})]

AttributeObservation(unit, facts, policy, evidence) ==
    CHOOSE result \in {[status |-> rule.status, reason |-> rule.reason] :
        rule \in {First(rules) : rules \in {Rules(unit, facts, policy, evidence)}}} : TRUE

\* A decision as the journal keeps it: `verified` is the membership once proved
\* for this very observation, `policy` the policy it was last taken under.
Decision ==
    [status : {"included", "excluded", "ambiguous"}, reason : Reason,
     verified : BOOLEAN, policy : Policy]

\* Enrollments are not part of the snapshot a decision carries.
Admits(aliases, facts, listed) ==
    IF listed THEN facts.remote \subseteq aliases
              ELSE aliases = {} \/ facts.remote \subseteq aliases

RelevantPolicyChanged(unit, facts, reason, old, new) ==
    \/ old.override[unit] # new.override[unit]
    \/ \E c \in facts.cwd : old.mapping[c] # new.mapping[c]
    \/ /\ facts.remote # {}
       /\ Admits(old.aliases, facts, reason = "remote-alias")
            # Admits(new.aliases, facts, reason = "remote-alias")

\* Destination approval left out, as a comparison of intent does.
WithoutAttribute(policy) ==
    [policy EXCEPT !.override =
        [u \in Unit |-> IF @[u] = "attribute" THEN "none" ELSE @[u]]]

=============================================================================
