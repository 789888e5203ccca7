----------------------------- MODULE CommitHistory -----------------------------
(***************************************************************************)
(* Commits of the data ref `refs/heads/agent-badge/data`.                  *)
(*                                                                         *)
(* DataTransport.commit writes a tree with a fixed author, committer, date *)
(* and message, so a commit identifier is a function of its tree and of    *)
(* its parent: a commit is identified here with the sequence of snapshots  *)
(* from the root to it.  The absent ref and the parent of a root commit    *)
(* are the empty sequence.  A snapshot keeps the immutable records (the    *)
(* observations/ and controls/ paths) and the metadata (meta.json,         *)
(* catalog.json); the derived artifacts are a function of the two.         *)
(***************************************************************************)
EXTENDS Naturals, Sequences

CONSTANTS
    Record,     \* public records, named by their content hash
    Meta,       \* metadata values that validate for this repository
    Foreign,    \* metadata of another repository identifier
    Malformed   \* a tree that does not validate

ASSUME MetaAssumption == Foreign \notin Meta /\ Malformed \notin Meta

Snapshot == [records : SUBSET Record, meta : Meta \cup {Foreign, Malformed}]

History == Seq(Snapshot)

\* The ref that does not exist, and the parent of a root commit.
Absent == << >>

\* The snapshot at the tip of a history.
TipOf(h) == h[Len(h)]

RecordsOf(h) == IF h = Absent THEN {} ELSE TipOf(h).records

MetaOf(h) == IF h = Absent THEN Malformed ELSE TipOf(h).meta

\* A tree readLedgerCommit validates for the approved repository.
Valid(h) == h # Absent /\ MetaOf(h) \in Meta

Extend(parent, records, meta) ==
    Append(parent, [records |-> records, meta |-> meta])

\* git merge-base --is-ancestor a b
Ancestor(a, b) ==
    /\ Len(a) <= Len(b)
    /\ \A i \in 1 .. Len(a) : a[i] = b[i]

\* What assertDescendant requires: ancestry, and every immutable path kept.
Retains(a, b) == Ancestor(a, b) /\ RecordsOf(a) \subseteq RecordsOf(b)

=============================================================================
