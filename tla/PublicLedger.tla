----------------------------- MODULE PublicLedger ------------------------------
(***************************************************************************)
(* What synchronization promises to the clones of a repository, without    *)
(* any of its steps: one shared history that is created once, grows by     *)
(* whole commits that drop no record, changes its metadata only from the   *)
(* revision a user expected to the one the user asked for, and is the only *)
(* source of acknowledgements.  There are no stores, requests or failures  *)
(* here; LedgerSync implements it with all of them, as long as nobody else *)
(* writes the ref.                                                         *)
(***************************************************************************)
EXTENDS CommitHistory

CONSTANTS
    Clone,     \* those that publish and acknowledge
    Edits,     \* <<expected, target>> metadata changes users may request
    Seeded,    \* whether the history exists at the start
    SeedMeta   \* its metadata then

VARIABLES
    ledger,     \* the public history
    confirmed   \* records each clone no longer has to publish

vars == << ledger, confirmed >>

Init ==
    /\ ledger = IF Seeded THEN Extend(Absent, {}, SeedMeta) ELSE Absent
    /\ confirmed = [c \in Clone |-> {}]

\* Some clone publishes a commit on top of the history.
Publish ==
    /\ \E records \in SUBSET Record, meta \in Meta :
         /\ RecordsOf(ledger) \subseteq records
         /\ \/ ledger = Absent
            \/ meta = MetaOf(ledger)
            \/ << MetaOf(ledger), meta >> \in Edits
         /\ ledger' = Extend(ledger, records, meta)
    /\ UNCHANGED confirmed

\* A clone acknowledges records that are public.
Acknowledge(c) ==
    /\ \E records \in SUBSET RecordsOf(ledger) :
         confirmed' = [confirmed EXCEPT ![c] = @ \cup records]
    /\ UNCHANGED ledger

Next == Publish \/ \E c \in Clone : Acknowledge(c)

Spec == Init /\ [][Next]_vars

=============================================================================
