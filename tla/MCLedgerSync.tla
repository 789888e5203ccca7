------------------------------ MODULE MCLedgerSync ------------------------------
(***************************************************************************)
(* Instances of LedgerSync for TLC: two clones of one repository.          *)
(***************************************************************************)
EXTENDS LedgerSync

CONSTANTS a, b, r, m0, m1

\* Both clones synchronize by hand, and either may initialize.
KindsManual == [c \in Clone |-> {"manual"}]

\* One clone runs every kind of operation, and the other edits.
KindsEdit == [c \in Clone |-> IF c = a THEN Kind ELSE {"configure"}]

\* Only one clone has usage.
LocalOne == [c \in Clone |-> IF c = a THEN {r} ELSE {}]

\* The clones would initialize with different metadata.
BootApart == [c \in Clone |-> IF c = a THEN m0 ELSE m1]

NoContributions == {}

ContributeOne == {{r}}

NoEdits == {}

\* Each user may make the same edit.
EditsOne == {<< m0, m1 >>}

=============================================================================
