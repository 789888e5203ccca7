----------------------------- MODULE AcceptedIndex -----------------------------
(***************************************************************************)
(* The private cache of accepted snapshots: two disposable database slots  *)
(* and one manifest, replaced atomically, that names the slot in use.      *)
(* Source: packages/core/src/storage/accepted-index.ts.                    *)
(*                                                                         *)
(* A generation is the contents of a slot: the immutable records of one    *)
(* commit.  Its summary and valuation are functions of the records and of  *)
(* the metadata of the commit, so they are not kept.  Records are numbered *)
(* in the order of their paths.                                            *)
(***************************************************************************)
EXTENDS CommitHistory, FiniteSets

ASSUME RecordAssumption == Record \subseteq Nat \ {0}

VARIABLES
    slots,      \* what each slot holds
    manifest    \* accepted.json: at most one entry

indexVars == <<slots, manifest>>

Slot == {"accepted", "accepted-next"}

\* "whole" says that the file still has the fingerprint it had when its
\* manifest was written.
Generation == [records : SUBSET Record, whole : BOOLEAN]

\* "previous" is previousCommit, "retained" is state.retainedCommit.
Entry == [commit : History, slot : Slot, previous : History, retained : History]

\* A replacement that is being written into the inactive slot.
Writer == [commit : History, slot : Slot, previous : History,
           retained : History, records : SUBSET Record]

NoGeneration == [records |-> {}, whole |-> FALSE]

IndexInit ==
    /\ slots = [s \in Slot |-> NoGeneration]
    /\ manifest = {}

\* readVerifiedManifest: the entry is used only while its slot is untouched.
Verified == {m \in manifest : slots[m.slot].whole}

\* AcceptedIndex.load
Loaded(commit) == {m \in Verified : m.commit = commit}

RecordsIn(m) == slots[m.slot].records

-----------------------------------------------------------------------------
(* Replacing the inactive slot.                                            *)

\* Mutant of InactiveSlot: the two slots are swapped.
SlotInUse ==
    IF \E m \in Verified : m.slot = "accepted" THEN "accepted" ELSE "accepted-next"

InactiveSlot ==
    IF \E m \in Verified : m.slot = "accepted" THEN "accepted-next" ELSE "accepted"

\* Mutant of Pinned: the transport anchor does not pin a slot.
PinnedByBase(confirmed, bases) ==
    \E m \in Verified : m.previous # Absent /\ m.previous \in bases

\* prepareInactiveSlot refuses to reuse the slot of the generation before the
\* current one while transport.json, or a candidate being published, names it.
Pinned(confirmed, bases) ==
    \E m \in Verified :
        m.previous # Absent /\ m.previous \in {confirmed} \cup bases

Claimed(commit, records, retained) ==
    [commit |-> commit, slot |-> InactiveSlot, retained |-> retained,
     records |-> records,
     previous |-> IF Verified = {} THEN Absent
                  ELSE (CHOOSE m \in Verified : TRUE).commit]

\* The old file is unlinked; from here to Publish the slot matches no manifest.
Claim(w) == slots' = [slots EXCEPT ![w.slot] = NoGeneration]

\* AcceptedIndex.close of a changed index: the slot is synced, then the manifest
\* that carries its fingerprint replaces the old one.
Publish(w) ==
    /\ slots' = [slots EXCEPT ![w.slot] = [records |-> w.records, whole |-> TRUE]]
    /\ manifest' = {[commit |-> w.commit, slot |-> w.slot,
                     previous |-> w.previous, retained |-> w.retained]}

=============================================================================
