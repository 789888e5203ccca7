-------------------------- MODULE CommitHistory_proofs --------------------------
(***************************************************************************)
(* Facts about commits that the proofs of LedgerSync cite.                 *)
(***************************************************************************)
EXTENDS CommitHistory, SequenceTheorems, TLAPS

\* The root position, its records and its metadata are well typed.
LEMMA HistoryType ==
    ASSUME NEW h \in History
    PROVE  /\ Len(h) \in Nat
           /\ h = Absent <=> Len(h) = 0
           /\ RecordsOf(h) \subseteq Record
           /\ MetaOf(h) \in Meta \cup {Foreign, Malformed}
<1>1. CASE h = Absent
    BY <1>1 DEF RecordsOf, MetaOf, Absent, History
<1>2. CASE h # Absent
    <2>1. h \in Seq(Snapshot) /\ h # << >>
        BY <1>2 DEF History, Absent
    <2>2. Len(h) \in 1 .. Len(h)
        BY <2>1
    <2>3. h[Len(h)] \in Snapshot
        BY <2>1, <2>2
    <2> QED
        BY <1>2, <2>1, <2>2, <2>3 DEF RecordsOf, MetaOf, TipOf, Snapshot, Absent
<1> QED
    BY <1>1, <1>2

\* The absent ref is a history.
LEMMA AbsentType == Absent \in History
    BY DEF Absent, History

\* A commit built on a history is a history, holds what it was built with, and
\* has its parent as an ancestor (DataTransport.commit with -p).
LEMMA ExtendFacts ==
    ASSUME NEW h \in History, NEW R \in SUBSET Record,
           NEW m \in Meta \cup {Foreign, Malformed}
    PROVE  /\ Extend(h, R, m) \in History
           /\ Extend(h, R, m) # Absent
           /\ Len(Extend(h, R, m)) = Len(h) + 1
           /\ \A i \in 1 .. Len(h) : Extend(h, R, m)[i] = h[i]
           /\ Extend(h, R, m)[Len(h) + 1] = [records |-> R, meta |-> m]
           /\ RecordsOf(Extend(h, R, m)) = R
           /\ MetaOf(Extend(h, R, m)) = m
           /\ Ancestor(h, Extend(h, R, m))
<1> DEFINE s == [records |-> R, meta |-> m]
           e == Extend(h, R, m)
<1>1. s \in Snapshot
    BY DEF Snapshot
<1>2. e = Append(h, s) /\ h \in Seq(Snapshot)
    BY DEF Extend, History
<1> HIDE DEF s, e
<1>3. /\ e \in Seq(Snapshot)
      /\ Len(e) = Len(h) + 1
      /\ \A i \in 1 .. Len(h) : e[i] = h[i]
      /\ e[Len(h) + 1] = s
      /\ Len(h) \in Nat
    BY <1>1, <1>2
<1>4. e # << >>
    BY <1>3
<1>5. TipOf(e) = s
    BY <1>3 DEF TipOf
<1>6. s.records = R /\ s.meta = m
    BY DEF s
<1> QED
    BY <1>3, <1>4, <1>5, <1>6 DEF e, s, History, Absent, RecordsOf, MetaOf, Ancestor

\* A rewound ref is a history.
LEMMA PrefixType ==
    ASSUME NEW h \in History, NEW n \in 1 .. Len(h)
    PROVE  SubSeq(h, 1, n) \in History
    BY SubSeqProperties DEF History

\* Retention is a preorder with the absent ref below everything.
LEMMA RetainsPreorder ==
    /\ \A x \in History : Retains(Absent, x) /\ Retains(x, x)
    /\ \A x, y, z \in History : Retains(x, y) /\ Retains(y, z) => Retains(x, z)
<1>1. ASSUME NEW x \in History
      PROVE  Retains(Absent, x) /\ Retains(x, x)
    BY HistoryType DEF Retains, Ancestor, RecordsOf, Absent
<1>2. ASSUME NEW x \in History, NEW y \in History, NEW z \in History,
             Retains(x, y), Retains(y, z)
      PROVE  Retains(x, z)
    <2>1. Len(x) \in Nat /\ Len(y) \in Nat /\ Len(z) \in Nat
        BY HistoryType
    <2> QED
        BY <1>2, <2>1 DEF Retains, Ancestor
<1> QED
    BY <1>1, <1>2

=============================================================================
