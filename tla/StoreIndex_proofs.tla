---------------------------- MODULE StoreIndex_proofs ----------------------------
(***************************************************************************)
(* Proofs about StoreIndex for any records, units and slices, for journals *)
(* without bound and any number of failures and of changes from outside:   *)
(* the derived index says what the files say, a report is exact although   *)
(* its reader holds no lease, and the store implements an atomic one.      *)
(***************************************************************************)
EXTENDS StoreIndex, FiniteSetTheorems, TLAPS

-----------------------------------------------------------------------------
(* The invariant *)

Entries(files) == {f \in files : f.kind = "journal"}

\* A database says of the files in "done" what they say themselves.
Reflects(db, done) ==
    /\ {f.seq : f \in db.journal} = 1 .. Cardinality(db.journal)
    /\ db.journal = Entries(done)
    /\ db.records = Captured(done)
    /\ db.controls = Holds(done, {"control"})
    /\ db.acknowledgements = Receipted(done)
    /\ db.pending = Owed(done)
    /\ \A u \in Unit : db.pendingUnits[u] = InUnit(Owed(done), u)
    /\ Receipted(done) \subseteq Captured(done)

\* A database that is served, and one that is being rebuilt.
Complete(db) == Reflects(db, db.files) /\ db.progress \subseteq db.files
Partial(db) == Reflects(db, db.progress) /\ db.progress \subseteq db.files

\* Nothing that carries a manifest is wrong about the files it names.
ManifestInv ==
    /\ \A m \in index.manifest : m.files = m.database.files /\ Complete(m.database)
    /\ \A m \in stage.manifest : m.files = m.database.files /\ Partial(m.database)

\* Whatever happens, two entries of the journal never share a sequence.
AuthorityInv ==
    /\ IsFiniteSet(authority)
    /\ \A f \in authority : f.kind = "journal" => f.seq \in 1 .. MaxEntries
    /\ \A f, g \in authority : f.kind = "journal" /\ SamePath(f, g) => f = g

Opening == {"open", "resume", "replay", "stamp", "promote", "publish", "tidy"}
Serving == {"apply", "receipts", "index"}

\* Receipts that an operation has published and the index does not have yet.
Receipts(files, hashes) ==
    /\ \A f \in files : f.kind = "receipt"
    /\ Receipted(files) = hashes

\* What holds of the session at each step of an operation.
PlaceInv ==
    /\ pc \in Opening \cup {"idle", "release"} => ~ handle.open
    /\ pc \in Opening \cup Serving => ~ handle.failed
    /\ pc \in Serving => handle.open
    /\ handle.open => index.db # {} /\ ~ index.hot
    /\ pc \in Opening \ {"open"} => ~ index.hot
    /\ pc \in Opening \cup {"apply"} /\ op.kind = "entry" =>
           Cardinality(Entries(authority)) < MaxEntries

\* How far an open index is behind the files.
Settled(db) == handle.open /\ ~ handle.failed /\ pc \in {"ready", "apply"} => db.files = authority

Acknowledging(db) ==
    pc = "receipts" \/ (pc = "index" /\ op.kind = "acknowledge") =>
        /\ op.kind = "acknowledge" /\ op.holds # {}
        /\ op.left \subseteq op.holds /\ (op.left = {} <=> pc = "index")
        /\ op.holds \subseteq db.records /\ op.holds \cap db.acknowledgements = {}
        /\ db.files \subseteq authority
        /\ Receipts(authority \ db.files, op.holds \ op.left)

Capturing(db) ==
    pc = "index" /\ op.kind # "acknowledge" =>
        /\ op.kind \in {"entry", "control"}
        /\ OwnFile(db) \notin db.files
        /\ authority = db.files \cup {OwnFile(db)}

BehindInv ==
    \A db \in index.db : Complete(db) /\ Settled(db) /\ Acknowledging(db) /\ Capturing(db)

\* What a rebuild has replayed of today's files.
RebuildInv ==
    /\ pc = "replay" => draft.files = authority /\ Partial(draft)
    /\ pc \in {"stamp", "promote"} =>
           stage.db # {} /\ \A db \in stage.db : db.files = authority /\ Partial(db)
    /\ pc = "promote" => \A db \in stage.db : db.progress = authority
    /\ pc = "publish" => \A db \in index.db : db.files = authority

\* A generation has one database.
OneInv ==
    /\ \A d, e \in index.db : d = e
    /\ \A d, e \in stage.db : d = e

\* Evidence of a loss survives until the cache is thrown away.
NoticeInv ==
    noticeable =>
        /\ pc \in {"idle", "ready", "open", "release"} /\ ~ handle.open
        /\ ~ index.hot /\ LostFrom(index, authority) # {}

\* As long as nobody else touches the files they only grow, and a database that a
\* crash left hot was never published over them.
SoundAuthority ==
    /\ {f.seq : f \in Entries(authority)} = 1 .. Cardinality(Entries(authority))
    /\ Receipted(authority) \subseteq Captured(authority)

UntouchedInv ==
    /\ SoundAuthority
    /\ \A m \in index.manifest \cup stage.manifest : m.files \subseteq authority
    /\ \A db \in index.db : db.files \subseteq authority
    /\ handle.open => \A m \in index.manifest, db \in index.db : m.files \subseteq db.files
    /\ index.hot => \A m \in index.manifest : m.files # authority
    /\ result # "invalid"

\* The order in which databases take the place of one another.
Before(d, e) ==
    /\ d.files \subseteq e.files
    /\ d.files = e.files => d.progress \subseteq e.progress

Known(d) ==
    /\ Complete(d) /\ d.files \subseteq authority
    /\ \A e \in index.db : Before(d, e)

\* What a reader has seen is older than what is there now.
ReaderInv ==
    /\ reader.at = "manifest" => reader.database # {}
    /\ reader.at = "manifest" => \A d \in reader.database : Known(d)
    /\ reader.at \in {"query", "queried"} \/ reader.proof = 2 =>
           \A m \in reader.raw : Known(m.database)
    /\ reader.at # "off" /\ (reader.at = "queried" \/ reader.proof = 2) =>
           /\ \A v \in reader.view : Known(v)
           /\ \A m \in reader.raw, v \in reader.view : Before(m.database, v)
    /\ reader.at = "manifest" /\ reader.proof = 2 =>
           \A v \in reader.view, e \in reader.database : Before(v, e)
    /\ reader.at = "reported" => \A v \in reader.view : Agrees(v, reader.files)

StoreInv ==
    /\ TypeOK /\ AuthorityInv /\ ManifestInv /\ PlaceInv /\ BehindInv /\ RebuildInv /\ OneInv
    /\ NoticeInv
    /\ tampers = 0 => UntouchedInv /\ ReaderInv

-----------------------------------------------------------------------------
(* Files and units *)

\* What one more file, or receipts, add to what the files hold.
LEMMA HoldsOne ==
    ASSUME NEW files, NEW f, NEW kinds
    PROVE  Holds(files \cup {f}, kinds) =
               Holds(files, kinds) \cup (IF f.kind \in kinds THEN f.holds ELSE {})
BY DEF Holds

LEMMA HoldsUnion ==
    ASSUME NEW files, NEW more, NEW kinds
    PROVE  Holds(files \cup more, kinds) = Holds(files, kinds) \cup Holds(more, kinds)
BY DEF Holds

LEMMA HoldsNone ==
    ASSUME NEW files, NEW kinds, \A f \in files : f.kind \notin kinds
    PROVE  Holds(files, kinds) = {}
BY DEF Holds

LEMMA HoldsType ==
    ASSUME NEW files \in SUBSET File, NEW kinds
    PROVE  Holds(files, kinds) \in SUBSET Record
BY DEF Holds, File

LEMMA HoldsGrows ==
    ASSUME NEW files, NEW more, files \subseteq more, NEW kinds
    PROVE  Holds(files, kinds) \subseteq Holds(more, kinds)
BY DEF Holds

LEMMA OwedType ==
    ASSUME NEW files \in SUBSET File
    PROVE  /\ Captured(files) \in SUBSET Record /\ Receipted(files) \in SUBSET Record
           /\ Owed(files) \in SUBSET Record
BY HoldsType DEF Captured, Receipted, Owed

\* Records are counted by their units.
LEMMA InUnitType ==
    ASSUME NEW S \in SUBSET Record, NEW u
    PROVE  IsFiniteSet({r \in S : UnitOf[r] = u}) /\ InUnit(S, u) \in Nat
<1>1. IsFiniteSet({r \in S : UnitOf[r] = u})
    BY StoreAssumption, FS_Subset
<1> QED
    BY <1>1, FS_CardinalityType DEF InUnit

LEMMA InUnitUnion ==
    ASSUME NEW S \in SUBSET Record, NEW T \in SUBSET Record, S \cap T = {}, NEW u
    PROVE  InUnit(S \cup T, u) = InUnit(S, u) + InUnit(T, u)
<1> DEFINE s == {r \in S : UnitOf[r] = u}
           t == {r \in T : UnitOf[r] = u}
           st == {r \in S \cup T : UnitOf[r] = u}
<1>1. IsFiniteSet(s) /\ IsFiniteSet(t)
    BY InUnitType
<1>2. st = s \cup t /\ s \cap t = {}
    OBVIOUS
<1>3. Cardinality(s) \in Nat /\ Cardinality(t) \in Nat
    BY <1>1, FS_CardinalityType
<1>4. InUnit(S \cup T, u) = Cardinality(st) /\ InUnit(S, u) = Cardinality(s)
      /\ InUnit(T, u) = Cardinality(t)
    BY DEF InUnit
<1> HIDE DEF s, t, st
<1>5. Cardinality(s \cup t) = Cardinality(s) + Cardinality(t) - Cardinality(s \cap t)
    BY <1>1, FS_Union
<1>6. Cardinality(s \cap t) = 0
    BY <1>2, FS_EmptySet
<1> QED
    BY <1>2, <1>3, <1>4, <1>5, <1>6

LEMMA InUnitMinus ==
    ASSUME NEW S \in SUBSET Record, NEW T, NEW u
    PROVE  /\ InUnit(S \ T, u) = InUnit(S, u) - InUnit(T \cap S, u)
           /\ InUnit(S \ T, u) \in Nat
<1>1. S \ T \in SUBSET Record /\ T \cap S \in SUBSET Record
      /\ (S \ T) \cap (T \cap S) = {} /\ (S \ T) \cup (T \cap S) = S
    OBVIOUS
<1>2. InUnit((S \ T) \cup (T \cap S), u) = InUnit(S \ T, u) + InUnit(T \cap S, u)
    BY <1>1, InUnitUnion
<1>3. InUnit(S, u) = InUnit(S \ T, u) + InUnit(T \cap S, u)
    <2>1. (S \ T) \cup (T \cap S) = S
        OBVIOUS
    <2> QED
        BY <2>1, <1>2
<1>4. InUnit(S \ T, u) \in Nat
    <2>1. S \ T \in SUBSET Record
        OBVIOUS
    <2> QED
        BY <2>1, InUnitType
<1>5. InUnit(T \cap S, u) \in Nat
    <2>1. T \cap S \in SUBSET Record
        OBVIOUS
    <2> QED
        BY <2>1, InUnitType
<1> QED
    BY <1>3, <1>4, <1>5

-----------------------------------------------------------------------------
(* What the statements of the database do *)

LEMMA EmptyReflects ==
    ASSUME NEW files \in SUBSET File
    PROVE  /\ EmptyDatabase(files) \in Database
           /\ EmptyDatabase(files).files = files
           /\ Partial(EmptyDatabase(files))
<1> DEFINE db == EmptyDatabase(files)
<1>1. /\ db.journal = {} /\ db.records = {} /\ db.controls = {} /\ db.acknowledgements = {}
      /\ db.pending = {} /\ db.pendingUnits = [u \in Unit |-> 0] /\ db.files = files
      /\ db.progress = {}
    BY DEF EmptyDatabase
<1>2. db \in Database
    BY DEF EmptyDatabase, Database
<1>3. Captured({}) = {} /\ Receipted({}) = {} /\ Holds({}, {"control"}) = {} /\ Owed({}) = {}
      /\ Entries({}) = {}
    BY HoldsNone DEF Captured, Receipted, Owed, Entries
<1>4. \A u \in Unit : InUnit({}, u) = 0
    <2>1. \A u \in Unit : {r \in {} : UnitOf[r] = u} = {}
        OBVIOUS
    <2> QED
        BY <2>1, FS_EmptySet DEF InUnit
<1>5. {f.seq : f \in {}} = 1 .. Cardinality({})
    BY FS_EmptySet
<1> HIDE DEF db
<1>6. Reflects(db, {})
    BY <1>1, <1>3, <1>4, <1>5 DEF Reflects
<1>7. Partial(db)
    BY <1>1, <1>6 DEF Partial
<1> QED
    BY <1>1, <1>2, <1>7 DEF db

LEMMA InsertFacts ==
    ASSUME NEW db \in Database, NEW records \in SUBSET Record
    PROVE  /\ InsertRecords(db, records) \in Database
           /\ InsertRecords(db, records).journal = db.journal
           /\ InsertRecords(db, records).controls = db.controls
           /\ InsertRecords(db, records).acknowledgements = db.acknowledgements
           /\ InsertRecords(db, records).files = db.files
           /\ InsertRecords(db, records).progress = db.progress
           /\ InsertRecords(db, records).records = db.records \cup (records \ db.records)
           /\ InsertRecords(db, records).pending = db.pending \cup (records \ db.records)
           /\ \A u \in Unit : InsertRecords(db, records).pendingUnits[u] =
                                  db.pendingUnits[u] + InUnit(records \ db.records, u)
<1> DEFINE added == records \ db.records
           units == [u \in Unit |-> db.pendingUnits[u] + InUnit(added, u)]
<1>1. units \in [Unit -> Nat]
    <2>1. added \in SUBSET Record
        OBVIOUS
    <2> HIDE DEF added
    <2>2. \A u \in Unit : InUnit(added, u) \in Nat
        BY <2>1, InUnitType
    <2>3. \A u \in Unit : db.pendingUnits[u] \in Nat
        BY DEF Database
    <2>4. \A u \in Unit : db.pendingUnits[u] + InUnit(added, u) \in Nat
        BY <2>2, <2>3
    <2> QED
        BY <2>4
<1>2. PICK new : new = InsertRecords(db, records)
    OBVIOUS
<1>3. new = [db EXCEPT !.records = db.records \cup added, !.pending = db.pending \cup added,
                       !.pendingUnits = units]
    BY <1>2 DEF InsertRecords, Database
<1>4. added \in SUBSET Record
    OBVIOUS
<1>5. \A u \in Unit : units[u] = db.pendingUnits[u] + InUnit(added, u)
    OBVIOUS
<1> HIDE DEF added, units
<1>6. /\ new \in Database
      /\ new.journal = db.journal /\ new.controls = db.controls
      /\ new.acknowledgements = db.acknowledgements
      /\ new.files = db.files /\ new.progress = db.progress
      /\ new.records = db.records \cup added /\ new.pending = db.pending \cup added
      /\ new.pendingUnits = units
    BY <1>1, <1>3, <1>4 DEF Database
<1> QED
    BY <1>2, <1>5, <1>6 DEF added

\* Records that a file adds are owed unless they were captured before.
LEMMA InsertReflects ==
    ASSUME NEW db \in Database, NEW done \in SUBSET File, Reflects(db, done),
           NEW f \in File, f.kind \in {"journal", "control"}
    PROVE  /\ InsertRecords(db, f.holds).records = Captured(done \cup {f})
           /\ InsertRecords(db, f.holds).acknowledgements = Receipted(done \cup {f})
           /\ InsertRecords(db, f.holds).pending = Owed(done \cup {f})
           /\ \A u \in Unit :
                  InsertRecords(db, f.holds).pendingUnits[u] = InUnit(Owed(done \cup {f}), u)
           /\ Receipted(done \cup {f}) \subseteq Captured(done \cup {f})
<1>0. PICK new, added : new = InsertRecords(db, f.holds) /\ added = f.holds \ db.records
    OBVIOUS
<1>1. f.holds \in SUBSET Record
    BY DEF File
<1>2. /\ new.acknowledgements = db.acknowledgements
      /\ new.records = db.records \cup added /\ new.pending = db.pending \cup added
      /\ \A u \in Unit : new.pendingUnits[u] = db.pendingUnits[u] + InUnit(added, u)
    <2>1. /\ InsertRecords(db, f.holds).acknowledgements = db.acknowledgements
          /\ InsertRecords(db, f.holds).records = db.records \cup (f.holds \ db.records)
          /\ InsertRecords(db, f.holds).pending = db.pending \cup (f.holds \ db.records)
          /\ \A u \in Unit : InsertRecords(db, f.holds).pendingUnits[u] =
                                 db.pendingUnits[u] + InUnit(f.holds \ db.records, u)
        BY <1>1, InsertFacts
    <2> QED
        BY <1>0, <2>1
<1>3. Captured(done \cup {f}) = Captured(done) \cup f.holds /\ Receipted(done \cup {f}) = Receipted(done)
    <2>1. f.kind \in {"journal", "control"} /\ f.kind \notin {"receipt"}
        OBVIOUS
    <2>2. /\ Holds(done \cup {f}, {"journal", "control"}) =
                 Holds(done, {"journal", "control"})
                     \cup (IF f.kind \in {"journal", "control"} THEN f.holds ELSE {})
          /\ Holds(done \cup {f}, {"receipt"}) =
                 Holds(done, {"receipt"}) \cup (IF f.kind \in {"receipt"} THEN f.holds ELSE {})
        BY HoldsOne
    <2> QED
        BY <2>1, <2>2 DEF Captured, Receipted
<1>4. /\ db.records = Captured(done) /\ db.acknowledgements = Receipted(done)
      /\ db.pending = Owed(done) /\ Receipted(done) \subseteq Captured(done)
      /\ \A u \in Unit : db.pendingUnits[u] = InUnit(Owed(done), u)
    BY DEF Reflects
<1>5. Owed(done \cup {f}) = Owed(done) \cup added /\ Owed(done) \cap added = {}
    BY <1>0, <1>3, <1>4 DEF Owed
<1>6. Owed(done) \in SUBSET Record /\ added \in SUBSET Record
    BY <1>0, <1>1, OwedType
<1>7. \A u \in Unit : InUnit(Owed(done) \cup added, u) = InUnit(Owed(done), u) + InUnit(added, u)
    BY <1>5, <1>6, InUnitUnion
<1>8. new.records = Captured(done \cup {f})
    BY <1>0, <1>2, <1>3, <1>4
<1>9. \A u \in Unit : new.pendingUnits[u] = InUnit(Owed(done \cup {f}), u)
    BY <1>2, <1>4, <1>5, <1>7
<1> QED
    BY <1>0, <1>2, <1>3, <1>4, <1>5, <1>8, <1>9

LEMMA EntryReflects ==
    ASSUME NEW db \in Database, NEW done \in SUBSET File, Reflects(db, done),
           IsFiniteSet(Entries(done)),
           NEW f \in File, f.kind = "journal", f.seq = Cardinality(db.journal) + 1
    PROVE  /\ AddEntry(db, f) \in Database /\ Reflects(AddEntry(db, f), done \cup {f})
           /\ AddEntry(db, f).files = db.files /\ AddEntry(db, f).progress = db.progress
<1>0. PICK ins, new : ins = InsertRecords(db, f.holds) /\ new = AddEntry(db, f)
    OBVIOUS
<1>1. f.holds \in SUBSET Record
    BY DEF File
<1>2. /\ ins \in Database /\ ins.journal = db.journal /\ ins.controls = db.controls
      /\ ins.files = db.files /\ ins.progress = db.progress
    BY <1>0, <1>1, InsertFacts
<1>3. /\ ins.records = Captured(done \cup {f})
      /\ ins.acknowledgements = Receipted(done \cup {f})
      /\ ins.pending = Owed(done \cup {f})
      /\ \A u \in Unit : ins.pendingUnits[u] = InUnit(Owed(done \cup {f}), u)
      /\ Receipted(done \cup {f}) \subseteq Captured(done \cup {f})
    <2>1. f.kind \in {"journal", "control"}
        OBVIOUS
    <2>2. /\ InsertRecords(db, f.holds).records = Captured(done \cup {f})
          /\ InsertRecords(db, f.holds).acknowledgements = Receipted(done \cup {f})
          /\ InsertRecords(db, f.holds).pending = Owed(done \cup {f})
          /\ \A u \in Unit :
                 InsertRecords(db, f.holds).pendingUnits[u] = InUnit(Owed(done \cup {f}), u)
          /\ Receipted(done \cup {f}) \subseteq Captured(done \cup {f})
        BY <2>1, InsertReflects
    <2> QED
        BY <2>2, <1>0
<1>4. new = [ins EXCEPT !.journal = @ \cup {f}]
    BY <1>0 DEF AddEntry
<1>5. /\ new \in Database /\ new.journal = db.journal \cup {f} /\ new.controls = ins.controls
      /\ new.files = ins.files /\ new.progress = ins.progress /\ new.records = ins.records
      /\ new.acknowledgements = ins.acknowledgements /\ new.pending = ins.pending
      /\ new.pendingUnits = ins.pendingUnits
    BY <1>2, <1>4 DEF Database
<1>6. db.journal = Entries(done) /\ {g.seq : g \in db.journal} = 1 .. Cardinality(db.journal)
      /\ db.controls = Holds(done, {"control"})
    BY DEF Reflects
<1>7. Cardinality(db.journal) \in Nat
    BY <1>6, FS_CardinalityType
<1>8. f \notin db.journal
    <2>1. ASSUME f \in db.journal PROVE FALSE
        <3>1. f.seq \in {g.seq : g \in db.journal}
            BY <2>1
        <3>2. f.seq \in 1 .. Cardinality(db.journal)
            BY <3>1, <1>6
        <3> QED
            BY <3>2, <1>7
    <2> QED
        BY <2>1
<1>9. Cardinality(new.journal) = Cardinality(db.journal) + 1
    <2>1. IsFiniteSet(db.journal)
        BY <1>6
    <2>2. Cardinality(db.journal \cup {f}) = Cardinality(db.journal) + 1
        BY <2>1, <1>8, FS_AddElement
    <2> QED
        BY <2>2, <1>5
<1>10. {g.seq : g \in new.journal} = {g.seq : g \in db.journal} \cup {f.seq}
    BY <1>5
<1>11. {g.seq : g \in new.journal} = 1 .. Cardinality(new.journal)
    BY <1>6, <1>7, <1>9, <1>10
<1>12. new.journal = Entries(done \cup {f})
    <2>1. Entries(done \cup {f}) = Entries(done) \cup {f}
        BY DEF Entries
    <2>2. new.journal = db.journal \cup {f} /\ db.journal = Entries(done)
        BY <1>5, <1>6
    <2> QED
        BY <2>1, <2>2
<1>13. new.controls = Holds(done \cup {f}, {"control"})
    <2>1. Holds(done \cup {f}, {"control"}) = Holds(done, {"control"})
        <3>1. f.kind \notin {"control"}
            OBVIOUS
        <3>2. Holds(done \cup {f}, {"control"}) =
                  Holds(done, {"control"}) \cup (IF f.kind \in {"control"} THEN f.holds ELSE {})
            BY HoldsOne
        <3> QED
            BY <3>1, <3>2
    <2> QED
        BY <2>1, <1>2, <1>5, <1>6
<1>14. Reflects(new, done \cup {f})
    BY <1>3, <1>5, <1>11, <1>12, <1>13 DEF Reflects
<1> QED
    BY <1>0, <1>2, <1>5, <1>14

LEMMA ControlReflects ==
    ASSUME NEW db \in Database, NEW done \in SUBSET File, Reflects(db, done),
           NEW f \in File, f.kind = "control"
    PROVE  /\ AddControl(db, f) \in Database /\ Reflects(AddControl(db, f), done \cup {f})
           /\ AddControl(db, f).files = db.files /\ AddControl(db, f).progress = db.progress
<1>0. PICK ins, new : ins = InsertRecords(db, f.holds) /\ new = AddControl(db, f)
    OBVIOUS
<1>1. f.holds \in SUBSET Record
    BY DEF File
<1>2. /\ ins \in Database /\ ins.journal = db.journal /\ ins.controls = db.controls
      /\ ins.files = db.files /\ ins.progress = db.progress
    BY <1>0, <1>1, InsertFacts
<1>3. /\ ins.records = Captured(done \cup {f})
      /\ ins.acknowledgements = Receipted(done \cup {f})
      /\ ins.pending = Owed(done \cup {f})
      /\ \A u \in Unit : ins.pendingUnits[u] = InUnit(Owed(done \cup {f}), u)
      /\ Receipted(done \cup {f}) \subseteq Captured(done \cup {f})
    <2>1. f.kind \in {"journal", "control"}
        OBVIOUS
    <2>2. /\ InsertRecords(db, f.holds).records = Captured(done \cup {f})
          /\ InsertRecords(db, f.holds).acknowledgements = Receipted(done \cup {f})
          /\ InsertRecords(db, f.holds).pending = Owed(done \cup {f})
          /\ \A u \in Unit :
                 InsertRecords(db, f.holds).pendingUnits[u] = InUnit(Owed(done \cup {f}), u)
          /\ Receipted(done \cup {f}) \subseteq Captured(done \cup {f})
        BY <2>1, InsertReflects
    <2> QED
        BY <2>2, <1>0
<1>4. new = [ins EXCEPT !.controls = @ \cup f.holds]
    BY <1>0 DEF AddControl
<1>5. /\ new \in Database /\ new.journal = db.journal
      /\ new.controls = db.controls \cup f.holds
      /\ new.files = ins.files /\ new.progress = ins.progress /\ new.records = ins.records
      /\ new.acknowledgements = ins.acknowledgements /\ new.pending = ins.pending
      /\ new.pendingUnits = ins.pendingUnits
    BY <1>1, <1>2, <1>4 DEF Database
<1>6. db.journal = Entries(done) /\ {g.seq : g \in db.journal} = 1 .. Cardinality(db.journal)
      /\ db.controls = Holds(done, {"control"})
    BY DEF Reflects
<1>7. new.journal = Entries(done \cup {f})
    <2>1. Entries(done \cup {f}) = Entries(done)
        BY DEF Entries
    <2>2. new.journal = db.journal /\ db.journal = Entries(done)
        BY <1>5, <1>6
    <2> QED
        BY <2>1, <2>2
<1>8. new.controls = Holds(done \cup {f}, {"control"})
    <2>1. Holds(done \cup {f}, {"control"}) = Holds(done, {"control"}) \cup f.holds
        BY HoldsOne
    <2> QED
        BY <2>1, <1>5, <1>6
<1>9. Reflects(new, done \cup {f})
    BY <1>3, <1>5, <1>6, <1>7, <1>8 DEF Reflects
<1> QED
    BY <1>0, <1>2, <1>5, <1>9

LEMMA ReceiptsReflect ==
    ASSUME NEW db \in Database, NEW done \in SUBSET File, Reflects(db, done),
           NEW more \in SUBSET File, NEW hashes, Receipts(more, hashes),
           hashes \subseteq db.records
    PROVE  /\ AddAcknowledgements(db, hashes) \in Database
           /\ Reflects(AddAcknowledgements(db, hashes), done \cup more)
           /\ AddAcknowledgements(db, hashes).files = db.files
           /\ AddAcknowledgements(db, hashes).progress = db.progress
<1> DEFINE new == AddAcknowledgements(db, hashes)
           settled == hashes \cap db.pending
           units == [u \in Unit |-> db.pendingUnits[u] - InUnit(settled, u)]
<1>1. /\ db.records = Captured(done) /\ db.acknowledgements = Receipted(done)
      /\ db.pending = Owed(done) /\ Receipted(done) \subseteq Captured(done)
      /\ db.journal = Entries(done) /\ {g.seq : g \in db.journal} = 1 .. Cardinality(db.journal)
      /\ db.controls = Holds(done, {"control"})
      /\ \A u \in Unit : db.pendingUnits[u] = InUnit(Owed(done), u)
    BY DEF Reflects
<1>2. Captured(done) \in SUBSET Record /\ Owed(done) \in SUBSET Record
    BY OwedType
<1>3. \A u \in Unit : /\ InUnit(Owed(done) \ hashes, u) = InUnit(Owed(done), u) - InUnit(settled, u)
                      /\ InUnit(Owed(done) \ hashes, u) \in Nat
    <2>1. settled = hashes \cap Owed(done)
        BY <1>1
    <2>2. \A u \in Unit :
              /\ InUnit(Owed(done) \ hashes, u) = InUnit(Owed(done), u) - InUnit(hashes \cap Owed(done), u)
              /\ InUnit(Owed(done) \ hashes, u) \in Nat
        BY <1>2, InUnitMinus
    <2> QED
        BY <2>1, <2>2
<1>4. \A u \in Unit : units[u] = InUnit(Owed(done) \ hashes, u)
    BY <1>1, <1>3
<1>5. units \in [Unit -> Nat]
    BY <1>3, <1>4
<1>6. new = [db EXCEPT !.acknowledgements = db.acknowledgements \cup hashes,
                       !.pending = db.pending \ hashes, !.pendingUnits = units]
    BY DEF AddAcknowledgements, Database
<1> HIDE DEF new, units, settled
<1>7. hashes \in SUBSET Record
    BY <1>1, <1>2
<1>8. /\ new \in Database /\ new.journal = db.journal /\ new.controls = db.controls
      /\ new.files = db.files /\ new.progress = db.progress /\ new.records = db.records
      /\ new.acknowledgements = db.acknowledgements \cup hashes
      /\ new.pending = db.pending \ hashes /\ new.pendingUnits = units
    BY <1>5, <1>6, <1>7 DEF Database
<1>9. Captured(more) = {} /\ Holds(more, {"control"}) = {} /\ Receipted(more) = hashes
      /\ Entries(done \cup more) = Entries(done)
    BY HoldsNone DEF Receipts, Captured, Entries
<1>10. /\ Captured(done \cup more) = Captured(done)
       /\ Holds(done \cup more, {"control"}) = Holds(done, {"control"})
       /\ Receipted(done \cup more) = Receipted(done) \cup hashes
    <2>1. /\ Captured(done \cup more) = Captured(done) \cup Captured(more)
          /\ Holds(done \cup more, {"control"}) = Holds(done, {"control"}) \cup Holds(more, {"control"})
          /\ Receipted(done \cup more) = Receipted(done) \cup Receipted(more)
        BY HoldsUnion DEF Captured, Receipted
    <2> QED
        BY <2>1, <1>9
<1>11. Owed(done \cup more) = Owed(done) \ hashes
    BY <1>10 DEF Owed
<1>12. Reflects(new, done \cup more)
    BY <1>1, <1>4, <1>8, <1>9, <1>10, <1>11 DEF Reflects
<1> QED
    BY <1>8, <1>12 DEF new

-----------------------------------------------------------------------------
(* Steps that leave most of it alone *)

LEMMA TypeFacts ==
    ASSUME TypeOK
    PROVE  /\ authority \in SUBSET File
           /\ index.db \in SUBSET Database /\ stage.db \in SUBSET Database
           /\ index.manifest \in SUBSET [files : SUBSET File, database : Database]
           /\ stage.manifest \in SUBSET [files : SUBSET File, database : Database]
           /\ index.hot \in BOOLEAN /\ stage.hot \in BOOLEAN
           /\ op.kind \in {"none", "entry", "control", "acknowledge", "pending"}
           /\ op.holds \in SUBSET Record /\ op.left \in SUBSET Record
           /\ draft \in Database
BY DEF TypeOK, Generation

LEMMA RestTypes ==
    /\ NoOp \in [kind : {"none", "entry", "control", "acknowledge", "pending"},
                 holds : SUBSET Record, left : SUBSET Record]
    /\ NoDraft \in Database
    /\ \A b \in BOOLEAN : Session(b) \in [open : BOOLEAN, changed : BOOLEAN, failed : BOOLEAN,
                                          bounded : BOOLEAN]
    /\ \A b \in BOOLEAN : ~ Session(b).open /\ ~ Session(b).failed
    /\ Gone \in Generation /\ Gone.db = {} /\ Gone.manifest = {} /\ ~ Gone.hot
<1>1. NoDraft \in Database
    BY EmptyReflects DEF NoDraft
<1> QED
    BY <1>1 DEF NoOp, Session, Gone, Generation

\* A manifest that names today's files makes the database one of today's files.
LEMMA NamesToday ==
    ASSUME NEW gen \in Generation, Names(gen, authority),
           \A m \in gen.manifest : m.files = m.database.files
    PROVE  \A db \in gen.db :
               /\ db.files = authority
               /\ [files |-> authority, database |-> db] \in gen.manifest
<1> TAKE db \in gen.db
<1>1. gen.manifest = {[files |-> authority, database |-> d] : d \in gen.db}
    BY DEF Names, Manifest
<1>2. [files |-> authority, database |-> db] \in gen.manifest
    BY <1>1
<1> QED
    BY <1>2

LEMMA ManifestOf ==
    ASSUME NEW files, NEW dbs, NEW m \in Manifest(files, dbs)
    PROVE  m.database \in dbs /\ m.files = files
BY DEF Manifest

\* What a reader has seen stays older than what there is.
LEMMA ReaderKept ==
    ASSUME ReaderInv, reader' = reader, \A d : Known(d) => Known(d)'
    PROVE  ReaderInv'
<1>1. /\ reader.at = "manifest" => reader.database # {}
      /\ reader.at = "manifest" => \A d \in reader.database : Known(d)
      /\ reader.at \in {"query", "queried"} \/ reader.proof = 2 =>
             \A m \in reader.raw : Known(m.database)
      /\ reader.at # "off" /\ (reader.at = "queried" \/ reader.proof = 2) =>
             /\ \A v \in reader.view : Known(v)
             /\ \A m \in reader.raw, v \in reader.view : Before(m.database, v)
      /\ reader.at = "manifest" /\ reader.proof = 2 =>
             \A v \in reader.view, e \in reader.database : Before(v, e)
      /\ reader.at = "reported" => \A v \in reader.view : Agrees(v, reader.files)
    BY DEF ReaderInv
<1>2. /\ reader.at = "manifest" => reader.database # {}
      /\ reader.at = "manifest" => \A d \in reader.database : Known(d)'
      /\ reader.at \in {"query", "queried"} \/ reader.proof = 2 =>
             \A m \in reader.raw : Known(m.database)'
      /\ reader.at # "off" /\ (reader.at = "queried" \/ reader.proof = 2) =>
             /\ \A v \in reader.view : Known(v)'
             /\ \A m \in reader.raw, v \in reader.view : Before(m.database, v)
      /\ reader.at = "manifest" /\ reader.proof = 2 =>
             \A v \in reader.view, e \in reader.database : Before(v, e)
      /\ reader.at = "reported" => \A v \in reader.view : Agrees(v, reader.files)
    BY <1>1
<1> QED
    BY <1>2 DEF ReaderInv

LEMMA KnownKept ==
    ASSUME NEW d, Known(d), authority \subseteq authority', index'.db \subseteq index.db
    PROVE  Known(d)'
<1>1. Complete(d) /\ d.files \subseteq authority /\ \A e \in index.db : Before(d, e)
    BY DEF Known
<1>2. Complete(d) /\ d.files \subseteq authority' /\ \A e \in index'.db : Before(d, e)
    BY <1>1
<1> QED
    BY <1>2 DEF Known

\* A step of the session that touches neither the files nor the index.
LEMMA StageStep ==
    ASSUME StoreInv, TypeOK', PlaceInv', BehindInv', RebuildInv',
           UNCHANGED << authority, index, reader, tampers, noticeable >>,
           \A d, e \in stage'.db : d = e,
           \A m \in stage'.manifest : m.files = m.database.files /\ Partial(m.database),
           tampers = 0 => \A m \in stage'.manifest : m.files \subseteq authority,
           handle'.open => handle.open
               \/ (tampers = 0 => \A m \in index.manifest, db \in index.db : m.files \subseteq db.files),
           noticeable => pc' \in {"idle", "ready", "open", "release"} /\ ~ handle'.open,
           tampers = 0 => result' # "invalid"
    PROVE  StoreInv'
<1>1. AuthorityInv'
    BY DEF StoreInv, AuthorityInv
<1>2. ManifestInv'
    BY DEF StoreInv, ManifestInv
<1>3. OneInv'
    BY DEF StoreInv, OneInv
<1>4. NoticeInv'
    BY DEF StoreInv, NoticeInv
<1>5. ASSUME tampers = 0 PROVE UntouchedInv'
    <2>1. UntouchedInv
        BY <1>5 DEF StoreInv
    <2>2. SoundAuthority'
        BY <2>1 DEF UntouchedInv, SoundAuthority
    <2>3. \A m \in index'.manifest \cup stage'.manifest : m.files \subseteq authority'
        BY <2>1, <1>5 DEF UntouchedInv
    <2>4. \A db \in index'.db : db.files \subseteq authority'
        BY <2>1 DEF UntouchedInv
    <2>5. handle'.open => \A m \in index'.manifest, db \in index'.db : m.files \subseteq db.files
        BY <2>1, <1>5 DEF UntouchedInv
    <2>6. index'.hot => \A m \in index'.manifest : m.files # authority'
        BY <2>1 DEF UntouchedInv
    <2> QED
        BY <2>2, <2>3, <2>4, <2>5, <2>6, <1>5 DEF UntouchedInv
<1>6. ASSUME tampers = 0 PROVE ReaderInv'
    <2>1. ReaderInv
        BY <1>6 DEF StoreInv
    <2>2. \A d : Known(d) => Known(d)'
        BY KnownKept
    <2> QED
        BY <2>1, <2>2, ReaderKept
<1>7. tampers' = tampers
    OBVIOUS
<1> QED
    BY <1>1, <1>2, <1>3, <1>4, <1>5, <1>6, <1>7 DEF StoreInv

LEMMA QuietStep ==
    ASSUME StoreInv, TypeOK', PlaceInv', BehindInv', RebuildInv',
           UNCHANGED << authority, index, stage, reader, tampers, noticeable >>,
           handle'.open => handle.open
               \/ (tampers = 0 => \A m \in index.manifest, db \in index.db : m.files \subseteq db.files),
           noticeable => pc' \in {"idle", "ready", "open", "release"} /\ ~ handle'.open,
           tampers = 0 => result' # "invalid"
    PROVE  StoreInv'
<1>1. \A d, e \in stage'.db : d = e
    BY DEF StoreInv, OneInv
<1>2. \A m \in stage'.manifest : m.files = m.database.files /\ Partial(m.database)
    BY DEF StoreInv, ManifestInv
<1>3. tampers = 0 => \A m \in stage'.manifest : m.files \subseteq authority
    BY DEF StoreInv, UntouchedInv
<1> QED
    BY <1>1, <1>2, <1>3, StageStep

\* No file is between its publication and the index.
LEMMA BehindElsewhere ==
    ASSUME BehindInv, index'.db \subseteq index.db, pc' \notin {"receipts", "index"},
           \A db \in index.db : Settled(db)'
    PROVE  BehindInv'
<1>1. \A db \in index'.db : Complete(db) /\ Settled(db)'
    BY DEF BehindInv
<1>2. \A db \in index'.db : Acknowledging(db)' /\ Capturing(db)'
    BY DEF Acknowledging, Capturing
<1> QED
    BY <1>1, <1>2 DEF BehindInv

\* An operation ends, or a session begins or ends, and no more.
LEMMA ReadyStep ==
    ASSUME StoreInv, TypeOK', UNCHANGED << authority, index, stage, reader, tampers, noticeable >>,
           pc' \in {"idle", "ready", "release"}, pc' # "ready" => ~ handle'.open,
           handle'.open => handle.open,
           handle'.open /\ ~ handle'.failed => \A db \in index.db : db.files = authority,
           tampers = 0 => result' # "invalid"
    PROVE  StoreInv'
<1>1. PlaceInv'
    BY DEF StoreInv, PlaceInv, Opening, Serving
<1>2. BehindInv'
    <2>1. \A db \in index.db : Settled(db)'
        BY DEF Settled
    <2> QED
        BY <2>1, BehindElsewhere DEF StoreInv
<1>3. RebuildInv'
    BY DEF RebuildInv
<1>4. noticeable => pc' \in {"idle", "ready", "open", "release"} /\ ~ handle'.open
    BY DEF StoreInv, NoticeInv
<1> QED
    BY <1>1, <1>2, <1>3, <1>4, QuietStep

-----------------------------------------------------------------------------
(* Init, and the steps of a session that only change where it stands *)

LEMMA StoreInit == Init => StoreInv
<1> SUFFICES ASSUME Init PROVE StoreInv
    OBVIOUS
<1>1. TypeOK
    <2>1. reader \in [at : Reading, proof : 0 .. 2, files : SUBSET File, database : SUBSET Database,
                      raw : SUBSET [files : SUBSET File, database : Database], view : SUBSET Database]
        BY DEF Init, NoReader, Reading
    <2> QED
        BY <2>1, RestTypes DEF Init, TypeOK, Location
<1>2. AuthorityInv
    BY FS_EmptySet DEF Init, AuthorityInv
<1>3. ManifestInv /\ OneInv /\ BehindInv
    BY RestTypes DEF Init, ManifestInv, OneInv, BehindInv
<1>4. PlaceInv
    BY RestTypes DEF Init, PlaceInv, Opening, Serving
<1>5. RebuildInv /\ NoticeInv
    BY DEF Init, RebuildInv, NoticeInv
<1>6. SoundAuthority
    <2>1. Entries(authority) = {} /\ Receipted(authority) = {}
        BY HoldsNone DEF Init, Entries, Receipted
    <2>2. {f.seq : f \in Entries(authority)} = {} /\ 1 .. Cardinality(Entries(authority)) = {}
        BY <2>1, FS_EmptySet
    <2> QED
        BY <2>1, <2>2 DEF SoundAuthority
<1>7. UntouchedInv
    BY <1>6, RestTypes DEF Init, UntouchedInv
<1>8. ReaderInv
    BY DEF Init, ReaderInv, NoReader
<1> QED
    BY <1>1, <1>2, <1>3, <1>4, <1>5, <1>7, <1>8 DEF StoreInv

LEMMA BeginStep ==
    ASSUME StoreInv, NEW bounded \in BOOLEAN, Begin(bounded)
    PROVE  StoreInv'
<1>1. /\ pc = "idle" /\ pc' = "ready" /\ leased' = TRUE
      /\ handle' = Session(bounded) /\ result' = "none"
      /\ UNCHANGED << authority, index, stage, op, draft, left, answer, reader, faults, tampers, noticeable >>
    BY DEF Begin, At, bounds
<1>2. TypeOK'
    BY <1>1, RestTypes DEF StoreInv, TypeOK, Location
<1>3. ~ handle'.open
    BY <1>1, RestTypes
<1> QED
    BY <1>1, <1>2, <1>3, ReadyStep

LEMMA IssueStep ==
    ASSUME StoreInv, NEW kind \in {"entry", "control", "acknowledge", "pending"},
           NEW holds \in SUBSET Record, Issue(kind, holds),
           kind = "entry" => Cardinality(Entries(authority)) < MaxEntries
    PROVE  StoreInv'
<1>1. /\ pc = "ready" /\ ~ handle.failed
      /\ pc' = (IF handle.open THEN "apply" ELSE "open")
      /\ op' = [kind |-> kind, holds |-> holds, left |-> {}]
      /\ UNCHANGED << authority, index, stage, leased, handle, draft, left, result, answer, reader,
                      faults, tampers, noticeable >>
    BY DEF Issue, At, bounds
<1>2. op'.kind = kind /\ op' \in [kind : {"none", "entry", "control", "acknowledge", "pending"},
                                  holds : SUBSET Record, left : SUBSET Record]
    BY <1>1
<1>3. TypeOK'
    BY <1>1, <1>2 DEF StoreInv, TypeOK, Location
<1>4. handle.open => index.db # {} /\ ~ index.hot
    BY DEF StoreInv, PlaceInv
<1>5. PlaceInv'
    BY <1>1, <1>2, <1>4 DEF PlaceInv, Opening, Serving, Entries
<1>6. BehindInv'
    <2>1. \A db \in index.db : Settled(db)
        BY DEF StoreInv, BehindInv
    <2>2. \A db \in index.db : Settled(db)'
        BY <2>1, <1>1 DEF Settled
    <2> QED
        BY <2>2, <1>1, BehindElsewhere DEF StoreInv
<1>7. RebuildInv'
    BY <1>1 DEF RebuildInv
<1>8. noticeable => pc' \in {"idle", "ready", "open", "release"} /\ ~ handle'.open
    BY <1>1 DEF StoreInv, NoticeInv
<1>9. tampers = 0 => result' # "invalid"
    BY <1>1 DEF StoreInv, UntouchedInv
<1> QED
    BY <1>1, <1>3, <1>5, <1>6, <1>7, <1>8, <1>9, QuietStep

LEMMA OperationStep ==
    ASSUME StoreInv, CommitBatch \/ CommitControl \/ AcknowledgeHashes \/ Pending
    PROVE  StoreInv'
<1>1. CASE CommitBatch
    <2>1. Cardinality(Entries(authority)) < MaxEntries
        BY <1>1 DEF CommitBatch, Entries
    <2>2. PICK records \in SUBSET Record : Issue("entry", records)
        BY <1>1 DEF CommitBatch, Issuable
    <2> QED
        BY <2>1, <2>2, IssueStep
<1>2. CASE CommitControl
    <2>1. PICK r \in Control : Issue("control", {r})
        BY <1>2 DEF CommitControl, Issuable
    <2>2. {r} \in SUBSET Record
        BY StoreAssumption
    <2> QED
        BY <2>1, <2>2, IssueStep
<1>3. CASE AcknowledgeHashes
    <2>1. PICK hashes \in SUBSET Record : Issue("acknowledge", hashes)
        BY <1>3 DEF AcknowledgeHashes
    <2> QED
        BY <2>1, IssueStep
<1>4. CASE Pending
    <2>1. Issue("pending", {})
        BY <1>4 DEF Pending
    <2> QED
        BY <2>1, IssueStep
<1> QED
    BY <1>1, <1>2, <1>3, <1>4

-----------------------------------------------------------------------------
(* Opening *)

\* An index over today's files is opened, unless a crash left it hot.
LEMMA OpenValidStep ==
    ASSUME StoreInv, OpenValid
    PROVE  StoreInv'
<1>1. /\ pc = "open" /\ Names(index, authority)
      /\ UNCHANGED << authority, index, stage, answer, faults, leased, reader, tampers, noticeable >>
    BY DEF OpenValid, Outside
<1>2. index.db # {} /\ \A db \in index.db :
          /\ db.files = authority
          /\ [files |-> authority, database |-> db] \in index.manifest
    <2>1. index \in Generation /\ \A m \in index.manifest : m.files = m.database.files
        BY DEF StoreInv, TypeOK, ManifestInv
    <2> QED
        BY <2>1, <1>1, NamesToday DEF Names
<1>3. ~ noticeable
    <2>1. Previous(index, authority) = {}
        BY <1>1 DEF Previous
    <2>2. LostFrom(index, authority) = {}
        BY <2>1 DEF LostFrom
    <2> QED
        BY <2>2 DEF StoreInv, NoticeInv
<1>4. ~ handle.open /\ ~ handle.failed
    BY <1>1 DEF StoreInv, PlaceInv, Opening
<1>5. CASE index.hot
    <2>1. pc' = "ready" /\ Refuse("invalid") /\ handle' = handle
        BY <1>5 DEF OpenValid
    <2>2. TypeOK'
        BY <2>1, <1>1, RestTypes DEF StoreInv, TypeOK, Location, Refuse
    <2>3. tampers # 0
        <3>1. ASSUME tampers = 0 PROVE FALSE
            <4>1. \A m \in index.manifest : m.files # authority
                BY <3>1, <1>5 DEF StoreInv, UntouchedInv
            <4>2. PICK db \in index.db : [files |-> authority, database |-> db] \in index.manifest
                BY <1>2
            <4> QED
                BY <4>1, <4>2
        <3> QED
            BY <3>1
    <2> QED
        BY <2>1, <2>2, <2>3, <1>1, <1>4, ReadyStep
<1>6. CASE ~ index.hot
    <2>1. pc' = "apply" /\ handle' = [handle EXCEPT !.open = TRUE]
          /\ UNCHANGED << op, draft, left, result >>
        BY <1>6 DEF OpenValid
    <2>2. TypeOK'
        BY <2>1, <1>1 DEF StoreInv, TypeOK, Location
    <2>3. handle'.open /\ ~ handle'.failed
        BY <2>1, <1>4 DEF StoreInv, TypeOK
    <2>4. PlaceInv'
        BY <1>1, <1>2, <1>6, <2>1, <2>3 DEF StoreInv, PlaceInv, Opening, Serving, Entries
    <2>5. BehindInv'
        <3>1. \A db \in index.db : Settled(db)'
            BY <1>1, <1>2 DEF Settled
        <3> QED
            BY <3>1, <1>1, <2>1, BehindElsewhere DEF StoreInv
    <2>6. RebuildInv'
        BY <2>1 DEF RebuildInv
    <2>7. tampers = 0 => \A m \in index.manifest, db \in index.db : m.files \subseteq db.files
        BY <1>2 DEF StoreInv, UntouchedInv
    <2>8. tampers = 0 => result' # "invalid"
        BY <2>1 DEF StoreInv, UntouchedInv
    <2> QED
        BY <1>1, <1>3, <2>2, <2>4, <2>5, <2>6, <2>7, <2>8, QuietStep
<1> QED
    BY <1>5, <1>6

\* Nobody else touched the files: then nothing that was indexed is gone.
LEMMA NothingLost ==
    ASSUME StoreInv, tampers = 0
    PROVE  LostFrom(index, authority) = {}
<1>1. \A db \in index.db : db.files \subseteq authority
    BY DEF StoreInv, UntouchedInv
<1>2. ASSUME NEW f \in LostFrom(index, authority) PROVE FALSE
    <2>1. f \in Previous(index, authority)
        BY <1>2 DEF LostFrom
    <2>2. f \in authority
        BY <1>1, <2>1 DEF Previous
    <2>3. SamePath(f, f)
        BY DEF SamePath
    <2> QED
        BY <2>2, <2>3, <1>2 DEF LostFrom
<1> QED
    BY <1>2

LEMMA NoStageLost ==
    ASSUME StoreInv, tampers = 0
    PROVE  Previous(stage, authority) \subseteq authority
<1>1. SUFFICES ASSUME NEW f \in Previous(stage, authority) PROVE f \in authority
    OBVIOUS
<1>2. PICK db \in stage.db : f \in db.files
    BY <1>1 DEF Previous
<1>3. PICK d \in stage.db : stage.manifest = {[files |-> d.files, database |-> e] : e \in stage.db}
    BY <1>1 DEF Previous, Names, Manifest
<1>4. [files |-> d.files, database |-> db] \in stage.manifest
    BY <1>3
<1>5. d.files = db.files
    <2>1. \A m \in stage.manifest : m.files = m.database.files
        BY DEF StoreInv, ManifestInv
    <2> QED
        BY <2>1, <1>4
<1>6. d.files \subseteq authority
    <2>1. \A m \in stage.manifest : m.files \subseteq authority
        BY DEF StoreInv, UntouchedInv
    <2> QED
        BY <2>1, <1>4
<1> QED
    BY <1>2, <1>5, <1>6

LEMMA OpenLostStep ==
    ASSUME StoreInv, OpenLost
    PROVE  StoreInv'
<1>1. /\ pc = "open" /\ pc' = "ready" /\ LostFrom(index, authority) # {} /\ Refuse("invalid")
      /\ UNCHANGED << authority, index, stage, handle, answer, faults, leased, reader, tampers, noticeable >>
    BY DEF OpenLost, At, Outside
<1>2. TypeOK'
    BY <1>1, RestTypes DEF StoreInv, TypeOK, Location, Refuse
<1>3. ~ handle.open
    BY <1>1 DEF StoreInv, PlaceInv, Opening
<1>4. tampers # 0
    BY <1>1, NothingLost
<1> QED
    BY <1>1, <1>2, <1>3, <1>4, ReadyStep

\* A generation over other files is thrown away.
LEMMA OpenStaleStep ==
    ASSUME StoreInv, OpenStale
    PROVE  StoreInv'
<1>1. /\ pc = "open" /\ pc' = "resume" /\ index' = Gone
      /\ LostFrom(index, authority) = {} \/ index.hot
      /\ UNCHANGED << authority, stage, op, handle, draft, left, result, answer, faults, leased, reader,
                      tampers, noticeable >>
    BY DEF OpenStale, At, Outside, session
<1>2. index'.db = {} /\ index'.manifest = {} /\ ~ index'.hot
    BY <1>1, RestTypes
<1>3. TypeOK'
    BY <1>1, RestTypes DEF StoreInv, TypeOK, Location
<1>4. AuthorityInv'
    BY <1>1 DEF StoreInv, AuthorityInv
<1>5. ManifestInv' /\ OneInv'
    BY <1>1, <1>2 DEF StoreInv, ManifestInv, OneInv
<1>6. PlaceInv'
    BY <1>1, <1>2 DEF StoreInv, PlaceInv, Opening, Serving, Entries
<1>7. BehindInv' /\ RebuildInv'
    BY <1>1, <1>2 DEF BehindInv, RebuildInv
<1>8. NoticeInv'
    BY <1>1 DEF StoreInv, NoticeInv
<1>9. ASSUME tampers = 0 PROVE UntouchedInv' /\ ReaderInv'
    <2>1. UntouchedInv /\ ReaderInv
        BY <1>9 DEF StoreInv
    <2>2. SoundAuthority'
        BY <2>1, <1>1 DEF UntouchedInv, SoundAuthority
    <2>3. UntouchedInv'
        BY <2>1, <2>2, <1>1, <1>2 DEF UntouchedInv
    <2>4. \A d : Known(d) => Known(d)'
        BY <1>1, <1>2, KnownKept
    <2> QED
        BY <2>1, <2>3, <2>4, <1>1, ReaderKept
<1> QED
    BY <1>1, <1>3, <1>4, <1>5, <1>6, <1>7, <1>8, <1>9 DEF StoreInv

-----------------------------------------------------------------------------
(* Rebuilding *)

\* In the middle of a rebuild there is nothing to notice and nothing is served.
LEMMA RebuildPlace ==
    ASSUME StoreInv, pc \in Opening \ {"open"}
    PROVE  /\ ~ noticeable /\ ~ handle.open /\ ~ handle.failed /\ ~ index.hot
           /\ tampers = 0 => result # "invalid"
BY DEF StoreInv, NoticeInv, PlaceInv, Opening, UntouchedInv

\* What a rebuild needs at each of its steps.
LEMMA RebuildStep ==
    ASSUME StoreInv, TypeOK', RebuildInv', pc \in Opening \ {"open"}, pc' \in Opening,
           UNCHANGED << authority, index, op, handle, result, reader, tampers, noticeable >>,
           \A d, e \in stage'.db : d = e,
           \A m \in stage'.manifest : m.files = m.database.files /\ Partial(m.database),
           tampers = 0 => \A m \in stage'.manifest : m.files \subseteq authority
    PROVE  StoreInv'
<1>1. ~ noticeable /\ ~ handle.open /\ ~ handle.failed /\ ~ index.hot
    BY RebuildPlace
<1>2. PlaceInv'
    BY <1>1 DEF StoreInv, PlaceInv, Opening, Serving, Entries
<1>3. BehindInv'
    <2>1. \A db \in index.db : Settled(db)'
        BY <1>1 DEF Settled
    <2> QED
        BY <2>1, BehindElsewhere DEF StoreInv, Opening
<1>4. tampers = 0 => result' # "invalid"
    BY DEF StoreInv, UntouchedInv
<1> QED
    BY <1>1, <1>2, <1>3, <1>4, StageStep

\* A rebuild that ends with an error, whatever it leaves of the stage.
LEMMA RebuildEnds ==
    ASSUME StoreInv, TypeOK', pc \in Opening \ {"open"}, pc' = "ready",
           UNCHANGED << authority, index, handle, reader, tampers, noticeable >>,
           \A d, e \in stage'.db : d = e,
           \A m \in stage'.manifest : m.files = m.database.files /\ Partial(m.database),
           tampers = 0 => \A m \in stage'.manifest : m.files \subseteq authority,
           tampers = 0 => result' # "invalid"
    PROVE  StoreInv'
<1>1. ~ noticeable /\ ~ handle.open /\ ~ handle.failed /\ ~ index.hot
    BY RebuildPlace
<1>2. PlaceInv'
    BY <1>1 DEF PlaceInv, Opening, Serving
<1>3. BehindInv'
    <2>1. \A db \in index.db : Settled(db)'
        BY <1>1 DEF Settled
    <2> QED
        BY <2>1, BehindElsewhere DEF StoreInv
<1>4. RebuildInv'
    BY DEF RebuildInv
<1> QED
    BY <1>1, <1>2, <1>3, <1>4, StageStep

LEMMA StageAsItWas ==
    ASSUME StoreInv
    PROVE  /\ \A d, e \in stage.db : d = e
           /\ \A m \in stage.manifest : m.files = m.database.files /\ Partial(m.database)
           /\ tampers = 0 => \A m \in stage.manifest : m.files \subseteq authority
BY DEF StoreInv, OneInv, ManifestInv, UntouchedInv

LEMMA AuthorityFinite ==
    ASSUME StoreInv
    PROVE  /\ IsFiniteSet(authority) /\ Cardinality(authority) \in Nat
           /\ \A files \in SUBSET authority : IsFiniteSet(files) /\ Cardinality(files) \in Nat
           /\ BatchEntries \in Nat
<1>1. IsFiniteSet(authority)
    BY DEF StoreInv, AuthorityInv
<1>2. \A files \in SUBSET authority : IsFiniteSet(files)
    BY <1>1, FS_Subset
<1> QED
    BY <1>1, <1>2, FS_CardinalityType, StoreAssumption

LEMMA ResumeStageStep ==
    ASSUME StoreInv, ResumeStage
    PROVE  StoreInv'
<1>1. /\ pc = "resume" /\ pc' = "replay" /\ Names(stage, authority)
      /\ UNCHANGED << authority, index, stage, op, handle, result, answer, faults, leased, reader,
                      tampers, noticeable >>
    BY DEF ResumeStage, At, Outside
<1>2. PICK db \in stage.db : ReplayFrom(db)
    BY DEF ResumeStage
<1>3. draft' = db /\ left' \in Nat
    BY <1>2, AuthorityFinite DEF ReplayFrom
<1>4. /\ db.files = authority
      /\ [files |-> authority, database |-> db] \in stage.manifest
    <2>1. stage \in Generation /\ \A m \in stage.manifest : m.files = m.database.files
        BY DEF StoreInv, TypeOK, ManifestInv
    <2> QED
        BY <2>1, <1>1, NamesToday
<1>5. Partial(db)
    <2>1. \A m \in stage.manifest : Partial(m.database)
        BY DEF StoreInv, ManifestInv
    <2> QED
        BY <2>1, <1>4
<1>6. TypeOK'
    <2>1. draft' \in Database
        BY <1>3, TypeFacts DEF StoreInv
    <2> QED
        BY <2>1, <1>1, <1>3 DEF StoreInv, TypeOK, Location
<1>7. RebuildInv'
    BY <1>1, <1>3, <1>4, <1>5 DEF RebuildInv
<1> QED
    BY <1>1, <1>6, <1>7, StageAsItWas, RebuildStep DEF Opening

LEMMA StageLostStep ==
    ASSUME StoreInv, StageLost
    PROVE  StoreInv'
<1>1. /\ pc = "resume" /\ pc' = "ready" /\ Previous(stage, authority) \ authority # {}
      /\ Refuse("invalid")
      /\ UNCHANGED << authority, index, stage, handle, answer, faults, leased, reader, tampers, noticeable >>
    BY DEF StageLost, At, Outside
<1>2. TypeOK'
    BY <1>1, RestTypes DEF StoreInv, TypeOK, Location, Refuse
<1>3. tampers # 0
    BY <1>1, NoStageLost
<1> QED
    BY <1>1, <1>2, <1>3, StageAsItWas, RebuildEnds DEF Opening

LEMMA RestartStageStep ==
    ASSUME StoreInv, RestartStage
    PROVE  StoreInv'
<1>1. /\ pc = "resume" /\ pc' = "replay"
      /\ stage' = [Gone EXCEPT !.db = {EmptyDatabase(authority)}]
      /\ ReplayFrom(EmptyDatabase(authority))
      /\ UNCHANGED << authority, index, op, handle, result, answer, faults, leased, reader, tampers,
                      noticeable >>
    BY DEF RestartStage, At, Outside
<1>2. PICK db : db = EmptyDatabase(authority)
    OBVIOUS
<1>3. db \in Database /\ db.files = authority /\ Partial(db)
    BY <1>2, TypeFacts, EmptyReflects DEF StoreInv
<1>4. draft' = db /\ left' \in Nat
    BY <1>1, <1>2, AuthorityFinite DEF ReplayFrom
<1>5. stage' = [Gone EXCEPT !.db = {db}]
    BY <1>1, <1>2
<1>6. stage' \in Generation /\ stage'.db = {db} /\ stage'.manifest = {}
    BY <1>3, <1>5 DEF Gone, Generation
<1>7. TypeOK'
    BY <1>1, <1>3, <1>4, <1>6 DEF StoreInv, TypeOK, Location
<1>8. RebuildInv'
    BY <1>1, <1>3, <1>4 DEF RebuildInv
<1> QED
    BY <1>1, <1>6, <1>7, <1>8, RebuildStep DEF Opening

\* One more file of a kind that the draft may take.
LEMMA AddReflects ==
    ASSUME StoreInv, pc = "replay", NEW f \in NextFile, Replayable(f)
    PROVE  /\ Add(draft, f) \in Database
           /\ Reflects(Add(draft, f), draft.progress \cup {f})
           /\ Add(draft, f).files = authority /\ Add(draft, f).progress = draft.progress
           /\ draft.progress \cup {f} \subseteq authority
<1>1. draft \in Database /\ authority \in SUBSET File
    BY TypeFacts DEF StoreInv
<1>2. draft.files = authority /\ Reflects(draft, draft.progress) /\ draft.progress \subseteq draft.files
    BY DEF StoreInv, RebuildInv, Partial
<1>3. f \in authority
    BY DEF NextFile
<1>4. f \in File /\ draft.progress \in SUBSET File
    BY <1>1, <1>2, <1>3
<1>5. f.kind \in {"journal", "control", "receipt"}
    BY <1>4 DEF File
<1>6. CASE f.kind = "journal"
    <2>1. Add(draft, f) = AddEntry(draft, f)
        BY <1>6 DEF Add
    <2>2. f.seq = Cardinality(draft.journal) + 1
        BY <1>6 DEF Replayable
    <2>3. IsFiniteSet(Entries(draft.progress))
        <3>1. Entries(draft.progress) \subseteq authority
            BY <1>2 DEF Entries
        <3> QED
            BY <3>1, AuthorityFinite
    <2> QED
        BY <2>1, <2>2, <2>3, <1>1, <1>2, <1>3, <1>4, <1>6, EntryReflects
<1>7. CASE f.kind = "control"
    <2>1. Add(draft, f) = AddControl(draft, f)
        BY <1>7 DEF Add
    <2> QED
        BY <2>1, <1>1, <1>2, <1>3, <1>4, <1>7, ControlReflects
<1>8. CASE f.kind = "receipt"
    <2>1. Add(draft, f) = AddAcknowledgements(draft, f.holds)
        BY <1>8 DEF Add
    <2>2. f.holds \subseteq draft.records
        BY <1>8 DEF Replayable
    <2>3. Receipts({f}, f.holds)
        BY <1>8 DEF Receipts, Receipted, Holds
    <2>4. {f} \in SUBSET File
        BY <1>4
    <2>5. /\ AddAcknowledgements(draft, f.holds) \in Database
          /\ Reflects(AddAcknowledgements(draft, f.holds), draft.progress \cup {f})
          /\ AddAcknowledgements(draft, f.holds).files = draft.files
          /\ AddAcknowledgements(draft, f.holds).progress = draft.progress
        BY <2>2, <2>3, <2>4, <1>1, <1>2, <1>4, ReceiptsReflect
    <2> QED
        BY <2>1, <2>5, <1>2, <1>3
<1> QED
    BY <1>5, <1>6, <1>7, <1>8

LEMMA ReplayFileStep ==
    ASSUME StoreInv, ReplayFile
    PROVE  StoreInv'
<1>1. /\ pc = "replay" /\ pc' = "replay" /\ left > 0 /\ left' = left - 1
      /\ UNCHANGED << authority, index, stage, op, handle, result, answer, faults, leased, reader,
                      tampers, noticeable >>
    BY DEF ReplayFile, At, Outside
<1>2. PICK f \in NextFile : Replayable(f) /\ draft' = [Add(draft, f) EXCEPT !.progress = @ \cup {f}]
    BY DEF ReplayFile
<1>3. PICK db : db = Add(draft, f)
    OBVIOUS
<1>4. /\ db \in Database /\ Reflects(db, draft.progress \cup {f})
      /\ db.files = authority /\ db.progress = draft.progress
      /\ draft.progress \cup {f} \subseteq authority
    BY <1>1, <1>2, <1>3, AddReflects
<1>5. draft' = [db EXCEPT !.progress = draft.progress \cup {f}]
    BY <1>2, <1>3, <1>4 DEF Database
<1>6. authority \in SUBSET File
    BY TypeFacts DEF StoreInv
<1>7. /\ draft' \in Database /\ draft'.files = authority /\ draft'.progress = draft.progress \cup {f}
      /\ draft'.journal = db.journal /\ draft'.records = db.records /\ draft'.controls = db.controls
      /\ draft'.acknowledgements = db.acknowledgements /\ draft'.pending = db.pending
      /\ draft'.pendingUnits = db.pendingUnits
    BY <1>4, <1>5, <1>6 DEF Database
<1>8. Reflects(draft', draft.progress \cup {f})
    BY <1>4, <1>7 DEF Reflects
<1>9. Partial(draft')
    BY <1>4, <1>7, <1>8 DEF Partial
<1>10. TypeOK'
    <2>1. left' \in Nat
        BY <1>1 DEF StoreInv, TypeOK
    <2> QED
        BY <2>1, <1>1, <1>7 DEF StoreInv, TypeOK, Location
<1>11. RebuildInv'
    BY <1>1, <1>7, <1>9 DEF RebuildInv
<1> QED
    BY <1>1, <1>10, <1>11, StageAsItWas, RebuildStep DEF Opening

\* The rank of an entry is its sequence, and every entry comes before the rest.
LEMMA Ranks ==
    ASSUME StoreInv, NEW f \in authority
    PROVE  /\ f.kind = "journal" => Rank(f) = f.seq /\ f.seq \in 1 .. MaxEntries
           /\ f.kind = "control" => Rank(f) = MaxEntries + 1
           /\ f.kind = "receipt" => Rank(f) = MaxEntries + 2
           /\ f.kind \in {"journal", "control", "receipt"}
           /\ MaxEntries \in Nat
<1>1. f \in File
    BY TypeFacts DEF StoreInv
<1>2. f.kind = "journal" => f.seq \in 1 .. MaxEntries
    BY DEF StoreInv, AuthorityInv
<1> QED
    BY <1>1, <1>2, StoreAssumption DEF File, Rank

\* What a rebuild refuses is never the doing of a crash or a failure.
LEMMA AlwaysReplayable ==
    ASSUME StoreInv, tampers = 0, pc = "replay", NEW f \in NextFile
    PROVE  Replayable(f)
<1>1. /\ draft.files = authority /\ draft.progress \subseteq authority
      /\ {g.seq : g \in draft.journal} = 1 .. Cardinality(draft.journal)
      /\ draft.journal = Entries(draft.progress) /\ draft.records = Captured(draft.progress)
    BY DEF StoreInv, RebuildInv, Partial, Reflects
<1>2. /\ f \in authority /\ f \notin draft.progress
      /\ \A g \in authority : g \notin draft.progress => Rank(f) <= Rank(g)
    BY DEF NextFile
<1>3. /\ {g.seq : g \in Entries(authority)} = 1 .. Cardinality(Entries(authority))
      /\ Receipted(authority) \subseteq Captured(authority)
    BY DEF StoreInv, UntouchedInv, SoundAuthority
<1>4. PICK n \in Nat : n = Cardinality(draft.journal)
    <2>1. draft.journal \subseteq authority
        BY <1>1 DEF Entries
    <2> QED
        BY <2>1, AuthorityFinite
<1>5. PICK all \in Nat : all = Cardinality(Entries(authority))
    <2>1. Entries(authority) \subseteq authority
        BY DEF Entries
    <2> QED
        BY <2>1, AuthorityFinite
<1>6. ASSUME f.kind = "journal" PROVE f.seq = n + 1
    <2>1. f \in Entries(authority)
        BY <1>2, <1>6 DEF Entries
    <2>2. f.seq \in 1 .. all
        BY <2>1, <1>3, <1>5
    <2>3. f.seq \notin 1 .. n
        <3>1. SUFFICES ASSUME f.seq \in 1 .. n PROVE FALSE
            OBVIOUS
        <3>2. PICK g \in draft.journal : g.seq = f.seq
            BY <3>1, <1>1, <1>4
        <3>3. g \in authority /\ g \in draft.progress /\ g.kind = "journal"
            BY <3>2, <1>1 DEF Entries
        <3>4. SamePath(f, g)
            BY <3>2, <3>3, <1>6 DEF SamePath
        <3>5. f = g
            BY <3>3, <3>4, <1>2, <1>6 DEF StoreInv, AuthorityInv
        <3> QED
            BY <3>3, <3>5, <1>2
    <2>4. ASSUME f.seq > n + 1 PROVE FALSE
        <3>1. n + 1 \in 1 .. all
            BY <2>2, <2>4
        <3>2. PICK g \in Entries(authority) : g.seq = n + 1
            BY <3>1, <1>3, <1>5
        <3>3. g \in authority /\ g.kind = "journal"
            BY <3>2 DEF Entries
        <3>4. g \notin draft.progress
            <4>1. SUFFICES ASSUME g \in draft.progress PROVE FALSE
                OBVIOUS
            <4>2. g \in draft.journal
                BY <4>1, <3>3, <1>1 DEF Entries
            <4>3. g.seq \in 1 .. n
                BY <4>2, <1>1, <1>4
            <4> QED
                BY <4>3, <3>2
        <3>5. Rank(f) <= Rank(g)
            BY <3>3, <3>4, <1>2
        <3>6. Rank(f) = f.seq /\ Rank(g) = g.seq
            BY <3>3, <1>2, <1>6, Ranks
        <3> QED
            BY <3>2, <3>5, <3>6, <2>2, <2>4
    <2> QED
        BY <2>2, <2>3, <2>4
<1>7. ASSUME f.kind = "receipt" PROVE f.holds \subseteq draft.records
    <2>1. f.holds \subseteq Receipted(authority)
        BY <1>2, <1>7 DEF Receipted, Holds
    <2>2. ASSUME NEW g \in authority, g.kind \in {"journal", "control"} PROVE g \in draft.progress
        <3>1. SUFFICES ASSUME g \notin draft.progress PROVE FALSE
            OBVIOUS
        <3>2. Rank(f) <= Rank(g)
            BY <3>1, <1>2
        <3>3. Rank(f) = MaxEntries + 2 /\ MaxEntries \in Nat
            BY <1>2, <1>7, Ranks
        <3>4. \/ Rank(g) = g.seq /\ g.seq \in 1 .. MaxEntries
              \/ Rank(g) = MaxEntries + 1
            BY <2>2, Ranks
        <3> QED
            BY <3>2, <3>3, <3>4
    <2>3. Captured(authority) \subseteq Captured(draft.progress)
        BY <2>2 DEF Captured, Holds
    <2> QED
        BY <2>1, <2>3, <1>1, <1>3
<1> QED
    BY <1>4, <1>6, <1>7 DEF Replayable

\* Rolled back, the stage keeps its database and loses its manifest.
LEMMA RollBackStep ==
    ASSUME StoreInv, NEW how \in {"failed", "invalid"}, RollBack(how),
           faults' \in Nat, tampers = 0 => how # "invalid"
    PROVE  StoreInv'
<1>1. /\ pc = "replay" /\ pc' = "ready" /\ stage' = [stage EXCEPT !.manifest = {}] /\ Refuse(how)
      /\ UNCHANGED << authority, index, handle, answer, leased, reader, tampers, noticeable >>
    BY DEF RollBack, At, Outside
<1>2. stage' \in Generation /\ stage'.db = stage.db /\ stage'.manifest = {}
    BY <1>1 DEF StoreInv, TypeOK, Generation
<1>3. TypeOK'
    BY <1>1, <1>2, RestTypes DEF StoreInv, TypeOK, Location, Refuse
<1>4. result' = how
    BY <1>1 DEF Refuse
<1> QED
    BY <1>1, <1>2, <1>3, <1>4, StageAsItWas, RebuildEnds DEF Opening

LEMMA ReplayInvalidStep ==
    ASSUME StoreInv, ReplayInvalid
    PROVE  StoreInv'
<1>1. RollBack("invalid") /\ faults' = faults /\ pc = "replay"
    BY DEF ReplayInvalid, RollBack, At
<1>2. PICK f \in NextFile : ~ Replayable(f)
    BY DEF ReplayInvalid
<1>3. tampers # 0
    BY <1>1, <1>2, AlwaysReplayable
<1>4. faults' \in Nat
    BY <1>1 DEF StoreInv, TypeOK
<1> QED
    BY <1>1, <1>3, <1>4, RollBackStep

LEMMA FaultType ==
    ASSUME StoreInv, Fault
    PROVE  faults' \in Nat
BY DEF StoreInv, TypeOK, Fault

LEMMA ReplayFailsStep ==
    ASSUME StoreInv, ReplayFails
    PROVE  StoreInv'
BY FaultType, RollBackStep DEF ReplayFails

LEMMA CommitSliceStep ==
    ASSUME StoreInv, CommitSlice
    PROVE  StoreInv'
<1>1. /\ pc = "replay" /\ pc' = "stamp" /\ stage' = [stage EXCEPT !.db = {draft}]
      /\ draft' = NoDraft /\ left' = 0
      /\ UNCHANGED << authority, index, op, handle, result, answer, faults, leased, reader, tampers,
                      noticeable >>
    BY DEF CommitSlice, At, Outside
<1>2. draft \in Database
    BY TypeFacts DEF StoreInv
<1>3. stage' \in Generation /\ stage'.db = {draft} /\ stage'.manifest = stage.manifest
    BY <1>1, <1>2 DEF StoreInv, TypeOK, Generation
<1>4. TypeOK'
    BY <1>1, <1>3, RestTypes DEF StoreInv, TypeOK, Location
<1>5. RebuildInv'
    BY <1>1, <1>3 DEF StoreInv, RebuildInv
<1> QED
    BY <1>1, <1>3, <1>4, <1>5, StageAsItWas, RebuildStep DEF Opening

\* A stage is whole when it has replayed as many files as there are.
LEMMA WholeStage ==
    ASSUME StoreInv, pc = "stamp", NEW db \in stage.db,
           Cardinality(db.progress) = Cardinality(authority)
    PROVE  db.progress = authority
<1>1. db.progress \subseteq authority
    BY DEF StoreInv, RebuildInv, Partial
<1>2. IsFiniteSet(authority)
    BY DEF StoreInv, AuthorityInv
<1> QED
    BY <1>1, <1>2, FS_Subset

LEMMA StampStageStep ==
    ASSUME StoreInv, StampStage
    PROVE  StoreInv'
<1>1. /\ pc = "stamp" /\ stage' = [stage EXCEPT !.manifest = Manifest(authority, stage.db)]
      /\ UNCHANGED << authority, index, handle, answer, faults, leased, reader, tampers, noticeable >>
    BY DEF StampStage, Outside
<1>2. authority \in SUBSET File /\ stage.db \in SUBSET Database
    BY TypeFacts DEF StoreInv
<1>3. PICK man : man = Manifest(authority, stage.db)
    OBVIOUS
<1>4. man \in SUBSET [files : SUBSET File, database : Database]
    BY <1>2, <1>3 DEF Manifest
<1>5. stage' \in Generation /\ stage'.db = stage.db /\ stage'.manifest = man
    BY <1>1, <1>3, <1>4 DEF StoreInv, TypeOK, Generation
<1>6. stage.db # {} /\ \A db \in stage.db : db.files = authority /\ Partial(db)
    BY <1>1 DEF StoreInv, RebuildInv
<1>7. \A m \in stage'.manifest : m.database \in stage.db /\ m.files = authority
    BY <1>3, <1>5, ManifestOf
<1>8. /\ \A m \in stage'.manifest : m.files = m.database.files /\ Partial(m.database)
      /\ \A m \in stage'.manifest : m.files \subseteq authority
    BY <1>6, <1>7
<1>9. \A d, e \in stage'.db : d = e
    BY <1>5, StageAsItWas
<1>10. CASE \A db \in stage.db : Cardinality(db.progress) = Cardinality(authority)
    <2>1. pc' = "promote" /\ UNCHANGED << op, draft, left, result >>
        BY <1>10 DEF StampStage
    <2>2. TypeOK'
        BY <2>1, <1>1, <1>5 DEF StoreInv, TypeOK, Location
    <2>3. \A db \in stage.db : db.progress = authority
        BY <1>1, <1>10, WholeStage
    <2>4. RebuildInv'
        BY <2>1, <2>3, <1>1, <1>5, <1>6 DEF RebuildInv
    <2> QED
        BY <2>1, <2>2, <2>4, <1>1, <1>8, <1>9, RebuildStep DEF Opening
<1>11. CASE ~ \A db \in stage.db : Cardinality(db.progress) = Cardinality(authority)
    <2>1. pc' = "ready" /\ Refuse("busy")
        BY <1>11 DEF StampStage
    <2>2. TypeOK'
        BY <2>1, <1>1, <1>5, RestTypes DEF StoreInv, TypeOK, Location, Refuse
    <2>3. result' = "busy"
        BY <2>1 DEF Refuse
    <2> QED
        BY <2>1, <2>2, <2>3, <1>1, <1>8, <1>9, RebuildEnds DEF Opening
<1> QED
    BY <1>10, <1>11

LEMMA RebuildFailsStep ==
    ASSUME StoreInv, RebuildFails
    PROVE  StoreInv'
<1>1. /\ pc \in {"resume", "stamp", "promote", "publish", "tidy"} /\ pc' = "ready" /\ Refuse("failed")
      /\ UNCHANGED << authority, index, stage, handle, answer, leased, reader, tampers, noticeable >>
      /\ faults' \in Nat
    BY FaultType DEF RebuildFails, Outside
<1>2. TypeOK'
    BY <1>1, RestTypes DEF StoreInv, TypeOK, Location, Refuse
<1>3. result' = "failed"
    BY <1>1 DEF Refuse
<1> QED
    BY <1>1, <1>2, <1>3, StageAsItWas, RebuildEnds DEF Opening

LEMMA RemoveStageManifestStep ==
    ASSUME StoreInv, RemoveStageManifest
    PROVE  StoreInv'
<1>1. /\ pc = "tidy" /\ pc' = "open" /\ stage' = [stage EXCEPT !.manifest = {}]
      /\ UNCHANGED << authority, index, op, handle, draft, left, result, answer, faults, leased, reader,
                      tampers, noticeable >>
    BY DEF RemoveStageManifest, At, Outside, session
<1>2. stage' \in Generation /\ stage'.db = stage.db /\ stage'.manifest = {}
    BY <1>1 DEF StoreInv, TypeOK, Generation
<1>3. TypeOK'
    BY <1>1, <1>2 DEF StoreInv, TypeOK, Location
<1>4. RebuildInv'
    BY <1>1 DEF RebuildInv
<1> QED
    BY <1>1, <1>2, <1>3, <1>4, StageAsItWas, RebuildStep DEF Opening

-----------------------------------------------------------------------------
(* The rebuilt generation takes the place of the old one *)

\* What remains to be shown of a step that changes the index or the files.
LEMMA StoreStep ==
    ASSUME StoreInv, TypeOK', AuthorityInv', ManifestInv', PlaceInv', BehindInv', RebuildInv', OneInv',
           NoticeInv', reader' = reader, tampers' = tampers,
           tampers = 0 => UntouchedInv' /\ \A d : Known(d) => Known(d)'
    PROVE  StoreInv'
<1>1. ASSUME tampers = 0 PROVE ReaderInv'
    <2>1. ReaderInv
        BY <1>1 DEF StoreInv
    <2> QED
        BY <2>1, <1>1, ReaderKept
<1> QED
    BY <1>1 DEF StoreInv

\* Nothing that a reader has seen is newer than an index of all files.
LEMMA BeforeAll ==
    ASSUME NEW d, Known(d), NEW e, e.files = authority, e.progress = authority
    PROVE  Before(d, e)
<1>1. d.files \subseteq authority /\ d.progress \subseteq d.files
    BY DEF Known, Complete
<1> QED
    BY <1>1 DEF Before

LEMMA PromoteStep ==
    ASSUME StoreInv, Promote
    PROVE  StoreInv'
<1>1. /\ pc = "promote" /\ pc' = "publish"
      /\ index' = [index EXCEPT !.db = stage.db] /\ stage' = [stage EXCEPT !.db = {}]
      /\ UNCHANGED << authority, op, handle, draft, left, result, answer, faults, leased, reader,
                      tampers, noticeable >>
    BY DEF Promote, At, Outside, session
<1>2. /\ index' \in Generation /\ index'.db = stage.db /\ index'.manifest = index.manifest
      /\ index'.hot = index.hot
      /\ stage' \in Generation /\ stage'.db = {} /\ stage'.manifest = stage.manifest
    BY <1>1 DEF StoreInv, TypeOK, Generation
<1>3. \A db \in stage.db : db.files = authority /\ Partial(db) /\ db.progress = authority
    BY <1>1 DEF StoreInv, RebuildInv
<1>4. \A db \in stage.db : Complete(db)
    BY <1>3 DEF Partial, Complete
<1>5. ~ noticeable /\ ~ handle.open /\ ~ handle.failed /\ ~ index.hot
    BY <1>1, RebuildPlace DEF Opening
<1>6. TypeOK'
    BY <1>1, <1>2 DEF StoreInv, TypeOK, Location
<1>7. AuthorityInv'
    BY <1>1 DEF StoreInv, AuthorityInv
<1>8. ManifestInv' /\ OneInv'
    BY <1>2 DEF StoreInv, ManifestInv, OneInv
<1>9. PlaceInv'
    BY <1>1, <1>2, <1>5 DEF StoreInv, PlaceInv, Opening, Serving, Entries
<1>10. BehindInv'
    <2>1. \A db \in index'.db : Settled(db)' /\ Acknowledging(db)' /\ Capturing(db)'
        BY <1>1, <1>5 DEF Settled, Acknowledging, Capturing
    <2> QED
        BY <2>1, <1>2, <1>4 DEF BehindInv
<1>11. RebuildInv'
    BY <1>1, <1>2, <1>3 DEF RebuildInv
<1>12. NoticeInv'
    BY <1>1, <1>5 DEF NoticeInv
<1>13. ASSUME tampers = 0 PROVE UntouchedInv' /\ \A d : Known(d) => Known(d)'
    <2>1. UntouchedInv
        BY <1>13 DEF StoreInv
    <2>2. SoundAuthority'
        BY <2>1, <1>1 DEF UntouchedInv, SoundAuthority
    <2>3. \A db \in index'.db : db.files \subseteq authority
        BY <1>2, <1>3
    <2>4. UntouchedInv'
        BY <2>1, <2>2, <2>3, <1>1, <1>2, <1>5 DEF UntouchedInv
    <2>5. ASSUME NEW d, Known(d) PROVE Known(d)'
        <3>1. \A e \in index'.db : Before(d, e)
            BY <2>5, <1>2, <1>3, BeforeAll
        <3>2. Complete(d) /\ d.files \subseteq authority'
            BY <2>5, <1>1 DEF Known
        <3> QED
            BY <3>1, <3>2 DEF Known
    <2> QED
        BY <2>4, <2>5
<1> QED
    BY <1>1, <1>6, <1>7, <1>8, <1>9, <1>10, <1>11, <1>12, <1>13, StoreStep

LEMMA PublishRebuiltStep ==
    ASSUME StoreInv, PublishRebuilt
    PROVE  StoreInv'
<1>1. /\ pc = "publish" /\ pc' = "tidy"
      /\ index' = [index EXCEPT !.manifest = Manifest(authority, index.db)]
      /\ UNCHANGED << authority, stage, op, handle, draft, left, result, answer, faults, leased, reader,
                      tampers, noticeable >>
    BY DEF PublishRebuilt, At, Outside, session
<1>2. PICK man : man = Manifest(authority, index.db)
    OBVIOUS
<1>3. authority \in SUBSET File /\ index.db \in SUBSET Database
    BY TypeFacts DEF StoreInv
<1>4. man \in SUBSET [files : SUBSET File, database : Database]
    BY <1>2, <1>3 DEF Manifest
<1>5. index' \in Generation /\ index'.db = index.db /\ index'.manifest = man /\ index'.hot = index.hot
    BY <1>1, <1>2, <1>4 DEF StoreInv, TypeOK, Generation
<1>6. \A db \in index.db : db.files = authority /\ Complete(db)
    BY <1>1 DEF StoreInv, RebuildInv, BehindInv
<1>7. \A m \in man : m.database \in index.db /\ m.files = authority
    BY <1>2, ManifestOf
<1>8. ~ noticeable /\ ~ handle.open /\ ~ handle.failed /\ ~ index.hot
    BY <1>1, RebuildPlace DEF Opening
<1>9. TypeOK'
    BY <1>1, <1>5 DEF StoreInv, TypeOK, Location
<1>10. AuthorityInv'
    BY <1>1 DEF StoreInv, AuthorityInv
<1>11. ManifestInv' /\ OneInv'
    BY <1>1, <1>5, <1>6, <1>7 DEF StoreInv, ManifestInv, OneInv
<1>12. PlaceInv'
    BY <1>1, <1>5, <1>8 DEF StoreInv, PlaceInv, Opening, Serving, Entries
<1>13. BehindInv'
    <2>1. \A db \in index.db : Settled(db)'
        BY <1>1, <1>8 DEF Settled
    <2> QED
        BY <2>1, <1>1, <1>5, BehindElsewhere DEF StoreInv
<1>14. RebuildInv' /\ NoticeInv'
    BY <1>1, <1>8 DEF RebuildInv, NoticeInv
<1>15. ASSUME tampers = 0 PROVE UntouchedInv' /\ \A d : Known(d) => Known(d)'
    <2>1. UntouchedInv
        BY <1>15 DEF StoreInv
    <2>2. SoundAuthority'
        BY <2>1, <1>1 DEF UntouchedInv, SoundAuthority
    <2>3. \A m \in index'.manifest : m.files \subseteq authority
        BY <1>5, <1>7
    <2>4. UntouchedInv'
        BY <2>1, <2>2, <2>3, <1>1, <1>5, <1>8 DEF UntouchedInv
    <2> QED
        BY <2>4, <1>1, <1>5, KnownKept
<1> QED
    BY <1>1, <1>9, <1>10, <1>11, <1>12, <1>13, <1>14, <1>15, StoreStep

-----------------------------------------------------------------------------
(* Serving *)

\* An open index at the beginning of an operation.
LEMMA ApplyPlace ==
    ASSUME StoreInv, pc = "apply"
    PROVE  /\ handle.open /\ ~ handle.failed /\ ~ noticeable
           /\ index.db # {} /\ ~ index.hot
           /\ \A db \in index.db : Complete(db) /\ db.files = authority
<1>1. handle.open /\ ~ handle.failed /\ index.db # {} /\ ~ index.hot
    BY DEF StoreInv, PlaceInv, Opening, Serving
<1>2. \A db \in index.db : Complete(db) /\ db.files = authority
    BY <1>1 DEF StoreInv, BehindInv, Settled
<1> QED
    BY <1>1, <1>2 DEF StoreInv, NoticeInv

LEMMA AnswerPendingStep ==
    ASSUME StoreInv, AnswerPending
    PROVE  StoreInv'
<1>1. /\ pc = "apply" /\ pc' = "ready" /\ op' = NoOp
      /\ UNCHANGED << authority, index, stage, handle, draft, left, result, faults, leased, reader,
                      tampers, noticeable >>
    BY DEF AnswerPending, Finish, Outside
<1>2. answer' \in SUBSET Record
    <2>1. PICK db \in index.db : answer' = db.pending
        BY DEF AnswerPending
    <2>2. db \in Database
        BY TypeFacts DEF StoreInv
    <2> QED
        BY <2>1, <2>2 DEF Database
<1>3. TypeOK'
    BY <1>1, <1>2, RestTypes DEF StoreInv, TypeOK, Location
<1>4. tampers = 0 => result' # "invalid"
    BY <1>1 DEF StoreInv, UntouchedInv
<1> QED
    BY <1>1, <1>3, <1>4, ApplyPlace, ReadyStep

LEMMA FilterConfirmedStep ==
    ASSUME StoreInv, FilterConfirmed
    PROVE  StoreInv'
<1>1. /\ pc = "apply" /\ op.kind = "acknowledge"
      /\ UNCHANGED << authority, index, stage, handle, answer, faults, leased, reader, tampers, noticeable >>
    BY DEF FilterConfirmed, Outside
<1>2. /\ handle.open /\ ~ handle.failed /\ ~ noticeable /\ index.db # {} /\ ~ index.hot
      /\ \A db \in index.db : Complete(db) /\ db.files = authority
    BY <1>1, ApplyPlace
<1>30. PICK db \in index.db :
          LET confirmed == (op.holds \cap db.records) \ db.acknowledgements
          IN  IF confirmed = {} THEN Finish
              ELSE /\ pc' = "receipts"
                   /\ op' = [op EXCEPT !.holds = confirmed, !.left = confirmed]
                   /\ UNCHANGED << draft, left, result >>
    BY DEF FilterConfirmed
<1>3. PICK confirmed :
          /\ confirmed = (op.holds \cap db.records) \ db.acknowledgements
          /\ IF confirmed = {} THEN Finish
             ELSE /\ pc' = "receipts"
                  /\ op' = [op EXCEPT !.holds = confirmed, !.left = confirmed]
                  /\ UNCHANGED << draft, left, result >>
    BY <1>30
<1>4. tampers = 0 => result # "invalid"
    BY DEF StoreInv, UntouchedInv
<1>5. CASE confirmed = {}
    <2>1. pc' = "ready" /\ op' = NoOp /\ UNCHANGED << draft, left, result >>
        BY <1>3, <1>5 DEF Finish
    <2>2. TypeOK'
        BY <1>1, <2>1, RestTypes DEF StoreInv, TypeOK, Location
    <2> QED
        BY <2>1, <2>2, <1>1, <1>2, <1>4, ReadyStep
<1>6. CASE confirmed # {}
    <2>1. /\ pc' = "receipts" /\ op' = [op EXCEPT !.holds = confirmed, !.left = confirmed]
          /\ UNCHANGED << draft, left, result >>
        BY <1>3, <1>6
    <2>2. confirmed \in SUBSET Record
        BY <1>3, TypeFacts DEF StoreInv
    <2>3. /\ op' \in [kind : {"none", "entry", "control", "acknowledge", "pending"},
                      holds : SUBSET Record, left : SUBSET Record]
          /\ op'.kind = "acknowledge" /\ op'.holds = confirmed /\ op'.left = confirmed
        BY <1>1, <2>1, <2>2 DEF StoreInv, TypeOK
    <2>4. TypeOK'
        BY <1>1, <2>1, <2>3 DEF StoreInv, TypeOK, Location
    <2>5. PlaceInv'
        BY <1>1, <1>2, <2>1, <2>3 DEF PlaceInv, Opening, Serving
    <2>6. ASSUME NEW d \in index.db
          PROVE  Complete(d) /\ Settled(d)' /\ Acknowledging(d)' /\ Capturing(d)'
        <3>1. Complete(d) /\ d.files = authority /\ d = db
            BY <1>2 DEF StoreInv, OneInv
        <3>2. authority \ d.files = {}
            BY <3>1
        <3>3. Receipts({}, {})
            BY HoldsNone DEF Receipts, Receipted
        <3>4. Receipts(authority' \ d.files, op'.holds \ op'.left)
            BY <3>2, <3>3, <1>1, <2>3
        <3>5. confirmed \subseteq d.records /\ confirmed \cap d.acknowledgements = {}
            BY <3>1, <1>3
        <3>6. Acknowledging(d)'
            BY <3>1, <3>4, <3>5, <1>1, <1>6, <2>1, <2>3 DEF Acknowledging
        <3> QED
            BY <3>1, <3>6, <2>1 DEF Settled, Capturing
    <2>7. BehindInv'
        BY <2>6, <1>1 DEF BehindInv
    <2>8. RebuildInv'
        BY <2>1 DEF RebuildInv
    <2> QED
        BY <2>1, <2>4, <2>5, <2>7, <2>8, <1>1, <1>2, <1>4, QuietStep
<1> QED
    BY <1>5, <1>6

\* An operation fails: the file may be there or not, the handle serves no more.
LEMMA MutationFailsStep ==
    ASSUME StoreInv, NEW more, MutationFails(more), pc \in Serving, faults' \in Nat,
           authority' \in SUBSET File, AuthorityInv',
           authority \subseteq authority', tampers = 0 => SoundAuthority'
    PROVE  StoreInv'
<1>1. /\ pc' = "ready" /\ Refuse("failed") /\ handle' = [handle EXCEPT !.failed = TRUE]
      /\ UNCHANGED << index, stage, answer, leased, reader, tampers, noticeable >>
    BY DEF MutationFails, Outside
<1>2. handle.open /\ ~ noticeable /\ index.db # {} /\ ~ index.hot
    BY DEF StoreInv, PlaceInv, NoticeInv, Serving
<1>3. handle'.open /\ handle'.failed
    BY <1>1, <1>2 DEF StoreInv, TypeOK
<1>4. TypeOK'
    BY <1>1, RestTypes DEF StoreInv, TypeOK, Location, Refuse
<1>5. ManifestInv' /\ OneInv'
    BY <1>1 DEF StoreInv, ManifestInv, OneInv
<1>6. PlaceInv'
    BY <1>1, <1>2 DEF PlaceInv, Opening, Serving
<1>7. BehindInv'
    <2>1. \A db \in index.db : Settled(db)'
        BY <1>3 DEF Settled
    <2> QED
        BY <2>1, <1>1, BehindElsewhere DEF StoreInv
<1>8. RebuildInv' /\ NoticeInv'
    BY <1>1, <1>2 DEF RebuildInv, NoticeInv
<1>9. ASSUME tampers = 0 PROVE UntouchedInv' /\ \A d : Known(d) => Known(d)'
    <2>1. UntouchedInv
        BY <1>9 DEF StoreInv
    <2>2. result' = "failed"
        BY <1>1 DEF Refuse
    <2>3. \A m \in index.manifest \cup stage.manifest : m.files \subseteq authority'
        BY <2>1 DEF UntouchedInv
    <2>4. \A db \in index.db : db.files \subseteq authority'
        BY <2>1 DEF UntouchedInv
    <2>5. \A m \in index.manifest, db \in index.db : m.files \subseteq db.files
        BY <2>1, <1>2 DEF UntouchedInv
    <2>6. UntouchedInv'
        BY <2>2, <2>3, <2>4, <2>5, <1>1, <1>2, <1>9 DEF UntouchedInv
    <2> QED
        BY <2>6, <1>1, KnownKept
<1> QED
    BY <1>1, <1>4, <1>5, <1>6, <1>7, <1>8, <1>9, StoreStep

LEMMA UpdateFailsStep ==
    ASSUME StoreInv, UpdateFails
    PROVE  StoreInv'
<1>1. pc = "index" /\ MutationFails(authority) /\ faults' \in Nat
    BY FaultType DEF UpdateFails, StoreInv, TypeOK
<1>2. authority' = authority
    BY <1>1 DEF MutationFails
<1>3. authority' \in SUBSET File /\ AuthorityInv'
    BY <1>2 DEF StoreInv, TypeOK, AuthorityInv
<1>4. tampers = 0 => SoundAuthority'
    BY <1>2 DEF StoreInv, UntouchedInv, SoundAuthority
<1> QED
    BY <1>1, <1>2, <1>3, <1>4, MutationFailsStep DEF Serving

\* The file of an operation has a path of its own: its sequence is the next one.
LEMMA OwnFileFacts ==
    ASSUME StoreInv, pc = "apply", op.kind \in {"entry", "control"}, NEW db \in index.db,
           NEW f, f = OwnFile(db)
    PROVE  /\ f \in File /\ f.holds = op.holds /\ SamePath(f, f)
           /\ op.kind = "entry" =>
                  /\ f.kind = "journal" /\ f.seq = Cardinality(Entries(authority)) + 1
                  /\ f.seq \in 1 .. MaxEntries /\ f \notin authority
                  /\ \A g \in authority : ~ SamePath(f, g) /\ ~ SamePath(g, f)
                  /\ {g.seq : g \in Entries(authority)} = 1 .. Cardinality(Entries(authority))
           /\ op.kind = "control" => f.kind = "control"
<1>1. db.journal = Entries(authority) /\ {g.seq : g \in db.journal} = 1 .. Cardinality(db.journal)
    <2>1. Complete(db) /\ db.files = authority
        BY ApplyPlace
    <2> QED
        BY <2>1 DEF Complete, Reflects
<1>2. PICK n \in Nat : n = Cardinality(Entries(authority))
    <2>1. Entries(authority) \subseteq authority
        BY DEF Entries
    <2> QED
        BY <2>1, AuthorityFinite
<1>3. op.holds \in SUBSET Record
    BY TypeFacts DEF StoreInv
<1>4. CASE op.kind = "entry"
    <2>1. f = [kind |-> "journal", seq |-> n + 1, holds |-> op.holds, stamp |-> 0]
        BY <1>1, <1>2, <1>4 DEF OwnFile, NewFile
    <2>2. f \in File /\ f.kind = "journal" /\ f.seq = n + 1 /\ f.holds = op.holds
        BY <2>1, <1>2, <1>3 DEF File
    <2>3. n < MaxEntries
        BY <1>2, <1>4 DEF StoreInv, PlaceInv, Opening
    <2>4. f.seq \in 1 .. MaxEntries
        BY <2>2, <2>3, <1>2, StoreAssumption
    <2>5. ASSUME NEW g \in authority, g.kind = "journal" PROVE g.seq # f.seq
        <3>1. g \in db.journal
            BY <2>5, <1>1 DEF Entries
        <3>2. g.seq \in 1 .. n
            BY <3>1, <1>1, <1>2
        <3> QED
            BY <3>2, <2>2
    <2>6. f \notin authority
        BY <2>2, <2>5
    <2>7. \A g \in authority : ~ SamePath(f, g) /\ ~ SamePath(g, f)
        BY <2>2, <2>5 DEF SamePath
    <2>8. SamePath(f, f)
        BY DEF SamePath
    <2> QED
        BY <2>2, <2>4, <2>6, <2>7, <2>8, <1>1, <1>2, <1>4
<1>5. CASE op.kind = "control"
    <2>1. f = [kind |-> "control", seq |-> 0, holds |-> op.holds, stamp |-> 0]
        BY <1>5 DEF OwnFile, NewFile
    <2>2. f \in File /\ f.kind = "control" /\ f.holds = op.holds
        BY <2>1, <1>3 DEF File
    <2>3. SamePath(f, f)
        BY DEF SamePath
    <2> QED
        BY <2>2, <2>3, <1>5
<1> QED
    BY <1>4, <1>5

\* Files that are published keep the sequences of the journal whole.
LEMMA OwnFileAdded ==
    ASSUME StoreInv, pc = "apply", op.kind \in {"entry", "control"}, NEW db \in index.db,
           authority' = authority \cup {OwnFile(db)}
    PROVE  /\ authority' \in SUBSET File /\ authority \subseteq authority'
           /\ AuthorityInv' /\ (tampers = 0 => SoundAuthority')
<1>1. PICK f : f = OwnFile(db)
    OBVIOUS
<1>2. /\ f \in File /\ f.holds = op.holds
      /\ op.kind = "entry" =>
             /\ f.kind = "journal" /\ f.seq = Cardinality(Entries(authority)) + 1
             /\ f.seq \in 1 .. MaxEntries /\ f \notin authority
             /\ \A g \in authority : ~ SamePath(f, g) /\ ~ SamePath(g, f)
             /\ {g.seq : g \in Entries(authority)} = 1 .. Cardinality(Entries(authority))
      /\ op.kind = "control" => f.kind = "control"
    BY <1>1, OwnFileFacts
<1>3. authority' = authority \cup {f} /\ authority' \in SUBSET File
    BY <1>1, <1>2, TypeFacts DEF StoreInv
<1>4. AuthorityInv'
    <2>1. IsFiniteSet(authority')
        BY <1>3, AuthorityFinite, FS_AddElement
    <2>2. \A g \in authority : g.kind = "journal" => g.seq \in 1 .. MaxEntries
        BY DEF StoreInv, AuthorityInv
    <2>3. \A g \in authority' : g.kind = "journal" => g.seq \in 1 .. MaxEntries
        BY <2>2, <1>2, <1>3
    <2>4. \A g, h \in authority : g.kind = "journal" /\ SamePath(g, h) => g = h
        BY DEF StoreInv, AuthorityInv
    <2>5. ASSUME NEW g \in authority', NEW h \in authority', g.kind = "journal", SamePath(g, h)
          PROVE  g = h
        <3>1. g.kind = h.kind
            BY <2>5 DEF SamePath
        <3>2. CASE g \in authority /\ h \in authority
            BY <2>4, <2>5, <3>2
        <3>3. CASE g = f /\ h \in authority
            <4>1. op.kind = "entry"
                BY <3>3, <2>5, <1>2
            <4> QED
                BY <4>1, <3>3, <2>5, <1>2
        <3>4. CASE g \in authority /\ h = f
            <4>1. op.kind = "entry"
                BY <3>1, <3>4, <2>5, <1>2
            <4> QED
                BY <4>1, <3>4, <2>5, <1>2
        <3> QED
            BY <3>2, <3>3, <3>4, <1>3
    <2> QED
        BY <2>1, <2>3, <2>5 DEF AuthorityInv
<1>5. ASSUME tampers = 0 PROVE SoundAuthority'
    <2>1. SoundAuthority
        BY <1>5 DEF StoreInv, UntouchedInv
    <2>2. f.kind \in {"journal", "control"} /\ f.kind # "receipt"
        BY <1>2
    <2>3. Captured(authority) \subseteq Captured(authority')
        BY <1>3, HoldsGrows DEF Captured
    <2>4. Receipted(authority') = Receipted(authority)
        BY <2>2, <1>3 DEF Receipted, Holds
    <2>5. PICK n \in Nat : n = Cardinality(Entries(authority))
        <3>1. Entries(authority) \subseteq authority
            BY DEF Entries
        <3> QED
            BY <3>1, AuthorityFinite
    <2>6. CASE op.kind = "entry"
        <3>1. Entries(authority') = Entries(authority) \cup {f}
            BY <1>2, <1>3, <2>6 DEF Entries
        <3>2. IsFiniteSet(Entries(authority)) /\ f \notin Entries(authority)
            <4>1. Entries(authority) \subseteq authority
                BY DEF Entries
            <4> QED
                BY <4>1, <1>2, <2>6, AuthorityFinite
        <3>3. Cardinality(Entries(authority')) = n + 1
            BY <3>1, <3>2, <2>5, FS_AddElement
        <3>4. {g.seq : g \in Entries(authority')} = {g.seq : g \in Entries(authority)} \cup {f.seq}
            BY <3>1
        <3>5. {g.seq : g \in Entries(authority)} = 1 .. n /\ f.seq = n + 1
            BY <1>2, <2>5, <2>6
        <3>6. 1 .. (n + 1) = (1 .. n) \cup {n + 1}
            BY <2>5
        <3>7. {g.seq : g \in Entries(authority')} = 1 .. Cardinality(Entries(authority'))
            BY <3>3, <3>4, <3>5, <3>6
        <3> QED
            BY <3>7, <2>1, <2>3, <2>4 DEF SoundAuthority
    <2>7. CASE op.kind = "control"
        <3>1. Entries(authority') = Entries(authority)
            BY <1>2, <1>3, <2>7 DEF Entries
        <3> QED
            BY <3>1, <2>1, <2>3, <2>4 DEF SoundAuthority
    <2> QED
        BY <2>6, <2>7
<1> QED
    BY <1>3, <1>4, <1>5

LEMMA PublishFileStep ==
    ASSUME StoreInv, PublishFile
    PROVE  StoreInv'
<1>1. pc = "apply" /\ op.kind \in {"entry", "control"}
    BY DEF PublishFile
<1>2. PICK db \in index.db :
        \/ /\ ~\E f \in authority : SamePath(f, OwnFile(db))
           /\ authority' = authority \cup {OwnFile(db)}
           /\ pc' = "index"
           /\ UNCHANGED << index, stage, session, answer, faults, Outside >>
        \/ /\ \E f \in authority : SamePath(f, OwnFile(db))
           /\ MutationFails(authority) /\ UNCHANGED faults
        \/ Fault /\ MutationFails(authority \cup {OwnFile(db)})
    BY DEF PublishFile
<1>3. /\ handle.open /\ ~ handle.failed /\ ~ noticeable /\ index.db # {} /\ ~ index.hot
      /\ \A d \in index.db : Complete(d) /\ d.files = authority
    BY <1>1, ApplyPlace
<1>4. ASSUME authority' = authority
      PROVE  /\ authority' \in SUBSET File /\ authority \subseteq authority'
             /\ AuthorityInv' /\ (tampers = 0 => SoundAuthority')
    BY <1>4, TypeFacts DEF StoreInv, AuthorityInv, UntouchedInv, SoundAuthority
<1>5. CASE /\ ~\E f \in authority : SamePath(f, OwnFile(db))
           /\ authority' = authority \cup {OwnFile(db)}
           /\ pc' = "index"
           /\ UNCHANGED << index, stage, session, answer, faults, Outside >>
    <2>1. UNCHANGED << index, stage, op, handle, draft, left, result, answer, faults, leased, reader,
                       tampers, noticeable >>
        BY <1>5 DEF session, Outside
    <2>2. /\ authority' \in SUBSET File /\ authority \subseteq authority'
          /\ AuthorityInv' /\ (tampers = 0 => SoundAuthority')
        BY <1>1, <1>5, OwnFileAdded
    <2>3. OwnFile(db) \notin authority
        BY <1>1, <1>5, OwnFileFacts
    <2>4. TypeOK'
        BY <2>1, <2>2, <1>5 DEF StoreInv, TypeOK, Location
    <2>5. ManifestInv' /\ OneInv'
        BY <2>1 DEF StoreInv, ManifestInv, OneInv
    <2>6. PlaceInv'
        BY <2>1, <1>3, <1>5 DEF PlaceInv, Opening, Serving
    <2>7. ASSUME NEW d \in index.db
          PROVE  Complete(d) /\ Settled(d)' /\ Acknowledging(d)' /\ Capturing(d)'
        <3>1. Complete(d) /\ d.files = authority /\ d = db
            BY <1>3 DEF StoreInv, OneInv
        <3>2. OwnFile(d)' = OwnFile(db)
            BY <3>1, <2>1 DEF OwnFile
        <3>3. Capturing(d)'
            BY <3>1, <3>2, <2>1, <2>3, <1>1, <1>5 DEF Capturing
        <3> QED
            BY <3>1, <3>3, <2>1, <1>1, <1>5 DEF Settled, Acknowledging
    <2>8. BehindInv'
        BY <2>1, <2>7 DEF BehindInv
    <2>9. RebuildInv' /\ NoticeInv'
        BY <2>1, <1>3, <1>5 DEF RebuildInv, NoticeInv
    <2>10. ASSUME tampers = 0 PROVE UntouchedInv' /\ \A d : Known(d) => Known(d)'
        <3>1. UntouchedInv
            BY <2>10 DEF StoreInv
        <3>2. UntouchedInv'
            BY <3>1, <2>1, <2>2, <2>10, <1>3 DEF UntouchedInv
        <3> QED
            BY <3>2, <2>1, <2>2, KnownKept
    <2> QED
        BY <2>1, <2>2, <2>4, <2>5, <2>6, <2>8, <2>9, <2>10, StoreStep
<1>6. CASE /\ \E f \in authority : SamePath(f, OwnFile(db))
           /\ MutationFails(authority) /\ UNCHANGED faults
    <2>1. authority' = authority /\ faults' \in Nat
        BY <1>6 DEF MutationFails, StoreInv, TypeOK
    <2> QED
        BY <2>1, <1>1, <1>4, <1>6, MutationFailsStep DEF Serving
<1>7. CASE Fault /\ MutationFails(authority \cup {OwnFile(db)})
    <2>1. authority' = authority \/ authority' = authority \cup {OwnFile(db)}
        BY <1>7 DEF MutationFails
    <2>2. /\ authority' \in SUBSET File /\ authority \subseteq authority'
          /\ AuthorityInv' /\ (tampers = 0 => SoundAuthority')
        BY <2>1, <1>1, <1>4, OwnFileAdded
    <2> QED
        BY <2>2, <1>1, <1>7, FaultType, MutationFailsStep DEF Serving
<1> QED
    BY <1>2, <1>5, <1>6, <1>7

\* One more receipt of records that are known.
LEMMA ReceiptAdded ==
    ASSUME StoreInv, pc = "receipts", NEW hashes \in SUBSET op.left,
           authority' = authority \cup {NewFile("receipt", 0, hashes)}
    PROVE  /\ authority' \in SUBSET File /\ authority \subseteq authority'
           /\ AuthorityInv' /\ (tampers = 0 => SoundAuthority')
<1>1. PICK f : f = NewFile("receipt", 0, hashes)
    OBVIOUS
<1>2. hashes \in SUBSET Record
    BY TypeFacts DEF StoreInv
<1>3. f \in File /\ f.kind = "receipt" /\ f.holds = hashes
    BY <1>1, <1>2 DEF NewFile, File
<1>4. authority' = authority \cup {f} /\ authority' \in SUBSET File
    BY <1>1, <1>3, TypeFacts DEF StoreInv
<1>5. AuthorityInv'
    <2>1. IsFiniteSet(authority')
        BY <1>4, AuthorityFinite, FS_AddElement
    <2>2. /\ \A g \in authority : g.kind = "journal" => g.seq \in 1 .. MaxEntries
          /\ \A g, h \in authority : g.kind = "journal" /\ SamePath(g, h) => g = h
        BY DEF StoreInv, AuthorityInv
    <2>3. \A g \in authority' : g.kind = "journal" => g \in authority
        BY <1>3, <1>4
    <2>4. \A g, h \in authority' : g.kind = "journal" /\ SamePath(g, h) => g \in authority /\ h \in authority
        BY <2>3 DEF SamePath
    <2> QED
        BY <2>1, <2>2, <2>3, <2>4 DEF AuthorityInv
<1>6. ASSUME tampers = 0 PROVE SoundAuthority'
    <2>1. SoundAuthority
        BY <1>6 DEF StoreInv, UntouchedInv
    <2>2. Entries(authority') = Entries(authority)
        BY <1>3, <1>4 DEF Entries
    <2>3. Captured(authority) \subseteq Captured(authority')
        BY <1>4, HoldsGrows DEF Captured
    <2>4. Receipted(authority') = Receipted(authority) \cup hashes
        BY <1>3, <1>4 DEF Receipted, Holds
    <2>5. hashes \subseteq Captured(authority)
        <3>1. index.db # {}
            BY DEF StoreInv, PlaceInv, Serving
        <3>2. PICK db \in index.db : TRUE
            BY <3>1
        <3>3. op.left \subseteq op.holds /\ op.holds \subseteq db.records /\ db.files \subseteq authority
            BY DEF StoreInv, BehindInv, Acknowledging
        <3>4. db.records = Captured(db.files)
            BY DEF StoreInv, BehindInv, Complete, Reflects
        <3>5. Captured(db.files) \subseteq Captured(authority)
            BY <3>3, HoldsGrows DEF Captured
        <3> QED
            BY <3>3, <3>4, <3>5
    <2> QED
        BY <2>1, <2>2, <2>3, <2>4, <2>5 DEF SoundAuthority
<1> QED
    BY <1>4, <1>5, <1>6

LEMMA PublishReceiptsStep ==
    ASSUME StoreInv, PublishReceipts
    PROVE  StoreInv'
<1>1. pc = "receipts"
    BY DEF PublishReceipts
<1>2. PICK hashes \in Chunk \ {{}} :
        \/ /\ authority' = authority \cup {NewFile("receipt", 0, hashes)}
           /\ op' = [op EXCEPT !.left = @ \ hashes]
           /\ pc' = IF hashes = op.left THEN "index" ELSE "receipts"
           /\ UNCHANGED << index, stage, handle, draft, left, result, answer, faults, Outside >>
        \/ Fault /\ MutationFails(authority \cup {NewFile("receipt", 0, hashes)})
    BY DEF PublishReceipts
<1>3. hashes \in SUBSET op.left /\ hashes # {}
    BY DEF Chunk
<1>4. handle.open /\ ~ handle.failed /\ ~ noticeable /\ index.db # {} /\ ~ index.hot
    BY <1>1 DEF StoreInv, PlaceInv, NoticeInv, Serving
<1>5. CASE /\ authority' = authority \cup {NewFile("receipt", 0, hashes)}
           /\ op' = [op EXCEPT !.left = @ \ hashes]
           /\ pc' = IF hashes = op.left THEN "index" ELSE "receipts"
           /\ UNCHANGED << index, stage, handle, draft, left, result, answer, faults, Outside >>
    <2>1. UNCHANGED << index, stage, handle, draft, left, result, answer, faults, leased, reader,
                       tampers, noticeable >>
        BY <1>5 DEF Outside
    <2>2. /\ authority' \in SUBSET File /\ authority \subseteq authority'
          /\ AuthorityInv' /\ (tampers = 0 => SoundAuthority')
        BY <1>1, <1>3, <1>5, ReceiptAdded
    <2>3. /\ op' \in [kind : {"none", "entry", "control", "acknowledge", "pending"},
                      holds : SUBSET Record, left : SUBSET Record]
          /\ op'.kind = op.kind /\ op'.holds = op.holds /\ op'.left = op.left \ hashes
        BY <1>5 DEF StoreInv, TypeOK
    <2>4. pc' \in {"index", "receipts"} /\ (pc' = "index" <=> op'.left = {})
        BY <1>3, <1>5, <2>3
    <2>5. TypeOK'
        BY <2>1, <2>2, <2>3, <2>4 DEF StoreInv, TypeOK, Location
    <2>6. ManifestInv' /\ OneInv'
        BY <2>1 DEF StoreInv, ManifestInv, OneInv
    <2>7. PlaceInv'
        BY <2>1, <2>4, <1>4 DEF PlaceInv, Opening, Serving
    <2>8. ASSUME NEW d \in index.db
          PROVE  Complete(d) /\ Settled(d)' /\ Acknowledging(d)' /\ Capturing(d)'
        <3>1. /\ Complete(d) /\ op.kind = "acknowledge" /\ op.holds # {} /\ op.left \subseteq op.holds
              /\ op.holds \subseteq d.records /\ op.holds \cap d.acknowledgements = {}
              /\ d.files \subseteq authority
              /\ Receipts(authority \ d.files, op.holds \ op.left)
            BY <1>1 DEF StoreInv, BehindInv, Acknowledging
        <3>2. PICK f : f = NewFile("receipt", 0, hashes)
            OBVIOUS
        <3>3. f.kind = "receipt" /\ f.holds = hashes
            BY <3>2 DEF NewFile
        <3>4. f \notin d.files
            <4>1. SUFFICES ASSUME f \in d.files PROVE FALSE
                OBVIOUS
            <4>2. hashes \subseteq Receipted(d.files)
                BY <4>1, <3>3 DEF Receipted, Holds
            <4>3. d.acknowledgements = Receipted(d.files)
                BY <3>1 DEF Complete, Reflects
            <4> QED
                BY <4>2, <4>3, <3>1, <1>3
        <3>5. authority' \ d.files = (authority \ d.files) \cup {f}
            BY <3>2, <3>4, <1>5
        <3>6. Receipts((authority \ d.files) \cup {f}, (op.holds \ op.left) \cup hashes)
            BY <3>1, <3>3 DEF Receipts, Receipted, Holds
        <3>7. (op.holds \ op.left) \cup hashes = op.holds \ (op.left \ hashes)
            BY <3>1, <1>3
        <3>8. Receipts(authority' \ d.files, op'.holds \ op'.left)
            BY <3>5, <3>6, <3>7, <2>3
        <3>9. Acknowledging(d)'
            BY <3>1, <3>8, <2>2, <2>3, <2>4 DEF Acknowledging
        <3> QED
            BY <3>1, <3>9, <2>3, <2>4 DEF Settled, Capturing
    <2>9. BehindInv'
        BY <2>1, <2>8 DEF BehindInv
    <2>10. RebuildInv' /\ NoticeInv'
        BY <2>1, <2>4, <1>4 DEF RebuildInv, NoticeInv
    <2>11. ASSUME tampers = 0 PROVE UntouchedInv' /\ \A d : Known(d) => Known(d)'
        <3>1. UntouchedInv
            BY <2>11 DEF StoreInv
        <3>2. UntouchedInv'
            BY <3>1, <2>1, <2>2, <2>11, <1>4 DEF UntouchedInv
        <3> QED
            BY <3>2, <2>1, <2>2, KnownKept
    <2> QED
        BY <2>1, <2>2, <2>5, <2>6, <2>7, <2>9, <2>10, <2>11, StoreStep
<1>6. CASE Fault /\ MutationFails(authority \cup {NewFile("receipt", 0, hashes)})
    <2>1. authority' = authority \/ authority' = authority \cup {NewFile("receipt", 0, hashes)}
        BY <1>6 DEF MutationFails
    <2>2. CASE authority' = authority
        <3>1. authority' \in SUBSET File /\ AuthorityInv' /\ (tampers = 0 => SoundAuthority')
            BY <2>2, TypeFacts DEF StoreInv, AuthorityInv, UntouchedInv, SoundAuthority
        <3> QED
            BY <3>1, <2>2, <1>1, <1>6, FaultType, MutationFailsStep DEF Serving
    <2>3. CASE authority' = authority \cup {NewFile("receipt", 0, hashes)}
        <3>1. /\ authority' \in SUBSET File /\ authority \subseteq authority'
              /\ AuthorityInv' /\ (tampers = 0 => SoundAuthority')
            BY <2>3, <1>1, <1>3, ReceiptAdded
        <3> QED
            BY <3>1, <1>1, <1>6, FaultType, MutationFailsStep DEF Serving
    <2> QED
        BY <2>1, <2>2, <2>3
<1> QED
    BY <1>2, <1>5, <1>6

-----------------------------------------------------------------------------
(* The index follows the files *)

\* After its transaction the index is one of all files, and a newer one.
LEMMA IndexedFacts ==
    ASSUME StoreInv, pc = "index", NEW db \in index.db
    PROVE  /\ Indexed(db) \in Database /\ Complete(Indexed(db)) /\ Indexed(db).files = authority
           /\ db.files \subseteq authority /\ db.files # authority
<1>1. authority \in SUBSET File /\ db \in Database /\ op.holds \in SUBSET Record
    BY TypeFacts DEF StoreInv
<1>2. Reflects(db, db.files) /\ db.progress \subseteq db.files
    BY DEF StoreInv, BehindInv, Complete
<1>3. db.files \in SUBSET File
    BY <1>1 DEF Database
<1>4. ASSUME NEW new \in Database, Reflects(new, authority), new.files = db.files,
             new.progress = db.progress, NEW more, db.files \cup more = authority,
             Indexed(db) = [new EXCEPT !.files = @ \cup more]
      PROVE  Indexed(db) \in Database /\ Complete(Indexed(db)) /\ Indexed(db).files = authority
    <2>1. PICK ind : ind = [new EXCEPT !.files = authority]
        OBVIOUS
    <2>2. Indexed(db) = ind
        BY <2>1, <1>4 DEF Database
    <2>3. /\ ind \in Database /\ ind.files = authority /\ ind.progress = db.progress
          /\ ind.journal = new.journal /\ ind.records = new.records /\ ind.controls = new.controls
          /\ ind.acknowledgements = new.acknowledgements /\ ind.pending = new.pending
          /\ ind.pendingUnits = new.pendingUnits
        BY <2>1, <1>1, <1>4 DEF Database
    <2>4. Reflects(ind, authority)
        BY <2>3, <1>4 DEF Reflects
    <2>5. db.progress \subseteq authority
        BY <1>2, <1>4
    <2> QED
        BY <2>2, <2>3, <2>4, <2>5 DEF Complete
<1>5. CASE op.kind = "acknowledge"
    <2>1. /\ op.holds # {} /\ op.left = {} /\ op.holds \subseteq db.records
          /\ op.holds \cap db.acknowledgements = {} /\ db.files \subseteq authority
          /\ Receipts(authority \ db.files, op.holds \ op.left)
        BY <1>5 DEF StoreInv, BehindInv, Acknowledging
    <2>2. PICK more : more = authority \ db.files
        OBVIOUS
    <2>3. Receipts(more, op.holds) /\ more \in SUBSET File
        BY <2>1, <2>2, <1>1
    <2>4. db.files \cup more = authority /\ db.files \cup authority = authority
        BY <2>1, <2>2
    <2>5. /\ AddAcknowledgements(db, op.holds) \in Database
          /\ Reflects(AddAcknowledgements(db, op.holds), db.files \cup more)
          /\ AddAcknowledgements(db, op.holds).files = db.files
          /\ AddAcknowledgements(db, op.holds).progress = db.progress
        BY <2>1, <2>3, <1>1, <1>2, <1>3, ReceiptsReflect
    <2>6. Indexed(db) = [AddAcknowledgements(db, op.holds) EXCEPT !.files = @ \cup authority]
        BY <1>5 DEF Indexed
    <2>7. more # {}
        <3>1. Receipted(more) = op.holds
            BY <2>3 DEF Receipts
        <3>2. Receipted({}) = {}
            BY HoldsNone DEF Receipted
        <3> QED
            BY <3>1, <3>2, <2>1
    <2>8. db.files # authority
        BY <2>2, <2>7
    <2>9. Indexed(db) \in Database /\ Complete(Indexed(db)) /\ Indexed(db).files = authority
        BY <2>4, <2>5, <2>6, <1>4
    <2> QED
        BY <2>1, <2>8, <2>9
<1>6. CASE op.kind # "acknowledge"
    <2>1. PICK f : f = OwnFile(db)
        OBVIOUS
    <2>2. op.kind \in {"entry", "control"} /\ f \notin db.files /\ authority = db.files \cup {f}
        BY <2>1, <1>6 DEF StoreInv, BehindInv, Capturing
    <2>3. f \in File
        BY <2>2, <1>1
    <2>4. CASE op.kind = "entry"
        <3>1. f.kind = "journal" /\ f.seq = Cardinality(db.journal) + 1
            BY <2>1, <2>4 DEF OwnFile, NewFile
        <3>2. IsFiniteSet(Entries(db.files))
            <4>1. Entries(db.files) \subseteq authority
                BY <2>2 DEF Entries
            <4> QED
                BY <4>1, AuthorityFinite
        <3>3. /\ AddEntry(db, f) \in Database /\ Reflects(AddEntry(db, f), db.files \cup {f})
              /\ AddEntry(db, f).files = db.files /\ AddEntry(db, f).progress = db.progress
            BY <3>1, <3>2, <2>3, <1>1, <1>2, <1>3, EntryReflects
        <3>4. Indexed(db) = [AddEntry(db, f) EXCEPT !.files = @ \cup {f}]
            BY <2>1, <2>4 DEF Indexed
        <3>5. Indexed(db) \in Database /\ Complete(Indexed(db)) /\ Indexed(db).files = authority
            BY <3>3, <3>4, <2>2, <1>4
        <3> QED
            BY <3>5, <2>2
    <2>5. CASE op.kind = "control"
        <3>1. f.kind = "control"
            BY <2>1, <2>5 DEF OwnFile, NewFile
        <3>2. /\ AddControl(db, f) \in Database /\ Reflects(AddControl(db, f), db.files \cup {f})
              /\ AddControl(db, f).files = db.files /\ AddControl(db, f).progress = db.progress
            BY <3>1, <2>3, <1>1, <1>2, <1>3, ControlReflects
        <3>3. Indexed(db) = [AddControl(db, f) EXCEPT !.files = @ \cup {f}]
            BY <2>1, <2>5 DEF Indexed
        <3>4. Indexed(db) \in Database /\ Complete(Indexed(db)) /\ Indexed(db).files = authority
            BY <3>2, <3>3, <2>2, <1>4
        <3> QED
            BY <3>4, <2>2
    <2> QED
        BY <2>2, <2>4, <2>5
<1> QED
    BY <1>5, <1>6

LEMMA IndexStep ==
    ASSUME StoreInv, pc = "index", index' = [index EXCEPT !.db = {Indexed(db) : db \in @}],
           pc' = "ready", handle'.open, TypeOK',
           UNCHANGED << authority, stage, reader, tampers, noticeable >>,
           tampers = 0 => result' # "invalid"
    PROVE  StoreInv'
<1>1. PICK dbs : dbs = {Indexed(db) : db \in index.db}
    OBVIOUS
<1>2. index'.db = dbs /\ index'.manifest = index.manifest /\ index'.hot = index.hot
    BY <1>1 DEF StoreInv, TypeOK, Generation
<1>3. \A d \in dbs : \E db \in index.db : d = Indexed(db)
    BY <1>1
<1>4. \A d \in dbs : Complete(d) /\ d.files = authority
    BY <1>3, IndexedFacts
<1>5. /\ handle.open /\ ~ noticeable /\ index.db # {} /\ ~ index.hot
    BY DEF StoreInv, PlaceInv, NoticeInv, Serving
<1>6. dbs # {}
    BY <1>1, <1>5
<1>7. AuthorityInv'
    BY DEF StoreInv, AuthorityInv
<1>8. ManifestInv'
    BY <1>2 DEF StoreInv, ManifestInv
<1>9. OneInv'
    <2>1. \A d, e \in dbs : d = e
        BY <1>3 DEF StoreInv, OneInv
    <2> QED
        BY <2>1, <1>2 DEF StoreInv, OneInv
<1>10. PlaceInv'
    BY <1>2, <1>5, <1>6 DEF PlaceInv, Opening, Serving
<1>11. BehindInv'
    <2>1. \A d \in index'.db : Complete(d) /\ d.files = authority'
        BY <1>2, <1>4
    <2> QED
        BY <2>1 DEF BehindInv, Settled, Acknowledging, Capturing
<1>12. RebuildInv' /\ NoticeInv'
    BY <1>5 DEF RebuildInv, NoticeInv
<1>13. ASSUME tampers = 0 PROVE UntouchedInv' /\ \A d : Known(d) => Known(d)'
    <2>1. UntouchedInv
        BY <1>13 DEF StoreInv
    <2>2. SoundAuthority'
        BY <2>1 DEF UntouchedInv, SoundAuthority
    <2>3. \A m \in index'.manifest \cup stage'.manifest : m.files \subseteq authority'
        BY <2>1, <1>2 DEF UntouchedInv
    <2>4. \A d \in index'.db : d.files = authority'
        BY <1>2, <1>4
    <2>5. UntouchedInv'
        BY <2>2, <2>3, <2>4, <1>2, <1>5, <1>13 DEF UntouchedInv
    <2>6. ASSUME NEW d, Known(d) PROVE Known(d)'
        <3>1. Complete(d) /\ d.files \subseteq authority /\ \A e \in index.db : Before(d, e)
            BY <2>6 DEF Known
        <3>2. PICK db \in index.db : TRUE
            BY <1>5
        <3>3. d.files # authority
            <4>1. d.files \subseteq db.files
                BY <3>1 DEF Before
            <4>2. db.files \subseteq authority /\ db.files # authority
                BY IndexedFacts
            <4> QED
                BY <4>1, <4>2
        <3>4. \A e \in index'.db : Before(d, e)
            BY <3>1, <3>3, <2>4 DEF Before
        <3> QED
            BY <3>1, <3>4 DEF Known
    <2> QED
        BY <2>5, <2>6
<1> QED
    BY <1>7, <1>8, <1>9, <1>10, <1>11, <1>12, <1>13, StoreStep

LEMMA IndexedType ==
    ASSUME StoreInv, pc = "index", index' = [index EXCEPT !.db = {Indexed(db) : db \in @}]
    PROVE  index' \in Generation
<1>1. PICK dbs : dbs = {Indexed(db) : db \in index.db}
    OBVIOUS
<1>2. dbs \in SUBSET Database
    BY <1>1, IndexedFacts
<1>3. index' = [index EXCEPT !.db = dbs]
    BY <1>1 DEF StoreInv, TypeOK, Generation
<1> QED
    BY <1>2, <1>3 DEF StoreInv, TypeOK, Generation

LEMMA UpdateIndexStep ==
    ASSUME StoreInv, UpdateIndex
    PROVE  StoreInv'
<1>1. /\ pc = "index" /\ pc' = "ready" /\ op' = NoOp
      /\ index' = [index EXCEPT !.db = {Indexed(db) : db \in @}]
      /\ handle' = [handle EXCEPT !.changed = TRUE]
      /\ UNCHANGED << authority, stage, draft, left, result, answer, faults, leased, reader, tampers,
                      noticeable >>
    BY DEF UpdateIndex, Finish, Outside
<1>2. index' \in Generation
    BY <1>1, IndexedType
<1>3. TypeOK'
    BY <1>1, <1>2, RestTypes DEF StoreInv, TypeOK, Location
<1>4. handle'.open
    BY <1>1 DEF StoreInv, TypeOK, PlaceInv, Serving
<1>5. tampers = 0 => result' # "invalid"
    BY <1>1 DEF StoreInv, UntouchedInv
<1> QED
    BY <1>1, <1>3, <1>4, <1>5, IndexStep

LEMMA CheckpointFailsStep ==
    ASSUME StoreInv, CheckpointFails
    PROVE  StoreInv'
<1>1. /\ pc = "index" /\ pc' = "ready" /\ Refuse("failed")
      /\ index' = [index EXCEPT !.db = {Indexed(db) : db \in @}]
      /\ handle' = [handle EXCEPT !.changed = TRUE, !.failed = TRUE]
      /\ UNCHANGED << authority, stage, answer, leased, reader, tampers, noticeable >>
      /\ faults' \in Nat
    BY FaultType DEF CheckpointFails, Outside
<1>2. index' \in Generation
    BY <1>1, IndexedType
<1>3. TypeOK'
    BY <1>1, <1>2, RestTypes DEF StoreInv, TypeOK, Location, Refuse
<1>4. handle'.open /\ result' = "failed"
    BY <1>1 DEF StoreInv, TypeOK, PlaceInv, Serving, Refuse
<1> QED
    BY <1>1, <1>3, <1>4, IndexStep

-----------------------------------------------------------------------------
(* Closing, and what comes from outside *)

\* A generation is published over the files it was built from.
LEMMA ClosingFacts ==
    ASSUME StoreInv, pc = "ready", Closing
    PROVE  /\ index' \in Generation /\ index'.db = index.db /\ index'.hot = index.hot
           /\ \A m \in index'.manifest : m.files = m.database.files /\ Complete(m.database)
           /\ tampers = 0 => \A m \in index'.manifest : m.files \subseteq authority
           /\ index.hot => index' = index
           /\ noticeable => index' = index
<1>1. CASE handle.open /\ (handle.failed \/ handle.changed)
    <2>1. index' = [index EXCEPT !.manifest = Publication]
        BY <1>1 DEF Closing
    <2>2. PICK man : man = Publication
        OBVIOUS
    <2>3. \A m \in man : \E db \in index.db : m = [files |-> db.files, database |-> db]
        BY <2>2 DEF Publication, Manifest
    <2>4. index.db \in SUBSET Database
        BY TypeFacts DEF StoreInv
    <2>5. man \in SUBSET [files : SUBSET File, database : Database]
        BY <2>3, <2>4 DEF Database
    <2>6. /\ index' \in Generation /\ index'.db = index.db /\ index'.hot = index.hot
          /\ index'.manifest = man
        BY <2>1, <2>2, <2>5 DEF StoreInv, TypeOK, Generation
    <2>7. \A db \in index.db : Complete(db)
        BY DEF StoreInv, BehindInv
    <2>8. \A m \in man : m.files = m.database.files /\ m.database \in index.db
        BY <2>3
    <2>9. tampers = 0 => \A db \in index.db : db.files \subseteq authority
        BY DEF StoreInv, UntouchedInv
    <2>10. ~ index.hot /\ ~ noticeable
        BY <1>1 DEF StoreInv, PlaceInv, NoticeInv
    <2> QED
        BY <2>6, <2>7, <2>8, <2>9, <2>10
<1>2. CASE ~ (handle.open /\ (handle.failed \/ handle.changed))
    <2>1. index' = index
        BY <1>2 DEF Closing
    <2> QED
        BY <2>1 DEF StoreInv, TypeOK, ManifestInv, UntouchedInv
<1> QED
    BY <1>1, <1>2

LEMMA ClosedStep ==
    ASSUME StoreInv, pc = "ready", Closing, pc' \in {"ready", "release"}, ~ handle'.open, TypeOK',
           UNCHANGED << authority, stage, result, reader, tampers, noticeable >>
    PROVE  StoreInv'
<1>1. /\ index'.db = index.db /\ index'.hot = index.hot
      /\ \A m \in index'.manifest : m.files = m.database.files /\ Complete(m.database)
      /\ tampers = 0 => \A m \in index'.manifest : m.files \subseteq authority
      /\ index.hot => index' = index
      /\ noticeable => index' = index
    BY ClosingFacts
<1>2. AuthorityInv'
    BY DEF StoreInv, AuthorityInv
<1>3. ManifestInv' /\ OneInv'
    BY <1>1 DEF StoreInv, ManifestInv, OneInv
<1>4. PlaceInv'
    BY DEF PlaceInv, Opening, Serving
<1>5. BehindInv'
    <2>1. \A db \in index.db : Settled(db)'
        BY DEF Settled
    <2> QED
        BY <2>1, <1>1, BehindElsewhere DEF StoreInv
<1>6. RebuildInv'
    BY DEF RebuildInv
<1>7. NoticeInv'
    BY <1>1 DEF StoreInv, NoticeInv
<1>8. ASSUME tampers = 0 PROVE UntouchedInv' /\ \A d : Known(d) => Known(d)'
    <2>1. UntouchedInv
        BY <1>8 DEF StoreInv
    <2>2. SoundAuthority'
        BY <2>1 DEF UntouchedInv, SoundAuthority
    <2>3. UntouchedInv'
        BY <2>1, <2>2, <1>1, <1>8 DEF UntouchedInv
    <2> QED
        BY <2>3, <1>1, KnownKept
<1> QED
    BY <1>2, <1>3, <1>4, <1>5, <1>6, <1>7, <1>8, StoreStep

LEMMA FlushStep ==
    ASSUME StoreInv, Flush
    PROVE  StoreInv'
<1>1. /\ pc = "ready" /\ pc' = "ready" /\ Closing
      /\ handle' = [handle EXCEPT !.open = FALSE, !.changed = FALSE]
      /\ UNCHANGED << authority, stage, op, draft, left, result, answer, faults, leased, reader, tampers,
                      noticeable >>
    BY DEF Flush, At, Outside
<1>2. index' \in Generation
    BY <1>1, ClosingFacts
<1>3. TypeOK'
    BY <1>1, <1>2 DEF StoreInv, TypeOK, Location
<1>4. ~ handle'.open
    BY <1>1 DEF StoreInv, TypeOK
<1> QED
    BY <1>1, <1>3, <1>4, ClosedStep

LEMMA CloseStep ==
    ASSUME StoreInv, Close
    PROVE  StoreInv'
<1>1. /\ pc = "ready" /\ pc' = "release" /\ Closing /\ handle' = Session(FALSE)
      /\ UNCHANGED << authority, stage, op, draft, left, result, answer, faults, leased, reader, tampers,
                      noticeable >>
    BY DEF Close, At, Outside
<1>2. index' \in Generation
    BY <1>1, ClosingFacts
<1>3. TypeOK'
    BY <1>1, <1>2, RestTypes DEF StoreInv, TypeOK, Location
<1>4. ~ handle'.open
    BY <1>1, RestTypes
<1> QED
    BY <1>1, <1>3, <1>4, ClosedStep

LEMMA CloseFailsStep ==
    ASSUME StoreInv, CloseFails
    PROVE  StoreInv'
<1>1. /\ pc' \in {"ready", "release"} /\ Refuse("failed")
      /\ handle' = Session(handle.bounded) \/ handle' = Session(FALSE)
      /\ UNCHANGED << authority, index, stage, answer, leased, reader, tampers, noticeable >>
      /\ faults' \in Nat
    BY FaultType DEF CloseFails, Outside
<1>2. handle.bounded \in BOOLEAN
    BY DEF StoreInv, TypeOK
<1>3. ~ handle'.open /\ handle' \in [open : BOOLEAN, changed : BOOLEAN, failed : BOOLEAN, bounded : BOOLEAN]
    BY <1>1, <1>2, RestTypes
<1>4. TypeOK'
    BY <1>1, <1>3, RestTypes DEF StoreInv, TypeOK, Location, Refuse
<1>5. result' = "failed"
    BY <1>1 DEF Refuse
<1> QED
    BY <1>1, <1>3, <1>4, <1>5, ReadyStep

LEMMA ReleaseStep ==
    ASSUME StoreInv, Release
    PROVE  StoreInv'
<1>1. /\ pc = "release" /\ pc' = "idle" /\ leased' = FALSE
      /\ UNCHANGED << authority, index, stage, op, handle, draft, left, result, answer, reader, faults,
                      tampers, noticeable >>
    BY DEF Release, At, session, bounds
<1>2. TypeOK'
    BY <1>1 DEF StoreInv, TypeOK, Location
<1>3. ~ handle.open
    BY <1>1 DEF StoreInv, PlaceInv
<1>4. tampers = 0 => result' # "invalid"
    BY <1>1 DEF StoreInv, UntouchedInv
<1> QED
    BY <1>1, <1>2, <1>3, <1>4, ReadyStep

LEMMA InvalidateCacheStep ==
    ASSUME StoreInv, InvalidateCache
    PROVE  StoreInv'
<1>1. /\ pc = "ready" /\ pc' = "ready" /\ index' = Gone /\ stage' = Gone
      /\ handle' = Session(handle.bounded) /\ noticeable' = FALSE /\ faults' \in Nat
      /\ UNCHANGED << authority, leased, op, draft, left, result, answer, reader, tampers >>
    BY FaultType DEF InvalidateCache, At
<1>2. /\ index'.db = {} /\ index'.manifest = {} /\ ~ index'.hot
      /\ stage'.db = {} /\ stage'.manifest = {}
    BY <1>1, RestTypes
<1>3. handle.bounded \in BOOLEAN
    BY DEF StoreInv, TypeOK
<1>4. ~ handle'.open
    BY <1>1, <1>3, RestTypes
<1>5. TypeOK'
    BY <1>1, <1>3, RestTypes DEF StoreInv, TypeOK, Location
<1>6. AuthorityInv'
    BY <1>1 DEF StoreInv, AuthorityInv
<1>7. ManifestInv' /\ OneInv' /\ BehindInv'
    BY <1>2 DEF ManifestInv, OneInv, BehindInv
<1>8. PlaceInv' /\ RebuildInv' /\ NoticeInv'
    BY <1>1, <1>4 DEF PlaceInv, Opening, Serving, RebuildInv, NoticeInv
<1>9. ASSUME tampers = 0 PROVE UntouchedInv' /\ \A d : Known(d) => Known(d)'
    <2>1. UntouchedInv
        BY <1>9 DEF StoreInv
    <2>2. SoundAuthority'
        BY <2>1, <1>1 DEF UntouchedInv, SoundAuthority
    <2>3. UntouchedInv'
        BY <2>1, <2>2, <1>1, <1>2, <1>4 DEF UntouchedInv
    <2> QED
        BY <2>3, <1>1, <1>2, KnownKept
<1> QED
    BY <1>1, <1>5, <1>6, <1>7, <1>8, <1>9, StoreStep

\* A crash inside a transaction leaves the generation as it was, or hot.
LEMMA TornFacts ==
    ASSUME NEW gen \in Generation, NEW torn \in Torn(gen)
    PROVE  /\ torn \in Generation /\ torn.db \subseteq gen.db /\ torn.manifest = gen.manifest
           /\ torn.hot => gen.hot \/ torn # gen
<1>1. CASE torn = gen
    BY <1>1
<1>2. ASSUME NEW dbs \in {gen.db, {}}, torn = [gen EXCEPT !.db = dbs, !.hot = TRUE]
      PROVE  torn \in Generation /\ torn.db \subseteq gen.db /\ torn.manifest = gen.manifest
    BY <1>2 DEF Generation
<1> QED
    BY <1>1, <1>2 DEF Torn

LEMMA CrashStep ==
    ASSUME StoreInv, Crash
    PROVE  StoreInv'
<1>1. /\ pc # "idle" /\ pc' = "idle" /\ Refuse("none") /\ handle' = Session(FALSE)
      /\ index' \in IF pc = "index" THEN Torn(index) ELSE {index}
      /\ stage' \in IF pc = "replay" THEN Torn(stage) ELSE {stage}
      /\ UNCHANGED << authority, answer, leased, reader, tampers, noticeable >>
      /\ faults' \in Nat
    BY FaultType DEF Crash, Outside
<1>2. index \in Generation /\ stage \in Generation
    BY DEF StoreInv, TypeOK
<1>3. /\ index' \in Generation /\ index'.db \subseteq index.db /\ index'.manifest = index.manifest
      /\ pc # "index" => index' = index
    BY <1>1, <1>2, TornFacts
<1>4. stage' \in Generation /\ stage'.db \subseteq stage.db /\ stage'.manifest = stage.manifest
    BY <1>1, <1>2, TornFacts
<1>5. TypeOK'
    BY <1>1, <1>3, <1>4, RestTypes DEF StoreInv, TypeOK, Location, Refuse
<1>6. ~ handle'.open /\ result' = "none"
    BY <1>1, RestTypes DEF Refuse
<1>7. AuthorityInv'
    BY <1>1 DEF StoreInv, AuthorityInv
<1>8. ManifestInv' /\ OneInv'
    BY <1>3, <1>4 DEF StoreInv, ManifestInv, OneInv
<1>9. PlaceInv'
    BY <1>1, <1>6 DEF PlaceInv, Opening, Serving
<1>10. BehindInv'
    <2>1. \A db \in index.db : Settled(db)'
        BY <1>6 DEF Settled
    <2> QED
        BY <2>1, <1>1, <1>3, BehindElsewhere DEF StoreInv
<1>11. RebuildInv'
    BY <1>1 DEF RebuildInv
<1>12. NoticeInv'
    <2>1. noticeable => pc # "index"
        BY DEF StoreInv, NoticeInv
    <2> QED
        BY <2>1, <1>1, <1>3, <1>6 DEF StoreInv, NoticeInv
<1>13. ASSUME tampers = 0 PROVE UntouchedInv' /\ \A d : Known(d) => Known(d)'
    <2>1. UntouchedInv
        BY <1>13 DEF StoreInv
    <2>2. SoundAuthority'
        BY <2>1, <1>1 DEF UntouchedInv, SoundAuthority
    <2>3. index'.hot => \A m \in index'.manifest : m.files # authority
        <3>1. CASE pc # "index"
            BY <2>1, <1>3, <3>1 DEF UntouchedInv
        <3>2. CASE pc = "index"
            <4>1. handle.open /\ index.db # {}
                BY <3>2 DEF StoreInv, PlaceInv, Serving
            <4>2. PICK db \in index.db : TRUE
                BY <4>1
            <4>3. db.files \subseteq authority /\ db.files # authority
                BY <3>2, IndexedFacts
            <4>4. \A m \in index.manifest : m.files \subseteq db.files
                BY <2>1, <4>1 DEF UntouchedInv
            <4> QED
                BY <4>3, <4>4, <1>3
        <3> QED
            BY <3>1, <3>2
    <2>4. /\ \A m \in index'.manifest \cup stage'.manifest : m.files \subseteq authority'
          /\ \A db \in index'.db : db.files \subseteq authority'
        BY <2>1, <1>1, <1>3, <1>4 DEF UntouchedInv
    <2>5. UntouchedInv'
        BY <2>2, <2>3, <2>4, <1>1, <1>6 DEF UntouchedInv
    <2> QED
        BY <2>5, <1>1, <1>3, KnownKept
<1> QED
    BY <1>1, <1>5, <1>7, <1>8, <1>9, <1>10, <1>11, <1>12, <1>13, StoreStep

\* Whoever changes the files ends what only held of files nobody touched.
LEMMA TamperStep ==
    ASSUME StoreInv, NEW files \in SUBSET File, Tamper(files), IsFiniteSet(files),
           \A f \in files : f.kind = "journal" => f.seq \in 1 .. MaxEntries,
           \A f, g \in files : f.kind = "journal" /\ SamePath(f, g) => f = g
    PROVE  StoreInv'
<1>1. /\ pc = "idle" /\ tampers' = tampers + 1 /\ authority' = files
      /\ noticeable' = (~index.hot /\ LostFrom(index, files) # {})
      /\ UNCHANGED << index, stage, leased, pc, op, handle, draft, left, result, answer, reader, faults >>
    BY DEF Tamper, session
<1>2. tampers' \in Nat \ {0}
    BY <1>1 DEF StoreInv, TypeOK
<1>3. TypeOK'
    BY <1>1, <1>2 DEF StoreInv, TypeOK
<1>4. AuthorityInv'
    BY <1>1 DEF AuthorityInv
<1>5. ManifestInv' /\ OneInv'
    BY <1>1 DEF StoreInv, ManifestInv, OneInv
<1>6. ~ handle.open
    BY <1>1 DEF StoreInv, PlaceInv
<1>7. PlaceInv'
    BY <1>1, <1>6 DEF PlaceInv, Opening, Serving
<1>8. BehindInv'
    <2>1. \A db \in index.db : Settled(db)'
        BY <1>1, <1>6 DEF Settled
    <2> QED
        BY <2>1, <1>1, BehindElsewhere DEF StoreInv
<1>9. RebuildInv' /\ NoticeInv'
    BY <1>1, <1>6 DEF RebuildInv, NoticeInv
<1> QED
    BY <1>2, <1>3, <1>4, <1>5, <1>7, <1>8, <1>9 DEF StoreInv

\* A file that is written again keeps its path.
LEMMA AlteredStep ==
    ASSUME StoreInv, NEW f \in authority, NEW holds \in SUBSET Record,
           Tamper((authority \ {f}) \cup {Altered(f, holds)})
    PROVE  StoreInv'
<1>1. PICK files, a : files = (authority \ {f}) \cup {a} /\ a = Altered(f, holds)
    OBVIOUS
<1>2. authority \in SUBSET File /\ f \in File /\ tampers \in Nat
    BY DEF StoreInv, TypeOK
<1>3. a = [f EXCEPT !.holds = holds, !.stamp = tampers + 1]
    BY <1>1 DEF Altered
<1>4. a \in File /\ a.kind = f.kind /\ a.seq = f.seq
    <2>1. PICK n \in Nat : n = tampers + 1
        BY <1>2
    <2>2. a = [f EXCEPT !.holds = holds, !.stamp = n]
        BY <1>3, <2>1
    <2> QED
        BY <2>2, <1>2 DEF File
<1>5. files \in SUBSET File
    BY <1>1, <1>2, <1>4
<1>6. IsFiniteSet(files)
    <2>1. IsFiniteSet(authority \ {f})
        BY AuthorityFinite
    <2> QED
        BY <2>1, <1>1, FS_AddElement
<1>7. /\ \A g \in authority : g.kind = "journal" => g.seq \in 1 .. MaxEntries
      /\ \A g, h \in authority : g.kind = "journal" /\ SamePath(g, h) => g = h
    BY DEF StoreInv, AuthorityInv
<1>8. \A g \in files : g.kind = "journal" => g.seq \in 1 .. MaxEntries
    BY <1>1, <1>4, <1>7
<1>9. ASSUME NEW g \in files, NEW h \in files, g.kind = "journal", SamePath(g, h)
      PROVE  g = h
    <2>1. h.kind = "journal" /\ g.seq = h.seq
        BY <1>9 DEF SamePath
    <2>2. CASE g \in authority \ {f} /\ h \in authority \ {f}
        BY <1>7, <1>9, <2>2
    <2>3. CASE g = a /\ h \in authority \ {f}
        <3>1. SamePath(h, f)
            BY <2>1, <2>3, <1>4, <1>9 DEF SamePath
        <3> QED
            BY <3>1, <2>1, <2>3, <1>7
    <2>4. CASE g \in authority \ {f} /\ h = a
        <3>1. SamePath(g, f)
            BY <2>1, <2>4, <1>4, <1>9 DEF SamePath
        <3> QED
            BY <3>1, <2>4, <1>7, <1>9
    <2> QED
        BY <2>2, <2>3, <2>4, <1>1
<1>10. Tamper(files)
    BY <1>1
<1> QED
    BY <1>5, <1>6, <1>8, <1>9, <1>10, TamperStep

LEMMA TamperingStep ==
    ASSUME StoreInv, Remove \/ Touch \/ Rewrite
    PROVE  StoreInv'
<1>1. authority \in SUBSET File
    BY DEF StoreInv, TypeOK
<1>2. CASE Remove
    <2>1. PICK f \in authority : Tamper(authority \ {f})
        BY <1>2 DEF Remove
    <2>2. PICK files : files = authority \ {f}
        OBVIOUS
    <2>3. files \in SUBSET File /\ files \in SUBSET authority
        BY <2>2, <1>1
    <2>4. IsFiniteSet(files)
        BY <2>3, AuthorityFinite
    <2>5. /\ \A g \in files : g.kind = "journal" => g.seq \in 1 .. MaxEntries
          /\ \A g, h \in files : g.kind = "journal" /\ SamePath(g, h) => g = h
        BY <2>3 DEF StoreInv, AuthorityInv
    <2>6. Tamper(files)
        BY <2>1, <2>2
    <2> QED
        BY <2>3, <2>4, <2>5, <2>6, TamperStep
<1>3. CASE Touch
    <2>1. PICK f \in authority : Tamper((authority \ {f}) \cup {Altered(f, f.holds)})
        BY <1>3 DEF Touch
    <2>2. f.holds \in SUBSET Record
        BY <1>1 DEF File
    <2> QED
        BY <2>1, <2>2, AlteredStep
<1>4. CASE Rewrite
    <2>1. PICK f \in authority, holds \in SUBSET Record :
              Tamper((authority \ {f}) \cup {Altered(f, holds)})
        BY <1>4 DEF Rewrite
    <2> QED
        BY <2>1, AlteredStep
<1> QED
    BY <1>2, <1>3, <1>4

-----------------------------------------------------------------------------
(* Reading without a lease *)

\* What a reader looks at now is as old as what is there.
LEMMA IndexKnown ==
    ASSUME StoreInv, tampers = 0, NEW db \in index.db
    PROVE  Known(db)
<1>1. Complete(db) /\ db.files \subseteq authority
    BY DEF StoreInv, BehindInv, UntouchedInv
<1>2. \A e \in index.db : e = db
    BY DEF StoreInv, OneInv
<1> QED
    BY <1>1, <1>2 DEF Known, Before

\* A step of the reader touches nothing of the store.
LEMMA LookStep ==
    ASSUME StoreInv, Nothing, TypeOK', tampers = 0 => ReaderInv'
    PROVE  StoreInv'
<1>1. UNCHANGED << authority, index, stage, leased, pc, op, handle, draft, left, result, answer, faults,
                   tampers, noticeable >>
    BY DEF Nothing, session, bounds
<1>2. AuthorityInv' /\ ManifestInv' /\ OneInv'
    BY <1>1 DEF StoreInv, AuthorityInv, ManifestInv, OneInv
<1>3. PlaceInv'
    BY <1>1 DEF StoreInv, PlaceInv, Entries
<1>4. BehindInv'
    <2>1. ASSUME NEW db \in index.db
          PROVE  Complete(db) /\ Settled(db)' /\ Acknowledging(db)' /\ Capturing(db)'
        <3>1. Complete(db) /\ Settled(db) /\ Acknowledging(db) /\ Capturing(db)
            BY DEF StoreInv, BehindInv
        <3>2. OwnFile(db)' = OwnFile(db)
            BY <1>1 DEF OwnFile
        <3> QED
            BY <3>1, <3>2, <1>1 DEF Settled, Acknowledging, Capturing
    <2> QED
        BY <2>1, <1>1 DEF BehindInv
<1>5. RebuildInv' /\ NoticeInv'
    BY <1>1 DEF StoreInv, RebuildInv, NoticeInv
<1>6. ASSUME tampers = 0 PROVE UntouchedInv'
    <2>1. UntouchedInv
        BY <1>6 DEF StoreInv
    <2>2. SoundAuthority'
        BY <2>1, <1>1 DEF UntouchedInv, SoundAuthority
    <2> QED
        BY <2>1, <2>2, <1>1 DEF UntouchedInv
<1> QED
    BY <1>1, <1>2, <1>3, <1>4, <1>5, <1>6 DEF StoreInv

LEMMA ReaderType ==
    ASSUME StoreInv
    PROVE  /\ reader.at \in Reading /\ reader.proof \in 0 .. 2 /\ reader.files \in SUBSET File
           /\ reader.database \in SUBSET Database
           /\ reader.raw \in SUBSET [files : SUBSET File, database : Database]
           /\ reader.view \in SUBSET Database
           /\ reader \in [at : Reading, proof : 0 .. 2, files : SUBSET File, database : SUBSET Database,
                          raw : SUBSET [files : SUBSET File, database : Database],
                          view : SUBSET Database]
BY DEF StoreInv, TypeOK

LEMMA NothingType ==
    ASSUME StoreInv, Nothing,
           reader' \in [at : Reading, proof : 0 .. 2, files : SUBSET File, database : SUBSET Database,
                        raw : SUBSET [files : SUBSET File, database : Database],
                        view : SUBSET Database]
    PROVE  TypeOK'
BY DEF StoreInv, TypeOK, Nothing, session, bounds

LEMMA NothingKnown ==
    ASSUME Nothing, NEW d
    PROVE  Known(d)' <=> Known(d)
BY DEF Nothing, Known

LEMMA LookAtStep ==
    ASSUME StoreInv, Look
    PROVE  StoreInv'
<1>1. Nothing
    BY DEF Look
<1>2. PICK n \in {1, 2} : /\ reader' = [reader EXCEPT !.at = "journal", !.proof = n]
                          /\ n = 2 => reader.at = "queried"
    BY DEF Look
<1>3. n \in 0 .. 2
    BY <1>2
<1>4. /\ reader'.at = "journal" /\ reader'.proof = n /\ reader'.files = reader.files
      /\ reader'.database = reader.database /\ reader'.raw = reader.raw /\ reader'.view = reader.view
      /\ reader' \in [at : Reading, proof : 0 .. 2, files : SUBSET File, database : SUBSET Database,
                      raw : SUBSET [files : SUBSET File, database : Database],
                      view : SUBSET Database]
    BY <1>2, <1>3, ReaderType DEF Reading
<1>5. TypeOK'
    BY <1>1, <1>4, NothingType
<1>6. ASSUME tampers = 0 PROVE ReaderInv'
    <2>1. ASSUME n = 2
          PROVE  /\ \A m \in reader.raw : Known(m.database)'
                 /\ \A v \in reader.view : Known(v)'
                 /\ \A m \in reader.raw, v \in reader.view : Before(m.database, v)
        <3>1. /\ \A m \in reader.raw : Known(m.database)
              /\ \A v \in reader.view : Known(v)
              /\ \A m \in reader.raw, v \in reader.view : Before(m.database, v)
            BY <2>1, <1>2, <1>6 DEF StoreInv, ReaderInv
        <3> QED
            BY <3>1, <1>1, NothingKnown
    <2> QED
        BY <2>1, <1>2, <1>4 DEF ReaderInv
<1> QED
    BY <1>1, <1>5, <1>6, LookStep

\* The files are not what the order of databases is about.
LEMMA TakeJournalStep ==
    ASSUME StoreInv, TakeJournal
    PROVE  StoreInv'
<1>1. /\ Nothing /\ reader.at = "journal"
      /\ reader' = [reader EXCEPT !.at = "others", !.files = {f \in authority : f.kind = "journal"}]
    BY DEF TakeJournal
<1>2. authority \in SUBSET File
    BY DEF StoreInv, TypeOK
<1>3. /\ reader'.at = "others" /\ reader'.proof = reader.proof
      /\ reader'.database = reader.database /\ reader'.raw = reader.raw /\ reader'.view = reader.view
      /\ reader' \in [at : Reading, proof : 0 .. 2, files : SUBSET File, database : SUBSET Database,
                      raw : SUBSET [files : SUBSET File, database : Database],
                      view : SUBSET Database]
    BY <1>1, <1>2, ReaderType DEF Reading
<1>4. TypeOK'
    BY <1>1, <1>3, NothingType
<1>5. ASSUME tampers = 0 PROVE ReaderInv'
    <2>1. reader.proof = 2 =>
              /\ \A m \in reader.raw : Known(m.database)
              /\ \A v \in reader.view : Known(v)
              /\ \A m \in reader.raw, v \in reader.view : Before(m.database, v)
        BY <1>1, <1>5 DEF StoreInv, ReaderInv
    <2>2. reader.proof = 2 =>
              /\ \A m \in reader.raw : Known(m.database)'
              /\ \A v \in reader.view : Known(v)'
              /\ \A m \in reader.raw, v \in reader.view : Before(m.database, v)
        BY <2>1, <1>1, NothingKnown
    <2> QED
        BY <2>2, <1>3 DEF ReaderInv
<1> QED
    BY <1>1, <1>4, <1>5, LookStep

LEMMA TakeOthersStep ==
    ASSUME StoreInv, TakeOthers
    PROVE  StoreInv'
<1>1. /\ Nothing /\ reader.at = "others" /\ index.db # {}
      /\ reader' = [reader EXCEPT !.at = "manifest", !.database = index.db,
                                  !.files = @ \cup {f \in authority : f.kind # "journal"}]
    BY DEF TakeOthers
<1>2. authority \in SUBSET File /\ index.db \in SUBSET Database
    BY TypeFacts DEF StoreInv
<1>3. PICK files \in SUBSET File : files = reader.files \cup {f \in authority : f.kind # "journal"}
    BY <1>2, ReaderType
<1>4. reader' = [reader EXCEPT !.at = "manifest", !.database = index.db, !.files = files]
    BY <1>1, <1>3, ReaderType
<1>5. /\ reader'.at = "manifest" /\ reader'.proof = reader.proof
      /\ reader'.database = index.db /\ reader'.raw = reader.raw /\ reader'.view = reader.view
      /\ reader' \in [at : Reading, proof : 0 .. 2, files : SUBSET File, database : SUBSET Database,
                      raw : SUBSET [files : SUBSET File, database : Database],
                      view : SUBSET Database]
    BY <1>2, <1>4, ReaderType DEF Reading
<1>6. TypeOK'
    BY <1>1, <1>5, NothingType
<1>7. ASSUME tampers = 0 PROVE ReaderInv'
    <2>1. reader.proof = 2 =>
              /\ \A m \in reader.raw : Known(m.database)
              /\ \A v \in reader.view : Known(v)
              /\ \A m \in reader.raw, v \in reader.view : Before(m.database, v)
        BY <1>1, <1>7 DEF StoreInv, ReaderInv
    <2>2. reader.proof = 2 =>
              /\ \A m \in reader.raw : Known(m.database)'
              /\ \A v \in reader.view : Known(v)'
              /\ \A m \in reader.raw, v \in reader.view : Before(m.database, v)
        BY <2>1, <1>1, NothingKnown
    <2>3. \A d \in index.db : Known(d)'
        BY <1>1, <1>7, IndexKnown, NothingKnown
    <2>4. reader.proof = 2 => \A v \in reader.view, e \in index.db : Before(v, e)
        BY <2>1 DEF Known
    <2> QED
        BY <2>2, <2>3, <2>4, <1>1, <1>5 DEF ReaderInv
<1> QED
    BY <1>1, <1>6, <1>7, LookStep

LEMMA ProveStep ==
    ASSUME StoreInv, Prove
    PROVE  StoreInv'
<1>1. /\ Nothing /\ reader.at = "manifest" /\ reader.proof = 1
      /\ index.manifest = Manifest(reader.files, reader.database)
      /\ reader' = [reader EXCEPT !.at = "query", !.raw = index.manifest]
    BY DEF Prove, Proves
<1>2. index.manifest \in SUBSET [files : SUBSET File, database : Database]
    BY TypeFacts DEF StoreInv
<1>3. /\ reader'.at = "query" /\ reader'.proof = 1
      /\ reader'.database = reader.database /\ reader'.raw = index.manifest /\ reader'.view = reader.view
      /\ reader' \in [at : Reading, proof : 0 .. 2, files : SUBSET File, database : SUBSET Database,
                      raw : SUBSET [files : SUBSET File, database : Database],
                      view : SUBSET Database]
    BY <1>1, <1>2, ReaderType DEF Reading
<1>4. TypeOK'
    BY <1>1, <1>3, NothingType
<1>5. ASSUME tampers = 0 PROVE ReaderInv'
    <2>1. \A d \in reader.database : Known(d)
        BY <1>1, <1>5 DEF StoreInv, ReaderInv
    <2>2. \A m \in index.manifest : m.database \in reader.database
        BY <1>1, ManifestOf
    <2>3. \A m \in index.manifest : Known(m.database)'
        BY <2>1, <2>2, <1>1, NothingKnown
    <2> QED
        BY <2>3, <1>3 DEF ReaderInv
<1> QED
    BY <1>1, <1>4, <1>5, LookStep

LEMMA QueryStep ==
    ASSUME StoreInv, Query
    PROVE  StoreInv'
<1>1. /\ Nothing /\ reader.at = "query"
      /\ reader' = [reader EXCEPT !.at = "queried", !.view = index.db]
    BY DEF Query
<1>2. index.db \in SUBSET Database
    BY TypeFacts DEF StoreInv
<1>3. /\ reader'.at = "queried" /\ reader'.proof = reader.proof
      /\ reader'.database = reader.database /\ reader'.raw = reader.raw /\ reader'.view = index.db
      /\ reader' \in [at : Reading, proof : 0 .. 2, files : SUBSET File, database : SUBSET Database,
                      raw : SUBSET [files : SUBSET File, database : Database],
                      view : SUBSET Database]
    BY <1>1, <1>2, ReaderType DEF Reading
<1>4. TypeOK'
    BY <1>1, <1>3, NothingType
<1>5. ASSUME tampers = 0 PROVE ReaderInv'
    <2>1. \A m \in reader.raw : Known(m.database)
        BY <1>1, <1>5 DEF StoreInv, ReaderInv
    <2>2. \A m \in reader.raw, v \in index.db : Before(m.database, v)
        BY <2>1 DEF Known
    <2>3. \A m \in reader.raw : Known(m.database)'
        BY <2>1, <1>1, NothingKnown
    <2>4. \A v \in index.db : Known(v)'
        BY <1>1, <1>5, IndexKnown, NothingKnown
    <2> QED
        BY <2>2, <2>3, <2>4, <1>3 DEF ReaderInv
<1> QED
    BY <1>1, <1>4, <1>5, LookStep

\* The view lies between two databases over the same files, so it is one of them.
LEMMA ViewBetween ==
    ASSUME NEW d, NEW v, Complete(v), Before(d, v), Before(v, d), NEW files, d.files = files
    PROVE  Agrees(v, files)
<1>1. v.files = files
    BY DEF Before
<1>2. Reflects(v, files)
    BY <1>1 DEF Complete
<1> QED
    BY <1>1, <1>2 DEF Agrees, Reflects, Entries

LEMMA ProveAgainStep ==
    ASSUME StoreInv, ProveAgain
    PROVE  StoreInv'
<1>1. /\ Nothing /\ reader.at = "manifest" /\ reader.proof = 2
      /\ index.manifest = Manifest(reader.files, reader.database)
      /\ index.manifest = reader.raw
      /\ reader' = [reader EXCEPT !.at = "reported"]
    BY DEF ProveAgain, Proves
<1>2. /\ reader'.at = "reported" /\ reader'.proof = 2 /\ reader'.files = reader.files
      /\ reader'.database = reader.database /\ reader'.raw = reader.raw /\ reader'.view = reader.view
      /\ reader' \in [at : Reading, proof : 0 .. 2, files : SUBSET File, database : SUBSET Database,
                      raw : SUBSET [files : SUBSET File, database : Database],
                      view : SUBSET Database]
    BY <1>1, ReaderType DEF Reading
<1>3. TypeOK'
    BY <1>1, <1>2, NothingType
<1>4. ASSUME tampers = 0 PROVE ReaderInv'
    <2>1. /\ \A m \in reader.raw : Known(m.database)
          /\ \A v \in reader.view : Known(v)
          /\ \A m \in reader.raw, v \in reader.view : Before(m.database, v)
          /\ \A v \in reader.view, e \in reader.database : Before(v, e)
          /\ reader.database # {}
        BY <1>1, <1>4 DEF StoreInv, ReaderInv
    <2>2. PICK d \in reader.database : TRUE
        BY <2>1
    <2>3. PICK m \in index.manifest : m.files = reader.files /\ m.database = d
        <3>1. [files |-> reader.files, database |-> d] \in index.manifest
            BY <1>1, <2>2 DEF Manifest
        <3> QED
            BY <3>1
    <2>4. d.files = reader.files
        BY <2>3 DEF StoreInv, ManifestInv
    <2>5. ASSUME NEW v \in reader.view PROVE Agrees(v, reader.files)
        <3>1. Before(d, v)
            BY <2>1, <2>3, <1>1
        <3>2. Before(v, d)
            BY <2>1
        <3>3. Complete(v)
            BY <2>1 DEF Known
        <3> QED
            BY <3>1, <3>2, <3>3, <2>4, ViewBetween
    <2>6. /\ \A n \in reader.raw : Known(n.database)'
          /\ \A v \in reader.view : Known(v)'
        BY <2>1, <1>1, NothingKnown
    <2> QED
        BY <2>1, <2>5, <2>6, <1>2 DEF ReaderInv
<1> QED
    BY <1>1, <1>3, <1>4, LookStep

LEMMA GiveUpStep ==
    ASSUME StoreInv, GiveUp
    PROVE  StoreInv'
<1>1. Nothing /\ reader' = NoReader
    BY DEF GiveUp
<1>2. /\ reader'.at = "off" /\ reader'.proof = 0
      /\ reader' \in [at : Reading, proof : 0 .. 2, files : SUBSET File, database : SUBSET Database,
                      raw : SUBSET [files : SUBSET File, database : Database],
                      view : SUBSET Database]
    BY <1>1 DEF NoReader, Reading
<1>3. TypeOK'
    BY <1>1, <1>2, NothingType
<1>4. ReaderInv'
    BY <1>2 DEF ReaderInv
<1> QED
    BY <1>1, <1>3, <1>4, LookStep

-----------------------------------------------------------------------------
(* Every step *)

LEMMA Stutters ==
    ASSUME StoreInv, UNCHANGED vars
    PROVE  StoreInv'
<1>1. Nothing /\ reader' = reader
    BY DEF vars, Nothing, bounds
<1>2. TypeOK'
    BY <1>1, ReaderType, NothingType
<1>3. ASSUME tampers = 0 PROVE ReaderInv'
    <2>1. ReaderInv
        BY <1>3 DEF StoreInv
    <2> QED
        BY <2>1, <1>1, NothingKnown, ReaderKept
<1> QED
    BY <1>1, <1>2, <1>3, LookStep

LEMMA StoreInvKept == StoreInv /\ [Next]_vars => StoreInv'
<1> SUFFICES ASSUME StoreInv, [Next]_vars PROVE StoreInv'
    OBVIOUS
<1>1. CASE \E bounded \in BOOLEAN : Begin(bounded)
    BY <1>1, BeginStep
<1>2. CASE CommitBatch \/ CommitControl \/ AcknowledgeHashes \/ Pending
    BY <1>2, OperationStep
<1>3. CASE Open
    BY <1>3, OpenValidStep, OpenLostStep, OpenStaleStep DEF Open
<1>4. CASE Rebuild
    BY <1>4, ResumeStageStep, StageLostStep, RestartStageStep, ReplayFileStep, ReplayInvalidStep,
       CommitSliceStep, StampStageStep, PromoteStep, PublishRebuiltStep, RemoveStageManifestStep
       DEF Rebuild
<1>5. CASE Serve
    BY <1>5, AnswerPendingStep, PublishFileStep, FilterConfirmedStep, PublishReceiptsStep,
       UpdateIndexStep, UpdateFailsStep, CheckpointFailsStep DEF Serve
<1>6. CASE Flush \/ Close \/ InvalidateCache \/ Release
    BY <1>6, FlushStep, CloseStep, InvalidateCacheStep, ReleaseStep
<1>7. CASE Failure
    BY <1>7, ReplayFailsStep, RebuildFailsStep, CloseFailsStep, CrashStep DEF Failure
<1>8. CASE Remove \/ Touch \/ Rewrite
    BY <1>8, TamperingStep
<1>9. CASE Read
    BY <1>9, LookAtStep, TakeJournalStep, TakeOthersStep, ProveStep, QueryStep, ProveAgainStep,
       GiveUpStep DEF Read
<1>10. CASE UNCHANGED vars
    BY <1>10, Stutters
<1> QED
    BY <1>1, <1>2, <1>3, <1>4, <1>5, <1>6, <1>7, <1>8, <1>9, <1>10 DEF Next

LEMMA StoreAlways == Spec => []StoreInv
<1>1. Init => StoreInv
    BY StoreInit
<1>2. StoreInv /\ [Next]_vars => StoreInv'
    BY StoreInvKept
<1> QED
    BY <1>1, <1>2, PTL DEF Spec

-----------------------------------------------------------------------------
(* What follows *)

\* The state of a store is what TypeOK says, whatever fails and whoever changes
\* the files: no count of a unit goes below zero.
THEOREM StoreTypeCorrect == Spec => []TypeOK
<1>1. StoreInv => TypeOK
    BY DEF StoreInv
<1> QED
    BY <1>1, StoreAlways, PTL

\* IndexAgrees: between two operations an open index says what the files say,
\* however it came about (StoreIndex.open, rebuild and the updates of store.ts).
THEOREM IndexAlwaysAgrees == Spec => []IndexAgrees
<1>1. StoreInv => IndexAgrees
    <2> SUFFICES ASSUME StoreInv, pc = "ready", handle.open, ~ handle.failed, NEW db \in index.db
                 PROVE  Agrees(db, authority)
        BY DEF IndexAgrees
    <2>1. Complete(db) /\ db.files = authority
        BY DEF StoreInv, BehindInv, Settled
    <2> QED
        BY <2>1 DEF Complete, Reflects, Agrees, Entries
<1> QED
    BY <1>1, StoreAlways, PTL

\* PublishedAgrees: a manifest over today's files is never wrong about its
\* database, so that open() and readOnly() may believe it.
THEOREM PublishedAlwaysAgrees == Spec => []PublishedAgrees
<1>1. StoreInv => PublishedAgrees
    <2> SUFFICES ASSUME StoreInv, Names(index, authority), NEW db \in index.db
                 PROVE  Agrees(db, authority)
        BY DEF PublishedAgrees
    <2>1. index \in Generation /\ \A m \in index.manifest : m.files = m.database.files
        BY DEF StoreInv, TypeOK, ManifestInv
    <2>2. db.files = authority
        BY <2>1, NamesToday
    <2>3. Complete(db)
        BY DEF StoreInv, BehindInv
    <2> QED
        BY <2>2, <2>3 DEF Complete, Reflects, Agrees, Entries
<1> QED
    BY <1>1, StoreAlways, PTL

\* DerivedNeverBlocks: crashes and failures alone never make open() or rebuild()
\* refuse a store as invalid.
THEOREM DerivedNeverEverBlocks == Spec => []DerivedNeverBlocks
<1>1. StoreInv => DerivedNeverBlocks
    BY DEF StoreInv, UntouchedInv, DerivedNeverBlocks
<1> QED
    BY <1>1, StoreAlways, PTL

\* VanishedNoticed: files that an intact index named and that are gone keep the
\* store from being opened.
THEOREM VanishedAlwaysNoticed == Spec => []VanishedNoticed
<1>1. StoreInv => VanishedNoticed
    BY DEF StoreInv, NoticeInv, VanishedNoticed
<1> QED
    BY <1>1, StoreAlways, PTL

\* ReportExact: a report of StoreIndex.readOnly that both proofs confirm shows
\* what the files owed at one instant, whatever sessions did meanwhile.
THEOREM ReportAlwaysExact == Spec => []ReportExact
<1>1. StoreInv => ReportExact
    BY DEF StoreInv, ReaderInv, ReportExact
<1> QED
    BY <1>1, StoreAlways, PTL

-----------------------------------------------------------------------------
(* The atomic store *)

\* Files that nobody else changes are only added to by the session.
LEMMA FilesKept ==
    ASSUME StoreInv, Next, tampers' = 0, ~ Serve
    PROVE  authority' = authority /\ answer' = answer
<1>1. CASE \E bounded \in BOOLEAN : Begin(bounded)
    BY <1>1 DEF Begin
<1>2. CASE CommitBatch \/ CommitControl \/ AcknowledgeHashes \/ Pending
    BY <1>2 DEF CommitBatch, CommitControl, AcknowledgeHashes, Pending, Issue
<1>3. CASE Open
    BY <1>3 DEF Open, OpenValid, OpenLost, OpenStale
<1>4. CASE Rebuild
    BY <1>4 DEF Rebuild, ResumeStage, StageLost, RestartStage, ReplayFile, ReplayInvalid, RollBack,
                CommitSlice, StampStage, Promote, PublishRebuilt, RemoveStageManifest
<1>5. CASE Flush \/ Close \/ InvalidateCache \/ Release
    BY <1>5 DEF Flush, Close, InvalidateCache, Release
<1>6. CASE Failure
    BY <1>6 DEF Failure, ReplayFails, RollBack, RebuildFails, CloseFails, Crash
<1>7. CASE Remove \/ Touch \/ Rewrite
    <2>1. tampers \in Nat
        BY DEF StoreInv, TypeOK
    <2>2. tampers' = tampers + 1
        BY <1>7 DEF Remove, Touch, Rewrite, Tamper
    <2> QED
        BY <2>1, <2>2
<1>8. CASE Read
    BY <1>8 DEF Read, Look, TakeJournal, TakeOthers, Prove, Query, ProveAgain, GiveUp, Nothing
<1> QED
    BY <1>1, <1>2, <1>3, <1>4, <1>5, <1>6, <1>7, <1>8 DEF Next

\* What a step of an operation is to the atomic store.
LEMMA ServeImplements ==
    ASSUME StoreInv, Serve
    PROVE  PrivateStoreOf!Next \/ UNCHANGED PrivateStoreOf!vars
<1>1. ASSUME authority' = authority, answer' = answer
      PROVE  UNCHANGED PrivateStoreOf!vars
    BY <1>1 DEF PrivateStoreOf!vars
<1>2. ASSUME NEW db \in index.db, pc = "apply", op.kind \in {"entry", "control"},
             authority' = authority \cup {OwnFile(db)}, answer' = answer
      PROVE  PrivateStoreOf!Next
    <2>1. PICK f : f = OwnFile(db)
        OBVIOUS
    <2>2. f.kind \in {"journal", "control"} /\ f.kind # "receipt" /\ f.holds \in SUBSET Record
        <3>1. f \in File /\ f.kind \in {"journal", "control"}
            BY <2>1, <1>2, OwnFileFacts
        <3> QED
            BY <3>1 DEF File
    <2>3. Captured(authority') = Captured(authority) \cup f.holds
        BY <2>1, <2>2, <1>2 DEF Captured, Holds
    <2>4. Receipted(authority') = Receipted(authority)
        BY <2>1, <2>2, <1>2 DEF Receipted, Holds
    <2>5. PrivateStoreOf!Capture
        BY <2>2, <2>3, <2>4, <1>2 DEF PrivateStoreOf!Capture
    <2> QED
        BY <2>5 DEF PrivateStoreOf!Next
<1>3. ASSUME pc = "receipts", NEW hashes \in SUBSET op.left,
             authority' = authority \cup {NewFile("receipt", 0, hashes)}, answer' = answer
      PROVE  PrivateStoreOf!Next
    <2>1. PICK f : f = NewFile("receipt", 0, hashes)
        OBVIOUS
    <2>2. f.kind = "receipt" /\ f.holds = hashes /\ authority' = authority \cup {f}
        BY <2>1, <1>3 DEF NewFile
    <2>3. Captured(authority') = Captured(authority)
        BY <2>2 DEF Captured, Holds
    <2>4. Receipted(authority') = Receipted(authority) \cup hashes
        BY <2>2 DEF Receipted, Holds
    <2>5. hashes \subseteq Captured(authority)
        <3>1. index.db # {}
            BY <1>3 DEF StoreInv, PlaceInv, Serving
        <3>2. PICK db \in index.db : TRUE
            BY <3>1
        <3>3. op.left \subseteq op.holds /\ op.holds \subseteq db.records /\ db.files \subseteq authority
            BY <1>3 DEF StoreInv, BehindInv, Acknowledging
        <3>4. db.records = Captured(db.files)
            BY DEF StoreInv, BehindInv, Complete, Reflects
        <3>5. Captured(db.files) \subseteq Captured(authority)
            BY <3>3, HoldsGrows DEF Captured
        <3> QED
            BY <3>3, <3>4, <3>5
    <2>6. PrivateStoreOf!Acknowledge
        BY <2>3, <2>4, <2>5, <1>3 DEF PrivateStoreOf!Acknowledge
    <2> QED
        BY <2>6 DEF PrivateStoreOf!Next
<1>4. CASE AnswerPending
    <2>1. pc = "apply" /\ authority' = authority
        BY <1>4 DEF AnswerPending
    <2>2. PICK db \in index.db : answer' = db.pending
        BY <1>4 DEF AnswerPending
    <2>3. db.pending = Owed(authority)
        BY <2>1, ApplyPlace DEF Complete, Reflects
    <2>4. PrivateStoreOf!Ask
        BY <2>1, <2>2, <2>3 DEF PrivateStoreOf!Ask, Owed
    <2> QED
        BY <2>4 DEF PrivateStoreOf!Next
<1>5. CASE PublishFile
    <2>1. pc = "apply" /\ op.kind \in {"entry", "control"} /\ answer' = answer
        BY <1>5 DEF PublishFile, MutationFails
    <2>2. PICK db \in index.db :
              authority' = authority \/ authority' = authority \cup {OwnFile(db)}
        BY <1>5 DEF PublishFile, MutationFails
    <2> QED
        BY <2>1, <2>2, <1>1, <1>2
<1>6. CASE PublishReceipts
    <2>1. pc = "receipts" /\ answer' = answer
        BY <1>6 DEF PublishReceipts, MutationFails
    <2>2. PICK hashes \in SUBSET op.left :
              authority' = authority \/ authority' = authority \cup {NewFile("receipt", 0, hashes)}
        BY <1>6 DEF PublishReceipts, MutationFails, Chunk
    <2> QED
        BY <2>1, <2>2, <1>1, <1>3
<1>7. CASE FilterConfirmed \/ UpdateIndex \/ UpdateFails \/ CheckpointFails
    <2>1. authority' = authority /\ answer' = answer
        BY <1>7 DEF FilterConfirmed, UpdateIndex, UpdateFails, MutationFails, CheckpointFails
    <2> QED
        BY <2>1, <1>1
<1> QED
    BY <1>4, <1>5, <1>6, <1>7 DEF Serve

LEMMA NobodyTampers ==
    ASSUME MaxTampers = 0
    PROVE  Spec => [](tampers = 0)
<1>1. Init => tampers = 0
    BY DEF Init
<1>2. tampers = 0 /\ [Next]_vars => (tampers = 0)'
    <2> SUFFICES ASSUME tampers = 0, [Next]_vars PROVE tampers' = 0
        OBVIOUS
    <2>1. CASE \E bounded \in BOOLEAN : Begin(bounded)
        BY <2>1 DEF Begin, bounds
    <2>2. CASE CommitBatch \/ CommitControl \/ AcknowledgeHashes \/ Pending
        BY <2>2 DEF CommitBatch, CommitControl, AcknowledgeHashes, Pending, Issue, bounds
    <2>3. CASE Open
        BY <2>3 DEF Open, OpenValid, OpenLost, OpenStale, Outside
    <2>4. CASE Rebuild
        BY <2>4 DEF Rebuild, ResumeStage, StageLost, RestartStage, ReplayFile, ReplayInvalid, RollBack,
                    CommitSlice, StampStage, Promote, PublishRebuilt, RemoveStageManifest, Outside
    <2>5. CASE Serve
        BY <2>5 DEF Serve, AnswerPending, PublishFile, FilterConfirmed, PublishReceipts, UpdateIndex,
                    UpdateFails, CheckpointFails, MutationFails, Outside
    <2>6. CASE Flush \/ Close \/ InvalidateCache \/ Release
        BY <2>6 DEF Flush, Close, InvalidateCache, Release, Outside, bounds
    <2>7. CASE Failure
        BY <2>7 DEF Failure, ReplayFails, RollBack, RebuildFails, CloseFails, Crash, Outside
    <2>8. CASE Remove \/ Touch \/ Rewrite
        BY <2>8 DEF Remove, Touch, Rewrite, Tamper
    <2>9. CASE Read
        BY <2>9 DEF Read, Look, TakeJournal, TakeOthers, Prove, Query, ProveAgain, GiveUp, Nothing, bounds
    <2>10. CASE UNCHANGED vars
        BY <2>10 DEF vars, bounds
    <2> QED
        BY <2>1, <2>2, <2>3, <2>4, <2>5, <2>6, <2>7, <2>8, <2>9, <2>10 DEF Next
<1> QED
    BY <1>1, <1>2, PTL DEF Spec

\* ImplementsPrivateStore: files, index, slices, failures and crashes together are
\* a store that captures and acknowledges in one step and answers exactly what is
\* owed (the LocalStore interface of store.ts), as long as nobody else changes the
\* files.
THEOREM StoreImplementsAtomic ==
    ASSUME MaxTampers = 0
    PROVE  Spec => ImplementsPrivateStore
<1>1. Init => PrivateStoreOf!Init
    BY HoldsNone DEF Init, PrivateStoreOf!Init, Captured, Receipted
<1>2. StoreInv /\ (tampers = 0)' /\ [Next]_vars => [PrivateStoreOf!Next]_(PrivateStoreOf!vars)
    <2> SUFFICES ASSUME StoreInv, tampers' = 0, [Next]_vars
                 PROVE  PrivateStoreOf!Next \/ UNCHANGED PrivateStoreOf!vars
        OBVIOUS
    <2>1. CASE Serve
        BY <2>1, ServeImplements
    <2>2. CASE Next /\ ~ Serve
        BY <2>2, FilesKept DEF PrivateStoreOf!vars
    <2>3. CASE UNCHANGED vars
        BY <2>3 DEF vars, PrivateStoreOf!vars
    <2> QED
        BY <2>1, <2>2, <2>3
<1>3. Spec => []StoreInv /\ [](tampers = 0)
    BY StoreAlways, NobodyTampers
<1> QED
    BY <1>1, <1>2, <1>3, PTL DEF Spec, ImplementsPrivateStore, PrivateStoreOf!Spec

=============================================================================
