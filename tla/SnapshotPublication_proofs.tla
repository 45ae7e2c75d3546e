---------------------- MODULE SnapshotPublication_proofs ----------------------
(***************************************************************************)
(* The publication of research snapshots, for any number of snapshots,     *)
(* publishers, readers, indexers and faults: TypeOK, ActiveIsComplete and  *)
(* NoLostPublication of SnapshotPublication, and AtomicCatalog: that it     *)
(* implements ResearchCatalog.                                             *)
(***************************************************************************)
EXTENDS SnapshotPublication, TLAPS

-----------------------------------------------------------------------------
(* The inductive invariant.                                                  *)

\* What stage_snapshot verified stays in Chroma until it is activated.
StagedIsHeld ==
    \A p \in Publishers :
        pub[p].pc \in {"staged", "activating"} => DocumentsOf(pub[p].snapshot) \subseteq chroma

\* What a transaction compared holds until it ends.
OpenIsCurrent ==
    /\ \A p \in Publishers :
         LET s == pub[p].snapshot IN
         pub[p].pc = "activating" => pub[p].prior = active /\ manifest[s.version] \in {None, s}
    /\ \A i \in Indexers : idx[i].pc = "upserting" => active = None

\* A search holds what its snapshot has; a snapshot that was active keeps its documents
\* and its manifest.
SearchIsWhole ==
    \A r \in Readers :
        LET s == reader[r].active  found == reader[r].documents IN
        /\ s # None => manifest[s.version] = s /\ DocumentsOf(s) \subseteq chroma
        /\ reader[r].pc \in {"found", "scoped", "enriched"}
             => found = IF s = None THEN {} ELSE DocumentsOf(s)
        /\ reader[r].pc = "enriched" => reader[r].contexts = found

IInv ==
    /\ TypeOK
    /\ StagedIsHeld
    /\ OpenIsCurrent
    /\ SearchIsWhole
    /\ ActiveIsComplete
-----------------------------------------------------------------------------
(* The data.                                                                 *)

LEMMA SnapshotFacts ==
    /\ None \notin Snapshots /\ Generic \notin Snapshots
    /\ None \notin Publishers /\ None \notin Indexers
    /\ \A s \in Snapshots : s.version \in Version
  BY SnapshotConstants DEF Version

\* The documents of a snapshot are the ones that carry it.
LEMMA DocumentFacts ==
    ASSUME NEW s \in Snapshots
    PROVE  /\ DocumentsOf(s) \subseteq Documents
           /\ \A d \in DocumentsOf(s) : d[1] = s
           /\ \A d \in Documents : d[1] = s => d \in DocumentsOf(s)
<1>1. DocumentsOf(s) \subseteq Documents
  BY DEF Documents
<1>2. \A t : \A d \in DocumentsOf(t) : d[1] = t
  BY DEF DocumentsOf
<1>3. ASSUME NEW d \in Documents, d[1] = s
      PROVE  d \in DocumentsOf(s)
  <2>1. CASE d \in {None} \X Symbols
    BY <1>3, <2>1, SnapshotFacts
  <2>2. CASE d \in UNION {DocumentsOf(t) : t \in Snapshots}
    BY <1>2, <1>3, <2>2
  <2>. QED BY <2>1, <2>2 DEF Documents
<1>. QED BY <1>1, <1>2, <1>3

LEMMA ProjectionType ==
    ASSUME NEW s \in Snapshots
    PROVE  ProjectionOf(s) \in [Symbols -> Snapshots \cup {None, Generic}]
  BY DEF ProjectionOf

LEMMA InitIInv == Init => IInv
  BY SnapshotConstants
  DEF Init, IInv, TypeOK, StagedIsHeld, OpenIsCurrent, SearchIsWhole, ActiveIsComplete,
      IdlePublisher, IdleReader, Nothing, PublisherStates, ReaderStates, IndexerStates

PubState ==
    [pc : PublisherStates, snapshot : Snapshots \cup {None}, prior : Snapshots \cup {None}]

ReaderState ==
    [pc : ReaderStates, active : Snapshots \cup {None}, documents : SUBSET Documents,
     contexts : SUBSET Documents]

-----------------------------------------------------------------------------
(* What kinds of steps there are.                                            *)

\* A publisher goes on while what is active stays.
LEMMA PublisherGoesOn ==
    ASSUME IInv, NEW p \in Publishers, NEW r \in PubState, pub' = [pub EXCEPT ![p] = r],
           r.pc # "idle" => r.snapshot \in Snapshots,
           r.pc \in {"staged", "activating"} => DocumentsOf(r.snapshot) \subseteq chroma',
           r.pc = "activating" => /\ r.prior = active
                                  /\ manifest[r.snapshot.version] \in {None, r.snapshot},
           r.pc = "activating" <=> catalogLock' = p,
           catalogLock' = catalogLock \/ {catalogLock, catalogLock'} \subseteq {p, None},
           chroma \subseteq chroma', chroma' \subseteq Documents,
           confirmed' \in [Publishers -> Snapshots \cup {None}],
           faults' \in 0..MaxFaults,
           UNCHANGED <<manifest, active, projection, idx, reader, answered>>
    PROVE  IInv'
<1>1. /\ pub' \in [Publishers -> PubState] /\ pub'[p] = r
      /\ \A q \in Publishers : q # p => pub'[q] = pub[q]
  BY DEF IInv, TypeOK, PubState
<1>2. TypeOK'
  <2>1. \A q \in Publishers : pub'[q].pc = "activating" <=> catalogLock' = q
    BY <1>1, SnapshotFacts DEF IInv, TypeOK
  <2>2. \A i \in Indexers : idx'[i].pc = "upserting" <=> catalogLock' = i
    BY SnapshotConstants, SnapshotFacts DEF IInv, TypeOK
  <2>3. catalogLock' \in Publishers \cup Indexers \cup {None}
    BY DEF IInv, TypeOK
  <2>. QED BY <1>1, <2>1, <2>2, <2>3 DEF IInv, TypeOK, PubState
<1>3. StagedIsHeld' /\ OpenIsCurrent'
  BY <1>1 DEF IInv, StagedIsHeld, OpenIsCurrent
<1>4. SearchIsWhole' /\ ActiveIsComplete'
  BY DEF IInv, SearchIsWhole, ActiveIsComplete
<1>. QED BY <1>2, <1>3, <1>4 DEF IInv

\* The commit of a publication.
LEMMA Activates ==
    ASSUME IInv, NEW p \in Publishers, pub[p].pc = "activating",
           Activated(pub[p].snapshot), catalogLock' = None,
           NEW r \in PubState, pub' = [pub EXCEPT ![p] = r],
           r.pc \notin {"staged", "activating"}, r.pc # "idle" => r.snapshot \in Snapshots,
           faults' \in 0..MaxFaults,
           UNCHANGED <<chroma, idx, reader, confirmed, answered>>
    PROVE  IInv'
<1> DEFINE s == pub[p].snapshot
<1>1. /\ pub' \in [Publishers -> PubState] /\ pub'[p] = r
      /\ \A q \in Publishers : q # p => pub'[q] = pub[q]
  BY DEF IInv, TypeOK, PubState
<1>2. /\ s \in Snapshots /\ s.version \in Version
      /\ manifest[s.version] \in {None, s} /\ DocumentsOf(s) \subseteq chroma
  BY SnapshotFacts DEF IInv, TypeOK, StagedIsHeld, OpenIsCurrent
<1>3. /\ \A q \in Publishers : q # p => pub[q].pc # "activating"
      /\ \A i \in Indexers : idx[i].pc # "upserting"
  BY SnapshotConstants DEF IInv, TypeOK
<1>. HIDE DEF s
<1>4. /\ manifest' \in [Version -> Snapshots \cup {None}] /\ manifest'[s.version] = s
      /\ \A v \in Version : v # s.version => manifest'[v] = manifest[v]
      /\ active' = s /\ projection' = ProjectionOf(s)
  BY <1>2 DEF Activated, IInv, TypeOK, s
<1>5. \A t \in Snapshots : manifest[t.version] = t => manifest'[t.version] = t
  BY <1>2, <1>4, SnapshotFacts
<1>6. TypeOK'
  <2>1. \A q \in Publishers : pub'[q].pc # "activating" /\ catalogLock' # q
    BY <1>1, <1>3, SnapshotFacts
  <2>2. \A i \in Indexers : idx'[i].pc # "upserting" /\ catalogLock' # i
    BY <1>3, SnapshotFacts
  <2>. QED BY <1>1, <1>2, <1>4, <2>1, <2>2, ProjectionType DEF IInv, TypeOK, PubState
<1>7. StagedIsHeld' /\ OpenIsCurrent'
  BY <1>1, <1>3 DEF IInv, StagedIsHeld, OpenIsCurrent
<1>8. SearchIsWhole'
  BY <1>5 DEF IInv, TypeOK, SearchIsWhole
<1>9. ActiveIsComplete'
  BY <1>2, <1>4 DEF ActiveIsComplete
<1>. QED BY <1>6, <1>7, <1>8, <1>9 DEF IInv

\* A reader goes on over stores that stay.
LEMMA ReaderGoesOn ==
    ASSUME IInv, NEW r \in Readers, NEW q \in ReaderState, reader' = [reader EXCEPT ![r] = q],
           q.active # None => /\ manifest[q.active.version] = q.active
                              /\ DocumentsOf(q.active) \subseteq chroma,
           q.pc \in {"found", "scoped", "enriched"}
             => q.documents = IF q.active = None THEN {} ELSE DocumentsOf(q.active),
           q.pc = "enriched" => q.contexts = q.documents,
           answered' \in [Readers -> [of : Snapshots \cup {None}, documents : SUBSET Documents,
                                      contexts : SUBSET Documents]],
           UNCHANGED <<stores, pub, idx, confirmed, faults>>
    PROVE  IInv'
<1>1. /\ reader' \in [Readers -> ReaderState] /\ reader'[r] = q
      /\ \A t \in Readers : t # r => reader'[t] = reader[t]
  BY DEF IInv, TypeOK, ReaderState
<1>2. TypeOK'
  BY <1>1 DEF IInv, TypeOK, ReaderState, stores
<1>3. StagedIsHeld' /\ OpenIsCurrent' /\ ActiveIsComplete'
  BY DEF IInv, StagedIsHeld, OpenIsCurrent, ActiveIsComplete, stores
<1>4. SearchIsWhole'
  BY <1>1 DEF IInv, SearchIsWhole, stores
<1>. QED BY <1>2, <1>3, <1>4 DEF IInv
-----------------------------------------------------------------------------
(* The steps of publishers.                                                  *)

\* What the publisher moves to when it only goes on, and when it returns or raises.
LEMMA PublisherMoves ==
    ASSUME IInv, NEW p \in Publishers
    PROVE  /\ pub[p] \in PubState /\ IdlePublisher \in PubState
           /\ Gives(p) => pub' = [pub EXCEPT ![p] = IdlePublisher]
           /\ \A pc \in PublisherStates :
                /\ [pub[p] EXCEPT !.pc = pc] \in PubState
                /\ Goto(p, pc) => pub' = [pub EXCEPT ![p] = [pub[p] EXCEPT !.pc = pc]]
  BY DEF IInv, TypeOK, PubState, IdlePublisher, PublisherStates, Gives, Goto

\* Returning or raising without having changed the stores.
LEMMA PublisherGives ==
    ASSUME IInv, NEW p \in Publishers, Gives(p), catalogLock' # p,
           catalogLock' = catalogLock \/ {catalogLock, catalogLock'} \subseteq {p, None},
           chroma \subseteq chroma', chroma' \subseteq Documents,
           confirmed' \in [Publishers -> Snapshots \cup {None}],
           faults' \in 0..MaxFaults,
           UNCHANGED <<manifest, active, projection, idx, reader, answered>>
    PROVE  IInv'
<1>1. /\ IdlePublisher \in PubState /\ IdlePublisher.pc = "idle"
      /\ pub' = [pub EXCEPT ![p] = IdlePublisher]
  BY PublisherMoves DEF IdlePublisher
<1>. QED BY <1>1, PublisherGoesOn

\* Going on to a state that nothing depends on.
LEMMA PublisherGoes ==
    ASSUME IInv, NEW p \in Publishers, NEW pc \in PublisherStates, Goto(p, pc),
           pc \notin {"idle", "activating"}, pub[p].pc \notin {"idle", "activating"},
           pc = "staged" => DocumentsOf(pub[p].snapshot) \subseteq chroma',
           chroma \subseteq chroma', chroma' \subseteq Documents,
           faults' \in 0..MaxFaults,
           UNCHANGED <<manifest, active, projection, catalogLock, idx, reader, confirmed,
                       answered>>
    PROVE  IInv'
<1> DEFINE r == [pub[p] EXCEPT !.pc = pc]
<1>1. r \in PubState /\ pub' = [pub EXCEPT ![p] = r] /\ pub[p] \in PubState
  BY PublisherMoves
<1>2. r.pc = pc /\ r.snapshot = pub[p].snapshot
  BY <1>1 DEF PubState
<1>3. r.snapshot \in Snapshots /\ catalogLock # p
  BY <1>2 DEF IInv, TypeOK
<1>4. confirmed' \in [Publishers -> Snapshots \cup {None}]
  BY DEF IInv, TypeOK
<1>. HIDE DEF r
<1>. QED BY <1>1, <1>2, <1>3, <1>4, PublisherGoesOn

LEMMA PublisherStep ==
    ASSUME IInv, NEW p \in Publishers,
           \/ \E s \in Snapshots : ReadActive(p, s)
           \/ ReadDigest(p) \/ Stage(p) \/ BeginActivate(p) \/ CommitActivate(p)
           \/ ReadBack(p) \/ VerifyActive(p) \/ RecheckActive(p) \/ PublisherCrash(p)
    PROVE  IInv'
<1>1. /\ chroma \subseteq Documents /\ faults \in 0..MaxFaults
      /\ faults < MaxFaults => faults + 1 \in 0..MaxFaults
      /\ confirmed \in [Publishers -> Snapshots \cup {None}]
      /\ active \in Snapshots \cup {None} /\ pub[p] \in PubState
      /\ pub[p].pc = "activating" <=> catalogLock = p
      /\ p # None
      /\ pub[p].pc # "idle" => pub[p].snapshot \in Snapshots
  BY SnapshotConstants, SnapshotFacts DEF IInv, TypeOK, PubState
<1>2. ASSUME NEW s \in Snapshots, ReadActive(p, s)
      PROVE  IInv'
  <2> DEFINE r == [pc |-> "begun", snapshot |-> s, prior |-> active]
  <2>1. r \in PubState /\ r.pc = "begun" /\ r.snapshot = s
    BY <1>1 DEF PubState, PublisherStates
  <2>2. pub' = [pub EXCEPT ![p] = r]
        /\ confirmed' \in [Publishers -> Snapshots \cup {None}]
    BY <1>1, <1>2 DEF ReadActive
  <2>. HIDE DEF r
  <2>. QED BY <1>1, <1>2, <2>1, <2>2, PublisherGoesOn DEF ReadActive, stores
<1>3. CASE ReadDigest(p)
  <2>1. CASE Gives(p)
    BY <1>1, <1>3, <2>1, PublisherGives DEF ReadDigest, stores
  <2>2. CASE Goto(p, "verifying")
    BY <1>1, <1>3, <2>2, PublisherGoes DEF ReadDigest, stores, PublisherStates
  <2>3. CASE Goto(p, "staging")
    BY <1>1, <1>3, <2>3, PublisherGoes DEF ReadDigest, stores, PublisherStates
  <2>. QED BY <1>3, <2>1, <2>2, <2>3 DEF ReadDigest
<1>4. CASE Stage(p)
  <2>1. chroma \subseteq chroma' /\ chroma' \subseteq Documents /\ faults' \in 0..MaxFaults
    <3>1. DocumentsOf(pub[p].snapshot) \subseteq Documents
      BY <1>1, <1>4, DocumentFacts DEF Stage
    <3>. QED BY <1>1, <1>4, <3>1 DEF Stage
  <2>2. CASE Staged(pub[p].snapshot, chroma') /\ Goto(p, "staged")
    BY <1>1, <1>4, <2>1, <2>2, PublisherGoes DEF Stage, Staged, PublisherStates
  <2>3. CASE Gives(p)
    BY <1>1, <1>4, <2>1, <2>3, PublisherGives DEF Stage
  <2>. QED BY <1>4, <2>2, <2>3 DEF Stage
<1>5. CASE BeginActivate(p)
  <2>1. CASE catalogLock' = None /\ Gives(p)
    BY <1>1, <1>5, <2>1, PublisherGives DEF BeginActivate
  <2>2. CASE /\ ExpectedPrior(p) /\ catalogLock' = p /\ Goto(p, "activating")
             /\ manifest[pub[p].snapshot.version] \in {None, pub[p].snapshot}
    <3> DEFINE r == [pub[p] EXCEPT !.pc = "activating"]
    <3>1. r \in PubState /\ pub' = [pub EXCEPT ![p] = r]
      BY <2>2, PublisherMoves DEF PublisherStates
    <3>2. r.pc = "activating" /\ r.snapshot = pub[p].snapshot /\ r.prior = active
      BY <1>1, <2>2 DEF PubState, ExpectedPrior
    <3>3. r.snapshot \in Snapshots /\ DocumentsOf(r.snapshot) \subseteq chroma
      BY <1>1, <1>5, <3>2 DEF BeginActivate, IInv, StagedIsHeld
    <3>. HIDE DEF r
    <3>. QED BY <1>1, <1>5, <2>2, <3>1, <3>2, <3>3, PublisherGoesOn DEF BeginActivate
  <2>. QED BY <1>5, <2>1, <2>2 DEF BeginActivate
<1>6. CASE CommitActivate(p)
  <2>1. CASE Activated(pub[p].snapshot) /\ Goto(p, "committed") /\ faults' = faults
    <3> DEFINE r == [pub[p] EXCEPT !.pc = "committed"]
    <3>1. r \in PubState /\ pub' = [pub EXCEPT ![p] = r]
      BY <2>1, PublisherMoves DEF PublisherStates
    <3>2. r.pc = "committed" /\ r.snapshot \in Snapshots
      BY <1>1, <1>6 DEF PubState, CommitActivate
    <3>. HIDE DEF r
    <3>. QED BY <1>1, <1>6, <2>1, <3>1, <3>2, Activates DEF CommitActivate
  <2>2. CASE Activated(pub[p].snapshot) /\ Gives(p)
    <3>1. /\ IdlePublisher \in PubState /\ IdlePublisher.pc = "idle"
          /\ pub' = [pub EXCEPT ![p] = IdlePublisher]
      BY <2>2, PublisherMoves DEF IdlePublisher
    <3>. QED BY <1>1, <1>6, <2>2, <3>1, Activates DEF CommitActivate
  <2>3. CASE UNCHANGED <<manifest, projection, active>> /\ Gives(p)
    BY <1>1, <1>6, <2>3, PublisherGives DEF CommitActivate
  <2>. QED BY <1>6, <2>1, <2>2, <2>3 DEF CommitActivate
<1>7. CASE ReadBack(p) \/ RecheckActive(p)
  <2>1. confirmed' \in [Publishers -> Snapshots \cup {None}]
    BY <1>1, <1>7 DEF ReadBack, RecheckActive, Reports
  <2>. QED BY <1>1, <1>7, <2>1, PublisherGives DEF ReadBack, RecheckActive, stores
<1>8. CASE VerifyActive(p)
  <2>1. CASE Goto(p, "verified")
    BY <1>1, <1>8, <2>1, PublisherGoes DEF VerifyActive, stores, PublisherStates
  <2>2. CASE Gives(p)
    BY <1>1, <1>8, <2>2, PublisherGives DEF VerifyActive, stores
  <2>. QED BY <1>8, <2>1, <2>2 DEF VerifyActive
<1>9. CASE PublisherCrash(p)
  BY <1>1, <1>9, PublisherGives DEF PublisherCrash
<1>. QED BY <1>2, <1>3, <1>4, <1>5, <1>6, <1>7, <1>8, <1>9

-----------------------------------------------------------------------------
(* The steps of indexers and readers.                                        *)

LEMMA IndexerStep ==
    ASSUME IInv, NEW i \in Indexers,
           \/ \E symbol \in Symbols : IndexChroma(i, symbol)
           \/ BeginUpsert(i) \/ EndUpsert(i)
    PROVE  IInv'
<1>. USE SnapshotConstants
<1>1. ASSUME NEW symbol \in Symbols, IndexChroma(i, symbol)
      PROVE  IInv'
  <2>1. chroma \subseteq chroma' /\ chroma' \subseteq Documents
    BY <1>1 DEF IndexChroma, IInv, TypeOK, Documents
  <2>2. TypeOK'
    BY <1>1, <2>1 DEF IndexChroma, IInv, TypeOK, IndexerStates
  <2>3. OpenIsCurrent'
    BY <1>1 DEF IndexChroma, IInv, TypeOK, OpenIsCurrent
  <2>4. StagedIsHeld' /\ SearchIsWhole' /\ ActiveIsComplete'
    BY <1>1, <2>1 DEF IndexChroma, IInv, StagedIsHeld, SearchIsWhole, ActiveIsComplete
  <2>. QED BY <2>2, <2>3, <2>4 DEF IInv
<1>2. CASE BeginUpsert(i)
  <2>1. TypeOK'
    <3>1. i # None /\ catalogLock = None
      BY <1>2, SnapshotFacts DEF BeginUpsert
    <3>2. /\ idx' \in [Indexers -> [pc : IndexerStates, symbol : Symbols \cup {None}]]
          /\ idx'[i].pc # "idle" => idx'[i].symbol \in Symbols
          /\ idx'[i].pc = "upserting" <=> catalogLock' = i
          /\ catalogLock' \in {i, None}
          /\ \A j \in Indexers : j # i => idx'[j] = idx[j]
      <4>1. CASE /\ catalogLock' = i
                 /\ idx' = [idx EXCEPT ![i].pc = "upserting"]
        BY <1>2, <4>1 DEF BeginUpsert, IInv, TypeOK, IndexerStates
      <4>2. CASE /\ catalogLock' = None
                 /\ idx' = [idx EXCEPT ![i] = [pc |-> "idle", symbol |-> None]]
        BY <3>1, <4>2 DEF IInv, TypeOK, IndexerStates
      <4>. QED BY <1>2, <4>1, <4>2 DEF BeginUpsert
    <3>3. \A j \in Indexers : /\ idx'[j].pc # "idle" => idx'[j].symbol \in Symbols
                              /\ idx'[j].pc = "upserting" <=> catalogLock' = j
      BY <3>1, <3>2, SnapshotFacts DEF IInv, TypeOK
    <3>4. UNCHANGED <<chroma, manifest, active, projection, pub, reader, confirmed,
                      answered, faults>>
      BY <1>2 DEF BeginUpsert
    <3>5. \A p \in Publishers : /\ pub'[p].pc # "idle" => pub'[p].snapshot \in Snapshots
                                /\ pub'[p].pc = "activating" <=> catalogLock' = p
      BY <3>1, <3>2, <3>4, SnapshotFacts DEF IInv, TypeOK
    <3>. QED BY <3>2, <3>3, <3>4, <3>5 DEF IInv, TypeOK
  <2>2. OpenIsCurrent'
    BY <1>2 DEF BeginUpsert, IInv, TypeOK, OpenIsCurrent, MayUpsert
  <2>3. StagedIsHeld' /\ SearchIsWhole' /\ ActiveIsComplete'
    BY <1>2 DEF BeginUpsert, IInv, StagedIsHeld, SearchIsWhole, ActiveIsComplete
  <2>. QED BY <2>1, <2>2, <2>3 DEF IInv
<1>3. CASE EndUpsert(i)
  <2>1. active = None /\ catalogLock = i
    BY <1>3 DEF EndUpsert, IInv, TypeOK, OpenIsCurrent
  <2>2. TypeOK'
    BY <1>3, <2>1 DEF EndUpsert, IInv, TypeOK, IndexerStates
  <2>3. OpenIsCurrent'
    BY <1>3 DEF EndUpsert, IInv, TypeOK, OpenIsCurrent
  <2>4. StagedIsHeld' /\ SearchIsWhole' /\ ActiveIsComplete'
    BY <1>3, <2>1 DEF EndUpsert, IInv, StagedIsHeld, SearchIsWhole, ActiveIsComplete
  <2>. QED BY <2>2, <2>3, <2>4 DEF IInv
<1>. QED BY <1>1, <1>2, <1>3
\* A snapshot that a search reads as active has its documents and its manifest, now and
\* later; the documents that carry it are all of it.
LEMMA ReaderStep ==
    ASSUME IInv, NEW r \in Readers,
           SearchBegin(r) \/ SearchSemantic(r) \/ SearchScope(r) \/ SearchContexts(r)
              \/ SearchEnd(r)
    PROVE  IInv'
<1> DEFINE q == reader[r]
<1>1. /\ q \in ReaderState
      /\ q.active # None => /\ q.active \in Snapshots
                            /\ manifest[q.active.version] = q.active
                            /\ DocumentsOf(q.active) \subseteq chroma
      /\ q.pc \in {"found", "scoped", "enriched"}
           => q.documents = IF q.active = None THEN {} ELSE DocumentsOf(q.active)
      /\ q.pc = "enriched" => q.contexts = q.documents
  BY DEF IInv, TypeOK, ReaderState, SearchIsWhole
<1>2. /\ IdleReader \in ReaderState
      /\ IdleReader.active = None /\ IdleReader.pc = "idle"
  BY DEF IdleReader, ReaderState, ReaderStates
<1>3. answered \in [Readers -> [of : Snapshots \cup {None}, documents : SUBSET Documents,
                                contexts : SUBSET Documents]]
      /\ chroma \subseteq Documents /\ active \in Snapshots \cup {None}
  BY DEF IInv, TypeOK
<1>4. CASE SearchBegin(r)
  <2> DEFINE new == [IdleReader EXCEPT !.pc = "searching", !.active = active]
  <2>1. new \in ReaderState /\ new.pc = "searching" /\ new.active = active
    BY <1>2, <1>3 DEF ReaderState, ReaderStates
  <2>2. reader' = [reader EXCEPT ![r] = new]
    BY <1>4 DEF SearchBegin
  <2>3. active # None => /\ manifest[active.version] = active
                         /\ DocumentsOf(active) \subseteq chroma
    BY DEF IInv, ActiveIsComplete
  <2>. HIDE DEF new
  <2>. QED BY <1>3, <1>4, <2>1, <2>2, <2>3, ReaderGoesOn DEF SearchBegin
<1>5. CASE SearchSemantic(r)
  <2> DEFINE pc == IF q.active = None THEN "scoped" ELSE "found"
             found == {d \in chroma : q.active # None /\ d[1] = q.active}
             new == [q EXCEPT !.pc = pc, !.documents = found]
  <2>1. found = IF q.active = None THEN {} ELSE DocumentsOf(q.active)
    BY <1>1, <1>3, DocumentFacts
  <2>2. found \in SUBSET Documents
    BY <1>3
  <2>3. reader' = [reader EXCEPT ![r] = new]
    BY <1>5 DEF SearchSemantic, IInv, TypeOK
  <2>4. pc \in {"scoped", "found"}
    OBVIOUS
  <2>. HIDE DEF pc, found, q
  <2>5. new \in ReaderState /\ new.pc = pc /\ new.active = q.active /\ new.documents = found
    BY <1>1, <2>2, <2>4 DEF ReaderState, ReaderStates
  <2>. HIDE DEF new
  <2>. QED BY <1>1, <1>3, <1>5, <2>1, <2>3, <2>4, <2>5, ReaderGoesOn DEF SearchSemantic
<1>6. CASE SearchScope(r)
  <2>1. CASE Fails(r)
    BY <1>2, <1>3, <1>6, <2>1, ReaderGoesOn DEF SearchScope, Fails
  <2>2. CASE reader' = [reader EXCEPT ![r].pc = "scoped"]
    <3> DEFINE new == [q EXCEPT !.pc = "scoped"]
    <3>1. reader' = [reader EXCEPT ![r] = new]
      BY <2>2 DEF IInv, TypeOK
    <3>2. q.pc = "found"
      BY <1>6 DEF SearchScope
    <3>. HIDE DEF q
    <3>3. new \in ReaderState /\ new.pc = "scoped" /\ new.active = q.active
          /\ new.documents = q.documents
      BY <1>1 DEF ReaderState, ReaderStates
    <3>. HIDE DEF new
    <3>. QED BY <1>1, <1>3, <1>6, <3>1, <3>2, <3>3, ReaderGoesOn DEF SearchScope
  <2>. QED BY <1>6, <2>1, <2>2 DEF SearchScope
<1>7. CASE SearchContexts(r)
  <2> DEFINE held == {d \in q.documents : manifest[d[1].version] = d[1]}
             new == [q EXCEPT !.pc = "enriched", !.contexts = held]
  <2>1. reader' = [reader EXCEPT ![r] = new] /\ q.pc = "scoped"
    BY <1>7 DEF SearchContexts, IInv, TypeOK
  <2>2. held = q.documents
    BY <1>1, <2>1, DocumentFacts
  <2>. HIDE DEF held, q
  <2>3. new \in ReaderState /\ new.pc = "enriched" /\ new.active = q.active
        /\ new.documents = q.documents /\ new.contexts = q.documents
    BY <1>1, <2>2 DEF ReaderState, ReaderStates
  <2>. HIDE DEF new
  <2>. QED BY <1>1, <1>3, <1>7, <2>1, <2>3, ReaderGoesOn DEF SearchContexts
<1>8. CASE SearchEnd(r)
  <2>1. [of |-> q.active, documents |-> q.documents, contexts |-> q.contexts]
           \in [of : Snapshots \cup {None}, documents : SUBSET Documents,
                contexts : SUBSET Documents]
    BY <1>1 DEF ReaderState
  <2>2. answered' \in [Readers -> [of : Snapshots \cup {None}, documents : SUBSET Documents,
                                   contexts : SUBSET Documents]]
    BY <1>3, <1>8, <2>1 DEF SearchEnd
  <2>3. reader' = [reader EXCEPT ![r] = IdleReader]
    BY <1>8 DEF SearchEnd, Fails
  <2>. QED BY <1>2, <1>8, <2>2, <2>3, ReaderGoesOn DEF SearchEnd
<1>. QED BY <1>4, <1>5, <1>6, <1>7, <1>8

LEMMA NextIInv ==
    ASSUME IInv, [Next]_vars
    PROVE  IInv'
<1>1. CASE UNCHANGED vars
  BY <1>1 DEF vars, IInv, TypeOK, StagedIsHeld, OpenIsCurrent, SearchIsWhole, ActiveIsComplete
<1>. QED BY <1>1, PublisherStep, IndexerStep, ReaderStep DEF Next

LEMMA Inductive == Spec => []IInv
  BY InitIInv, NextIInv, PTL DEF Spec

-----------------------------------------------------------------------------
(* Only a commit moves the pointer.                                          *)

Moved ==
    \E p \in Publishers : /\ pub[p].pc = "activating"
                          /\ pub[p].prior = active
                          /\ pub[p].snapshot = active'

LEMMA PointerMoves ==
    ASSUME IInv, [Next]_vars, active' # active
    PROVE  Moved
<1>1. PICK p \in Publishers : CommitActivate(p)
  BY DEF Next, vars, stores, ReadActive, ReadDigest, Stage, BeginActivate, ReadBack,
         VerifyActive, RecheckActive, PublisherCrash, IndexChroma, BeginUpsert, EndUpsert,
         SearchBegin, SearchSemantic, SearchScope, SearchContexts, SearchEnd
<1>2. pub[p].pc = "activating" /\ active' = pub[p].snapshot
  BY <1>1 DEF CommitActivate, Activated
<1>. QED BY <1>2 DEF IInv, OpenIsCurrent, Moved

-----------------------------------------------------------------------------
(* The refinement.                                                           *)

LEMMA InitCatalog == Init => Catalog!Init
  BY SnapshotFacts DEF Init, Catalog!Init, Nothing, Catalog!Nothing, Version

\* The commit publishes the snapshot: its version names no other one.
LEMMA CommitPublishes ==
    ASSUME IInv, NEW p \in Publishers, CommitActivate(p), Activated(pub[p].snapshot)
    PROVE  Catalog!Publish(pub[p].snapshot)
<1> DEFINE s == pub[p].snapshot
<1>1. /\ s \in Snapshots /\ s.version \in Version
      /\ manifest[s.version] \in {None, s}
      /\ manifest \in [Version -> Snapshots \cup {None}]
  BY SnapshotFacts DEF CommitActivate, IInv, TypeOK, OpenIsCurrent
<1>. HIDE DEF s
<1>2. /\ manifest'[s.version] = s /\ active' = s
      /\ \A v \in Version : v # s.version => manifest'[v] = manifest[v]
  BY <1>1 DEF Activated, s
<1>3. {t \in Snapshots : manifest'[t.version] = t}
         = {t \in Snapshots : manifest[t.version] = t} \cup {s}
  BY <1>1, <1>2, SnapshotFacts
<1>4. \A t \in {t \in Snapshots : manifest[t.version] = t} : t.version = s.version => t = s
  BY <1>1, SnapshotFacts
<1>5. UNCHANGED <<confirmed, answered>>
  BY DEF CommitActivate
<1>. QED BY <1>2, <1>3, <1>4, <1>5 DEF Catalog!Publish, s

\* Returning and reporting.
LEMMA ReportConfirms ==
    ASSUME NEW p \in Publishers, Reports(p),
           UNCHANGED <<stores, answered>>
    PROVE  Catalog!Forget(p) \/ Catalog!Confirm(p)
<1>1. UNCHANGED <<active, {s \in Snapshots : manifest[s.version] = s}>>
  BY DEF stores
<1>. QED BY <1>1 DEF Reports, Catalog!Forget, Catalog!Confirm

\* A search that is answered is answered from the snapshot that is active now.
LEMMA SearchAnswers ==
    ASSUME IInv, NEW r \in Readers, SearchEnd(r)
    PROVE  Catalog!Answer(r) \/ UNCHANGED Catalog!vars
<1> DEFINE q == reader[r]
<1>1. UNCHANGED <<active, {s \in Snapshots : manifest[s.version] = s}, confirmed>>
  BY DEF SearchEnd, stores
<1>2. CASE ~StillActive(r)
  BY <1>1, <1>2 DEF SearchEnd, Catalog!vars
<1>3. CASE StillActive(r)
  <2>1. /\ q.active = active /\ q.contexts = q.documents
        /\ q.documents = IF active = None THEN {} ELSE DocumentsOf(active)
    BY <1>3 DEF SearchEnd, StillActive, IInv, SearchIsWhole
  <2>2. answered' = [answered EXCEPT ![r] = [of |-> q.active, documents |-> q.documents,
                                             contexts |-> q.contexts]]
    BY <1>3 DEF SearchEnd
  <2>. HIDE DEF q
  <2>3. answered' = [answered EXCEPT ![r] =
                       IF active = None THEN Catalog!Nothing
                       ELSE [of |-> active, documents |-> DocumentsOf(active),
                             contexts |-> DocumentsOf(active)]]
    BY <2>1, <2>2 DEF Catalog!Nothing
  <2>. QED BY <1>1, <2>3 DEF Catalog!Answer
<1>. QED BY <1>2, <1>3

LEMMA NextCatalog ==
    ASSUME IInv, [Next]_vars
    PROVE  [Catalog!Next]_Catalog!vars
<1>1. CASE UNCHANGED vars
  BY <1>1 DEF vars, Catalog!vars
<1>2. ASSUME NEW p \in Publishers, NEW s \in Snapshots, ReadActive(p, s)
      PROVE  Catalog!Forget(p)
  BY <1>2 DEF ReadActive, stores, Catalog!Forget
<1>3. ASSUME NEW p \in Publishers, CommitActivate(p)
      PROVE  (\E s \in Snapshots : Catalog!Publish(s)) \/ UNCHANGED Catalog!vars
  <2>1. CASE Activated(pub[p].snapshot)
    <3>1. pub[p].snapshot \in Snapshots
      BY <1>3 DEF CommitActivate, IInv, TypeOK
    <3>2. Catalog!Publish(pub[p].snapshot)
      BY <1>3, <2>1, CommitPublishes
    <3>. QED BY <3>1, <3>2 DEF Catalog!Publish
  <2>2. CASE UNCHANGED <<manifest, projection, active>>
    BY <1>3, <2>2 DEF CommitActivate, Catalog!vars
  <2>. QED BY <1>3, <2>1, <2>2 DEF CommitActivate
<1>4. ASSUME NEW p \in Publishers, ReadBack(p) \/ RecheckActive(p)
      PROVE  Catalog!Forget(p) \/ Catalog!Confirm(p)
  BY <1>4, ReportConfirms DEF ReadBack, RecheckActive
<1>5. ASSUME NEW p \in Publishers,
             \/ ReadDigest(p) \/ Stage(p) \/ BeginActivate(p) \/ VerifyActive(p)
             \/ PublisherCrash(p)
      PROVE  UNCHANGED Catalog!vars
  BY <1>5 DEF ReadDigest, Stage, BeginActivate, VerifyActive, PublisherCrash, stores,
              Catalog!vars
<1>6. ASSUME NEW i \in Indexers,
             \/ \E symbol \in Symbols : IndexChroma(i, symbol)
             \/ BeginUpsert(i) \/ EndUpsert(i)
      PROVE  UNCHANGED Catalog!vars
  BY <1>6 DEF IndexChroma, BeginUpsert, EndUpsert, Catalog!vars
<1>7. ASSUME NEW r \in Readers,
             SearchBegin(r) \/ SearchSemantic(r) \/ SearchScope(r) \/ SearchContexts(r)
      PROVE  UNCHANGED Catalog!vars
  BY <1>7 DEF SearchBegin, SearchSemantic, SearchScope, SearchContexts, stores, Catalog!vars
<1>. QED BY <1>1, <1>2, <1>3, <1>4, <1>5, <1>6, <1>7, SearchAnswers DEF Next, Catalog!Next

-----------------------------------------------------------------------------
(* The theorems.                                                             *)

\* The stores and the processes have their types, and the catalog node is locked by the
\* one process whose transaction is open.
THEOREM TypeCorrect == Spec => []TypeOK
  BY Inductive, PTL DEF IInv

\* The active snapshot is complete: its manifest, every document in Chroma and exactly
\* its graph relationships, whatever publishers, indexers and failures do.
THEOREM ActiveComplete == Spec => []ActiveIsComplete
  BY Inductive, PTL DEF IInv

\* publish_research_snapshot replaces only the snapshot that was active when it began
\* (previous_identity): no publication is overwritten unseen.
THEOREM PublicationsAreSeen == Spec => NoLostPublication
<1>1. IInv /\ [Next]_vars => [active' # active => Moved]_vars
  BY PointerMoves
<1>. QED BY <1>1, Inductive, PTL DEF Spec, NoLostPublication, Moved

\* Publication and search over two stores implement one atomic catalogue: every search
\* that HybridRetriever answers is the whole of the snapshot that is active then.
THEOREM ImplementsCatalog == Spec => AtomicCatalog
  BY InitCatalog, NextCatalog, Inductive, PTL DEF Spec, AtomicCatalog, Catalog!Spec
=============================================================================
