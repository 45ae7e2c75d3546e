-------------------------- MODULE SnapshotPublication --------------------------
(***************************************************************************)
(* Publication of research snapshots into Chroma and Neo4j, and the hybrid *)
(* search that reads them (rag/snapshots.py, rag/chroma_store.py,          *)
(* rag/neo4j_store.py, rag/indexing.py, rag/hybrid.py).                    *)
(*                                                                         *)
(* Two stores, no common transaction.  A publisher stages a snapshot's     *)
(* documents in Chroma, then creates its manifest, replaces the graph      *)
(* projection of the ETFs and moves the active pointer in one Neo4j        *)
(* transaction.  Transactions write-lock the catalog node; reads outside   *)
(* of them see what is committed.  Each query is a step; a transaction is  *)
(* a step up to its commit, and the commit is another.                     *)
(*                                                                         *)
(* Documents are <<snapshot, symbol>>: their ids carry version and digest. *)
(* A generic document (index_documents) is <<None, symbol>>.  Snapshots    *)
(* from before manifests had fingerprints are left out.                    *)
(***************************************************************************)
EXTENDS Integers, FiniteSets

CONSTANTS
    Snapshots,          \* snapshots, [version, digest]
    Symbols,            \* ETF symbols
    Members(_),         \* symbols of a snapshot
    Publishers, Readers, Indexers,      \* processes
    None, Generic,      \* no snapshot or lock owner; not from a snapshot
    MaxFaults           \* bound: crashes and failing store calls

ASSUME SnapshotConstants ==
    /\ {None, Generic} \cap (Snapshots \cup Publishers \cup Indexers) = {}
    /\ None # Generic
    /\ \A s, t \in Snapshots : s.version = t.version /\ s.digest = t.digest => s = t
    /\ \A s \in Snapshots : Members(s) \subseteq Symbols /\ Members(s) # {}
    /\ Publishers \cap Indexers = {}
    /\ MaxFaults \in Nat

VARIABLES
    chroma,         \* document ids that Chroma holds
    manifest,       \* the snapshot that each ResearchSnapshot version names, or None
    active,         \* ACTIVE_SNAPSHOT
    projection,     \* where each ETF's current relationships come from: a snapshot,
                    \* Generic or None
    catalogLock,    \* the process whose transaction locked the catalog node
    pub,            \* publishers
    idx,            \* indexers
    reader,         \* readers
    confirmed,      \* history: the snapshot that each publisher's last call reported
    answered,       \* history: what each reader's last search returned
    faults          \* crashes and failing store calls so far

vars == <<chroma, manifest, active, projection, catalogLock, pub, idx, reader,
          confirmed, answered, faults>>
stores == <<chroma, manifest, active, projection, catalogLock>>

-----------------------------------------------------------------------------
(* Data.                                                                     *)

Version == {s.version : s \in Snapshots}
DocumentsOf(s) == {<<s, symbol>> : symbol \in Members(s)}
Documents == (UNION {DocumentsOf(s) : s \in Snapshots}) \cup ({None} \X Symbols)

\* _REPLACE_PROJECTION: the relationships of every ETF are dropped, those of the
\* snapshot's own ETFs are created again.
ProjectionOf(s) == [symbol \in Symbols |-> IF symbol \in Members(s) THEN s ELSE None]

IdlePublisher == [pc |-> "idle", snapshot |-> None, prior |-> None]
IdleReader == [pc |-> "idle", active |-> None, documents |-> {}, contexts |-> {}]
Nothing == [of |-> None, documents |-> {}, contexts |-> {}]

PublisherStates ==
    {"idle", "begun", "staging", "staged", "activating", "committed", "verifying",
     "verified"}
ReaderStates == {"idle", "searching", "found", "scoped", "enriched"}
IndexerStates == {"idle", "indexing", "upserting"}

Init ==
    /\ chroma = {}
    /\ manifest = [v \in Version |-> None]
    /\ active = None
    /\ projection = [symbol \in Symbols |-> None]
    /\ catalogLock = None
    /\ pub = [p \in Publishers |-> IdlePublisher]
    /\ idx = [i \in Indexers |-> [pc |-> "idle", symbol |-> None]]
    /\ reader = [r \in Readers |-> IdleReader]
    /\ confirmed = [p \in Publishers |-> None]
    /\ answered = [r \in Readers |-> Nothing]
    /\ faults = 0

Goto(p, pc) == pub' = [pub EXCEPT ![p].pc = pc]
Gives(p) == pub' = [pub EXCEPT ![p] = IdlePublisher]     \* returns or raises

-----------------------------------------------------------------------------
(* publish_research_snapshot.                                                *)

\* previous_identity is read first: everything after may find it outdated.
ReadActive(p, s) ==
    /\ pub[p].pc = "idle"
    /\ pub' = [pub EXCEPT ![p] = [pc |-> "begun", snapshot |-> s, prior |-> active]]
    /\ confirmed' = [confirmed EXCEPT ![p] = None]
    /\ UNCHANGED <<stores, idx, reader, answered, faults>>

\* snapshot_digest, and the freshness gate, which may refuse the snapshot.
ReadDigest(p) ==
    LET s == pub[p].snapshot IN
    /\ pub[p].pc = "begun"
    /\ \/ manifest[s.version] \notin {None, s} /\ Gives(p)
       \/ /\ manifest[s.version] \in {None, s}
          /\ \/ pub[p].prior = s /\ Goto(p, "verifying")
             \/ pub[p].prior # s /\ (Goto(p, "staging") \/ Gives(p))
    /\ UNCHANGED <<stores, idx, reader, confirmed, answered, faults>>

\* stage_snapshot's readback and verify_snapshot_documents.
Staged(s, held) == DocumentsOf(s) \subseteq held

\* stage_snapshot: add what is missing.  A failing call may have added part of it.
Stage(p) ==
    LET s == pub[p].snapshot IN
    /\ pub[p].pc = "staging"
    /\ \/ /\ chroma' = chroma \cup DocumentsOf(s)
          /\ faults' = faults
       \/ /\ faults < MaxFaults
          /\ \E part \in SUBSET DocumentsOf(s) : chroma' = chroma \cup part
          /\ faults' = faults + 1
    /\ IF Staged(s, chroma') THEN Goto(p, "staged") ELSE Gives(p)
    /\ UNCHANGED <<manifest, active, projection, catalogLock, idx, reader,
                   confirmed, answered>>

\* Mutant: the transaction does not compare the active identity.
ExpectedAny(p) == TRUE

\* "Research snapshot CAS rejected a changed active identity."
ExpectedPrior(p) == active = pub[p].prior

\* publish_snapshot up to the commit.  The manifest is created, or must be the one
\* of this payload.
BeginActivate(p) ==
    LET s == pub[p].snapshot IN
    /\ pub[p].pc = "staged"
    /\ catalogLock = None
    /\ \/ /\ ExpectedPrior(p)
          /\ manifest[s.version] \in {None, s}
          /\ catalogLock' = p
          /\ Goto(p, "activating")
       \/ /\ ~(ExpectedPrior(p) /\ manifest[s.version] \in {None, s})
          /\ catalogLock' = None
          /\ Gives(p)
    /\ UNCHANGED <<chroma, manifest, active, projection, idx, reader,
                   confirmed, answered, faults>>

Activated(s) ==
    /\ manifest' = [manifest EXCEPT ![s.version] = s]
    /\ projection' = ProjectionOf(s)
    /\ active' = s

\* commit: it takes effect and is acknowledged; or the acknowledgement is lost,
\* whether or not it took effect, and publish_snapshot raises.
CommitActivate(p) ==
    /\ pub[p].pc = "activating"
    /\ catalogLock' = None
    /\ \/ Activated(pub[p].snapshot) /\ Goto(p, "committed") /\ faults' = faults
       \/ /\ faults < MaxFaults
          /\ faults' = faults + 1
          /\ Activated(pub[p].snapshot) \/ UNCHANGED <<manifest, projection, active>>
          /\ Gives(p)
    /\ UNCHANGED <<chroma, idx, reader, confirmed, answered>>

\* Success is reported if the active identity is the snapshot's.
Reports(p) ==
    confirmed' = [confirmed EXCEPT ![p] = IF active = pub[p].snapshot THEN active ELSE None]

\* The active identity is read back: it may be another publisher's by now.
ReadBack(p) ==
    /\ pub[p].pc = "committed"
    /\ Reports(p)
    /\ Gives(p)
    /\ UNCHANGED <<stores, idx, reader, answered, faults>>

\* The snapshot was active: manifest, documents, sources and (while it is still
\* active) projection are verified ...
VerifyActive(p) ==
    LET s == pub[p].snapshot IN
    /\ pub[p].pc = "verifying"
    /\ \/ /\ manifest[s.version] = s
          /\ Staged(s, chroma)
          /\ active = s => projection = ProjectionOf(s)
          /\ Goto(p, "verified")
       \/ Gives(p)      \* a publication came between these reads
    /\ UNCHANGED <<stores, idx, reader, confirmed, answered, faults>>

\* ... and the active identity is read again.
RecheckActive(p) ==
    /\ pub[p].pc = "verified"
    /\ Reports(p)
    /\ Gives(p)
    /\ UNCHANGED <<stores, idx, reader, answered, faults>>

\* Mutant: the transaction of a dead publisher stays open.
PublisherCrashKeepsLock(p) ==
    /\ pub[p].pc # "idle"
    /\ faults < MaxFaults
    /\ faults' = faults + 1
    /\ Gives(p)
    /\ UNCHANGED <<stores, idx, reader, confirmed, answered>>

\* The publisher dies: an open transaction is rolled back and its lock is freed.
PublisherCrash(p) ==
    /\ pub[p].pc # "idle"
    /\ faults < MaxFaults
    /\ faults' = faults + 1
    /\ Gives(p)
    /\ catalogLock' = IF catalogLock = p THEN None ELSE catalogLock
    /\ UNCHANGED <<chroma, manifest, active, projection, idx, reader,
                   confirmed, answered>>

-----------------------------------------------------------------------------
(* index_documents: generic documents, Chroma first, then Neo4j.             *)

IndexChroma(i, symbol) ==
    /\ idx[i].pc = "idle"
    /\ chroma' = chroma \cup {<<None, symbol>>}
    /\ idx' = [idx EXCEPT ![i] = [pc |-> "indexing", symbol |-> symbol]]
    /\ UNCHANGED <<manifest, active, projection, catalogLock, pub, reader,
                   confirmed, answered, faults>>

\* Mutant: the guard is left out.
MayUpsertAlways == TRUE

\* _GENERIC_WRITE_GUARD: no snapshot may be active.
MayUpsert == active = None

\* upsert up to its commit.
BeginUpsert(i) ==
    /\ idx[i].pc = "indexing"
    /\ catalogLock = None
    /\ IF MayUpsert
       THEN /\ catalogLock' = i
            /\ idx' = [idx EXCEPT ![i].pc = "upserting"]
       ELSE /\ catalogLock' = None
            /\ idx' = [idx EXCEPT ![i] = [pc |-> "idle", symbol |-> None]]
    /\ UNCHANGED <<chroma, manifest, active, projection, pub, reader,
                   confirmed, answered, faults>>

\* commit, or a failure (a crash too) before or in it.
EndUpsert(i) ==
    /\ idx[i].pc = "upserting"
    /\ catalogLock' = None
    /\ \/ projection' = [projection EXCEPT ![idx[i].symbol] = Generic] /\ faults' = faults
       \/ faults < MaxFaults /\ projection' = projection /\ faults' = faults + 1
    /\ idx' = [idx EXCEPT ![i] = [pc |-> "idle", symbol |-> None]]
    /\ UNCHANGED <<chroma, manifest, active, pub, reader, confirmed, answered>>

-----------------------------------------------------------------------------
(* HybridRetriever.search, for a limit that no snapshot exceeds.             *)

SearchBegin(r) ==
    /\ reader[r].pc = "idle"
    /\ reader' = [reader EXCEPT ![r] = [IdleReader EXCEPT !.pc = "searching",
                                                          !.active = active]]
    /\ UNCHANGED <<stores, pub, idx, confirmed, answered, faults>>

\* The version-and-digest filter; without an active snapshot search_unversioned
\* returns documents that belong to none.
SearchSemantic(r) ==
    LET s == reader[r].active IN
    /\ reader[r].pc = "searching"
    /\ reader' = [reader EXCEPT ![r].pc = IF s = None THEN "scoped" ELSE "found",
                                ![r].documents = {d \in chroma : s # None /\ d[1] = s}]
    /\ UNCHANGED <<stores, pub, idx, confirmed, answered, faults>>

Fails(r) == reader' = [reader EXCEPT ![r] = IdleReader]

\* The manifest of the version, and the active identity again.
SearchScope(r) ==
    LET s == reader[r].active IN
    /\ reader[r].pc = "found"
    /\ IF manifest[s.version] = s /\ active = s
       THEN reader' = [reader EXCEPT ![r].pc = "scoped"]
       ELSE Fails(r)
    /\ UNCHANGED <<stores, pub, idx, confirmed, answered, faults>>

\* find_contexts: the sources that the graph holds for the found documents.
SearchContexts(r) ==
    /\ reader[r].pc = "scoped"
    /\ reader' = [reader EXCEPT ![r].pc = "enriched",
                                ![r].contexts = {d \in reader[r].documents :
                                                    manifest[d[1].version] = d[1]}]
    /\ UNCHANGED <<stores, pub, idx, confirmed, answered, faults>>

\* Mutant: the last check is left out.
StillActiveUnchecked(r) == TRUE

\* The last comparison with the identity that was read first.
StillActive(r) == active = reader[r].active

SearchEnd(r) ==
    /\ reader[r].pc = "enriched"
    /\ Fails(r)
    /\ answered' =
         IF StillActive(r)
         THEN [answered EXCEPT ![r] = [of |-> reader[r].active,
                                       documents |-> reader[r].documents,
                                       contexts |-> reader[r].contexts]]
         ELSE answered
    /\ UNCHANGED <<stores, pub, idx, confirmed, faults>>

Next ==
    \/ \E p \in Publishers :
         \/ \E s \in Snapshots : ReadActive(p, s)
         \/ ReadDigest(p) \/ Stage(p) \/ BeginActivate(p) \/ CommitActivate(p)
         \/ ReadBack(p) \/ VerifyActive(p) \/ RecheckActive(p) \/ PublisherCrash(p)
    \/ \E i \in Indexers :
         \/ \E symbol \in Symbols : IndexChroma(i, symbol)
         \/ BeginUpsert(i) \/ EndUpsert(i)
    \/ \E r \in Readers :
         SearchBegin(r) \/ SearchSemantic(r) \/ SearchScope(r) \/ SearchContexts(r)
            \/ SearchEnd(r)

Spec == Init /\ [][Next]_vars

-----------------------------------------------------------------------------
(* Properties.                                                               *)

\* Stores and processes have their types; the lock is held by the one process whose
\* transaction is open.
TypeOK ==
    /\ chroma \subseteq Documents
    /\ manifest \in [Version -> Snapshots \cup {None}]
    /\ active \in Snapshots \cup {None}
    /\ projection \in [Symbols -> Snapshots \cup {None, Generic}]
    /\ catalogLock \in Publishers \cup Indexers \cup {None}
    /\ pub \in [Publishers -> [pc : PublisherStates, snapshot : Snapshots \cup {None},
                               prior : Snapshots \cup {None}]]
    /\ idx \in [Indexers -> [pc : IndexerStates, symbol : Symbols \cup {None}]]
    /\ reader \in [Readers -> [pc : ReaderStates, active : Snapshots \cup {None},
                               documents : SUBSET Documents,
                               contexts : SUBSET Documents]]
    /\ confirmed \in [Publishers -> Snapshots \cup {None}]
    /\ answered \in [Readers -> [of : Snapshots \cup {None}, documents : SUBSET Documents,
                                 contexts : SUBSET Documents]]
    /\ faults \in 0..MaxFaults
    /\ \A p \in Publishers :
         /\ pub[p].pc # "idle" => pub[p].snapshot \in Snapshots
         /\ pub[p].pc = "activating" <=> catalogLock = p
    /\ \A i \in Indexers :
         /\ idx[i].pc # "idle" => idx[i].symbol \in Symbols
         /\ idx[i].pc = "upserting" <=> catalogLock = i

\* The active snapshot is complete: its manifest names it, Chroma holds every one of
\* its documents and every ETF's graph relationships are exactly what it says.
ActiveIsComplete ==
    active # None =>
        /\ manifest[active.version] = active
        /\ DocumentsOf(active) \subseteq chroma
        /\ projection = ProjectionOf(active)

\* No publication replaces one its publisher has not seen: the pointer is moved from
\* the identity that was read when the publication began.
NoLostPublication ==
    [][active' # active =>
         \E p \in Publishers : /\ pub[p].pc = "activating"
                               /\ pub[p].prior = active
                               /\ pub[p].snapshot = active']_vars

\* Searches and publications are atomic: every answer is the whole of the snapshot
\* that is active when it is given, and what a publisher reports is active then.
Catalog == INSTANCE ResearchCatalog WITH
    published <- {s \in Snapshots : manifest[s.version] = s}
AtomicCatalog == Catalog!Spec
=============================================================================
