---------------------------- MODULE ResearchCatalog ----------------------------
(***************************************************************************)
(* What snapshot publication promises its readers (README.md of the        *)
(* repository, "Publication stages versioned Chroma documents..."): one    *)
(* active snapshot at a time, replaced whole; a version never gets other   *)
(* content; and a search is answered, in one step, from the snapshot that  *)
(* is active: with its documents and with their graph contexts.            *)
(***************************************************************************)
CONSTANTS
    Snapshots,          \* snapshots, [version, digest]
    DocumentsOf(_),     \* the documents of a snapshot
    Publishers, Readers,    \* processes that publish and that search
    None                \* no snapshot

VARIABLES
    active,             \* the active snapshot, or None
    published,          \* snapshots that were ever activated
    confirmed,          \* the snapshot each publisher's last call reported
    answered            \* the last answer each reader got

vars == <<active, published, confirmed, answered>>

Nothing == [of |-> None, documents |-> {}, contexts |-> {}]

Init ==
    /\ active = None
    /\ published = {}
    /\ confirmed = [p \in Publishers |-> None]
    /\ answered = [r \in Readers |-> Nothing]

\* A version that was published names one snapshot for ever.
Publish(s) ==
    /\ \A t \in published : t.version = s.version => t = s
    /\ active' = s
    /\ published' = published \cup {s}
    /\ UNCHANGED <<confirmed, answered>>

\* While nothing is active a search is answered with unversioned documents, which
\* are not part of any snapshot.
Answer(r) ==
    /\ answered' =
         [answered EXCEPT ![r] =
            IF active = None THEN Nothing
            ELSE [of |-> active, documents |-> DocumentsOf(active),
                  contexts |-> DocumentsOf(active)]]
    /\ UNCHANGED <<active, published, confirmed>>

\* A publication begins, or reports the snapshot that is active.
Forget(p) ==
    /\ confirmed' = [confirmed EXCEPT ![p] = None]
    /\ UNCHANGED <<active, published, answered>>

Confirm(p) ==
    /\ confirmed' = [confirmed EXCEPT ![p] = active]
    /\ UNCHANGED <<active, published, answered>>

Next ==
    \/ \E s \in Snapshots : Publish(s)
    \/ \E p \in Publishers : Forget(p) \/ Confirm(p)
    \/ \E r \in Readers : Answer(r)

Spec == Init /\ [][Next]_vars
=============================================================================
