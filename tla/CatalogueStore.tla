----------------------------- MODULE CatalogueStore -----------------------------
(***************************************************************************)
(* The local fund catalogue: CatalogueStore.publish (catalogue/store.py)   *)
(* and the two operations that publish through it, refresh and add_direct  *)
(* (catalogue/service.py).                                                 *)
(*                                                                         *)
(* Processes share a directory: immutable blobs, a pointer file that names *)
(* the active one, and publish.lock, which O_EXCL creates.  An operation   *)
(* reads the active version, collects from the provider for up to five     *)
(* minutes without the lock, and then publishes a child of what it read.   *)
(* Every file operation is a step and may fail, and a process may die      *)
(* between any two.  Reading the pointer and then its blob is one step,    *)
(* for a blob is never changed or removed.                                 *)
(***************************************************************************)
EXTENDS Integers, Sequences, FiniteSets

CONSTANTS
    Procs,          \* processes
    Listings,       \* listings that a user may add
    Free, Orphan,   \* no lock file; a lock file that no live publisher will remove
    MaxVersions,    \* bound: catalogue versions built
    MaxFaults       \* bound: failing file operations and crashes

ASSUME CatalogueConstants ==
    /\ {Free, Orphan} \cap Procs = {} /\ Free # Orphan
    /\ MaxVersions \in Nat /\ MaxFaults \in Nat

VARIABLES
    versions,   \* catalogue versions built so far, by number: [parent, direct]
    blobs,      \* versions whose blob file exists
    active,     \* the version that active.json names, 0 when there is no file
    lock,       \* publish.lock: its owner, Free or Orphan
    proc,       \* what each process is doing
    outcome,    \* history: what each process's last operation returned
    activated,  \* history: versions that were ever active
    faults      \* failing file operations and crashes so far

vars == <<versions, blobs, active, lock, proc, outcome, activated, faults>>

-----------------------------------------------------------------------------

\* pc: idle, collecting, ready (candidate built), locked, checked, stored, and the
\* two ways to leave: moved (the pointer was) and failing.
States == {"idle", "collecting", "ready", "locked", "checked", "stored", "moved", "failing"}
Refresh == "refresh"
Idle == [pc |-> "idle", adds |-> Refresh, parent |-> 0, candidate |-> 0]
NoOutcome == [status |-> "none", version |-> 0]

Direct(v) == IF v = 0 THEN {} ELSE versions[v].direct

Init ==
    /\ versions = <<>> /\ blobs = {} /\ active = 0 /\ activated = {}
    /\ lock = Free
    /\ proc = [p \in Procs |-> Idle]
    /\ outcome = [p \in Procs |-> NoOutcome]
    /\ faults = 0

Goto(p, pc) == proc' = [proc EXCEPT ![p].pc = pc]

Returns(p, status) ==
    /\ proc' = [proc EXCEPT ![p] = Idle]
    /\ outcome' = [outcome EXCEPT ![p] = [status |-> status, version |-> proc[p].candidate]]

Fault == faults < MaxFaults /\ faults' = faults + 1

-----------------------------------------------------------------------------
(* refresh and add_direct.                                                   *)

\* The parent is captured before the collection.  (A refresh within 24 hours of the
\* last one is answered from it and changes nothing.)
ReadParent(p, adds) ==
    /\ proc[p].pc = "idle"
    /\ proc' = [proc EXCEPT ![p] = [Idle EXCEPT !.pc = "collecting", !.adds = adds,
                                                !.parent = active]]
    /\ outcome' = [outcome EXCEPT ![p] = NoOutcome]
    /\ UNCHANGED <<versions, blobs, active, lock, activated, faults>>

\* Mutant: a refresh forgets what was added directly.
CandidateOnlyDiscovered(parent, adds) ==
    [parent |-> parent, direct |-> IF adds = Refresh THEN {} ELSE Direct(parent) \cup {adds}]

\* make_catalogue: a refresh replaces what was discovered and keeps what was added.
Candidate(parent, adds) ==
    [parent |-> parent,
     direct |-> IF adds = Refresh THEN Direct(parent) ELSE Direct(parent) \cup {adds}]

Collect(p) ==
    /\ proc[p].pc = "collecting"
    /\ Len(versions) < MaxVersions
    /\ versions' = Append(versions, Candidate(proc[p].parent, proc[p].adds))
    /\ proc' = [proc EXCEPT ![p].pc = "ready", ![p].candidate = Len(versions')]
    /\ UNCHANGED <<blobs, active, lock, outcome, activated, faults>>

\* Incomplete coverage, a rejected lookup, a conflicting identity.
CollectFails(p) ==
    /\ proc[p].pc = "collecting"
    /\ Returns(p, "failed")
    /\ UNCHANGED <<versions, blobs, active, lock, activated, faults>>

-----------------------------------------------------------------------------
(* CatalogueStore.publish.                                                   *)

Acquire(p) ==
    /\ proc[p].pc = "ready"
    /\ lock = Free
    /\ \/ lock' = p /\ Goto(p, "locked") /\ UNCHANGED <<outcome, faults>>
       \/ /\ Fault          \* the marker is not written: the lock is released, or not
          /\ lock' \in {Free, Orphan}
          /\ Returns(p, "failed")
    /\ UNCHANGED <<versions, blobs, active, activated>>

\* Five seconds are over.
LockTimeout(p) ==
    /\ proc[p].pc = "ready"
    /\ lock # Free
    /\ Returns(p, "failed")
    /\ UNCHANGED <<versions, blobs, active, lock, activated, faults>>

\* Mutant: the parent is not compared with the active version.
ParentIsAny(p) == TRUE

ParentIsActive(p) == active = proc[p].parent

CheckParent(p) ==
    /\ proc[p].pc = "locked"
    /\ \/ ParentIsActive(p) /\ Goto(p, "checked") /\ faults' = faults
       \/ ~ParentIsActive(p) /\ Goto(p, "failing") /\ faults' = faults
       \/ Fault /\ Goto(p, "failing")
    /\ UNCHANGED <<versions, blobs, active, lock, outcome, activated>>

\* Mutant: an error while the blob is written is ignored.
WriteBlobIgnoringErrors(p) ==
    /\ proc[p].pc = "checked"
    /\ \/ blobs' = blobs \cup {proc[p].candidate} /\ faults' = faults
       \/ Fault /\ blobs' = blobs
    /\ Goto(p, "stored")
    /\ UNCHANGED <<versions, active, lock, outcome, activated>>

\* The blob is written aside, moved into place and read again.
WriteBlob(p) ==
    /\ proc[p].pc = "checked"
    /\ \/ blobs' = blobs \cup {proc[p].candidate} /\ Goto(p, "stored") /\ faults' = faults
       \/ /\ Fault
          /\ blobs' \in {blobs, blobs \cup {proc[p].candidate}}
          /\ Goto(p, "failing")
    /\ UNCHANGED <<versions, active, lock, outcome, activated>>

\* os.replace of active.json: an error after it is not one of the publication.
MovePointer(p) ==
    /\ proc[p].pc = "stored"
    /\ \/ /\ active' = proc[p].candidate
          /\ activated' = activated \cup {active'}
          /\ Goto(p, "moved")
          /\ faults' = faults
       \/ Fault /\ Goto(p, "failing") /\ UNCHANGED <<active, activated>>
    /\ UNCHANGED <<versions, blobs, lock, outcome>>

\* Mutant: a publication whose lock cannot be released is reported as failed.
ReleaseFailsAll(p) ==
    /\ Fault
    /\ lock' = Orphan
    /\ Returns(p, "failed")

\* _release_owned_lock gave up: CommittedCleanupError once the pointer was moved.
ReleaseFails(p) ==
    /\ Fault
    /\ lock' = Orphan
    /\ Returns(p, IF proc[p].pc = "moved" THEN "published" ELSE "failed")

Release(p) ==
    /\ proc[p].pc \in {"moved", "failing"}
    /\ \/ /\ lock' = Free
          /\ Returns(p, IF proc[p].pc = "moved" THEN "published" ELSE "failed")
          /\ faults' = faults
       \/ ReleaseFails(p)
    /\ UNCHANGED <<versions, blobs, active, activated>>

\* Mutant: the lock file goes when its owner dies, and so may another process's.
CrashUnlocks(p) ==
    /\ proc[p].pc # "idle"
    /\ Fault
    /\ lock' = Free
    /\ proc' = [proc EXCEPT ![p] = Idle]
    /\ UNCHANGED <<versions, blobs, active, outcome, activated>>

\* A process dies; its lock file stays.
Crash(p) ==
    /\ proc[p].pc # "idle"
    /\ Fault
    /\ lock' = IF lock = p THEN Orphan ELSE lock
    /\ proc' = [proc EXCEPT ![p] = Idle]
    /\ UNCHANGED <<versions, blobs, active, outcome, activated>>

\* Somebody removes a lock file that no live publisher owns; the code never does.
RemoveOrphan ==
    /\ lock = Orphan
    /\ lock' = Free
    /\ UNCHANGED <<versions, blobs, active, proc, outcome, activated, faults>>

Next ==
    \/ \E p \in Procs :
         \/ \E adds \in Listings \cup {Refresh} : ReadParent(p, adds)
         \/ Collect(p) \/ CollectFails(p) \/ Acquire(p) \/ LockTimeout(p)
         \/ CheckParent(p) \/ WriteBlob(p) \/ MovePointer(p) \/ Release(p) \/ Crash(p)
    \/ RemoveOrphan

Spec == Init /\ [][Next]_vars

-----------------------------------------------------------------------------
(* Properties.                                                               *)

\* Files and processes have their types, and only the owner of the lock is past it.
TypeOK ==
    /\ versions \in Seq([parent : Nat, direct : SUBSET Listings])
    /\ blobs \subseteq DOMAIN versions /\ activated \subseteq DOMAIN versions
    /\ active \in {0} \cup DOMAIN versions
    /\ lock \in Procs \cup {Free, Orphan}
    /\ proc \in [Procs -> [pc : States, adds : Listings \cup {Refresh}, parent : Nat,
                           candidate : Nat]]
    /\ outcome \in [Procs -> [status : {"none", "published", "failed"}, version : Nat]]
    /\ faults \in 0..MaxFaults
    /\ \A p \in Procs :
         proc[p].pc \in {"locked", "checked", "stored", "moved", "failing"} => lock = p

\* The pointer names a blob that was written whole, after any failure.
PointerIsReadable == active # 0 => active \in blobs

\* The versions that were active form one line: each replaced its own parent, so no
\* publication is lost to one that had not seen it.
LineageIsLinear ==
    [][active' # active => versions'[active'].parent = active]_vars

\* What an operation reports is what happened, also when the lock could not be
\* released or the process that held it before has died.
OutcomeIsTrue ==
    \A p \in Procs :
        /\ outcome[p].status = "published" => outcome[p].version \in activated
        /\ outcome[p].status = "failed" => outcome[p].version \notin activated

\* A listing whose addition was published stays in the catalogue, whatever refreshes
\* and additions come after it.
AdditionsSurvive ==
    \A v \in activated : versions[v].direct \subseteq Direct(active)
=============================================================================
