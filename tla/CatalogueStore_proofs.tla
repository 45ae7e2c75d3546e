------------------------- MODULE CatalogueStore_proofs -------------------------
(***************************************************************************)
(* The publication of the listing catalogue, for any number of processes,  *)
(* listings, versions and faults: TypeOK, PointerIsReadable, OutcomeIsTrue, *)
(* AdditionsSurvive and LineageIsLinear of CatalogueStore.                 *)
(***************************************************************************)
EXTENDS CatalogueStore, TLAPS

-----------------------------------------------------------------------------
(* The inductive invariant.                                                  *)

Publishing == {"ready", "locked", "checked", "stored", "moved", "failing"}

\* A process that has built a candidate: a child of what it read, which keeps what was
\* added there.  Only a candidate of a process that moved the pointer was ever active.
CandidateIsChild ==
    \A p \in Procs :
        LET c == proc[p].candidate IN
        /\ proc[p].parent \in {0} \cup DOMAIN versions
        /\ proc[p].pc \in Publishing <=> c # 0
        /\ c # 0 => /\ c \in DOMAIN versions
                    /\ versions[c].parent = proc[p].parent
                    /\ Direct(proc[p].parent) \subseteq versions[c].direct
                    /\ c \in activated <=> proc[p].pc = "moved"

\* Under the lock nothing moves the pointer that was compared, and nothing removes the
\* blob that was written.
LockedIsCurrent ==
    \A p \in Procs :
        /\ proc[p].pc \in {"checked", "stored"} => proc[p].parent = active
        /\ proc[p].pc = "stored" => proc[p].candidate \in blobs

\* A version is built by one process and reported once.
VersionsAreOwned ==
    /\ \A p, q \in Procs : p # q /\ proc[p].candidate # 0
                              => proc[p].candidate # proc[q].candidate
    /\ \A p \in Procs :
         /\ outcome[p].version \in {0} \cup DOMAIN versions
         /\ outcome[p].version # 0
              => \A q \in Procs : proc[q].candidate # outcome[p].version

IInv ==
    /\ TypeOK
    /\ CandidateIsChild
    /\ LockedIsCurrent
    /\ VersionsAreOwned
    /\ PointerIsReadable
    /\ OutcomeIsTrue
    /\ AdditionsSurvive

-----------------------------------------------------------------------------
(* Versions are built once and never change.                                 *)

\* Building a version leaves the earlier ones as they are.
LEMMA AppendKeeps ==
    ASSUME NEW S, NEW s \in Seq(S), NEW e \in S
    PROVE  /\ Append(s, e) \in Seq(S)
           /\ Len(Append(s, e)) = Len(s) + 1
           /\ DOMAIN Append(s, e) = DOMAIN s \cup {Len(s) + 1}
           /\ Len(s) + 1 \notin DOMAIN s /\ Len(s) + 1 # 0 /\ Len(s) + 1 \in Nat
           /\ Append(s, e)[Len(s) + 1] = e
           /\ \A i \in DOMAIN s : Append(s, e)[i] = s[i]
           /\ DOMAIN s \subseteq Nat \ {0}
  OBVIOUS

LEMMA ElementType ==
    ASSUME NEW S, NEW s \in Seq(S)
    PROVE  \A i \in DOMAIN s : s[i] \in S
  OBVIOUS

LEMMA InitIInv == Init => IInv
  BY CatalogueConstants
  DEF Init, IInv, TypeOK, CandidateIsChild, LockedIsCurrent, VersionsAreOwned,
      PointerIsReadable, OutcomeIsTrue, AdditionsSurvive, Idle, NoOutcome, Publishing,
      States, Refresh, Direct

ProcState ==
    [pc : States, adds : Listings \cup {Refresh}, parent : Nat, candidate : Nat]

Outcome == [status : {"none", "published", "failed"}, version : Nat]

Locked == {"locked", "checked", "stored", "moved", "failing"}

\* A step of one process leaves the others where they are.
LEMMA ProcUpdate ==
    ASSUME IInv, NEW p \in Procs, NEW r \in ProcState, proc' = [proc EXCEPT ![p] = r]
    PROVE  /\ proc' \in [Procs -> ProcState]
           /\ proc'[p] = r
           /\ \A q \in Procs : q # p => proc'[q] = proc[q]
  BY DEF IInv, TypeOK, ProcState

LEMMA GotoUpdate ==
    ASSUME IInv, NEW p \in Procs, NEW pc \in States, Goto(p, pc)
    PROVE  /\ proc' \in [Procs -> ProcState]
           /\ proc'[p].pc = pc
           /\ proc'[p].adds = proc[p].adds
           /\ proc'[p].parent = proc[p].parent
           /\ proc'[p].candidate = proc[p].candidate
           /\ \A q \in Procs : q # p => proc'[q] = proc[q]
  BY DEF IInv, TypeOK, ProcState, Goto

\* A publisher goes on, over the same versions and the same pointer.
LEMMA GoesOn ==
    ASSUME IInv, NEW p \in Procs, NEW pc \in Publishing \ {"moved"}, Goto(p, pc),
           proc[p].pc \in Publishing \ {"moved"},
           pc \in Locked => lock' = p,
           lock' \in {lock, p}, lock \in {Free, p},
           pc \in {"checked", "stored"} => proc[p].parent = active,
           pc = "stored" => proc[p].candidate \in blobs',
           blobs \subseteq blobs', blobs' \subseteq DOMAIN versions,
           faults' \in 0..MaxFaults,
           UNCHANGED <<versions, active, outcome, activated>>
    PROVE  IInv'
<1>1. pc \in States /\ Free \notin Procs
  BY CatalogueConstants DEF Publishing, States
<1>2. /\ proc' \in [Procs -> ProcState] /\ proc'[p].pc = pc
      /\ proc'[p].parent = proc[p].parent /\ proc'[p].candidate = proc[p].candidate
      /\ \A q \in Procs : q # p => proc'[q] = proc[q]
  BY <1>1, GotoUpdate
<1>3. TypeOK'
  <2>1. \A q \in Procs : proc'[q].pc \in Locked => lock' = q
    BY <1>1, <1>2 DEF IInv, TypeOK, Locked
  <2>. QED BY <1>1, <1>2, <2>1 DEF IInv, TypeOK, ProcState, Locked
<1>4. CandidateIsChild'
  BY <1>2 DEF IInv, CandidateIsChild, Direct
<1>5. LockedIsCurrent'
  BY <1>2 DEF IInv, LockedIsCurrent
<1>6. VersionsAreOwned' /\ OutcomeIsTrue' /\ AdditionsSurvive' /\ PointerIsReadable'
  BY <1>2
  DEF IInv, VersionsAreOwned, OutcomeIsTrue, AdditionsSurvive, PointerIsReadable, Direct
<1>. QED BY <1>3, <1>4, <1>5, <1>6 DEF IInv
\* A process stops: with a report that says whether its candidate was active, or dead.
LEMMA Stops ==
    ASSUME IInv, NEW p \in Procs, proc[p].pc # "idle",
           proc' = [proc EXCEPT ![p] = Idle],
           \/ outcome' = outcome
           \/ \E status \in {"published", "failed"} :
                /\ outcome' = [outcome EXCEPT ![p] = [status |-> status,
                                                      version |-> proc[p].candidate]]
                /\ status = "published" <=> proc[p].pc = "moved",
           lock' \in Procs \cup {Free, Orphan},
           lock' = lock \/ lock \notin Procs \ {p},
           faults' \in 0..MaxFaults,
           UNCHANGED <<versions, blobs, active, activated>>
    PROVE  IInv'
<1>1. Idle \in ProcState
  BY DEF Idle, ProcState, States, Refresh
<1>2. /\ proc' \in [Procs -> ProcState] /\ proc'[p] = Idle
      /\ \A q \in Procs : q # p => proc'[q] = proc[q]
  BY <1>1, ProcUpdate
<1>3. outcome' \in [Procs -> Outcome] /\ \A q \in Procs : q # p => outcome'[q] = outcome[q]
  <2>1. outcome \in [Procs -> Outcome] /\ proc[p].candidate \in Nat
    BY DEF IInv, TypeOK, Outcome
  <2>2. \A status \in {"published", "failed"} :
          [status |-> status, version |-> proc[p].candidate] \in Outcome
    BY <2>1 DEF Outcome
  <2>. QED BY <2>1, <2>2
<1>4. \/ outcome'[p] = outcome[p]
      \/ /\ outcome'[p].version = proc[p].candidate
         /\ outcome'[p].status \in {"published", "failed"}
         /\ outcome'[p].status = "published" <=> proc[p].pc = "moved"
  BY DEF IInv, TypeOK
<1>5. TypeOK'
  <2>1. \A q \in Procs : proc'[q].pc \in Locked => lock' = q
    BY <1>2 DEF IInv, TypeOK, Locked, Idle
  <2>. QED BY <1>2, <1>3, <2>1 DEF IInv, TypeOK, ProcState, Outcome, Locked
<1>6. CandidateIsChild'
  BY <1>2 DEF IInv, CandidateIsChild, Direct, Idle, Publishing
<1>7. LockedIsCurrent' /\ PointerIsReadable' /\ AdditionsSurvive'
  BY <1>2 DEF IInv, LockedIsCurrent, PointerIsReadable, AdditionsSurvive, Direct, Idle
<1>8. VersionsAreOwned'
  BY <1>2, <1>3, <1>4 DEF IInv, VersionsAreOwned, CandidateIsChild, Idle
<1>9. OutcomeIsTrue'
  <2>1. 0 \notin activated
    BY DEF IInv, TypeOK
  <2>2. /\ outcome'[p].status = "published" => outcome'[p].version \in activated
        /\ outcome'[p].status = "failed" => outcome'[p].version \notin activated
    BY <1>4, <2>1 DEF IInv, OutcomeIsTrue, CandidateIsChild, Publishing
  <2>. QED BY <1>3, <2>2 DEF IInv, OutcomeIsTrue
<1>. QED BY <1>5, <1>6, <1>7, <1>8, <1>9 DEF IInv

-----------------------------------------------------------------------------
(* Every step preserves the invariant.                                       *)

LEMMA ReadParentStep ==
    ASSUME IInv, NEW p \in Procs, NEW adds \in Listings \cup {Refresh}, ReadParent(p, adds)
    PROVE  IInv'
<1> DEFINE r == [Idle EXCEPT !.pc = "collecting", !.adds = adds, !.parent = active]
<1>1. active \in Nat
  BY DEF IInv, TypeOK
<1>2. r \in ProcState /\ r.pc = "collecting" /\ r.parent = active /\ r.candidate = 0
  BY <1>1 DEF Idle, ProcState, States, Refresh
<1>3. proc' = [proc EXCEPT ![p] = r]
  BY DEF ReadParent
<1>. HIDE DEF r
<1>4. /\ proc' \in [Procs -> ProcState] /\ proc'[p] = r
      /\ \A q \in Procs : q # p => proc'[q] = proc[q]
  BY <1>2, <1>3, ProcUpdate
<1>5. /\ outcome' \in [Procs -> Outcome] /\ outcome'[p] = NoOutcome
      /\ \A q \in Procs : q # p => outcome'[q] = outcome[q]
  BY DEF ReadParent, IInv, TypeOK, Outcome, NoOutcome
<1>6. UNCHANGED <<versions, blobs, active, lock, activated, faults>>
  BY DEF ReadParent
<1>7. TypeOK'
  BY <1>2, <1>4, <1>5, <1>6 DEF IInv, TypeOK, ProcState, Outcome
<1>8. CandidateIsChild' /\ LockedIsCurrent'
  <2>1. CandidateIsChild'
    <3> SUFFICES ASSUME NEW q \in Procs
                 PROVE  CandidateIsChild!(q)'
      BY DEF CandidateIsChild
    <3>1. CASE q = p
      BY <1>2, <1>4, <1>6, <3>1 DEF IInv, TypeOK, Publishing
    <3>2. CASE q # p
      BY <1>4, <1>6, <3>2 DEF IInv, CandidateIsChild, Direct
    <3>. QED BY <3>1, <3>2
  <2>2. LockedIsCurrent'
    BY <1>2, <1>4, <1>6 DEF IInv, LockedIsCurrent
  <2>. QED BY <2>1, <2>2
<1>9. VersionsAreOwned' /\ PointerIsReadable' /\ OutcomeIsTrue' /\ AdditionsSurvive'
  BY <1>2, <1>4, <1>5, <1>6
  DEF IInv, VersionsAreOwned, PointerIsReadable, OutcomeIsTrue, AdditionsSurvive, Direct,
      NoOutcome
<1>. QED BY <1>7, <1>8, <1>9 DEF IInv

\* The candidate is a version that nobody has, and a child of what was read.
LEMMA CollectStep ==
    ASSUME IInv, NEW p \in Procs, Collect(p)
    PROVE  IInv'
<1> DEFINE v == Candidate(proc[p].parent, proc[p].adds)
           n == Len(versions) + 1
           Version == [parent : Nat, direct : SUBSET Listings]
<1>1. versions \in Seq(Version) /\ proc[p] \in ProcState /\ proc[p].pc = "collecting"
      /\ proc[p].parent \in {0} \cup DOMAIN versions
  BY DEF Collect, IInv, TypeOK, ProcState, CandidateIsChild
<1>2. v \in Version /\ v.parent = proc[p].parent /\ Direct(proc[p].parent) \subseteq v.direct
  <2>1. Direct(proc[p].parent) \subseteq Listings
    <3>1. ASSUME NEW i \in DOMAIN versions
          PROVE  versions[i].direct \subseteq Listings
      <4>1. versions[i] \in Version
        BY <1>1, ElementType, Zenon
      <4>. QED BY <4>1
    <3>. QED BY <1>1, <3>1 DEF Direct
  <2>2. proc[p].adds # Refresh => proc[p].adds \in Listings
    BY <1>1 DEF ProcState
  <2>. QED BY <1>1, <2>1, <2>2 DEF Candidate, ProcState
<1>3. versions' = Append(versions, v)
  BY DEF Collect
<1>. HIDE DEF v, Version
<1>4. /\ versions' \in Seq(Version) /\ Len(versions') = n
      /\ DOMAIN versions' = DOMAIN versions \cup {n}
      /\ n \notin DOMAIN versions /\ n # 0 /\ n \in Nat
      /\ versions'[n] = v
      /\ \A i \in DOMAIN versions : versions'[i] = versions[i]
      /\ 0 \notin DOMAIN versions
  BY <1>1, <1>2, <1>3, AppendKeeps
<1>. HIDE DEF n
<1>5. /\ proc' \in [Procs -> ProcState]
      /\ proc'[p].pc = "ready" /\ proc'[p].parent = proc[p].parent
      /\ proc'[p].candidate = n
      /\ \A q \in Procs : q # p => proc'[q] = proc[q]
  BY <1>1, <1>4 DEF Collect, IInv, TypeOK, ProcState, States
<1>6. UNCHANGED <<blobs, active, lock, outcome, activated, faults>>
  BY DEF Collect
<1>7. \A i \in {0} \cup DOMAIN versions : Direct(i)' = Direct(i)
  BY <1>4 DEF Direct
<1>8. TypeOK'
  BY <1>4, <1>5, <1>6 DEF IInv, TypeOK, ProcState, Version
<1>9. CandidateIsChild'
  <2> SUFFICES ASSUME NEW q \in Procs
               PROVE  CandidateIsChild!(q)'
    BY DEF CandidateIsChild
  <2>1. CASE q = p
    BY <1>1, <1>2, <1>4, <1>5, <1>6, <1>7, <2>1 DEF IInv, TypeOK, Publishing
  <2>2. CASE q # p
    BY <1>4, <1>5, <1>6, <1>7, <2>2, SMTT(30) DEF IInv, CandidateIsChild
  <2>. QED BY <2>1, <2>2
<1>10. LockedIsCurrent'
  BY <1>5, <1>6 DEF IInv, LockedIsCurrent
<1>11. VersionsAreOwned'
  <2>1. \A q \in Procs : proc[q].candidate # n /\ outcome[q].version # n
    BY <1>4 DEF IInv, CandidateIsChild, VersionsAreOwned
  <2>. QED BY <1>4, <1>5, <1>6, <2>1 DEF IInv, VersionsAreOwned
<1>12. PointerIsReadable' /\ OutcomeIsTrue'
  BY <1>6 DEF IInv, PointerIsReadable, OutcomeIsTrue
<1>13. AdditionsSurvive'
  BY <1>4, <1>6, <1>7 DEF IInv, TypeOK, AdditionsSurvive
<1>. QED BY <1>8, <1>9, <1>10, <1>11, <1>12, <1>13 DEF IInv

\* The new version keeps what the old one had, for it is its child.
LEMMA MovePointerStep ==
    ASSUME IInv, NEW p \in Procs, proc[p].pc = "stored",
           active' = proc[p].candidate, activated' = activated \cup {active'},
           Goto(p, "moved"),
           UNCHANGED <<versions, blobs, lock, outcome, faults>>
    PROVE  IInv' /\ versions'[active'].parent = active
<1> DEFINE c == proc[p].candidate
<1>1. /\ proc' \in [Procs -> ProcState] /\ proc'[p].pc = "moved"
      /\ proc'[p].parent = proc[p].parent /\ proc'[p].candidate = c
      /\ \A q \in Procs : q # p => proc'[q] = proc[q]
  BY GotoUpdate DEF States
<1>2. /\ c \in DOMAIN versions /\ c # 0 /\ c \in blobs
      /\ versions[c].parent = active
      /\ Direct(active) \subseteq versions[c].direct
  BY DEF IInv, CandidateIsChild, LockedIsCurrent, Publishing
<1>3. \A q \in Procs : q # p => proc[q].candidate # c /\ proc[q].pc \notin Locked
  BY <1>2 DEF IInv, VersionsAreOwned, TypeOK, Locked
<1>. HIDE DEF c
<1>4. active' = c /\ activated' = activated \cup {c}
  BY DEF c
<1>5. TypeOK'
  BY <1>1, <1>2, <1>4 DEF IInv, TypeOK, ProcState
<1>6. CandidateIsChild'
  BY <1>1, <1>2, <1>3, <1>4 DEF IInv, CandidateIsChild, Direct, Publishing, c
<1>7. LockedIsCurrent' /\ PointerIsReadable'
  BY <1>1, <1>2, <1>3, <1>4 DEF IInv, LockedIsCurrent, PointerIsReadable, Locked
<1>8. VersionsAreOwned'
  BY <1>1 DEF IInv, VersionsAreOwned, c
<1>9. OutcomeIsTrue'
  <2>1. \A q \in Procs : outcome[q].version # c
    BY <1>2 DEF IInv, VersionsAreOwned, c
  <2>. QED BY <1>4, <2>1 DEF IInv, OutcomeIsTrue
<1>10. AdditionsSurvive'
  BY <1>2, <1>4 DEF IInv, AdditionsSurvive, Direct
<1>. QED BY <1>2, <1>4, <1>5, <1>6, <1>7, <1>8, <1>9, <1>10 DEF IInv

\* What one step preserves: the invariant, and the line of the versions.
Linear == active' # active => versions'[active'].parent = active

LEMMA ProcStep ==
    ASSUME IInv, NEW p \in Procs,
           \/ \E adds \in Listings \cup {Refresh} : ReadParent(p, adds)
           \/ Collect(p) \/ CollectFails(p) \/ Acquire(p) \/ LockTimeout(p)
           \/ CheckParent(p) \/ WriteBlob(p) \/ MovePointer(p) \/ Release(p) \/ Crash(p)
    PROVE  IInv' /\ Linear
<1>. USE CatalogueConstants
<1>1. faults \in 0..MaxFaults /\ (Fault => faults' \in 0..MaxFaults)
  BY DEF IInv, TypeOK, Fault
<1>2. \A pc \in Locked : proc[p].pc = pc => lock = p
  BY DEF IInv, TypeOK, Locked
<1>3. Free \notin Procs /\ Orphan \notin Procs /\ lock \in Procs \cup {Free, Orphan}
  BY DEF IInv, TypeOK
<1>4. ASSUME NEW adds \in Listings \cup {Refresh}, ReadParent(p, adds)
      PROVE  IInv' /\ Linear
  BY <1>4, ReadParentStep DEF ReadParent, Linear
<1>5. CASE Collect(p)
  BY <1>5, CollectStep DEF Collect, Linear
<1>6. CASE CollectFails(p)
  BY <1>1, <1>3, <1>6, Stops DEF CollectFails, Returns, Linear
<1>7. CASE Acquire(p)
  <2>1. CASE lock' = p /\ Goto(p, "locked") /\ UNCHANGED <<outcome, faults>>
    BY <1>1, <1>7, <2>1, GoesOn DEF Acquire, Publishing, Locked, Linear, IInv, TypeOK
  <2>2. CASE Fault /\ lock' \in {Free, Orphan} /\ Returns(p, "failed")
    BY <1>1, <1>3, <1>7, <2>2, Stops DEF Acquire, Returns, Linear
  <2>. QED BY <1>7, <2>1, <2>2 DEF Acquire
<1>8. CASE LockTimeout(p)
  BY <1>1, <1>3, <1>8, Stops DEF LockTimeout, Returns, Linear
<1>9. CASE CheckParent(p)
  BY <1>1, <1>2, <1>9, GoesOn
  DEF CheckParent, ParentIsActive, Publishing, Locked, Linear, IInv, TypeOK
<1>10. CASE WriteBlob(p)
  <2>1. proc[p].candidate \in DOMAIN versions /\ proc[p].parent = active
        /\ blobs \subseteq DOMAIN versions /\ proc[p].pc = "checked"
    BY <1>10 DEF WriteBlob, IInv, TypeOK, CandidateIsChild, LockedIsCurrent, Publishing
  <2>. QED BY <1>1, <1>2, <1>10, <2>1, GoesOn DEF WriteBlob, Publishing, Locked, Linear
<1>11. CASE MovePointer(p)
  <2>1. CASE Fault /\ Goto(p, "failing") /\ UNCHANGED <<active, activated>>
    BY <1>1, <1>2, <1>11, <2>1, GoesOn DEF MovePointer, Publishing, Locked, Linear, IInv, TypeOK
  <2>2. CASE /\ active' = proc[p].candidate /\ activated' = activated \cup {active'}
             /\ Goto(p, "moved") /\ faults' = faults
    BY <1>11, <2>2, MovePointerStep DEF MovePointer, Linear
  <2>. QED BY <1>11, <2>1, <2>2 DEF MovePointer
<1>12. CASE Release(p)
  BY <1>1, <1>2, <1>3, <1>12, Stops DEF Release, ReleaseFails, Returns, Locked, Linear
<1>13. CASE Crash(p)
  BY <1>1, <1>3, <1>13, Stops DEF Crash, Linear
<1>. QED BY <1>4, <1>5, <1>6, <1>7, <1>8, <1>9, <1>10, <1>11, <1>12, <1>13

LEMMA NextIInv ==
    ASSUME IInv, [Next]_vars
    PROVE  IInv' /\ Linear
<1>1. CASE RemoveOrphan
  <2>1. \A p \in Procs : proc[p].pc \notin Locked
    BY <1>1, CatalogueConstants DEF RemoveOrphan, IInv, TypeOK, Locked
  <2>. QED
    BY <1>1, <2>1
    DEF RemoveOrphan, IInv, TypeOK, CandidateIsChild, LockedIsCurrent, VersionsAreOwned,
        PointerIsReadable, OutcomeIsTrue, AdditionsSurvive, Linear, Direct, Locked
<1>2. CASE UNCHANGED vars
  BY <1>2
  DEF vars, IInv, TypeOK, CandidateIsChild, LockedIsCurrent, VersionsAreOwned,
      PointerIsReadable, OutcomeIsTrue, AdditionsSurvive, Linear, Direct
<1>. QED BY <1>1, <1>2, ProcStep DEF Next

LEMMA Inductive == Spec => []IInv
  BY InitIInv, NextIInv, PTL DEF Spec
-----------------------------------------------------------------------------
(* The theorems.                                                             *)

\* Directory and publishers keep their types, and a publisher that is past Acquire owns
\* publish.lock, whichever lock files are orphaned and removed (catalogue/store.py).
THEOREM TypeCorrect == Spec => []TypeOK
<1>1. IInv => TypeOK
  BY DEF IInv
<1>. QED BY <1>1, Inductive, PTL

\* active.json always names a blob that was written whole, after any failing file
\* operation and any crash.
THEOREM PointerReadable == Spec => []PointerIsReadable
<1>1. IInv => PointerIsReadable
  BY DEF IInv
<1>. QED BY <1>1, Inductive, PTL

\* publish and its callers tell the truth: a reported publication took effect, and one
\* that failed did not and never will.
THEOREM OutcomesAreTrue == Spec => []OutcomeIsTrue
<1>1. IInv => OutcomeIsTrue
  BY DEF IInv
<1>. QED BY <1>1, Inductive, PTL

\* No refresh or addition, however late it collected, drops a listing that add_direct
\* published.
THEOREM AdditionsAreKept == Spec => []AdditionsSurvive
<1>1. IInv => AdditionsSurvive
  BY DEF IInv
<1>. QED BY <1>1, Inductive, PTL

\* The comparison under the lock makes the active versions one line: each step of the
\* pointer is from a version's parent to the version.
THEOREM LinearLineage == Spec => LineageIsLinear
<1>1. IInv /\ [Next]_vars => [Linear]_vars
  BY NextIInv
<1>. QED BY <1>1, Inductive, PTL DEF Spec, LineageIsLinear, Linear
=============================================================================
