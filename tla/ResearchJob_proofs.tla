-------------------------- MODULE ResearchJob_proofs --------------------------
(***************************************************************************)
(* A catalogue research job, for any number of dashboards, listings,       *)
(* attempts and batches: every property of ResearchJob.                    *)
(***************************************************************************)
EXTENDS ResearchJob, WellFoundedInduction, TLAPS

-----------------------------------------------------------------------------
(* The inductive invariant.                                                  *)

JobType ==
    [generation : 0..MaxGeneration, attempts : [Member -> Seq(AttemptStatus)],
     cached : [Member -> (0..MaxTime) \cup {None}],
     final : [at : 0..MaxTime, records : [Member -> 0..MaxTime]] \cup {None},
     publication : {"not_started", "started", "succeeded"}]

ProcState ==
    [pc : States, seen : 0..MaxGeneration, listing : Member, left : 0..BatchSize,
     record : (0..MaxTime) \cup {None}]

\* What a process in state s may rely on while it has the lock: the listing it attempts
\* is the first without a record, its attempt is not too many and not yet called for;
\* what it publishes is final.
Turn(j, c, t, done, s) ==
    /\ s.pc \in {"attempting", "collecting", "collected"} =>
         /\ j.final = None
         /\ j.cached[s.listing] = None
         /\ \A k \in Member : k < s.listing => j.cached[k] # None
    /\ s.pc = "attempting" => Len(j.attempts[s.listing]) < AttemptsPerListing
    /\ s.pc \in {"collecting", "collected"} => j.attempts[s.listing] # <<>>
    /\ s.pc = "collecting" =>
         \A i \in DOMAIN c : c[i] # <<s.listing, Len(j.attempts[s.listing])>>
    /\ s.pc = "collected" => s.record \in (0..t) \cup {None}
    /\ s.pc \in {"publishing", "published"} => j.final # None
    /\ s.pc = "published" => j.final \in done

HasTurn == \A p \in Procs : Turn(job, calls, now, activated, proc[p])

\* Attempts are counted, and a record was made by one of them, before now.
AttemptsAreCounted ==
    \A l \in Member :
        /\ Len(job.attempts[l]) <= AttemptsPerListing
        /\ job.cached[l] # None => job.attempts[l] # <<>> /\ job.cached[l] \in 0..now

\* A job is final with every record, and nothing is activated before.
FinalIsWhole ==
    IF job.final = None THEN activated = {} ELSE \A l \in Member : job.cached[l] # None

StoreInv ==
    /\ job \in JobType
    /\ now \in 0..MaxTime
    /\ calls \in Seq(Member \X (1..AttemptsPerListing))
    /\ CallsAreRecorded
    /\ CollectedInOrder
    /\ OneSnapshot
    /\ SucceededIsActivated
    /\ AttemptsAreCounted
    /\ FinalIsWhole

IInv ==
    /\ StoreInv
    /\ proc \in [Procs -> ProcState]
    /\ \A p \in Procs : proc[p].pc # "idle" <=> lock = p
    /\ HasTurn

-----------------------------------------------------------------------------
(* Members and types.                                                        *)

LEMMA BoundFacts ==
    /\ Listings \in Nat /\ BatchSize \in Nat /\ 1 <= BatchSize
    /\ AttemptsPerListing \in Nat /\ 1 <= AttemptsPerListing
    /\ MaxAge \in Nat /\ MaxTime \in Nat /\ MaxGeneration \in Nat
    /\ Free \notin Procs /\ 1 \in Member
<1>1. /\ Free \notin Procs
      /\ Listings \in Nat \ {0} /\ BatchSize \in Nat \ {0} /\ AttemptsPerListing \in Nat \ {0}
      /\ MaxAge \in Nat /\ MaxTime \in Nat /\ MaxGeneration \in Nat
  BY JobConstants
<1>. QED BY <1>1 DEF Member

LEMMA LeastMember ==
    ASSUME NEW S \in SUBSET Nat, S # {}
    PROVE  \E l \in S : \A k \in S : l <= k
<1>1. PICK l \in S : \A k \in S : ~(<<k, l>> \in OpToRel(<, Nat))
  BY NatLessThanWellFounded, WFMin
<1>2. \A k \in S : ~(k < l)
  BY <1>1 DEF OpToRel
<1>3. \A k \in S : k \in Nat
  OBVIOUS
<1>4. \A k \in S : l <= k
  BY <1>2, <1>3, SMT
<1>. QED BY <1>4

LEMMA AppendFacts ==
    ASSUME NEW S, NEW q \in Seq(S), NEW e \in S
    PROVE  /\ Append(q, e) \in Seq(S) /\ Append(q, e) # <<>>
           /\ Len(q) \in Nat /\ Len(Append(q, e)) = Len(q) + 1
           /\ DOMAIN q = 1..Len(q) /\ DOMAIN Append(q, e) = 1..(Len(q) + 1)
           /\ \A i \in 1..Len(q) : Append(q, e)[i] = q[i]
           /\ Append(q, e)[Len(q) + 1] = e
<1>1. Append(q, e) \in Seq(S)
  OBVIOUS
<1>2. /\ Len(q) \in Nat /\ Len(Append(q, e)) = Len(q) + 1
      /\ Append(q, e) # <<>>
  <2>1. Len(q) \in Nat /\ Len(Append(q, e)) = Len(q) + 1 /\ Len(<<>>) = 0
    OBVIOUS
  <2>. QED BY <2>1
<1>3. DOMAIN q = 1..Len(q) /\ DOMAIN Append(q, e) = 1..(Len(q) + 1)
  BY <1>1, <1>2
<1>4. /\ \A i \in 1..Len(q) : Append(q, e)[i] = q[i]
      /\ Append(q, e)[Len(q) + 1] = e
  OBVIOUS
<1>. QED BY <1>1, <1>2, <1>3, <1>4

\* The listing whose turn it is is the first one without a record.
LEMMA NextFacts ==
    ASSUME Cached # Member
    PROVE  /\ NextMember \in Member /\ job.cached[NextMember] = None
           /\ \A k \in Member : k < NextMember => job.cached[k] # None
<1>1. Member \ Cached \in SUBSET Nat /\ Member \ Cached # {}
  BY BoundFacts DEF Member, Cached
<1>2. \E l \in Member \ Cached : \A k \in Member \ Cached : l <= k
  BY <1>1, LeastMember
<1>3. /\ NextMember \in Member \ Cached
      /\ \A k \in Member \ Cached : NextMember <= k
  BY <1>2 DEF NextMember
<1>4. ASSUME NEW k \in Member, k < NextMember
      PROVE  k \in Cached
  BY <1>1, <1>3, <1>4
<1>. QED BY <1>3, <1>4 DEF Cached

\* A write replaces the manifest and raises its generation.
LEMMA WriteFacts ==
    ASSUME NEW changed \in JobType, changed.generation = job.generation, Write(changed)
    PROVE  /\ job' \in JobType
           /\ job'.attempts = changed.attempts /\ job'.cached = changed.cached
           /\ job'.final = changed.final /\ job'.publication = changed.publication
<1>1. changed.generation + 1 \in 0..MaxGeneration
  BY BoundFacts DEF JobType, Write
<1>2. job' = [changed EXCEPT !.generation = changed.generation + 1]
  BY DEF Write
<1>. QED BY <1>1, <1>2 DEF JobType

LEMMA IdleFacts ==
    ASSUME NEW seen \in 0..MaxGeneration
    PROVE  /\ Idle(seen) \in ProcState /\ Idle(seen).pc = "idle"
           /\ \A j, c, t, done : Turn(j, c, t, done, Idle(seen))
  BY BoundFacts DEF Idle, ProcState, States, Turn

LEMMA InitIInv == Init => IInv
<1>. SUFFICES ASSUME Init PROVE IInv
  OBVIOUS
<1>1. \A p \in Procs : proc[p] = Idle(0) /\ lock # p
  BY BoundFacts DEF Init
<1>2. 0 \in 0..MaxGeneration /\ now \in 0..MaxTime
  BY BoundFacts DEF Init
<1>3. proc \in [Procs -> ProcState]
  BY <1>2, IdleFacts DEF Init
<1>4. /\ job \in JobType /\ job.final = None /\ job.publication = "not_started"
      /\ \A l \in Member : job.attempts[l] = <<>> /\ job.cached[l] = None
  BY <1>2 DEF Init, JobType
<1>5. calls = <<>> /\ activated = {}
  BY DEF Init
<1>6. StoreInv
  BY <1>2, <1>4, <1>5, BoundFacts
  DEF StoreInv, CallsAreRecorded, CollectedInOrder, OneSnapshot, SucceededIsActivated,
      AttemptsAreCounted, FinalIsWhole
<1>. QED BY <1>1, <1>2, <1>3, <1>6, IdleFacts DEF IInv, HasTurn

-----------------------------------------------------------------------------
(* What kinds of steps there are.                                            *)

\* The process that has the lock, or takes it, goes on.
LEMMA ProcGoes ==
    ASSUME IInv, NEW p \in Procs, NEW s \in ProcState, proc' = [proc EXCEPT ![p] = s],
           lock \in {p, Free}, lock' = IF s.pc = "idle" THEN Free ELSE p,
           StoreInv', Turn(job', calls', now', activated', s)
    PROVE  IInv'
<1>1. /\ proc' \in [Procs -> ProcState] /\ proc'[p] = s
      /\ \A q \in Procs : q # p => proc'[q] = proc[q]
  BY DEF IInv
<1>2. \A q \in Procs : q # p => proc'[q].pc = "idle"
  BY <1>1, BoundFacts DEF IInv
<1>3. \A q \in Procs : proc'[q].pc # "idle" <=> lock' = q
  BY <1>1, <1>2, BoundFacts
<1>4. ASSUME NEW q \in Procs
      PROVE  Turn(job', calls', now', activated', proc'[q])
  BY <1>1, <1>2 DEF Turn
<1>. QED BY <1>1, <1>3, <1>4 DEF IInv, HasTurn

\* A process ends.
LEMMA ProcEnds ==
    ASSUME IInv, NEW p \in Procs, proc[p].pc # "idle", Ends(p), StoreInv'
    PROVE  IInv'
<1>1. proc[p].seen \in 0..MaxGeneration /\ lock = p
  BY DEF IInv, ProcState
<1>. QED BY <1>1, IdleFacts, ProcGoes DEF Ends

\* Nothing is collected: a publication is recorded, or activates the final snapshot.
LEMMA StoreStays ==
    ASSUME StoreInv, job' \in JobType,
           job'.attempts = job.attempts, job'.cached = job.cached, job'.final = job.final,
           activated \subseteq activated',
           activated' = activated \/ (activated' \subseteq {job.final} /\ job.final # None),
           job'.publication = "succeeded" => job.final \in activated',
           UNCHANGED <<now, calls>>
    PROVE  StoreInv'
<1>1. CallsAreRecorded' /\ CollectedInOrder' /\ AttemptsAreCounted'
  <2>1. CallsAreRecorded'
    BY DEF StoreInv, CallsAreRecorded
  <2>2. CollectedInOrder'
    BY DEF StoreInv, CollectedInOrder
  <2>3. AttemptsAreCounted'
    BY DEF StoreInv, AttemptsAreCounted
  <2>. QED BY <2>1, <2>2, <2>3
<1>2. OneSnapshot' /\ FinalIsWhole' /\ SucceededIsActivated'
  BY DEF StoreInv, OneSnapshot, FinalIsWhole, SucceededIsActivated
<1>. QED BY <1>1, <1>2 DEF StoreInv

LEMMA StoreSame ==
    ASSUME StoreInv, UNCHANGED <<job, now, calls, activated>>
    PROVE  StoreInv'
  BY DEF StoreInv, CallsAreRecorded, CollectedInOrder, OneSnapshot, SucceededIsActivated,
         AttemptsAreCounted, FinalIsWhole, Cached

\* What a step of a process that has the lock starts from.
LEMMA HolderFacts ==
    ASSUME IInv, NEW p \in Procs
    PROVE  /\ proc[p] \in ProcState
           /\ proc[p].pc # "idle" => lock = p
           /\ Turn(job, calls, now, activated, proc[p])
  BY DEF IInv, HasTurn

-----------------------------------------------------------------------------
(* Collecting.                                                               *)

LEMMA LoadStep ==
    ASSUME IInv, NEW p \in Procs, Load(p)
    PROVE  IInv'
<1> DEFINE s == [proc[p] EXCEPT !.seen = job.generation]
<1>0. s \in ProcState
  <2>1. job.generation \in 0..MaxGeneration
    BY DEF IInv, StoreInv, JobType
  <2>. QED BY <2>1, HolderFacts DEF ProcState
<1>1. /\ proc' \in [Procs -> ProcState]
      /\ \A q \in Procs : proc'[q] = IF q = p THEN s ELSE proc[q]
  BY <1>0 DEF Load, IInv
<1>2. \A q \in Procs : /\ proc'[q].pc = proc[q].pc
                       /\ q # p => proc'[q] = proc[q]
  BY <1>1, HolderFacts DEF ProcState
<1>3. proc[p].pc = "idle" /\ UNCHANGED <<job, lock, now, calls, activated>>
  BY DEF Load
<1>4. StoreInv'
  BY <1>3, StoreSame DEF IInv
<1>5. ASSUME NEW q \in Procs
      PROVE  Turn(job', calls', now', activated', proc'[q])
  <2>1. CASE q = p
    BY <1>2, <1>3, <2>1 DEF Turn
  <2>2. CASE q # p
    BY <1>2, <1>3, <2>2, HolderFacts
  <2>. QED BY <2>1, <2>2
<1>. QED BY <1>1, <1>2, <1>3, <1>4, <1>5 DEF IInv, HasTurn

LEMMA BeginCollectionStep ==
    ASSUME IInv, NEW p \in Procs, BeginCollection(p)
    PROVE  IInv'
<1>1. PICK left \in {IF MayAdvance(p) THEN BatchSize ELSE 1} :
        /\ MayAdvance(p) \/ MayRetry(p)
        /\ Begins(p, [Idle(proc[p].seen) EXCEPT !.pc = "attempting",
                                               !.listing = NextMember, !.left = left])
  BY DEF BeginCollection
<1> DEFINE s == [Idle(proc[p].seen) EXCEPT !.pc = "attempting",
                                           !.listing = NextMember, !.left = left]
<1>2. /\ Cached # Member /\ job.final = None
      /\ Len(job.attempts[NextMember]) < AttemptsPerListing
  <2>1. Len(<<>>) = 0
    OBVIOUS
  <2>. QED BY <1>1, <2>1, BoundFacts DEF MayAdvance, MayRetry
<1>3. left \in 0..BatchSize
  BY BoundFacts
<1>4. s \in ProcState /\ s.pc = "attempting" /\ s.listing = NextMember
  <2>1. proc[p].seen \in 0..MaxGeneration
    BY HolderFacts DEF ProcState
  <2>2. Idle(proc[p].seen) \in ProcState
    BY <2>1, IdleFacts
  <2>3. NextMember \in Member
    BY <1>2, NextFacts
  <2>. QED BY <1>3, <2>2, <2>3 DEF ProcState, States
<1>5. /\ proc' = [proc EXCEPT ![p] = s] /\ lock = Free /\ lock' = p
      /\ UNCHANGED <<job, now, calls, activated>>
  BY <1>1 DEF BeginCollection, Begins
<1>. HIDE DEF s
<1>6. Turn(job', calls', now', activated', s)
  BY <1>2, <1>4, <1>5, NextFacts DEF Turn
<1>7. StoreInv'
  BY <1>5, StoreSame DEF IInv
<1>. QED BY <1>4, <1>5, <1>6, <1>7, ProcGoes

\* The attempt is written down: no call carries its number yet.
LEMMA StartAttemptStep ==
    ASSUME IInv, NEW p \in Procs, StartAttempt(p)
    PROVE  IInv'
<1> DEFINE l == proc[p].listing
           a == job.attempts[l]
           changed == [job EXCEPT !.attempts[l] = Append(a, "started")]
           s == [proc[p] EXCEPT !.pc = "collecting"]
<1>1. /\ proc[p].pc = "attempting" /\ lock = p /\ proc[p] \in ProcState /\ l \in Member
      /\ job.final = None /\ job.cached[l] = None
      /\ \A k \in Member : k < l => job.cached[k] # None
      /\ Len(a) < AttemptsPerListing
  BY HolderFacts DEF StartAttempt, Turn, ProcState
<1>2. /\ Write(changed) /\ proc' = [proc EXCEPT ![p] = s]
      /\ UNCHANGED <<lock, now, calls, activated>>
  BY DEF StartAttempt, IInv
<1>3. s \in ProcState /\ s.pc = "collecting" /\ s.listing = l
  BY <1>1 DEF ProcState, States
<1>4. job \in JobType /\ a \in Seq(AttemptStatus)
  BY <1>1 DEF IInv, StoreInv, JobType
<1>5. /\ Append(a, "started") \in Seq(AttemptStatus)
      /\ Len(Append(a, "started")) = Len(a) + 1 /\ Len(a) \in Nat
      /\ Append(a, "started") # <<>>
      /\ \A i \in 1..Len(a) : Append(a, "started")[i] = a[i]
      /\ Append(a, "started")[Len(a) + 1] = "started"
  <2>1. "started" \in AttemptStatus
    BY DEF AttemptStatus
  <2>. HIDE DEF a
  <2>. QED BY <1>4, <2>1, AppendFacts
<1>. HIDE DEF a, s
<1>6. changed \in JobType /\ changed.generation = job.generation
  BY <1>1, <1>4, <1>5 DEF JobType
<1>7. /\ changed.attempts = [job.attempts EXCEPT ![l] = Append(a, "started")]
      /\ changed.cached = job.cached /\ changed.final = job.final
      /\ changed.publication = job.publication
  BY <1>4 DEF JobType
<1>. HIDE DEF changed, l
<1>8. /\ job' \in JobType
      /\ job'.attempts = [job.attempts EXCEPT ![l] = Append(a, "started")]
      /\ job'.cached = job.cached /\ job'.final = job.final
      /\ job'.publication = job.publication
  BY <1>2, <1>6, <1>7, WriteFacts
<1>9. /\ job'.attempts[l] = Append(a, "started")
      /\ \A k \in Member : k # l => job'.attempts[k] = job.attempts[k]
  BY <1>1, <1>4, <1>8 DEF JobType
<1>10. /\ calls \in Seq(Member \X (1..AttemptsPerListing)) /\ CallsAreRecorded
       /\ \A i \in DOMAIN calls : /\ calls[i][1] \in Member /\ calls[i][2] \in Nat
                                  /\ calls[i][2] \in 1..Len(job.attempts[calls[i][1]])
  BY <1>4 DEF IInv, StoreInv, CallsAreRecorded, JobType
<1>11. CallsAreRecorded'
  <2>1. ASSUME NEW i \in DOMAIN calls
        PROVE  calls[i][2] \in DOMAIN job'.attempts[calls[i][1]]
    <3>1. CASE calls[i][1] = l
      BY <1>5, <1>9, <1>10, <3>1 DEF a
    <3>2. CASE calls[i][1] # l
      BY <1>9, <1>10, <3>2 DEF CallsAreRecorded
    <3>. QED BY <3>1, <3>2
  <2>. QED BY <1>2, <1>10, <2>1 DEF CallsAreRecorded
<1>12. CollectedInOrder'
  <2>1. CollectedInOrder /\ \A i \in 1..Len(a) : a[i] # "succeeded"
    BY <1>1, <1>4 DEF IInv, StoreInv, CollectedInOrder, a
  <2>2. ASSUME NEW k \in Member
        PROVE  LET b == job'.attempts[k] IN
               /\ b # <<>> => \A m \in Member : m < k => job'.cached[m] # None
               /\ \A i \in DOMAIN b : b[i] = "succeeded" <=> (i = Len(b) /\ job'.cached[k] # None)
    <3>1. CASE k = l
      BY <1>1, <1>5, <1>8, <1>9, <2>1, <3>1
    <3>2. CASE k # l
      BY <1>8, <1>9, <2>1, <3>2 DEF CollectedInOrder
    <3>. QED BY <3>1, <3>2
  <2>. QED BY <2>2 DEF CollectedInOrder
<1>13. AttemptsAreCounted'
  <2>1. Len(a) + 1 <= AttemptsPerListing
    BY <1>1, <1>5, BoundFacts DEF a
  <2>2. ASSUME NEW k \in Member
        PROVE  /\ Len(job'.attempts[k]) <= AttemptsPerListing
               /\ job'.cached[k] # None => job'.attempts[k] # <<>> /\ job'.cached[k] \in 0..now
    <3>1. CASE k = l
      BY <1>1, <1>5, <1>8, <1>9, <2>1, <3>1
    <3>2. CASE k # l
      BY <1>8, <1>9, <3>2 DEF IInv, StoreInv, AttemptsAreCounted
    <3>. QED BY <3>1, <3>2
  <2>. QED BY <1>2, <2>2 DEF AttemptsAreCounted
<1>14. OneSnapshot' /\ SucceededIsActivated' /\ FinalIsWhole'
  BY <1>2, <1>8 DEF IInv, StoreInv, OneSnapshot, SucceededIsActivated, FinalIsWhole
<1>15. StoreInv'
  BY <1>2, <1>8, <1>10, <1>11, <1>12, <1>13, <1>14 DEF IInv, StoreInv
<1>16. Turn(job', calls', now', activated', s)
  <2>1. \A i \in DOMAIN calls : calls[i] # <<l, Len(a) + 1>>
    BY <1>5, <1>10 DEF a
  <2>. QED BY <1>1, <1>2, <1>3, <1>5, <1>8, <1>9, <2>1 DEF Turn
<1>. QED BY <1>1, <1>2, <1>3, <1>15, <1>16, ProcGoes

\* The collector is called: the attempt is the last one written down for the listing.
LEMMA CollectStep ==
    ASSUME IInv, NEW p \in Procs, Collect(p)
    PROVE  IInv'
<1> DEFINE l == proc[p].listing
           n == Len(job.attempts[l])
<1>1. /\ proc[p].pc = "collecting" /\ lock = p /\ proc[p] \in ProcState /\ l \in Member
      /\ Turn(job, calls, now, activated, proc[p])
      /\ \A i \in DOMAIN calls : calls[i] # <<l, n>>
      /\ job.attempts[l] # <<>> /\ job.attempts[l] \in Seq(AttemptStatus)
  BY HolderFacts DEF Collect, Turn, ProcState, IInv, StoreInv, JobType
<1>2. n \in 1..AttemptsPerListing /\ n \in DOMAIN job.attempts[l]
  <2>1. n <= AttemptsPerListing
    BY <1>1 DEF IInv, StoreInv, AttemptsAreCounted
  <2>. QED BY <1>1, <2>1, BoundFacts
<1>3. PICK record \in {None, now} :
        proc' = [proc EXCEPT ![p] = [proc[p] EXCEPT !.pc = "collected", !.record = record]]
  BY DEF Collect, IInv
<1> DEFINE s == [proc[p] EXCEPT !.pc = "collected", !.record = record]
<1>4. /\ calls' = Append(calls, <<l, n>>)
      /\ UNCHANGED <<job, lock, now, activated>>
  BY DEF Collect
<1>. HIDE DEF l, n
<1>5. now \in 0..MaxTime /\ now \in 0..now
  BY BoundFacts DEF IInv, StoreInv
<1>6. /\ s \in ProcState /\ s.pc = "collected" /\ s.listing = l
      /\ s.record \in (0..now) \cup {None}
  BY <1>1, <1>5 DEF ProcState, States, l
<1>. HIDE DEF s
<1>7. /\ calls \in Seq(Member \X (1..AttemptsPerListing)) /\ CallsAreRecorded
      /\ <<l, n>> \in Member \X (1..AttemptsPerListing)
  BY <1>1, <1>2 DEF IInv, StoreInv
<1>8. /\ calls' \in Seq(Member \X (1..AttemptsPerListing))
      /\ DOMAIN calls' = (DOMAIN calls) \cup {Len(calls) + 1}
      /\ calls'[Len(calls) + 1] = <<l, n>>
      /\ \A i \in DOMAIN calls : calls'[i] = calls[i] /\ i # Len(calls) + 1
  <2>1. DOMAIN calls = 1..Len(calls) /\ DOMAIN calls' = 1..(Len(calls) + 1) /\ Len(calls) \in Nat
    BY <1>4, <1>7, AppendFacts
  <2>. QED BY <1>4, <1>7, <2>1, AppendFacts
<1>9. CallsAreRecorded'
  <2>1. ASSUME NEW i \in DOMAIN calls', NEW j \in DOMAIN calls', calls'[i] = calls'[j]
        PROVE  i = j
    BY <1>1, <1>7, <1>8, <2>1 DEF CallsAreRecorded
  <2>2. ASSUME NEW i \in DOMAIN calls'
        PROVE  calls'[i][2] \in DOMAIN job'.attempts[calls'[i][1]]
    <3>1. CASE i = Len(calls) + 1
      BY <1>2, <1>4, <1>8, <3>1 DEF l
    <3>2. CASE i \in DOMAIN calls
      BY <1>4, <1>7, <1>8, <3>2 DEF CallsAreRecorded
    <3>. QED BY <1>8, <3>1, <3>2
  <2>. QED BY <2>1, <2>2 DEF CallsAreRecorded
<1>10. StoreInv'
  BY <1>4, <1>8, <1>9
  DEF IInv, StoreInv, CollectedInOrder, OneSnapshot, SucceededIsActivated,
      AttemptsAreCounted, FinalIsWhole
<1>11. Turn(job', calls', now', activated', s)
  BY <1>1, <1>4, <1>6 DEF Turn, l
<1>. QED BY <1>1, <1>3, <1>4, <1>6, <1>10, <1>11, ProcGoes DEF s

\* What an attempt's end writes down: its status, and the record if it has one.
LEMMA AttemptedFacts ==
    ASSUME job \in JobType, NEW l \in Member, NEW record \in (0..MaxTime) \cup {None},
           job.attempts[l] # <<>>
    PROVE  LET changed == Attempted(l, record)
               a == job.attempts[l]  b == changed.attempts[l]
           IN  /\ changed \in JobType /\ changed.generation = job.generation
               /\ changed.final = job.final /\ changed.publication = job.publication
               /\ changed.cached[l] = record
               /\ \A k \in Member : k # l => /\ changed.cached[k] = job.cached[k]
                                             /\ changed.attempts[k] = job.attempts[k]
               /\ b # <<>> /\ Len(b) = Len(a) /\ Len(a) \in Nat
               /\ DOMAIN b = DOMAIN a /\ DOMAIN a = 1..Len(a)
               /\ \A i \in DOMAIN a : i # Len(a) => b[i] = a[i]
               /\ b[Len(a)] = "succeeded" <=> record # None
<1> DEFINE a == job.attempts[l]
           status == IF record = None THEN "failed" ELSE "succeeded"
           b == [a EXCEPT ![Len(a)] = status]
           changed == Attempted(l, record)
<1>1. a \in Seq(AttemptStatus) /\ a # <<>> /\ status \in AttemptStatus
  BY DEF JobType, AttemptStatus
<1>2. changed = [job EXCEPT !.attempts = [job.attempts EXCEPT ![l] = b],
                            !.cached = [job.cached EXCEPT ![l] = record]]
  BY DEF Attempted, JobType
<1>3. status = "succeeded" <=> record # None
  OBVIOUS
<1>. HIDE DEF a, status, changed
<1>4. /\ Len(a) \in Nat /\ Len(a) \in 1..Len(a) /\ DOMAIN a = 1..Len(a)
      /\ b \in Seq(AttemptStatus) /\ Len(b) = Len(a) /\ DOMAIN b = DOMAIN a /\ b # <<>>
      /\ b[Len(a)] = status
      /\ \A i \in DOMAIN a : i # Len(a) => b[i] = a[i]
  BY <1>1
<1>. HIDE DEF b
<1>5. [job.attempts EXCEPT ![l] = b] \in [Member -> Seq(AttemptStatus)]
  BY <1>4 DEF JobType
<1>6. [job.cached EXCEPT ![l] = record] \in [Member -> (0..MaxTime) \cup {None}]
  BY DEF JobType
<1>7. /\ changed \in JobType /\ changed.generation = job.generation
      /\ changed.final = job.final /\ changed.publication = job.publication
      /\ changed.attempts = [job.attempts EXCEPT ![l] = b]
      /\ changed.cached = [job.cached EXCEPT ![l] = record]
  BY <1>2, <1>5, <1>6 DEF JobType
<1>8. /\ changed.attempts[l] = b /\ changed.cached[l] = record
      /\ \A k \in Member : k # l => /\ changed.cached[k] = job.cached[k]
                                    /\ changed.attempts[k] = job.attempts[k]
  BY <1>7 DEF JobType
<1>. QED BY <1>3, <1>4, <1>7, <1>8 DEF a, changed

\* The end of an attempt, for the listing whose turn it is.
LEMMA AttemptEnds ==
    ASSUME StoreInv, NEW l \in Member, NEW record \in (0..now) \cup {None},
           job.final = None, job.cached[l] = None, job.attempts[l] # <<>>,
           \A k \in Member : k < l => job.cached[k] # None,
           Write(Attempted(l, record)), UNCHANGED <<now, calls, activated>>
    PROVE  /\ StoreInv' /\ job'.final = None /\ job'.cached[l] = record
           /\ \A k \in Member : k # l => /\ job'.cached[k] = job.cached[k]
                                         /\ job'.attempts[k] = job.attempts[k]
<1> DEFINE a == job.attempts[l]
           b == job'.attempts[l]
<1>1. job \in JobType /\ record \in (0..MaxTime) \cup {None} /\ now \in Nat
  BY BoundFacts DEF StoreInv
<1>2. /\ job' \in JobType /\ job'.final = None /\ job'.publication = job.publication
      /\ job'.cached[l] = record
      /\ \A k \in Member : k # l => /\ job'.cached[k] = job.cached[k]
                                    /\ job'.attempts[k] = job.attempts[k]
      /\ b # <<>> /\ Len(b) = Len(a) /\ Len(a) \in Nat
      /\ DOMAIN b = DOMAIN a /\ DOMAIN a = 1..Len(a)
      /\ \A i \in DOMAIN a : i # Len(a) => b[i] = a[i]
      /\ b[Len(a)] = "succeeded" <=> record # None
  BY <1>1, AttemptedFacts, WriteFacts
<1>. HIDE DEF a, b
<1>3. CallsAreRecorded'
  <2>1. calls \in Seq(Member \X (1..AttemptsPerListing))
        /\ \A i \in DOMAIN calls : calls[i][1] \in Member
    BY DEF StoreInv
  <2>2. \A k \in Member : DOMAIN job'.attempts[k] = DOMAIN job.attempts[k]
    BY <1>2 DEF a, b
  <2>. QED BY <2>1, <2>2 DEF StoreInv, CallsAreRecorded
<1>4. CollectedInOrder'
  <2>1. CollectedInOrder /\ \A i \in DOMAIN a : a[i] # "succeeded"
    BY DEF StoreInv, CollectedInOrder, a
  <2>2. ASSUME NEW k \in Member
        PROVE  LET c == job'.attempts[k] IN
               /\ c # <<>> => \A m \in Member : m < k => job'.cached[m] # None
               /\ \A i \in DOMAIN c : c[i] = "succeeded" <=> (i = Len(c) /\ job'.cached[k] # None)
    <3>1. CASE k = l
      <4>1. \A m \in Member : m < l => job'.cached[m] # None
        BY <1>2, BoundFacts DEF Member
      <4>2. \A i \in DOMAIN b : b[i] = "succeeded" <=> (i = Len(b) /\ record # None)
        BY <1>2, <2>1
      <4>. QED BY <1>2, <3>1, <4>1, <4>2 DEF b
    <3>2. CASE k # l
      <4>1. job.attempts[k] # <<>> => \A m \in Member : m < k => m # l
        BY <2>1, <3>2 DEF CollectedInOrder
      <4>. QED BY <1>2, <2>1, <3>2, <4>1 DEF CollectedInOrder
    <3>. QED BY <3>1, <3>2
  <2>. QED BY <2>2 DEF CollectedInOrder
<1>5. AttemptsAreCounted'
  <2>1. ASSUME NEW k \in Member
        PROVE  /\ Len(job'.attempts[k]) <= AttemptsPerListing
               /\ job'.cached[k] # None => job'.attempts[k] # <<>> /\ job'.cached[k] \in 0..now
    <3>1. CASE k = l
      BY <1>2, <3>1 DEF StoreInv, AttemptsAreCounted, a, b
    <3>2. CASE k # l
      BY <1>2, <3>2 DEF StoreInv, AttemptsAreCounted
    <3>. QED BY <3>1, <3>2
  <2>. QED BY <2>1 DEF AttemptsAreCounted
<1>6. OneSnapshot' /\ SucceededIsActivated' /\ FinalIsWhole'
  BY <1>2 DEF StoreInv, OneSnapshot, SucceededIsActivated, FinalIsWhole
<1>7. StoreInv'
  BY <1>2, <1>3, <1>4, <1>5, <1>6 DEF StoreInv
<1>. QED BY <1>2, <1>7

LEMMA EndAttemptStep ==
    ASSUME IInv, NEW p \in Procs, EndAttempt(p)
    PROVE  IInv'
<1> DEFINE l == proc[p].listing
           record == proc[p].record
<1>1. /\ proc[p].pc = "collected" /\ lock = p /\ proc[p] \in ProcState /\ l \in Member
      /\ record \in (0..now) \cup {None} /\ proc[p].left \in 0..BatchSize
      /\ proc[p].seen \in 0..MaxGeneration
      /\ job.final = None /\ job.cached[l] = None /\ job.attempts[l] # <<>>
      /\ \A k \in Member : k < l => job.cached[k] # None
  BY HolderFacts DEF EndAttempt, Turn, ProcState
<1>2. Write(Attempted(l, record)) /\ UNCHANGED <<now, calls, activated>>
  BY DEF EndAttempt
<1>3. /\ StoreInv' /\ job'.final = None /\ job'.cached[l] = record
      /\ \A k \in Member : k # l => /\ job'.cached[k] = job.cached[k]
                                    /\ job'.attempts[k] = job.attempts[k]
  BY <1>1, <1>2, AttemptEnds DEF IInv
<1>4. CASE Ends(p)
  BY <1>1, <1>3, <1>4, ProcEnds
<1>5. CASE /\ Continues(l, record, proc[p].left)
           /\ proc' = [proc EXCEPT ![p] = [Idle(proc[p].seen) EXCEPT
                          !.pc = "attempting", !.listing = l + 1, !.left = proc[p].left - 1]]
           /\ lock' = p
  <2> DEFINE s == [Idle(proc[p].seen) EXCEPT
                      !.pc = "attempting", !.listing = l + 1, !.left = proc[p].left - 1]
  <2>1. l + 1 \in Member /\ proc[p].left - 1 \in 0..BatchSize /\ l \in Nat
    BY <1>1, <1>5, BoundFacts, SMTT(30) DEF Continues, Member
  <2>2. Idle(proc[p].seen) \in ProcState
    BY <1>1, IdleFacts
  <2>3. s \in ProcState /\ s.pc = "attempting" /\ s.listing = l + 1
    BY <2>1, <2>2 DEF ProcState, States
  <2>4. /\ job.attempts[l + 1] = <<>> /\ record # None
        /\ job.cached[l + 1] = None
    BY <1>5, <2>1 DEF Continues, IInv, StoreInv, AttemptsAreCounted
  <2>5. job'.attempts[l + 1] = <<>> /\ job'.cached[l + 1] = None
    BY <1>3, <2>1, <2>4
  <2>6. \A k \in Member : k < l + 1 => job'.cached[k] # None
    BY <1>1, <1>3, <2>1, <2>4 DEF Member
  <2>7. Len(job'.attempts[l + 1]) < AttemptsPerListing
    BY <2>5, BoundFacts
  <2>8. proc' = [proc EXCEPT ![p] = s]
    BY <1>5
  <2>. HIDE DEF s, l
  <2>9. Turn(job', calls', now', activated', s)
    BY <1>3, <2>3, <2>5, <2>6, <2>7 DEF Turn
  <2>. QED BY <1>1, <1>3, <1>5, <2>3, <2>8, <2>9, ProcGoes
<1>. QED BY <1>4, <1>5 DEF EndAttempt

-----------------------------------------------------------------------------
(* Finalizing and publishing.                                                *)

\* The job becomes final with every record, none too old: nothing was activated before.
LEMMA FinalizeStep ==
    ASSUME IInv, NEW p \in Procs, Finalize(p)
    PROVE  IInv'
<1> DEFINE final == [at |-> now, records |-> job.cached]
           changed == [job EXCEPT !.final = final]
<1>1. /\ job \in JobType /\ now \in 0..MaxTime /\ now \in Nat /\ lock = Free
      /\ job.final = None /\ activated = {}
      /\ \A l \in Member : job.cached[l] # None /\ job.cached[l] \in 0..now
      /\ \A l \in Member : now - job.cached[l] <= MaxAge
      /\ Write(changed) /\ UNCHANGED <<lock, proc, now, calls, activated>>
  BY BoundFacts
  DEF Finalize, MayFinalize, Cached, IInv, StoreInv, FinalIsWhole, AttemptsAreCounted
<1>2. /\ job.cached \in [Member -> 0..MaxTime]
      /\ \A l \in Member : now - job.cached[l] \in 0..MaxAge
  BY <1>1, BoundFacts DEF JobType
<1>3. /\ final \in [at : 0..MaxTime, records : [Member -> 0..MaxTime]]
      /\ final.at = now /\ final.records = job.cached
  BY <1>1, <1>2
<1>. HIDE DEF final
<1>4. /\ changed \in JobType /\ changed.generation = job.generation
      /\ changed.attempts = job.attempts /\ changed.cached = job.cached
      /\ changed.final = final /\ changed.publication = job.publication
  BY <1>1, <1>3 DEF JobType
<1>. HIDE DEF changed
<1>5. /\ job' \in JobType
      /\ job'.attempts = job.attempts /\ job'.cached = job.cached
      /\ job'.final = final /\ job'.publication = job.publication
  BY <1>1, <1>4, WriteFacts
<1>6. OneSnapshot' /\ FinalIsWhole' /\ SucceededIsActivated'
  BY <1>1, <1>2, <1>3, <1>5
  DEF IInv, StoreInv, OneSnapshot, FinalIsWhole, SucceededIsActivated
<1>7. CallsAreRecorded' /\ CollectedInOrder' /\ AttemptsAreCounted'
  BY <1>1, <1>5 DEF IInv, StoreInv, CallsAreRecorded, CollectedInOrder, AttemptsAreCounted
<1>8. StoreInv'
  BY <1>1, <1>5, <1>6, <1>7 DEF IInv, StoreInv
<1>9. \A q \in Procs : proc[q].pc = "idle"
  BY <1>1, BoundFacts DEF IInv
<1>10. HasTurn'
  BY <1>1, <1>9 DEF HasTurn, Turn
<1>. QED BY <1>1, <1>8, <1>10 DEF IInv

LEMMA PublishStep ==
    ASSUME IInv, NEW p \in Procs, Publish(p)
    PROVE  IInv'
<1> DEFINE s == [Idle(proc[p].seen) EXCEPT !.pc = "publishing"]
           changed == [job EXCEPT !.publication = Publication]
<1>1. /\ job.final # None /\ lock = Free /\ lock' = p /\ proc' = [proc EXCEPT ![p] = s]
      /\ UNCHANGED <<now, calls, activated>>
  BY DEF Publish, Begins
<1>2. job \in JobType
  BY DEF IInv, StoreInv
<1>3. /\ job' \in JobType
      /\ job'.attempts = job.attempts /\ job'.cached = job.cached
      /\ job'.final = job.final /\ job'.publication = "started"
  <2>1. CASE job.publication = Publication /\ job' = job
    BY <1>2, <2>1 DEF Publication
  <2>2. CASE Write(changed)
    <3>1. /\ changed \in JobType /\ changed.generation = job.generation
          /\ changed.attempts = job.attempts /\ changed.cached = job.cached
          /\ changed.final = job.final /\ changed.publication = "started"
      BY <1>2 DEF JobType, Publication
    <3>. HIDE DEF changed
    <3>. QED BY <2>2, <3>1, WriteFacts
  <2>. QED BY <2>1, <2>2 DEF Publish
<1>4. proc[p].seen \in 0..MaxGeneration
  BY HolderFacts DEF ProcState
<1>5. Idle(proc[p].seen) \in ProcState
  BY <1>4, IdleFacts
<1>6. s \in ProcState /\ s.pc = "publishing"
  BY <1>5 DEF ProcState, States
<1>. HIDE DEF s
<1>7. StoreInv'
  BY <1>1, <1>3, StoreStays DEF IInv
<1>8. Turn(job', calls', now', activated', s)
  BY <1>1, <1>3, <1>6 DEF Turn
<1>. QED BY <1>1, <1>6, <1>7, <1>8, ProcGoes

LEMMA ActivateStep ==
    ASSUME IInv, NEW p \in Procs, Activate(p)
    PROVE  IInv'
<1>1. /\ proc[p].pc = "publishing" /\ lock = p /\ proc[p] \in ProcState /\ job.final # None
      /\ job \in JobType /\ UNCHANGED <<job, now, calls>>
      /\ activated \subseteq {job.final}
  BY HolderFacts DEF Activate, Turn, IInv, StoreInv, OneSnapshot
<1>2. activated' \in {activated, activated \cup {job.final}}
  BY DEF Activate
<1>3. StoreInv'
  <2>1. job.publication = "succeeded" => job.final \in activated'
    BY <1>2 DEF IInv, StoreInv, SucceededIsActivated
  <2>. QED BY <1>1, <1>2, <2>1, StoreStays DEF IInv
<1>4. CASE Ends(p)
  BY <1>1, <1>3, <1>4, ProcEnds
<1>5. CASE /\ activated' = activated \cup {job.final}
           /\ proc' = [proc EXCEPT ![p].pc = "published"]
           /\ lock' = p
  <2> DEFINE s == [proc[p] EXCEPT !.pc = "published"]
  <2>1. s \in ProcState /\ s.pc = "published"
    BY <1>1 DEF ProcState, States
  <2>2. proc' = [proc EXCEPT ![p] = s]
    BY <1>5 DEF IInv
  <2>. HIDE DEF s
  <2>3. Turn(job', calls', now', activated', s)
    BY <1>1, <1>5, <2>1 DEF Turn
  <2>. QED BY <1>1, <1>3, <1>5, <2>1, <2>2, <2>3, ProcGoes
<1>. QED BY <1>4, <1>5 DEF Activate

LEMMA RecordPublishedStep ==
    ASSUME IInv, NEW p \in Procs, RecordPublished(p)
    PROVE  IInv'
<1> DEFINE changed == [job EXCEPT !.publication = "succeeded"]
<1>1. /\ proc[p].pc = "published" /\ job.final \in activated /\ job \in JobType
      /\ Write(changed) /\ Ends(p) /\ UNCHANGED <<now, calls, activated>>
  BY HolderFacts DEF RecordPublished, Turn, IInv, StoreInv
<1>2. /\ changed \in JobType /\ changed.generation = job.generation
      /\ changed.attempts = job.attempts /\ changed.cached = job.cached
      /\ changed.final = job.final
  BY <1>1 DEF JobType
<1>. HIDE DEF changed
<1>3. /\ job' \in JobType
      /\ job'.attempts = job.attempts /\ job'.cached = job.cached
      /\ job'.final = job.final
  BY <1>1, <1>2, WriteFacts
<1>4. StoreInv'
  BY <1>1, <1>3, StoreStays DEF IInv
<1>. QED BY <1>1, <1>4, ProcEnds

LEMMA TickStep ==
    ASSUME IInv, Tick
    PROVE  IInv'
<1>1. /\ now' = now + 1 /\ now' \in 0..MaxTime /\ now \in Nat
      /\ UNCHANGED <<job, lock, proc, calls, activated>>
  BY BoundFacts DEF Tick, IInv, StoreInv
<1>2. \A t \in 0..now : t \in 0..now'
  BY <1>1
<1>3. AttemptsAreCounted'
  BY <1>1, <1>2 DEF IInv, StoreInv, AttemptsAreCounted
<1>4. StoreInv'
  BY <1>1, <1>3
  DEF IInv, StoreInv, CallsAreRecorded, CollectedInOrder, OneSnapshot, SucceededIsActivated,
      FinalIsWhole
<1>5. HasTurn'
  BY <1>1, <1>2 DEF IInv, HasTurn, Turn
<1>. QED BY <1>1, <1>4, <1>5 DEF IInv

LEMMA CrashStep ==
    ASSUME IInv, NEW p \in Procs, Crash(p)
    PROVE  IInv'
<1>1. StoreInv'
  BY StoreSame DEF Crash, IInv
<1>. QED BY <1>1, ProcEnds DEF Crash

LEMMA NextIInv ==
    ASSUME IInv, [Next]_vars
    PROVE  IInv'
<1>1. CASE UNCHANGED vars
  BY <1>1, StoreSame DEF vars, IInv, HasTurn
<1>. QED BY <1>1, LoadStep, BeginCollectionStep, StartAttemptStep, CollectStep, EndAttemptStep,
            FinalizeStep, PublishStep, ActivateStep, RecordPublishedStep, CrashStep, TickStep
         DEF Next

LEMMA Inductive == Spec => []IInv
  BY InitIInv, NextIInv, PTL DEF Spec

-----------------------------------------------------------------------------
(* The theorems.                                                             *)

\* The manifest and the processes have their types, and one process at a time is in an
\* operation of the job.
THEOREM TypeCorrect == Spec => []TypeOK
<1>1. IInv => TypeOK
  BY DEF IInv, StoreInv, JobType, ProcState, TypeOK
<1>. QED BY <1>1, Inductive, PTL

\* The collector is called at most once for an attempt, and only after _advance_one has
\* written it down.
THEOREM CallsRecorded == Spec => []CallsAreRecorded
<1>1. IInv => CallsAreRecorded
  BY DEF IInv, StoreInv
<1>. QED BY <1>1, Inductive, PTL

\* Listings are attempted in the order of the scope, and only the last attempt of a
\* listing has its record.
THEOREM CollectsInOrder == Spec => []CollectedInOrder
<1>1. IInv => CollectedInOrder
  BY DEF IInv, StoreInv
<1>. QED BY <1>1, Inductive, PTL

\* One job activates one snapshot: that of the records it had when it was finalized, all
\* of them fresh then.
THEOREM ActivatesOneSnapshot == Spec => []OneSnapshot
<1>1. IInv => OneSnapshot
  BY DEF IInv, StoreInv
<1>. QED BY <1>1, Inductive, PTL

\* "succeeded" is written only for a publication that activated the job's snapshot.
THEOREM SucceededActivated == Spec => []SucceededIsActivated
<1>1. IInv => SucceededIsActivated
  BY DEF IInv, StoreInv
<1>. QED BY <1>1, Inductive, PTL

Kept(l) == job'.cached[l] = job.cached[l] /\ job'.attempts[l] = job.attempts[l]

LEMMA CollectedIsKept ==
    ASSUME IInv, [Next]_vars, NEW l \in Member, job.cached[l] # None
    PROVE  Kept(l)
<1>1. job \in JobType
  BY DEF IInv, StoreInv
<1>2. CASE UNCHANGED job
  BY <1>2 DEF Kept
<1>3. ASSUME NEW p \in Procs, StartAttempt(p)
      PROVE  Kept(l)
  <2> DEFINE k == proc[p].listing
  <2>1. k \in Member /\ k # l
    BY <1>3, HolderFacts DEF StartAttempt, Turn, ProcState
  <2>2. job' = [[job EXCEPT !.attempts[k] = Append(@, "started")] EXCEPT !.generation = @ + 1]
    BY <1>3 DEF StartAttempt, Write
  <2>. HIDE DEF k
  <2>. QED BY <1>1, <2>1, <2>2 DEF JobType, Kept
<1>4. ASSUME NEW p \in Procs, EndAttempt(p)
      PROVE  Kept(l)
  <2> DEFINE k == proc[p].listing
             record == proc[p].record
  <2>1. /\ k \in Member /\ k # l /\ record \in (0..now) \cup {None}
        /\ job.final = None /\ job.cached[k] = None /\ job.attempts[k] # <<>>
        /\ \A m \in Member : m < k => job.cached[m] # None
    BY <1>4, HolderFacts DEF EndAttempt, Turn, ProcState
  <2>2. Write(Attempted(k, record)) /\ UNCHANGED <<now, calls, activated>>
    BY <1>4 DEF EndAttempt
  <2>. HIDE DEF k, record
  <2>. QED BY <2>1, <2>2, AttemptEnds DEF IInv, Kept
<1>5. ASSUME NEW p \in Procs, Finalize(p) \/ Publish(p) \/ RecordPublished(p)
      PROVE  Kept(l)
  <2>1. \/ job' = job
        \/ job' = [[job EXCEPT !.final = [at |-> now, records |-> job.cached]]
                        EXCEPT !.generation = @ + 1]
        \/ \E status \in {Publication, "succeeded"} :
             job' = [[job EXCEPT !.publication = status] EXCEPT !.generation = @ + 1]
    BY <1>5 DEF Finalize, Publish, RecordPublished, Write
  <2>. QED BY <1>1, <2>1 DEF JobType, Kept
<1>6. ASSUME NEW p \in Procs,
             Load(p) \/ BeginCollection(p) \/ Collect(p) \/ Activate(p) \/ Crash(p)
      PROVE  UNCHANGED job
  BY <1>6 DEF Load, BeginCollection, Collect, Activate, Crash
<1>7. Tick \/ UNCHANGED vars => UNCHANGED job
  BY DEF Tick, vars
<1>. QED BY <1>2, <1>3, <1>4, <1>5, <1>6, <1>7 DEF Next

\* What was collected is kept through failures, retries, crashes and publications.
THEOREM CollectedStays == Spec => ProgressIsKept
<1>1. IInv /\ [Next]_vars
        => [\A l \in Member :
              job.cached[l] # None => /\ job'.cached[l] = job.cached[l]
                                      /\ job'.attempts[l] = job.attempts[l]]_vars
  BY CollectedIsKept DEF Kept
<1>. QED BY <1>1, Inductive, PTL DEF Spec, ProgressIsKept
=============================================================================
