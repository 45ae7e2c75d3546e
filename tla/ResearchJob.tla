------------------------------- MODULE ResearchJob -------------------------------
(***************************************************************************)
(* One catalogue research job (catalogue/research_job.py): a manifest file *)
(* through which dashboards collect the listings of a scope one by one,    *)
(* finalize the collected records into one snapshot and publish it.        *)
(*                                                                         *)
(* An operation holds the job's lock, a native file lock that its process  *)
(* loses when it dies, from its first read to its last write; each write   *)
(* replaces the whole manifest and raises its generation.  What it calls   *)
(* in between (the collector, the publisher) is outside: it has happened   *)
(* even if the process dies before it is written down.  An operation that  *)
(* is refused changes nothing and is left out.                             *)
(***************************************************************************)
EXTENDS Integers, Sequences, FiniteSets

CONSTANTS
    Procs,          \* dashboards
    Free, None,     \* no lock holder; no record, no snapshot
    Listings,       \* 1..Listings: the members of the scope, in their order
    BatchSize, AttemptsPerListing,      \* ResearchJobPolicy
    MaxAge,         \* how old a record may be when the job is finalized
    MaxTime, MaxGeneration              \* bounds: time, writes of the manifest

ASSUME JobConstants ==
    /\ Free \notin Procs
    /\ {Listings, BatchSize, AttemptsPerListing} \subseteq Nat \ {0}
    /\ {MaxAge, MaxTime, MaxGeneration} \subseteq Nat

VARIABLES
    job,        \* the manifest
    lock,       \* the process that holds the job's lock
    proc,       \* what each process is doing
    now,        \* time
    calls,      \* history: <<listing, attempt>> with which the collector was called
    activated   \* history: snapshots that the publisher activated

vars == <<job, lock, proc, now, calls, activated>>

-----------------------------------------------------------------------------

Member == 1..Listings
AttemptStatus == {"started", "succeeded", "failed"}

\* pc: idle, attempting, collecting, collected, publishing, published; seen: the
\* generation that the dashboard shows.
Idle(seen) == [pc |-> "idle", seen |-> seen, listing |-> 1, left |-> 0, record |-> None]
States == {"idle", "attempting", "collecting", "collected", "publishing", "published"}

\* begin_catalogue_research.
Init ==
    /\ job = [generation |-> 0, attempts |-> [l \in Member |-> <<>>],
              cached |-> [l \in Member |-> None], final |-> None,
              publication |-> "not_started"]
    /\ lock = Free
    /\ proc = [p \in Procs |-> Idle(0)]
    /\ now = 0 /\ calls = <<>> /\ activated = {}

Cached == {l \in Member : job.cached[l] # None}
NextMember == CHOOSE l \in Member \ Cached : \A k \in Member \ Cached : l <= k

\* ResearchJobStore.write.
Write(changed) ==
    /\ job.generation < MaxGeneration
    /\ job' = [changed EXCEPT !.generation = @ + 1]

Begins(p, state) ==
    /\ lock = Free
    /\ lock' = p
    /\ proc' = [proc EXCEPT ![p] = state]

Ends(p) ==
    /\ lock' = Free
    /\ proc' = [proc EXCEPT ![p] = Idle(proc[p].seen)]

\* A dashboard shows the job.
Load(p) ==
    /\ proc[p].pc = "idle"
    /\ proc' = [proc EXCEPT ![p].seen = job.generation]
    /\ UNCHANGED <<job, lock, now, calls, activated>>

-----------------------------------------------------------------------------
(* Collecting.                                                               *)

\* advance_catalogue_research: a listing that was attempted is not attempted again.
MayAdvance(p) ==
    /\ proc[p].seen = job.generation
    /\ job.final = None
    /\ Cached # Member
    /\ job.attempts[NextMember] = <<>>

\* retry_catalogue_research: the current listing, its last attempt, while it has any left.
MayRetry(p) ==
    /\ proc[p].seen = job.generation
    /\ job.final = None
    /\ Cached # Member
    /\ LET a == job.attempts[NextMember] IN
       /\ a # <<>> /\ a[Len(a)] \in {"failed", "started"}
       /\ Len(a) < AttemptsPerListing

BeginCollection(p) ==
    /\ proc[p].pc = "idle"
    /\ \E left \in {IF MayAdvance(p) THEN BatchSize ELSE 1} :
         /\ MayAdvance(p) \/ MayRetry(p)
         /\ Begins(p, [Idle(proc[p].seen) EXCEPT !.pc = "attempting",
                                                 !.listing = NextMember, !.left = left])
    /\ UNCHANGED <<job, now, calls, activated>>

\* Mutant: the attempt is written down when it has ended.
StartAttemptUnrecorded(p) ==
    /\ proc[p].pc = "attempting"
    /\ proc' = [proc EXCEPT ![p].pc = "collecting"]
    /\ UNCHANGED <<job, lock, now, calls, activated>>

\* _advance_one: started is durable before the collector is called.
StartAttempt(p) ==
    /\ proc[p].pc = "attempting"
    /\ Write([job EXCEPT !.attempts[proc[p].listing] = Append(@, "started")])
    /\ proc' = [proc EXCEPT ![p].pc = "collecting"]
    /\ UNCHANGED <<lock, now, calls, activated>>

\* The collector returns a record made now, or fails (also by breaching its budget).
Collect(p) ==
    LET l == proc[p].listing IN
    /\ proc[p].pc = "collecting"
    /\ calls' = Append(calls, <<l, Len(job.attempts[l])>>)
    /\ \E record \in {None, now} :
         proc' = [proc EXCEPT ![p].pc = "collected", ![p].record = record]
    /\ UNCHANGED <<job, lock, now, activated>>

\* Mutant: a failure drops the records of the listings before it.
AttemptedFromScratch(l, record) ==
    [job EXCEPT !.attempts[l] = [@ EXCEPT ![Len(@)] = IF record = None THEN "failed"
                                                      ELSE "succeeded"],
                !.cached = IF record = None THEN [k \in Member |-> None]
                           ELSE [@ EXCEPT ![l] = record]]

Attempted(l, record) ==
    [job EXCEPT !.attempts[l] = [@ EXCEPT ![Len(@)] = IF record = None THEN "failed"
                                                      ELSE "succeeded"],
                !.cached[l] = record]

\* Mutant: the batch goes on after a failure.
ContinuesAfterFailure(l, record, left) ==
    /\ left > 1 /\ l < Listings
    /\ job.attempts[l + 1] = <<>>

\* The batch goes on after a success to a listing that was never attempted.
Continues(l, record, left) ==
    /\ record # None
    /\ left > 1 /\ l < Listings
    /\ job.attempts[l + 1] = <<>>

EndAttempt(p) ==
    LET l == proc[p].listing  left == proc[p].left  record == proc[p].record IN
    /\ proc[p].pc = "collected"
    /\ Write(Attempted(l, record))
    /\ \/ /\ Continues(l, record, left)
          /\ proc' = [proc EXCEPT ![p] = [Idle(proc[p].seen) EXCEPT
                        !.pc = "attempting", !.listing = l + 1, !.left = left - 1]]
          /\ lock' = p
       \/ Ends(p)       \* also when the deadline of the batch has passed
    /\ UNCHANGED <<now, calls, activated>>

-----------------------------------------------------------------------------
(* Finalizing and publishing.                                                *)

\* Mutant: a finalized job is finalized again.
MayFinalizeAgain == Cached = Member /\ \A l \in Member : now - job.cached[l] <= MaxAge

\* finalize_catalogue_research: all listings, none too old, and only once.
MayFinalize ==
    /\ job.final = None
    /\ Cached = Member
    /\ \A l \in Member : now - job.cached[l] <= MaxAge

Finalize(p) ==
    /\ proc[p].pc = "idle"
    /\ lock = Free
    /\ MayFinalize
    /\ Write([job EXCEPT !.final = [at |-> now, records |-> job.cached]])
    /\ UNCHANGED <<lock, proc, now, calls, activated>>

\* Mutant: the publication is recorded as succeeded before it is.
PublicationOptimistic == "succeeded"

\* What publish_catalogue_research writes before it calls the publisher.
Publication == "started"

Publish(p) ==
    /\ proc[p].pc = "idle"
    /\ job.final # None
    /\ IF job.publication = Publication
       THEN job' = job ELSE Write([job EXCEPT !.publication = Publication])
    /\ Begins(p, [Idle(proc[p].seen) EXCEPT !.pc = "publishing"])
    /\ UNCHANGED <<now, calls, activated>>

\* publish_research_snapshot activates the snapshot, or raises: before it did, or
\* after it when the acknowledgement is lost.
Activate(p) ==
    /\ proc[p].pc = "publishing"
    /\ \/ /\ activated' = activated \cup {job.final}
          /\ proc' = [proc EXCEPT ![p].pc = "published"]
          /\ lock' = p
       \/ /\ activated' \in {activated, activated \cup {job.final}}
          /\ Ends(p)
    /\ UNCHANGED <<job, now, calls>>

RecordPublished(p) ==
    /\ proc[p].pc = "published"
    /\ Write([job EXCEPT !.publication = "succeeded"])
    /\ Ends(p)
    /\ UNCHANGED <<now, calls, activated>>

-----------------------------------------------------------------------------

\* Mutant: the lock outlives its process.
CrashKeepsLock(p) ==
    /\ proc[p].pc # "idle"
    /\ proc' = [proc EXCEPT ![p] = Idle(proc[p].seen)]
    /\ UNCHANGED <<job, lock, now, calls, activated>>

\* A process dies, or a write of the manifest fails.
Crash(p) ==
    /\ proc[p].pc # "idle"
    /\ Ends(p)
    /\ UNCHANGED <<job, now, calls, activated>>

Tick ==
    /\ now < MaxTime
    /\ now' = now + 1
    /\ UNCHANGED <<job, lock, proc, calls, activated>>

Next ==
    \/ \E p \in Procs :
         \/ Load(p) \/ BeginCollection(p) \/ StartAttempt(p) \/ Collect(p) \/ EndAttempt(p)
         \/ Finalize(p) \/ Publish(p) \/ Activate(p) \/ RecordPublished(p) \/ Crash(p)
    \/ Tick

Spec == Init /\ [][Next]_vars

-----------------------------------------------------------------------------
(* Properties.                                                               *)

\* Manifest and processes have their types, and one process at a time is in an operation.
TypeOK ==
    /\ job \in [generation : 0..MaxGeneration, attempts : [Member -> Seq(AttemptStatus)],
                cached : [Member -> (0..MaxTime) \cup {None}],
                final : [at : 0..MaxTime, records : [Member -> 0..MaxTime]] \cup {None},
                publication : {"not_started", "started", "succeeded"}]
    /\ proc \in [Procs -> [pc : States, seen : 0..MaxGeneration, listing : Member,
                           left : 0..BatchSize, record : (0..MaxTime) \cup {None}]]
    /\ now \in 0..MaxTime
    /\ calls \in Seq(Member \X (1..AttemptsPerListing))
    /\ \A p \in Procs : proc[p].pc # "idle" <=> lock = p

\* The collector is called once at most for an attempt, and only for one that is
\* written down: after a crash the attempt is ambiguous, never forgotten.
CallsAreRecorded ==
    /\ \A i, j \in DOMAIN calls : calls[i] = calls[j] => i = j
    /\ \A i \in DOMAIN calls : calls[i][2] \in DOMAIN job.attempts[calls[i][1]]

\* Listings are collected in the order of the scope: none is attempted while an
\* earlier one has no record, and only the last attempt has one.
CollectedInOrder ==
    \A l \in Member :
        LET a == job.attempts[l] IN
        /\ a # <<>> => \A k \in Member : k < l => job.cached[k] # None
        /\ \A i \in DOMAIN a : a[i] = "succeeded" <=> (i = Len(a) /\ job.cached[l] # None)

\* What was collected is kept, and never fetched again, through failures, retries and
\* restarts.
ProgressIsKept ==
    [][\A l \in Member :
         job.cached[l] # None => /\ job'.cached[l] = job.cached[l]
                                 /\ job'.attempts[l] = job.attempts[l]]_vars

\* A job publishes one snapshot for ever: it is fixed when it is finalized, from
\* records that were fresh then, whoever publishes it and how often.
OneSnapshot ==
    /\ activated \subseteq {job.final}
    /\ job.final # None => /\ job.final.records = job.cached
                           /\ \A l \in Member : job.final.at - job.cached[l] \in 0..MaxAge

\* A job that says its publication succeeded was published.
SucceededIsActivated == job.publication = "succeeded" => job.final \in activated
=============================================================================
