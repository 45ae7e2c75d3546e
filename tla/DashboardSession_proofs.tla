------------------------ MODULE DashboardSession_proofs ------------------------
(***************************************************************************)
(* Whatever the sessions of the dashboard do, for any number of them, of   *)
(* revisions and of attempts: a submission meets the thread as the page     *)
(* shows it.                                                               *)
(***************************************************************************)
EXTENDS DashboardSession, TLAPS

-----------------------------------------------------------------------------
(* The inductive invariant.                                                  *)

Attempt == {"started", "failed", "succeeded"}
Review ==
    [status : {"stopped", "awaiting", "midway", "approved", "rejected"},
     revs : Nat, ops : Seq(Attempt), explains : BOOLEAN]
Run == [state : Review \cup {Unborn}, unknown : BOOLEAN]

\* A review awaits a decision only with its explanation, if it has any to make.
Sound(t) ==
    /\ ~t.explains => t.ops = <<>>
    /\ t.explains /\ t.status = "awaiting" => t.ops # <<>> /\ t.ops[Len(t.ops)] = "succeeded"

\* A thread at t may have been at p before: revisions and attempts are only added, and
\* nothing is attempted any more in a revision that came to await its decision.
Precedes(p, t) ==
    /\ p.explains = t.explains
    /\ p.revs <= t.revs
    /\ p.revs = t.revs =>
         /\ Len(p.ops) <= Len(t.ops)
         /\ \A i \in 1..Len(p.ops) : t.ops[i] = p.ops[i]
         /\ p.status # "stopped" => p.ops = t.ops /\ t.status # "stopped"

\* What a session holds is an earlier state of the thread.
Earlier(run, t) ==
    run.state # Unborn => /\ Sound(run.state) /\ t # Unborn
                          /\ t # Gone => Precedes(run.state, t)

ThreadType == thread \in Review \cup {Unborn, Gone} /\ (Exists => Sound(thread))
SessionType == handle \in [Sessions -> Run] /\ page \in [Sessions -> Run]
HoldEarlier == \A s \in Sessions : Earlier(handle[s], thread) /\ Earlier(page[s], thread)

IInv ==
    /\ ThreadType
    /\ SessionType
    /\ HoldEarlier
    /\ ActsOnWhatIsShown

-----------------------------------------------------------------------------
(* The states of a thread.                                                   *)

\* A thread may go from t to n.
Follows(t, n) == n \in Review /\ Sound(n) /\ Precedes(t, n)

LEMMA ReviewParts ==
    ASSUME NEW t \in Review
    PROVE  /\ t = [status |-> t.status, revs |-> t.revs, ops |-> t.ops, explains |-> t.explains]
           /\ t.status \in {"stopped", "awaiting", "midway", "approved", "rejected"}
           /\ t.revs \in Nat /\ t.ops \in Seq(Attempt) /\ t.explains \in BOOLEAN
           /\ Len(t.ops) \in Nat /\ DOMAIN t.ops = 1..Len(t.ops)
           /\ t \notin {Unborn, Gone}
<1>1. t.ops \in Seq(Attempt) /\ t.status \notin {"unborn", "gone"}
  BY DEF Review
<1>. QED BY <1>1 DEF Review, Unborn, Gone

LEMMA AppendParts ==
    ASSUME NEW q \in Seq(Attempt), NEW a \in Attempt
    PROVE  /\ Append(q, a) \in Seq(Attempt) /\ Append(q, a) # <<>>
           /\ Len(Append(q, a)) = Len(q) + 1 /\ Len(q) \in Nat
           /\ \A i \in 1..Len(q) : Append(q, a)[i] = q[i]
           /\ Append(q, a)[Len(q) + 1] = a
  OBVIOUS

LEMMA PrecedesItself ==
    ASSUME NEW t \in Review
    PROVE  Precedes(t, t)
  BY ReviewParts DEF Precedes

LEMMA PrecedesThrough ==
    ASSUME NEW p \in Review, NEW t \in Review, NEW n \in Review,
           Precedes(p, t), Precedes(t, n)
    PROVE  Precedes(p, n)
<1>1. /\ p.revs \in Nat /\ t.revs \in Nat /\ n.revs \in Nat
      /\ Len(p.ops) \in Nat /\ Len(t.ops) \in Nat /\ Len(n.ops) \in Nat
  BY ReviewParts
<1>2. p.explains = n.explains /\ p.revs <= n.revs
  BY <1>1 DEF Precedes
<1>3. ASSUME p.revs = n.revs
      PROVE  p.revs = t.revs /\ t.revs = n.revs
  BY <1>1, <1>3 DEF Precedes
<1>4. ASSUME p.revs = n.revs
      PROVE  Len(p.ops) <= Len(n.ops) /\ \A i \in 1..Len(p.ops) : n.ops[i] = p.ops[i]
  BY <1>1, <1>3, <1>4 DEF Precedes
<1>5. ASSUME p.revs = n.revs, p.status # "stopped"
      PROVE  p.ops = n.ops /\ n.status # "stopped"
  BY <1>3, <1>5 DEF Precedes
<1>. QED BY <1>2, <1>4, <1>5 DEF Precedes

\* With another attempt, or another status.
LEMMA WithAttempt ==
    ASSUME NEW t \in Review, Sound(t), t.explains, t.status = "stopped",
           NEW a \in Attempt, NEW status \in {"stopped", "awaiting"},
           status = "awaiting" => a = "succeeded"
    PROVE  Follows(t, [t EXCEPT !.status = status, !.ops = Append(t.ops, a)])
<1>. DEFINE n == [t EXCEPT !.status = status, !.ops = Append(t.ops, a)]
<1>1. /\ n.status = status /\ n.revs = t.revs /\ n.explains = t.explains
      /\ n.ops = Append(t.ops, a) /\ n \in Review
  BY AppendParts, ReviewParts DEF Review
<1>2. Sound(n)
  BY <1>1, AppendParts, ReviewParts DEF Sound
<1>3. Precedes(t, n)
  <2>1. /\ Len(n.ops) = Len(t.ops) + 1 /\ Len(t.ops) \in Nat /\ t.revs \in Nat
        /\ \A i \in 1..Len(t.ops) : n.ops[i] = t.ops[i]
    BY <1>1, AppendParts, ReviewParts
  <2>. HIDE DEF n
  <2>. QED BY <1>1, <2>1 DEF Precedes
<1>. QED BY <1>1, <1>2, <1>3 DEF Follows

LEMMA WithStatus ==
    ASSUME NEW t \in Review, Sound(t),
           NEW status \in {"awaiting", "midway", "approved", "rejected"},
           status = "awaiting" => ~t.explains
    PROVE  Follows(t, [t EXCEPT !.status = status])
<1>. DEFINE n == [t EXCEPT !.status = status]
<1>1. /\ n.status = status /\ n.revs = t.revs /\ n.explains = t.explains
      /\ n.ops = t.ops /\ n \in Review
  BY ReviewParts DEF Review
<1>2. Sound(n)
  BY <1>1 DEF Sound
<1>3. Precedes(t, n)
  BY <1>1, ReviewParts DEF Precedes
<1>. QED BY <1>1, <1>2, <1>3 DEF Follows

\* The workflow stops only at states that may follow.
LEMMA EndsFollow ==
    ASSUME NEW t \in Review, Sound(t), t.status = "stopped", NEW n \in Ends(t)
    PROVE  Follows(t, n)
<1>1. CASE n = [t EXCEPT !.status = "stopped", !.ops = t.ops]
  <2>1. n = t
    BY <1>1, ReviewParts
  <2>. QED BY <2>1, PrecedesItself DEF Follows
<1>2. CASE ~t.explains /\ n = [t EXCEPT !.status = "awaiting", !.ops = t.ops]
  <2>1. n = [t EXCEPT !.status = "awaiting"]
    BY <1>2, ReviewParts
  <2>. QED BY <1>2, <2>1, WithStatus
<1>3. CASE t.explains /\ n = [t EXCEPT !.status = "awaiting", !.ops = Append(t.ops, "succeeded")]
  BY <1>3, WithAttempt DEF Attempt
<1>4. CASE t.explains /\ n = [t EXCEPT !.status = "stopped", !.ops = Append(t.ops, "failed")]
  BY <1>4, WithAttempt DEF Attempt
<1>. QED BY <1>1, <1>2, <1>3, <1>4 DEF Ends

\* So is what an exception leaves behind.
LEMMA RemainsFollow ==
    ASSUME NEW t \in Review, Sound(t), NEW planned \in Review, Follows(t, planned),
           NEW ends, \A e \in ends : Follows(t, e), NEW n \in Remains(t, planned, ends)
    PROVE  Follows(t, n)
<1>1. CASE n = t
  BY <1>1, PrecedesItself DEF Follows
<1>2. ASSUME Follows(planned, n)
      PROVE  Follows(t, n)
  BY <1>2, PrecedesThrough DEF Follows
<1>3. CASE n = [planned EXCEPT !.status = "midway"]
  BY <1>2, <1>3, WithStatus DEF Follows
<1>4. CASE /\ planned.explains /\ planned.status = "stopped"
           /\ n = [planned EXCEPT !.ops = Append(@, "started")]
  <2>1. n = [planned EXCEPT !.status = "stopped", !.ops = Append(planned.ops, "started")]
    BY <1>4, ReviewParts
  <2>. QED BY <1>2, <1>4, <2>1, WithAttempt DEF Follows, Attempt
<1>. QED BY <1>1, <1>3, <1>4 DEF Remains

LEMMA PlannedFollows ==
    ASSUME NEW t \in Review, Sound(t)
    PROVE  Follows(t, Planned(t)) /\ Planned(t).status = "stopped"
<1>. DEFINE n == Planned(t)
<1>1. /\ n.status = "stopped" /\ n.revs = t.revs + 1 /\ n.explains = t.explains
      /\ n.ops = <<>> /\ n \in Review
  <2>1. <<>> \in Seq(Attempt) /\ t.revs + 1 \in Nat /\ t.explains \in BOOLEAN
    BY ReviewParts
  <2>2. n \in [status : {"stopped"}, revs : {t.revs + 1}, ops : {<<>>},
             explains : {t.explains}]
    BY DEF Planned, Review
  <2>. HIDE DEF n
  <2>. QED BY <2>1, <2>2 DEF Review
<1>. QED BY <1>1, ReviewParts DEF Follows, Sound, Precedes

\* A decision on the revision under review.
LEMMA DecidedFollows ==
    ASSUME NEW t \in Review, Sound(t), NEW d \in Decisions, d.rev = t.revs
    PROVE  Follows(t, Decided(t, d)) /\ \A n \in DecisionEnds(t, d) : Follows(t, n)
<1>1. d.action \in {"approve", "close", "revise"}
  BY DEF Decisions
<1>2. Follows(t, Decided(t, d))
  BY <1>1, WithStatus, PlannedFollows DEF Decided
<1>3. ASSUME NEW n \in DecisionEnds(t, d), d.action = "revise"
      PROVE  Follows(t, n)
  <2>1. n \in Ends(Planned(t))
    BY <1>3 DEF DecisionEnds
  <2>2. Follows(Planned(t), n)
    BY <2>1, PlannedFollows, EndsFollow DEF Follows
  <2>. QED BY <2>2, PlannedFollows, PrecedesThrough DEF Follows
<1>4. ASSUME NEW n \in DecisionEnds(t, d), d.action # "revise"
      PROVE  Follows(t, n)
  BY <1>2, <1>4 DEF DecisionEnds
<1>. QED BY <1>2, <1>3, <1>4

\* A retry of the last attempt; what awaits its decision has none to repeat.
LEMMA RetryFollows ==
    ASSUME NEW t \in Review, Sound(t), NEW rev, NEW k, Retryable(t, rev, k)
    PROVE  /\ t.status = "stopped" /\ Retried(t, rev, k) = t
           /\ \A n \in RetryEnds(t, rev, k) : Follows(t, n)
<1>1. t.status = "stopped"
  BY ReviewParts DEF Retryable, Sound
<1>. QED BY <1>1, EndsFollow DEF RetryEnds, Retried

-----------------------------------------------------------------------------
(* What the sessions hold.                                                   *)

LEMMA RunParts ==
    /\ NoRun \in Run /\ \A t : Earlier(NoRun, t)
    /\ \A t \in Review : Sound(t) => Fresh(t) \in Run /\ Earlier(Fresh(t), t)
<1>1. NoRun \in Run /\ \A t : Earlier(NoRun, t)
  BY DEF NoRun, Run, Earlier
<1>2. ASSUME NEW t \in Review, Sound(t)
      PROVE  Fresh(t) \in Run /\ Earlier(Fresh(t), t)
  <2>1. Precedes(t, t) /\ t # Unborn
    BY PrecedesItself, ReviewParts
  <2>. QED BY <1>2, <2>1 DEF Fresh, Run, Earlier
<1>. QED BY <1>1, <1>2

\* What is held stays earlier while the thread moves on.
LEMMA HeldStays ==
    ASSUME IInv,
           \/ thread' = thread
           \/ thread \in Review /\ Follows(thread, thread')
           \/ thread' = Gone
           \/ thread = Unborn /\ thread' \in Review /\ Sound(thread')
    PROVE  /\ ThreadType'
           /\ \A s \in Sessions : Earlier(handle[s], thread') /\ Earlier(page[s], thread')
<1>1. ThreadType'
  BY DEF IInv, ThreadType, Exists, Follows
<1>2. ASSUME NEW run \in Run, Earlier(run, thread)
      PROVE  Earlier(run, thread')
  <2>1. CASE thread' = thread \/ run.state = Unborn
    BY <1>2, <2>1 DEF Earlier
  <2>2. CASE thread \in Review /\ Follows(thread, thread') /\ run.state # Unborn
    <3>1. run.state \in Review /\ Precedes(run.state, thread) /\ Sound(run.state)
      BY <1>2, <2>2, ReviewParts DEF Earlier, Run
    <3>2. Precedes(run.state, thread') /\ thread' \in Review
      BY <2>2, <3>1, PrecedesThrough DEF Follows
    <3>. QED BY <3>1, <3>2, ReviewParts DEF Earlier
  <2>3. CASE thread' = Gone /\ run.state # Unborn
    BY <1>2, <2>3 DEF Earlier, Gone, Unborn
  <2>4. CASE thread = Unborn
    BY <1>2, <2>1, <2>4 DEF Earlier
  <2>. QED BY <2>1, <2>2, <2>3, <2>4
<1>. QED BY <1>1, <1>2 DEF IInv, HoldEarlier, SessionType

\* A step of a session s that gives its handle or its page the run.
LEMMA SessionStep ==
    ASSUME IInv, NEW s \in Sessions, NEW run \in Run, Earlier(run, thread'), ThreadType',
           \A q \in Sessions : Earlier(handle[q], thread') /\ Earlier(page[q], thread'),
           handle' \in {handle, [handle EXCEPT ![s] = run]},
           page' \in {page, [page EXCEPT ![s] = run]},
           acted'.shown = acted'.met
    PROVE  IInv'
<1>1. SessionType'
  BY DEF IInv, SessionType
<1>2. ASSUME NEW q \in Sessions
      PROVE  Earlier(handle'[q], thread') /\ Earlier(page'[q], thread')
  <2>1. handle'[q] \in {handle[q], run} /\ page'[q] \in {page[q], run}
    BY DEF IInv, SessionType
  <2>. QED BY <2>1
<1>3. thread'.status # "blocked"
  BY ReviewParts DEF ThreadType, Unborn, Gone
<1>. QED BY <1>1, <1>2, <1>3 DEF IInv, HoldEarlier, ActsOnWhatIsShown

-----------------------------------------------------------------------------
(* Submissions.                                                              *)

\* A thread that can be read.
LEMMA ReadableParts ==
    ASSUME IInv, Exists
    PROVE  thread \in Review /\ Sound(thread)
  BY DEF IInv, ThreadType, Exists

\* Two reviews with the same parts are the same.
LEMMA SameReview ==
    ASSUME NEW p \in Review, NEW t \in Review, Precedes(p, t),
           p.status = t.status, p.revs = t.revs, Len(p.ops) = Len(t.ops)
    PROVE  p = t
<1>1. p.ops = t.ops
  <2>1. p.ops \in Seq(Attempt) /\ t.ops \in Seq(Attempt)
    BY ReviewParts
  <2>2. \A i \in 1..Len(p.ops) : p.ops[i] = t.ops[i]
    BY DEF Precedes
  <2>. QED BY <2>1, <2>2
<1>2. p.explains = t.explains
  BY DEF Precedes
<1>3. p = [status |-> p.status, revs |-> p.revs, ops |-> p.ops, explains |-> p.explains]
  BY ReviewParts
<1>4. t = [status |-> t.status, revs |-> t.revs, ops |-> t.ops, explains |-> t.explains]
  BY ReviewParts
<1>. QED BY <1>1, <1>2, <1>3, <1>4, Zenon

\* A page that offers the decision the thread awaits shows the thread.
LEMMA DecidesOnThread ==
    ASSUME IInv, NEW s \in Sessions, NEW rev, Decide(rev) \in Controls(page[s]), Exists,
           thread.status = "awaiting", thread.revs = rev
    PROVE  page[s].state = thread
<1>. DEFINE p == page[s].state
<1>1. thread \in Review /\ thread \notin {Unborn, Gone}
  BY ReadableParts, ReviewParts
<1>2. p \in Review \cup {Unborn} /\ Earlier(page[s], thread)
  BY DEF IInv, SessionType, HoldEarlier, Run
<1>3. p # Unborn /\ p.status = "awaiting" /\ rev = p.revs
  BY DEF Controls, Decide, RetryOf
<1>4. p \in Review /\ Precedes(p, thread)
  BY <1>1, <1>2, <1>3 DEF Earlier
<1>5. p.ops = thread.ops
  BY <1>3, <1>4 DEF Precedes
<1>. QED BY <1>1, <1>3, <1>4, <1>5, SameReview

\* A page that offers the retry of the last attempt shows the thread.
LEMMA RetriesThread ==
    ASSUME IInv, NEW s \in Sessions, NEW rev, NEW k, RetryOf(rev, k) \in Controls(page[s]),
           Exists, Retryable(thread, rev, k)
    PROVE  page[s].state = thread
<1>. DEFINE p == page[s].state
<1>1. thread \in Review /\ thread \notin {Unborn, Gone} /\ Sound(thread)
  BY ReadableParts, ReviewParts
<1>2. p \in Review \cup {Unborn} /\ Earlier(page[s], thread)
  BY DEF IInv, SessionType, HoldEarlier, Run
<1>3. /\ p # Unborn /\ p.status # "awaiting"
      /\ \E j \in DOMAIN p.ops : Retryable(p, p.revs, j) /\ rev = p.revs /\ k = j
  BY DEF Controls, Decide, RetryOf
<1>4. p \in Review /\ Precedes(p, thread)
  BY <1>1, <1>2, <1>3 DEF Earlier
<1>5. p.status = "stopped" /\ rev = p.revs /\ k = Len(p.ops)
  BY <1>3 DEF Retryable
<1>6. thread.status = "stopped" /\ rev = thread.revs /\ k = Len(thread.ops)
  BY <1>1, RetryFollows DEF Retryable
<1>. QED BY <1>1, <1>4, <1>5, <1>6, SameReview

\* The graph is invoked on the thread that the page shows.
LEMMA SubmittedStep ==
    ASSUME IInv, Exists, NEW s \in Sessions, page[s].state = thread,
           NEW planned, Follows(thread, planned),
           NEW ends, \A n \in ends : Follows(thread, n), Submitted(s, planned, ends)
    PROVE  IInv'
<1>1. thread \in Review /\ Sound(thread) /\ planned \in Review
  BY ReadableParts DEF Follows
<1>2. acted'.shown = acted'.met
  BY DEF Submitted
<1>3. ASSUME NEW t \in ends, thread' = t, Keeps(s, Fresh(t)), Shows(s, Fresh(t))
      PROVE  IInv'
  <2>1. Follows(thread, t) /\ t \in Review /\ Sound(t)
    BY <1>3 DEF Follows
  <2>2. Fresh(t) \in Run /\ Earlier(Fresh(t), thread')
    BY <1>3, <2>1, RunParts
  <2>. QED BY <1>1, <1>2, <1>3, <2>1, <2>2, HeldStays, SessionStep DEF Keeps, Shows
<1>4. ASSUME thread' \in Remains(thread, planned, ends),
             Keeps(s, [handle[s] EXCEPT !.unknown = TRUE]), UNCHANGED page
      PROVE  IInv'
  <2>. DEFINE run == [handle[s] EXCEPT !.unknown = TRUE]
  <2>1. Follows(thread, thread')
    BY <1>1, <1>4, RemainsFollow
  <2>2. /\ ThreadType'
        /\ \A q \in Sessions : Earlier(handle[q], thread') /\ Earlier(page[q], thread')
    BY <1>1, <2>1, HeldStays
  <2>3. run \in Run /\ run.state = handle[s].state
    BY DEF IInv, SessionType, Run
  <2>4. Earlier(run, thread')
    BY <2>2, <2>3 DEF Earlier
  <2>5. handle' = [handle EXCEPT ![s] = run] /\ page' = page
    BY <1>4 DEF Keeps
  <2>. HIDE DEF run
  <2>. QED BY <1>2, <2>2, <2>3, <2>4, <2>5, SessionStep
<1>. QED BY <1>3, <1>4 DEF Submitted

\* A refused submission may show the handle the thread.
LEMMA RefusedStep ==
    ASSUME IInv, Exists, NEW s \in Sessions,
           NEW run \in {handle[s], [handle[s] EXCEPT !.state = thread]}, Refused(s, run)
    PROVE  IInv'
<1>1. thread \in Review /\ Sound(thread) /\ thread' = thread
  BY ReadableParts DEF Refused
<1>2. /\ ThreadType'
      /\ \A q \in Sessions : Earlier(handle[q], thread') /\ Earlier(page[q], thread')
  BY <1>1, HeldStays
<1>3. run \in Run /\ run.state \in {handle[s].state, thread}
  BY <1>1 DEF IInv, SessionType, Run
<1>4. Earlier(run, thread')
  BY <1>1, <1>2, <1>3, PrecedesItself, ReviewParts DEF Earlier
<1>5. handle' = [handle EXCEPT ![s] = run] /\ page' = page /\ acted' = acted
  BY DEF Refused, Keeps
<1>. QED BY <1>2, <1>3, <1>4, <1>5, SessionStep DEF IInv, ActsOnWhatIsShown

LEMMA ResumeStep ==
    ASSUME IInv, NEW s \in Sessions, NEW d \in Decisions, Resume(s, d)
    PROVE  IInv'
<1>1. Decide(d.rev) \in Controls(page[s]) /\ Exists
  BY DEF Resume, Readable
<1>2. CASE \/ Refused(s, handle[s])
           \/ Refused(s, [handle[s] EXCEPT !.state = thread])
  BY <1>1, <1>2, RefusedStep
<1>3. CASE /\ thread.status = "awaiting" /\ thread.revs = d.rev
           /\ Submitted(s, Decided(thread, d), DecisionEnds(thread, d))
  <2>1. page[s].state = thread /\ thread \in Review /\ Sound(thread)
    BY <1>1, <1>3, DecidesOnThread, ReadableParts
  <2>2. /\ Follows(thread, Decided(thread, d))
        /\ \A n \in DecisionEnds(thread, d) : Follows(thread, n)
    BY <1>3, <2>1, DecidedFollows
  <2>. QED BY <1>1, <1>3, <2>1, <2>2, SubmittedStep
<1>. QED BY <1>2, <1>3 DEF Resume, RenderedRevision

LEMMA RetryStep ==
    ASSUME IInv, NEW s \in Sessions, NEW rev, NEW k, Retry(s, rev, k)
    PROVE  IInv'
<1>1. RetryOf(rev, k) \in Controls(page[s]) /\ Exists
  BY DEF Retry, Readable
<1>2. CASE \/ Refused(s, handle[s])
           \/ Refused(s, [handle[s] EXCEPT !.state = thread])
  BY <1>1, <1>2, RefusedStep
<1>3. CASE /\ Retryable(thread, rev, k)
           /\ Submitted(s, Retried(thread, rev, k), RetryEnds(thread, rev, k))
  <2>1. page[s].state = thread /\ thread \in Review /\ Sound(thread)
    BY <1>1, <1>3, RetriesThread, ReadableParts
  <2>2. /\ Follows(thread, Retried(thread, rev, k))
        /\ \A n \in RetryEnds(thread, rev, k) : Follows(thread, n)
    BY <1>3, <2>1, RetryFollows, PrecedesItself DEF Follows
  <2>. QED BY <1>1, <1>3, <2>1, <2>2, SubmittedStep
<1>. QED BY <1>2, <1>3 DEF Retry

-----------------------------------------------------------------------------
(* Every step preserves the invariant.                                       *)

LEMMA InitIInv == Init => IInv
  BY RunParts DEF Init, IInv, ThreadType, Exists, SessionType, HoldEarlier, ActsOnWhatIsShown,
                  Unborn

\* The steps of a session that leave the thread alone.
LEMMA ReadingStep ==
    ASSUME IInv, NEW s \in Sessions, Rerun(s) \/ Refresh(s) \/ Restore(s)
    PROVE  IInv'
<1>1. thread' = thread /\ acted' = acted
  BY DEF Rerun, Refresh, Restore
<1>2. /\ ThreadType' /\ acted'.shown = acted'.met
      /\ \A q \in Sessions : Earlier(handle[q], thread') /\ Earlier(page[q], thread')
  BY <1>1, HeldStays DEF IInv, ActsOnWhatIsShown
<1>3. CASE Rerun(s)
  <2>1. handle[s] \in Run /\ Earlier(handle[s], thread')
    BY <1>2 DEF IInv, SessionType
  <2>. QED BY <1>2, <1>3, <2>1, SessionStep DEF Rerun, Shows
<1>4. ASSUME NEW run \in {NoRun} \cup (IF Readable THEN {Fresh(thread)} ELSE {}),
             Keeps(s, run), Shows(s, run)
      PROVE  IInv'
  <2>1. run \in Run /\ Earlier(run, thread')
    BY <1>1, <1>4, RunParts, ReadableParts DEF Readable
  <2>. QED BY <1>2, <1>4, <2>1, SessionStep DEF Keeps, Shows
<1>. QED BY <1>3, <1>4 DEF Refresh, Restore

\* The steps that drop a session's run, and with it perhaps the review.
LEMMA DroppingStep ==
    ASSUME IInv, NEW s \in Sessions, Discard(s) \/ Delete(s) \/ Leave(s)
    PROVE  IInv'
<1>1. thread' \in {thread, Gone} /\ acted' = acted /\ Keeps(s, NoRun) /\ Shows(s, NoRun)
  BY DEF Discard, Delete, Leave
<1>2. /\ ThreadType' /\ acted'.shown = acted'.met
      /\ \A q \in Sessions : Earlier(handle[q], thread') /\ Earlier(page[q], thread')
  BY <1>1, HeldStays DEF IInv, ActsOnWhatIsShown
<1>. QED BY <1>1, <1>2, RunParts, SessionStep DEF Keeps, Shows

LEMMA CreateStep ==
    ASSUME IInv, NEW s \in Sessions, NEW kind, NEW explains \in BOOLEAN,
           Create(s, kind, explains)
    PROVE  IInv'
<1>. DEFINE first == [status |-> "stopped", revs |-> 1, ops |-> <<>>, explains |-> explains]
<1>1. first \in Review /\ Sound(first) /\ first.status = "stopped"
  <2>1. <<>> \in Seq(Attempt)
    OBVIOUS
  <2>. QED BY <2>1 DEF Review, Sound
<1>2. PICK t \in Ends(first) : thread' = t /\ Keeps(s, Fresh(t)) /\ Shows(s, Fresh(t))
  BY DEF Create
<1>3. t \in Review /\ Sound(t) /\ thread = Unborn /\ acted' = acted
  <2>. HIDE DEF first
  <2>. QED BY <1>1, <1>2, EndsFollow DEF Follows, Create
<1>4. /\ ThreadType' /\ acted'.shown = acted'.met
      /\ \A q \in Sessions : Earlier(handle[q], thread') /\ Earlier(page[q], thread')
  BY <1>2, <1>3, HeldStays DEF IInv, ActsOnWhatIsShown
<1>5. Fresh(t) \in Run /\ Earlier(Fresh(t), thread')
  BY <1>2, <1>3, RunParts
<1>. QED BY <1>2, <1>4, <1>5, SessionStep DEF Keeps, Shows

LEMMA NextIInv ==
    ASSUME IInv, [Next]_vars
    PROVE  IInv'
<1>1. CASE Prune
  <2>1. /\ ThreadType'
        /\ \A q \in Sessions : Earlier(handle[q], thread') /\ Earlier(page[q], thread')
    BY <1>1, HeldStays DEF Prune
  <2>. QED BY <1>1, <2>1, ReviewParts
    DEF Prune, IInv, SessionType, HoldEarlier, ActsOnWhatIsShown, Gone
<1>2. CASE UNCHANGED vars
  BY <1>2 DEF vars, IInv, ThreadType, Exists, SessionType, HoldEarlier, ActsOnWhatIsShown
<1>3. ASSUME NEW s \in Sessions, NEW d \in Decisions, Resume(s, d)
      PROVE  IInv'
  BY <1>3, ResumeStep
<1>4. ASSUME NEW s \in Sessions, NEW rev, NEW k, Retry(s, rev, k)
      PROVE  IInv'
  BY <1>4, RetryStep
<1>5. ASSUME NEW s \in Sessions, NEW kind, NEW explains \in BOOLEAN, Create(s, kind, explains)
      PROVE  IInv'
  BY <1>5, CreateStep
<1>. QED BY <1>1, <1>2, <1>3, <1>4, <1>5, ReadingStep, DroppingStep DEF Next

LEMMA Inductive == Spec => []IInv
  BY InitIInv, NextIInv, PTL DEF Spec

-----------------------------------------------------------------------------
(* The theorem.                                                              *)

\* Whatever other sessions, failed submissions, retries and deletions came between, a
\* decision or retry that reaches the workflow was made on a page that shows the thread as
\* it is then (resume and retry of dashboard.py), and never makes it block the review.
THEOREM SubmissionsAreCurrent == Spec => []ActsOnWhatIsShown
<1>1. IInv => ActsOnWhatIsShown
  BY DEF IInv
<1>. QED BY <1>1, Inductive, PTL
=============================================================================
