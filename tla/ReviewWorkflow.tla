---------------------------- MODULE ReviewWorkflow ----------------------------
(***************************************************************************)
(* One review thread of the advisory graph: the compiled LangGraph routes  *)
(* (graph/workflow.py), the revision runtime that every node runs through  *)
(* (graph/revision.py) and the planner of reviewer feedback                *)
(* (domain/revision.py).                                                   *)
(*                                                                         *)
(* `saved' is the last checkpoint committed with sync durability; `host'   *)
(* is the one process that runs supersteps on the thread (Lifecycle.tla    *)
(* shows that there is one); `permits' is RevisionRuntime._permits, which  *)
(* is never checkpointed.  A node reads `saved' and its result is committed  *)
(* before the next node runs.  Nothing but its result is left by a node    *)
(* that dies before that commit, so a node is one step, except where more  *)
(* happens: prepare hands out a permit before its commit, and execute      *)
(* calls an adapter before its commit.  Crash and Abort may come between   *)
(* any two steps.                                                          *)
(*                                                                         *)
(* The five artifacts, and the five feedback classes that restart them,    *)
(* are numbered as in ARTIFACTS and CLASSES:                               *)
(*   1 draft_policy / profile            4 portfolio_construction          *)
(*   2 candidate_evidence / evidence     5 draft_explanation / explanation *)
(*   3 candidate_screening / screening_policy                              *)
(* Stages 2 and 5 call an external adapter; the others are pure.           *)
(***************************************************************************)
EXTENDS Integers, Sequences, FiniteSets

CONSTANTS
    Contents,       \* what an adapter may answer with
    Versions,       \* values of one class of revision inputs
    Feedback,       \* the sets of classes a reviewer gives feedback on,
    RejectedWith,   \* and those of them that come with a rejection, not an edit
    Unbuildable,    \* <<stage, content, version>>: pure stages 3, 4 that block
    MaxRevisions,   \* bound: revisions of the thread
    MaxRetries,     \* bound: retries on the thread
    MaxCrashes      \* bound: crashes and aborted invocations

ASSUME ConstantsOK ==
    /\ Versions # {} /\ Contents # {}
    /\ Feedback \subseteq (SUBSET (1..5)) \ {{}}
    /\ RejectedWith \subseteq Feedback
    /\ MaxRevisions \in Nat \ {0}
    /\ MaxRetries \in Nat
    /\ MaxCrashes \in Nat

VARIABLES
    saved,      \* the committed checkpoint, NoCheckpoint before the first
    host,       \* [pc, work, response]: the process that runs the graph, the
                \* result it has not committed and the reviewer's response
    permits,    \* operation ids this runtime prepared and did not execute yet
    issued,     \* operation ids handed out so far, 1..issued
    calls,      \* the operation ids with which adapters were called, in order
    crashes     \* crashes and aborts so far

vars == <<saved, host, permits, issued, calls, crashes>>

-----------------------------------------------------------------------------
(* Data.                                                                     *)

Artifact == 1..5
OpStage == {2, 5}

NoContent == "none"
NoCheckpoint == [next |-> "none"]
NoDecision == [id |-> 0]
NoValue == [kind |-> 0, ready |-> FALSE, basis |-> <<>>, draw |-> NoContent]

\* A node of the compiled graph: its kind and the artifact it is about.
Node(kind, i) == <<kind, i>>
End == Node("end", 0)
Review == Node("human_review", 0)
Finalize == Node("finalize_review", 0)

Nodes ==
    {End, Review, Finalize, Node("validate_profile", 1)}
        \cup {Node("pure", i) : i \in {1, 3, 4}}
        \cup {Node("prepare", i) : i \in OpStage}
        \cup {Node("execute", i) : i \in OpStage}

\* What the adapters were compiled with: policy only, evidence, explanation.
Shapes == {{1}, 1..4, 1..5}

\* state["status"] and Revision.status.
Blocked == {"evidence_blocked", "screening_blocked", "construction_blocked",
            "explanation_blocked"}
Statuses ==
    {"running", "profile_validated", "operation_prepared", "operation_reused",
     "awaiting_human_review", "retry_requested", "revision_planned", "revised",
     "approved", "rejected", "blocked", "revision_blocked"} \cup Blocked

\* The checkpointed records: artifact values, revisions, receipts, decisions.
Value ==
    [kind : 0..5, ready : BOOLEAN, basis : Seq(Versions),
     draw : Contents \cup {NoContent}]

Revision ==
    [inputs : [Artifact -> Versions], plan : 0..5, decision : Nat,
     artifacts : [Artifact -> Nat], status : Statuses]

OperationInputs ==
    (Versions \X Versions) \cup (Versions \X Versions \X [1..4 -> Nat])

OperationReceipt ==
    [op : Nat, rev : Nat, stage : OpStage, attempt : Nat, input : OperationInputs,
     status : {"started", "succeeded", "failed"}, output : Nat]

ReviewDecision ==
    [id : Nat, rev : Nat, action : {"approve", "reject", "edit"},
     disposition : {"none", "close", "revise"}, feedback : SUBSET Artifact,
     version : Versions, admissible : BOOLEAN]

Checkpoint ==
    [next : Nodes, status : Statuses, enabled : Shapes, revs : Seq(Revision) \ {<<>>},
     receipts : Seq(OperationReceipt), artifacts : Seq(Value),
     decisions : Seq(ReviewDecision), values : [Artifact -> Value],
     review : ReviewDecision \cup {NoDecision}, retryOp : Nat]

\* The node that runs stage i of STAGES: the restart routes.
StageNode(i) ==
    CASE i = 1 -> Node("validate_profile", 1)
      [] i \in OpStage -> Node("prepare", i)
      [] i \in {3, 4} -> Node("pure", i)
      [] OTHER -> Review

\* Mutant: the last stage leads back to itself.
AfterLoops(s, i) ==
    IF \E j \in s.enabled : j > i
    THEN StageNode(i + 1)
    ELSE StageNode(i)

\* Where the graph goes when artifact i is ready.
After(s, i) ==
    IF \E j \in s.enabled : j > i
    THEN StageNode(i + 1)
    ELSE Review

Current(s) == s.revs[Len(s.revs)]
SetCurrent(s, r) == [s EXCEPT !.revs[Len(s.revs)] = r]

\* The receipts of a stage in a revision, by their position in the thread's ledger.
Attempts(s, rev, stage) ==
    {k \in DOMAIN s.receipts :
        s.receipts[k].rev = rev /\ s.receipts[k].stage = stage}

\* `prior' in prepare; its last element, if it has one.
Prior(s, stage) == Attempts(s, Len(s.revs), stage)
Latest(s, stage) == {k \in Prior(s, stage) : \A j \in Prior(s, stage) : j <= k}

Ops(s) == {s.receipts[k].op : k \in DOMAIN s.receipts}

\* operation_digest: what an attempt of a stage depends on.
OperationInput(s, rev, stage) ==
    LET r == s.revs[rev] IN
    IF stage = 2 THEN <<r.inputs[1], r.inputs[2]>>
                 ELSE <<r.inputs[1], r.inputs[5], [i \in 1..4 |-> r.artifacts[i]]>>

-----------------------------------------------------------------------------
(* The pure stages, by what their output depends on.                         *)

Policy(s) ==
    [kind |-> 1, ready |-> TRUE, basis |-> <<Current(s).inputs[1]>>,
     draw |-> NoContent]

Evidence(s, ready, content) ==
    [kind |-> 2, ready |-> ready,
     basis |-> <<Current(s).inputs[1], Current(s).inputs[2]>>, draw |-> content]

\* screen_candidates: needs ready evidence; a contract error leaves no value.
Screen(s) ==
    LET e == s.values[2]  p == Current(s).inputs[3] IN
    IF e.ready /\ <<3, e.draw, p>> \notin Unbuildable
    THEN [kind |-> 3, ready |-> TRUE, basis |-> Append(e.basis, p), draw |-> e.draw]
    ELSE NoValue

\* construct_portfolio: inconsistent or infeasible input gives a blocked bundle.
Construct(s) ==
    LET c == s.values[3]  p == Current(s).inputs[4]
        consistent == /\ s.values[1] = Policy(s)
                      /\ c.ready /\ c.basis[1] = Current(s).inputs[1]
    IN  [kind |-> 4,
         ready |-> consistent /\ <<4, c.draw, p>> \notin Unbuildable,
         basis |-> Append(c.basis, p), draw |-> c.draw]

Explain(s) ==
    [kind |-> 5, ready |-> TRUE,
     basis |-> Append(s.values[4].basis, Current(s).inputs[5]),
     draw |-> s.values[4].draw]

\* RevisionRuntime.validate_output: the evidence answers the current request; the
\* explanation is rebuilt from the upstream values (not from the instruction).
OutputValid(s, stage) ==
    IF stage = 2
    THEN /\ s.values[2].ready
         /\ s.values[2].basis = <<Current(s).inputs[1], Current(s).inputs[2]>>
    ELSE /\ s.values[5].kind = 5 /\ s.values[4].ready
         /\ SubSeq(s.values[5].basis, 1, 4) = s.values[4].basis
         /\ s.values[5].draw = s.values[4].draw
-----------------------------------------------------------------------------
(* The ledger's own validation and the planner.                              *)

\* Mutant: the restart stage is off by one.
PlanIndexLate(d) == 1 + CHOOSE i \in d.feedback : \A j \in d.feedback : i <= j

\* plan_revision: the earliest class of the feedback decides the restart stage.
PlanIndex(d) == CHOOSE i \in d.feedback : \A j \in d.feedback : i <= j

PlannedInputs(s, d) ==
    [c \in Artifact |-> IF c \in d.feedback THEN d.version
                                            ELSE Current(s).inputs[c]]

\* Feedback for a disabled stage, and patches that fail validation, are refused.
Plannable(s, d) ==
    /\ d.admissible
    /\ d.feedback # {}
    /\ d.feedback \subseteq s.enabled

\* Attempts are numbered from 1, they have the input the revision gives them, only
\* the last may have succeeded, and a succeeded one names a retained artifact.
ReceiptsValid(s, rev, stage) ==
    LET p == Attempts(s, rev, stage) IN
    \A k \in p :
        LET q == s.receipts[k] IN
        /\ q.attempt = Cardinality({j \in p : j <= k})
        /\ stage = 5 => \A i \in 1..4 : s.revs[rev].artifacts[i] # 0
        /\ q.input = OperationInput(s, rev, stage)
        /\ q.status = "succeeded" => /\ \A j \in p : j <= k
                                     /\ q.output \in DOMAIN s.artifacts

\* "Retrieval cannot follow explanation within one revision."
ReceiptOrder(s) ==
    \A i, j \in DOMAIN s.receipts :
        i < j /\ s.receipts[i].rev = s.receipts[j].rev
            => ~(s.receipts[i].stage = 5 /\ s.receipts[j].stage = 2)

\* A ready side effect is inherited from the parent or has its successful receipt.
SideEffectProven(s, rev, stage) ==
    LET r == s.revs[rev]  id == r.artifacts[stage]
    IN  (id # 0 /\ s.artifacts[id].ready) =>
            IF rev > 1 /\ stage < r.plan
            THEN id = s.revs[rev - 1].artifacts[stage]
            ELSE \E k \in Attempts(s, rev, stage) :
                    /\ s.receipts[k].status = "succeeded"
                    /\ s.receipts[k].output = id

RevisionValid(s, rev) ==
    LET r == s.revs[rev] IN
    /\ rev = 1 => r.plan = 0
    /\ rev > 1 =>
         LET parent == s.revs[rev - 1] IN
         /\ parent.decision # 0
         /\ LET d == s.decisions[parent.decision] IN
            /\ r.plan = PlanIndex(d)
            /\ r.inputs = [c \in Artifact |->
                              IF c \in d.feedback THEN d.version
                                                  ELSE parent.inputs[c]]
         /\ \A i \in Artifact :
              i < r.plan /\ r.artifacts[i] # 0
                  => r.artifacts[i] = parent.artifacts[i]
    /\ r.decision # 0 => s.decisions[r.decision].rev = rev
    /\ \A i \in Artifact :
         r.artifacts[i] # 0 => i \in s.enabled /\ r.artifacts[i] \in DOMAIN s.artifacts
    /\ \A stage \in OpStage : /\ ReceiptsValid(s, rev, stage)
                              /\ SideEffectProven(s, rev, stage)

\* validate_revision_state: run by every node and on every restore.
ValidState(s) ==
    /\ \A rev \in DOMAIN s.revs : RevisionValid(s, rev)
    /\ ReceiptOrder(s)
    /\ \A i, j \in DOMAIN s.receipts :
         s.receipts[i].op = s.receipts[j].op => i = j
    /\ \A d \in DOMAIN s.decisions : \E r \in DOMAIN s.revs : s.revs[r].decision = d
    /\ \A i \in Artifact :
         s.values[i] = IF Current(s).artifacts[i] = 0
                       THEN NoValue ELSE s.artifacts[Current(s).artifacts[i]]
    /\ Current(s).decision # 0 => s.review = s.decisions[Current(s).decision]

\* _block: an undecided revision is marked, a decided one is left alone.
Block(s) ==
    LET r == Current(s)
        b == [s EXCEPT !.status = "revision_blocked", !.next = End]
    IN  IF ValidState(s) /\ r.decision = 0
        THEN SetCurrent(b, [r EXCEPT !.status = "blocked"])
        ELSE b

-----------------------------------------------------------------------------
(* What each node makes of the checkpoint it reads.                          *)

\* record_result: a new value becomes an artifact of the current revision; one that
\* differs from a reached artifact is a contract error.
Conflicts(s, i, v) ==
    LET id == Current(s).artifacts[i]
    IN  v # NoValue /\ id # 0 /\ s.artifacts[id] # v

\* Mutant: a value is recorded anew although the artifact was reached.
RecordAnew(s, i, v, status, next) ==
    [s EXCEPT
        !.values[i] = v,
        !.artifacts = Append(@, v),
        !.revs[Len(s.revs)] =
            [Current(s) EXCEPT !.status = status, !.artifacts[i] = Len(s.artifacts) + 1],
        !.status = status,
        !.next = next]

Record(s, i, v, status, next) ==
    LET r == Current(s)
        new == v # NoValue /\ r.artifacts[i] = 0
    IN  [s EXCEPT
            !.values[i] = v,
            !.artifacts = IF new THEN Append(@, v) ELSE @,
            !.revs[Len(s.revs)] =
                [r EXCEPT !.status = status,
                          !.artifacts[i] = IF new THEN Len(s.artifacts) + 1 ELSE @],
            !.status = status,
            !.next = next]

RecordOrBlock(s, i, v, status, next) ==
    IF ValidState(s) /\ ~Conflicts(s, i, v)
    THEN Record(s, i, v, status, next)
    ELSE Block(s)

\* begin on a thread without a ledger: revision 1 over the compiled inputs.
FirstVersion == CHOOSE v \in Versions : TRUE

BeginFresh(enabled) ==
    [next |-> Node("validate_profile", 1), status |-> "profile_validated",
     enabled |-> enabled,
     revs |-> << [inputs |-> [c \in Artifact |-> FirstVersion], plan |-> 0,
                  decision |-> 0, artifacts |-> [i \in Artifact |-> 0],
                  status |-> "running"] >>,
     receipts |-> <<>>, artifacts |-> <<>>, decisions |-> <<>>,
     values |-> [i \in Artifact |-> NoValue],
     review |-> NoDecision, retryOp |-> 0]

\* Mutant: a succeeded attempt may be retried.
RetryTargetsAny(s, rev, stage, op) ==
    /\ rev = Len(s.revs)
    /\ \E k \in Latest(s, stage) : s.receipts[k].op = op
    /\ Current(s).decision = 0

\* begin with a retry_request: it must name the last, unsuccessful attempt of its
\* stage in the undecided current revision.
RetryTargets(s, rev, stage, op) ==
    /\ rev = Len(s.revs)
    /\ \E k \in Latest(s, stage) : /\ s.receipts[k].op = op
                                   /\ s.receipts[k].status # "succeeded"
    /\ Current(s).decision = 0

\* Mutant: the values are cleared, the references to them stay.
ClearedValuesOnly(s, stage, op) ==
    [s EXCEPT
        !.next = Node("prepare", stage),
        !.status = "retry_requested",
        !.retryOp = op,
        !.values = [i \in Artifact |-> IF i >= stage THEN NoValue ELSE @[i]],
        !.review = NoDecision]

Cleared(s, stage, op) ==
    [s EXCEPT
        !.next = Node("prepare", stage),
        !.status = "retry_requested",
        !.retryOp = op,
        !.values = [i \in Artifact |-> IF i >= stage THEN NoValue ELSE @[i]],
        !.revs[Len(s.revs)].artifacts =
            [i \in Artifact |-> IF i >= stage THEN 0 ELSE @[i]],
        !.review = NoDecision]

BeginRetry(s, rev, stage, op) ==
    IF ValidState(s) /\ RetryTargets(s, rev, stage, op)
    THEN Cleared(s, stage, op)
    ELSE Block(s)

\* nodes.validate_profile through pure: clears every derived value.
ValidateProfile(s) ==
    IF ValidState(s)
    THEN [s EXCEPT !.values = [i \in Artifact |-> NoValue],
                   !.review = NoDecision,
                   !.revs[Len(s.revs)].status = "profile_validated",
                   !.status = "profile_validated",
                   !.next = Node("pure", 1)]
    ELSE Block(s)

\* draft_policy, screen_candidates and construct_portfolio through pure.
Pure(s, i) ==
    LET v == CASE i = 1 -> Policy(s) [] i = 3 -> Screen(s) [] i = 4 -> Construct(s)
        blocked == IF i = 3 THEN "screening_blocked" ELSE "construction_blocked"
    IN  IF v.ready
        THEN RecordOrBlock(s, i, v, "awaiting_human_review", After(s, i))
        ELSE RecordOrBlock(s, i, v, blocked, End)

\* prepare: reuse a succeeded attempt, start an authorised one, or refuse.
MayReuse(s, stage) ==
    /\ ValidState(s)
    /\ \E k \in Latest(s, stage) : s.receipts[k].status = "succeeded"
    /\ OutputValid(s, stage)

\* Mutant: a failed attempt is repeated without a retry request.
MayAttemptAgain(s, stage) ==
    /\ ValidState(s)
    /\ \A k \in Latest(s, stage) : s.receipts[k].status # "succeeded"
    /\ stage = 5 => \A i \in 1..4 : Current(s).artifacts[i] # 0

MayAttempt(s, stage) ==
    /\ ValidState(s)
    /\ IF Prior(s, stage) = {}
       THEN s.retryOp = 0
       ELSE \E k \in Latest(s, stage) : /\ s.receipts[k].status # "succeeded"
                                        /\ s.receipts[k].op = s.retryOp
    /\ stage = 5 => \A i \in 1..4 : Current(s).artifacts[i] # 0

Attempt(s, stage, op) ==
    [op |-> op, rev |-> Len(s.revs), stage |-> stage,
     attempt |-> Cardinality(Prior(s, stage)) + 1,
     input |-> OperationInput(s, Len(s.revs), stage),
     status |-> "started", output |-> 0]

\* Mutant: a retry replaces the receipt of the attempt before it.
StartedInPlace(s, stage, op) ==
    [s EXCEPT !.receipts = IF Prior(s, stage) = {}
                           THEN Append(@, Attempt(s, stage, op))
                           ELSE [k \in DOMAIN @ |-> IF k \in Latest(s, stage)
                                                     THEN Attempt(s, stage, op) ELSE @[k]],
              !.retryOp = 0,
              !.status = "operation_prepared",
              !.next = Node("execute", stage)]

Started(s, stage, op) ==
    [s EXCEPT !.receipts = Append(@, Attempt(s, stage, op)),
              !.retryOp = 0,
              !.status = "operation_prepared",
              !.next = Node("execute", stage)]

Reused(s, stage) ==
    [s EXCEPT !.status = "operation_reused", !.next = Node("execute", stage)]

\* Mutant: execute does not ask for the permit.
MayExecuteUnpermitted(s, stage, k, held) ==
    /\ ValidState(s)
    /\ k \in Latest(s, stage)
    /\ s.receipts[k].status = "started"

\* execute: attempt k may run while this runtime holds its permit.
MayExecute(s, stage, k, held) ==
    /\ ValidState(s)
    /\ k \in Latest(s, stage)
    /\ s.receipts[k].status = "started"
    /\ s.receipts[k].op \in held

Replayed(s, stage) ==
    [s EXCEPT !.status = "awaiting_human_review", !.next = After(s, stage)]

Resolve(s, k, status, output) ==
    [s EXCEPT !.receipts[k].status = status, !.receipts[k].output = output]

Succeeded(s, stage, k, v) ==
    LET id == Len(s.artifacts) + 1
    IN  Resolve([s EXCEPT !.artifacts = Append(@, v),
                          !.values[stage] = v,
                          !.revs[Len(s.revs)] =
                              [Current(s) EXCEPT !.artifacts[stage] = id,
                                                 !.status = "awaiting_human_review"],
                          !.status = "awaiting_human_review",
                          !.next = After(s, stage)],
                k, "succeeded", id)

Failed(s, stage, k, v) ==
    LET blocked == IF stage = 2 THEN "evidence_blocked" ELSE "explanation_blocked"
    IN  IF Conflicts(s, stage, v)
        THEN Block(s)
        ELSE Resolve(Record(s, stage, v, blocked, End), k, "failed", 0)

\* review: everything the reviewer is shown is recomputed or revalidated first.
Reviewable(s) ==
    /\ ValidState(s)
    /\ Current(s).decision = 0
    /\ s.values[1] = Policy(s)
    /\ 2 \in s.enabled => /\ OutputValid(s, 2)
                          /\ s.values[3] = Screen(s)
                          /\ s.values[4] = Construct(s)
                          /\ s.values[4].ready
    /\ 5 \in s.enabled => OutputValid(s, 5)

Reviewed(s, d) ==
    [s EXCEPT !.review = d, !.status = "awaiting_human_review", !.next = Finalize]

\* decide: bind the decision to the revision it was made for.
Binds(s, d) ==
    /\ ValidState(s)
    /\ d.rev = Len(s.revs)
    /\ Current(s).decision = 0
    /\ d.id = Len(s.decisions) + 1
    /\ d.admissible
    /\ d.disposition = "revise" => Plannable(s, d)

Bound(s, d, outcome) ==
    [s EXCEPT !.decisions = Append(@, d),
              !.revs[Len(s.revs)] =
                  [Current(s) EXCEPT !.decision = d.id, !.status = outcome],
              !.review = d]

Closed(s, d) ==
    LET outcome == IF d.action = "approve" THEN "approved" ELSE "rejected"
    IN  [Bound(s, d, outcome) EXCEPT !.status = outcome, !.next = End]

\* The child revision keeps what precedes the restart stage, and nothing else.
Child(s, d) ==
    LET index == PlanIndex(d)
        b == Bound(s, d, IF d.action = "reject" THEN "rejected" ELSE "revised")
    IN  [b EXCEPT
            !.revs = Append(@, [inputs |-> PlannedInputs(s, d), plan |-> index,
                                decision |-> 0, status |-> "running",
                                artifacts |-> [i \in Artifact |->
                                    IF i < index THEN Current(s).artifacts[i] ELSE 0]]),
            !.values = [i \in Artifact |-> IF i < index THEN @[i] ELSE NoValue],
            !.review = NoDecision,
            !.status = "revision_planned",
            !.next = StageNode(index)]

Decide(s) ==
    LET d == s.review IN
    IF ~Binds(s, d) THEN Block(s)
    ELSE IF d.disposition = "revise" THEN Child(s, d) ELSE Closed(s, d)

-----------------------------------------------------------------------------
(* The process that runs the graph.                                          *)

Idle == [pc |-> "idle", work |-> NoCheckpoint, response |-> NoDecision]
Running(d) == [pc |-> "run", work |-> NoCheckpoint, response |-> d]
Preparing(s) == [pc |-> "prepared", work |-> s, response |-> NoDecision]

Init ==
    /\ saved = NoCheckpoint
    /\ host = Idle
    /\ permits = {}
    /\ issued = 0
    /\ calls = <<>>
    /\ crashes = 0

\* Mutant: a committed result is not dropped.
CommitKeepsWork(s) ==
    /\ saved' = s
    /\ host' = IF s.next = End THEN Idle
               ELSE [pc |-> "run", work |-> host.work, response |-> NoDecision]

\* The superstep's checkpoint is written, and the graph goes on to s.next.
Commit(s) ==
    /\ saved' = s
    /\ host' = IF s.next = End THEN Idle ELSE Running(NoDecision)

At(kind, i) == host.pc = "run" /\ saved.next = Node(kind, i)

\* invoke({"profile": ...}): begin_revision on a new thread.
Start ==
    /\ host = Idle
    /\ saved = NoCheckpoint
    /\ \E enabled \in Shapes : Commit(BeginFresh(enabled))
    /\ UNCHANGED <<permits, issued, calls, crashes>>

\* invoke({"retry_request": ...}): begin_revision on a retained thread, for any
\* operation of the ledger.  The bound is on what the caller asks for.
Retry(rev, k) ==
    /\ host = Idle
    /\ saved # NoCheckpoint
    /\ k \in DOMAIN saved.receipts
    /\ Cardinality({j \in DOMAIN saved.receipts : saved.receipts[j].attempt > 1})
           < MaxRetries
    /\ LET q == saved.receipts[k] IN Commit(BeginRetry(saved, rev, q.stage, q.op))
    /\ UNCHANGED <<permits, issued, calls, crashes>>

\* Command(resume=decision) on the interrupted review.  The reviewer's decision may
\* be late (for an older revision), repeated, malformed or inadmissible.
Malformed == [id |-> 0, rev |-> 0]

Decisions(s) ==
    {Malformed}
  \cup
    [id : {1, Len(s.decisions) + 1}, rev : {1, Len(s.revs)},
     action : {"approve"}, disposition : {"none"}, feedback : {{}},
     version : {FirstVersion}, admissible : BOOLEAN]
  \cup
    [id : {Len(s.decisions) + 1}, rev : {Len(s.revs)},
     action : {"reject"}, disposition : {"close"}, feedback : {{}},
     version : {FirstVersion}, admissible : {TRUE}]
  \cup
    (IF Len(s.revs) = MaxRevisions THEN {} ELSE
     {[id |-> Len(s.decisions) + 1, rev |-> Len(s.revs),
       action |-> IF f \in RejectedWith THEN "reject" ELSE "edit",
       disposition |-> "revise", feedback |-> f, version |-> v, admissible |-> TRUE] :
          f \in Feedback, v \in Versions \ {FirstVersion}})

Resume(d) ==
    /\ host = Idle
    /\ saved # NoCheckpoint
    /\ saved.next = Review
    /\ host' = Running(d)
    /\ UNCHANGED <<saved, permits, issued, calls, crashes>>

\* invoke(None): a process picks up the pending node of the checkpoint.
Continue ==
    /\ host = Idle
    /\ saved # NoCheckpoint
    /\ saved.next \notin {End, Review}
    /\ host' = Running(NoDecision)
    /\ UNCHANGED <<saved, permits, issued, calls, crashes>>

\* update_state(..., as_node="prepare_<stage>"): an operation is scheduled again, whether
\* it was attempted or not, whatever became of it, and in a decided revision as well; only the
\* edge after prepare is heeded, which leaves a blocked thread at its end.
Reschedule(stage) ==
    /\ host = Idle
    /\ saved # NoCheckpoint
    /\ saved.status # "revision_blocked"
    /\ saved' = [saved EXCEPT !.next = Node("execute", stage)]
    /\ UNCHANGED <<host, permits, issued, calls, crashes>>

RunValidate ==
    /\ At("validate_profile", 1)
    /\ Commit(ValidateProfile(saved))
    /\ UNCHANGED <<permits, issued, calls, crashes>>

RunPure(i) ==
    /\ At("pure", i)
    /\ Commit(Pure(saved, i))
    /\ UNCHANGED <<permits, issued, calls, crashes>>

\* prepare: the permit is in memory before the receipt is committed.
RunPrepare(stage) ==
    /\ At("prepare", stage)
    /\ \/ /\ MayAttempt(saved, stage)
          /\ issued' = issued + 1
          /\ permits' = permits \cup {issued'}
          /\ host' = Preparing(Started(saved, stage, issued'))
          /\ saved' = saved
       \/ /\ MayReuse(saved, stage)
          /\ Commit(Reused(saved, stage))
          /\ UNCHANGED <<permits, issued>>
       \/ /\ ~MayAttempt(saved, stage) /\ ~MayReuse(saved, stage)
          /\ Commit(Block(saved))
          /\ UNCHANGED <<permits, issued>>
    /\ UNCHANGED <<calls, crashes>>

CommitPrepared ==
    /\ host.pc = "prepared"
    /\ Commit(host.work)
    /\ UNCHANGED <<permits, issued, calls, crashes>>

\* execute up to the adapter call: the permit is consumed before the call.  A
\* runtime compiled without the adapter records a failed attempt instead.
RunExecute(stage) ==
    /\ At("execute", stage)
    /\ \/ \E k \in Latest(saved, stage) :
            /\ MayExecute(saved, stage, k, permits)
            /\ permits' = permits \ {saved.receipts[k].op}
            /\ \/ /\ calls' = Append(calls, saved.receipts[k].op)
                  /\ host' = [host EXCEPT !.pc = "call"]
                  /\ saved' = saved
               \/ /\ calls' = calls
                  /\ Commit(Failed(saved, stage, k, NoValue))
       \/ /\ MayReuse(saved, stage)
          /\ Commit(Replayed(saved, stage))
          /\ UNCHANGED <<permits, calls>>
       \/ /\ \A k \in Latest(saved, stage) : ~MayExecute(saved, stage, k, permits)
          /\ ~MayReuse(saved, stage)
          /\ Commit(Block(saved))
          /\ UNCHANGED <<permits, calls>>
    /\ UNCHANGED <<issued, crashes>>

\* The adapter answers: a ready output, a blocked bundle (retrieval only), a
\* handled error, or a contract exception that execute turns into a block.
AdapterReturns(stage) ==
    /\ host.pc = "call"
    /\ saved.next = Node("execute", stage)
    /\ \E k \in Latest(saved, stage) :
         \/ \E v \in IF stage = 2 THEN {Evidence(saved, TRUE, c) : c \in Contents}
                                   ELSE {Explain(saved)} :
               Commit(Succeeded(saved, stage, k, v))
         \/ \E v \in IF stage = 2 THEN {NoValue, Evidence(saved, FALSE, NoContent)}
                                   ELSE {NoValue} :
               Commit(Failed(saved, stage, k, v))
         \/ Commit(Block(saved))
    /\ UNCHANGED <<permits, issued, calls, crashes>>

RunReview ==
    /\ At("human_review", 0)
    /\ \/ /\ ~Reviewable(saved) \/ host.response = Malformed
          /\ Commit(Block(saved))
       \/ /\ Reviewable(saved) /\ host.response = NoDecision
          /\ host' = Idle
          /\ saved' = saved
       \/ /\ Reviewable(saved) /\ host.response \notin {NoDecision, Malformed}
          /\ Commit(Reviewed(saved, host.response))
    /\ UNCHANGED <<permits, issued, calls, crashes>>

RunFinalize ==
    /\ At("finalize_review", 0)
    /\ Commit(Decide(saved))
    /\ UNCHANGED <<permits, issued, calls, crashes>>

\* The process dies; what it had not committed is gone, and so are its permits.
Crash ==
    /\ host.pc # "idle"
    /\ crashes < MaxCrashes
    /\ crashes' = crashes + 1
    /\ host' = Idle
    /\ permits' = {}
    /\ UNCHANGED <<saved, issued, calls>>

\* An exception leaves invoke (adapter or checkpointer), the runtime object lives on.
Abort ==
    /\ host.pc # "idle"
    /\ crashes < MaxCrashes
    /\ crashes' = crashes + 1
    /\ host' = Idle
    /\ UNCHANGED <<saved, permits, issued, calls>>

\* The graph is compiled again, with an empty permit set.
NewRuntime ==
    /\ host = Idle
    /\ permits # {}
    /\ permits' = {}
    /\ UNCHANGED <<saved, host, issued, calls, crashes>>

System ==
    \/ RunValidate \/ RunReview \/ RunFinalize \/ CommitPrepared
    \/ \E i \in {1, 3, 4} : RunPure(i)
    \/ \E stage \in OpStage :
         RunPrepare(stage) \/ RunExecute(stage) \/ AdapterReturns(stage)

Caller ==
    \/ Start \/ Continue \/ NewRuntime
    \/ \E stage \in OpStage : Reschedule(stage)
    \/ saved # NoCheckpoint /\ \E rev \in {1, Len(saved.revs)},
                               k \in DOMAIN saved.receipts : Retry(rev, k)
    \/ saved # NoCheckpoint /\ \E d \in Decisions(saved) : Resume(d)

Fault == Crash \/ Abort

Next == System \/ Caller \/ Fault

\* invoke runs node after node until the graph pauses or ends; adapters time out.
Spec == Init /\ [][Next]_vars /\ WF_vars(System)

-----------------------------------------------------------------------------
(* Properties.                                                               *)

Committed == saved # NoCheckpoint

\* The checkpoint, the process and the operation ids have their types.
TypeOK ==
    /\ saved \in Checkpoint \cup {NoCheckpoint}
    /\ host \in [pc : {"idle", "run", "call", "prepared"},
                 work : Checkpoint \cup {NoCheckpoint},
                 response : ReviewDecision \cup {NoDecision, Malformed}]
    /\ host.work # NoCheckpoint <=> host.pc = "prepared"
    /\ issued \in Nat /\ crashes \in 0..MaxCrashes
    /\ permits \subseteq 1..issued
    /\ calls \in Seq(1..issued)

\* What the runtime commits, its own validator accepts: no interleaving of nodes,
\* retries, replays and crashes leads to a checkpoint that later restores refuse.
CheckpointValidates == Committed => ValidState(saved)

\* An operation id reaches an adapter once at most, whatever crashes, is replayed
\* or is retried: a second call needs a new attempt.
AtMostOneCall ==
    \A i, j \in DOMAIN calls : calls[i] = calls[j] => i = j

\* An adapter is called only for an attempt whose started receipt is durable.
StartIsDurable ==
    \A i \in DOMAIN calls : Committed /\ calls[i] \in Ops(saved)

\* Once a stage of a revision has succeeded, its output stays the revision's
\* artifact and no further attempt of that stage is recorded.
SuccessIsFinal ==
    Committed =>
    \A j, k \in DOMAIN saved.receipts :
        LET p == saved.receipts[j]  q == saved.receipts[k] IN
        p.status = "succeeded" =>
            /\ saved.revs[p.rev].artifacts[p.stage] = p.output
            /\ (q.rev = p.rev /\ q.stage = p.stage) => k <= j

\* A revision whose decision approves it holds, for every enabled stage, the value its own
\* inputs and its own upstream artifacts give: nothing stale was inherited.
ApprovedIsCurrent ==
    Committed =>
    \A rev \in DOMAIN saved.revs :
        LET r == saved.revs[rev]
            value(i) == saved.artifacts[r.artifacts[i]]
        IN  r.decision # 0 /\ saved.decisions[r.decision].action = "approve" =>
              /\ \A i \in saved.enabled : r.artifacts[i] # 0 /\ value(i).ready
              /\ \A i \in saved.enabled : value(i).basis = SubSeq(r.inputs, 1, i)
              /\ \A i \in saved.enabled \ {1, 2} : value(i).draw = value(2).draw

\* What was decided stays what it was: the inputs, the plan, the decision, the artifacts with
\* their values and the receipts of a decided revision never change again, although its nodes
\* may be replayed, and no revision is added to a thread whose last one is decided.  The
\* exception is the label `status': record_result sets it without a look at the decision, so
\* that a replay marks an approved revision as awaiting review; nothing but the record of a pure
\* node does.
DecidedIsImmutable ==
    [][Committed =>
         /\ \A rev \in DOMAIN saved.revs :
              LET old == saved.revs[rev]  new == saved'.revs[rev]
              IN  old.decision # 0 =>
                    /\ [new EXCEPT !.status = old.status] = old
                    /\ new.status # old.status => saved.next[1] = "pure"
                    /\ saved'.decisions[old.decision] = saved.decisions[old.decision]
                    /\ \A i \in Artifact : old.artifacts[i] # 0 =>
                         saved'.artifacts[old.artifacts[i]] = saved.artifacts[old.artifacts[i]]
                    /\ \A stage \in OpStage :
                         /\ Attempts(saved', rev, stage) = Attempts(saved, rev, stage)
                         /\ \A k \in Attempts(saved, rev, stage) :
                              saved'.receipts[k] = saved.receipts[k]
         /\ Current(saved).decision # 0 => Len(saved'.revs) = Len(saved.revs)]_vars

\* A second attempt follows only an explicit retry of the very attempt before it,
\* which did not succeed; the authorisation is used up by it, and by nothing else.
RetryIsExplicit ==
    [][Committed =>
         LET old == saved.receipts  new == saved'.receipts  q == new[Len(new)]
             before == Attempts(saved, q.rev, q.stage)
         IN  /\ Len(new) > Len(old) =>
                  /\ Len(new) = Len(old) + 1
                  /\ saved'.retryOp = 0
                  /\ IF before = {} THEN saved.retryOp = 0
                     ELSE \E k \in before : /\ \A j \in before : j <= k
                                            /\ old[k].op = saved.retryOp
                                            /\ old[k].status # "succeeded"
             /\ (saved.retryOp # 0 /\ Len(new) = Len(old)) => saved'.retryOp # 0]_vars

\* Every invocation of the graph comes to rest: it pauses for review, ends or dies.
Settles == host.pc # "idle" ~> host.pc = "idle"

=============================================================================
