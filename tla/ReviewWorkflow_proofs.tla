------------------------ MODULE ReviewWorkflow_proofs ------------------------
(***************************************************************************)
(* Theorems about ReviewWorkflow, for every value of the constants.        *)
(*                                                                         *)
(* Part 1: type correctness and the prepare/execute boundary.              *)
(* Part 2: what the ledger of a review thread holds, and that every node   *)
(*         keeps it so.                                                    *)
(* Part 3: what a reviewer decides: checkpoints are valid, a success is    *)
(*         final, an approved revision is current, a decided one does not  *)
(*         change and no attempt is repeated without a retry.              *)
(***************************************************************************)
EXTENDS ReviewWorkflow, FiniteSetTheorems, SequenceTheorems, TLAPS

-----------------------------------------------------------------------------
(* The inductive invariant.                                                  *)

\* Operation ids of the ledger were issued.
LedgerIssued == Committed => Ops(saved) \subseteq 1..issued

\* A prepared result that waits for its commit keeps every receipt.
PreparedKeeps ==
    host.pc = "prepared" => /\ Ops(saved) \subseteq Ops(host.work)
                            /\ Ops(host.work) \subseteq 1..issued

\* A permit is consumed before the adapter is called.
PermitsUnused == \A i \in DOMAIN calls : calls[i] \notin permits

HostHasCheckpoint == host.pc # "idle" => Committed

IInv ==
    /\ TypeOK
    /\ LedgerIssued
    /\ PreparedKeeps
    /\ PermitsUnused
    /\ HostHasCheckpoint
    /\ AtMostOneCall
    /\ StartIsDurable

-----------------------------------------------------------------------------
(* The data.                                                                 *)

LEMMA NoCheckpointIsNone == NoCheckpoint \notin Checkpoint
<1>1. \A s \in Checkpoint : "revs" \in DOMAIN s
  BY DEF Checkpoint
<1>2. "revs" \notin DOMAIN NoCheckpoint
  BY DEF NoCheckpoint
<1>. QED BY <1>1, <1>2

LEMMA NoValueType == NoValue \in Value
  BY DEF NoValue, Value, NoContent

LEMMA NodeTypes ==
    /\ End \in Nodes /\ Review \in Nodes /\ Finalize \in Nodes
    /\ Node("validate_profile", 1) \in Nodes
    /\ \A i \in {1, 3, 4} : Node("pure", i) \in Nodes
    /\ \A i \in OpStage : Node("prepare", i) \in Nodes /\ Node("execute", i) \in Nodes
    /\ \A i \in Nat : StageNode(i) \in Nodes
  BY DEF Nodes, OpStage, StageNode

\* Where the graph goes after a stage is a node.
LEMMA AfterType ==
    ASSUME NEW s, NEW i \in Artifact
    PROVE  After(s, i) \in Nodes
  BY NodeTypes DEF After, Artifact

LEMMA CurrentType ==
    ASSUME NEW s \in Checkpoint
    PROVE  /\ Current(s) \in Revision
           /\ Len(s.revs) \in DOMAIN s.revs
           /\ Len(s.revs) \in Nat
  BY DEF Checkpoint, Current

\* Replacing the current revision keeps the revisions a sequence.
LEMMA SetRevType ==
    ASSUME NEW s \in Checkpoint, NEW r \in Revision
    PROVE  [s.revs EXCEPT ![Len(s.revs)] = r] \in Seq(Revision) \ {<<>>}
  BY CurrentType DEF Checkpoint

\* A pure update that keeps the receipts keeps the operation ids.
LEMMA SameReceipts ==
    ASSUME NEW s, NEW t, s.receipts = t.receipts
    PROVE  Ops(s) = Ops(t)
  BY DEF Ops

-----------------------------------------------------------------------------
(* What each operator makes of a checkpoint: t keeps the type and the ids.   *)

Keeps(s, t) == t \in Checkpoint /\ Ops(t) = Ops(s)

LEMMA BlockKeeps ==
    ASSUME NEW s \in Checkpoint
    PROVE  Keeps(s, Block(s))
<1> DEFINE b == [s EXCEPT !.status = "revision_blocked", !.next = End]
           r == [Current(s) EXCEPT !.status = "blocked"]
<1>1. b \in Checkpoint /\ b.receipts = s.receipts /\ b.revs = s.revs
  BY NodeTypes DEF Checkpoint, Statuses
<1>2. r \in Revision
  BY CurrentType DEF Revision, Statuses
<1>3. SetCurrent(b, r) \in Checkpoint /\ SetCurrent(b, r).receipts = b.receipts
  <2>. HIDE DEF b, r
  <2>1. [b.revs EXCEPT ![Len(b.revs)] = r] \in Seq(Revision) \ {<<>>}
    BY <1>1, <1>2, SetRevType
  <2>2. SetCurrent(b, r) = [b EXCEPT !.revs = [b.revs EXCEPT ![Len(b.revs)] = r]]
    BY DEF SetCurrent
  <2>. QED BY <1>1, <2>1, <2>2 DEF Checkpoint
<1>4. Block(s) \in {b, SetCurrent(b, r)}
  BY DEF Block, SetCurrent
<1>. QED
  BY <1>1, <1>3, <1>4, SameReceipts DEF Keeps

LEMMA RecordKeeps ==
    ASSUME NEW s \in Checkpoint, NEW i \in Artifact, NEW v \in Value,
           NEW status \in Statuses, NEW next \in Nodes
    PROVE  Keeps(s, Record(s, i, v, status, next))
<1> DEFINE r == Current(s)
           new == v # NoValue /\ r.artifacts[i] = 0
           ids == [r.artifacts EXCEPT ![i] = IF new THEN Len(s.artifacts) + 1 ELSE @]
           q == [r EXCEPT !.status = status, !.artifacts = ids]
           t == Record(s, i, v, status, next)
<1>1. q \in Revision
  <2>1. Len(s.artifacts) + 1 \in Nat
    BY DEF Checkpoint
  <2>2. r \in Revision /\ r.artifacts \in [Artifact -> Nat]
    BY CurrentType DEF Revision
  <2>3. ids \in [Artifact -> Nat]
    BY <2>1, <2>2
  <2>. HIDE DEF ids, r
  <2>. QED BY <2>2, <2>3 DEF Revision
<1>2. [s.revs EXCEPT ![Len(s.revs)] = q] \in Seq(Revision) \ {<<>>}
  BY <1>1, SetRevType
<1>3. [s.values EXCEPT ![i] = v] \in [Artifact -> Value]
  BY DEF Checkpoint
<1>4. (IF new THEN Append(s.artifacts, v) ELSE s.artifacts) \in Seq(Value)
  BY DEF Checkpoint
<1>5. t = [s EXCEPT !.values = [s.values EXCEPT ![i] = v],
                    !.artifacts = IF new THEN Append(s.artifacts, v) ELSE s.artifacts,
                    !.revs = [s.revs EXCEPT ![Len(s.revs)] = q],
                    !.status = status,
                    !.next = next]
  BY DEF Record
<1>6. t \in Checkpoint /\ t.receipts = s.receipts
  <2>. HIDE DEF t, q, new
  <2>. QED BY <1>2, <1>3, <1>4, <1>5 DEF Checkpoint
<1>. QED BY <1>6, SameReceipts DEF Keeps

\* The pure values have the type of a value.
LEMMA ValueTypes ==
    ASSUME NEW s \in Checkpoint
    PROVE  /\ Policy(s) \in Value
           /\ \A ready \in BOOLEAN, c \in Contents \cup {NoContent} :
                 Evidence(s, ready, c) \in Value
           /\ Screen(s) \in Value
           /\ Construct(s) \in Value
           /\ Explain(s) \in Value
<1>1. \A c \in Artifact : Current(s).inputs[c] \in Versions
  BY CurrentType DEF Revision
<1>2. \A i \in Artifact : s.values[i] \in Value
  BY DEF Checkpoint
<1>3. Policy(s) \in Value
  BY <1>1 DEF Policy, Value, NoContent, Artifact
<1>4. ASSUME NEW ready \in BOOLEAN, NEW c \in Contents \cup {NoContent}
      PROVE  Evidence(s, ready, c) \in Value
  BY <1>1 DEF Evidence, Value, Artifact
<1>5. Screen(s) \in Value
  BY <1>1, <1>2, NoValueType DEF Screen, Value, Artifact
<1>6. Construct(s) \in Value
  BY <1>1, <1>2 DEF Construct, Value, Artifact
<1>7. Explain(s) \in Value
  BY <1>1, <1>2 DEF Explain, Value, Artifact
<1>. QED BY <1>3, <1>4, <1>5, <1>6, <1>7

LEMMA RecordOrBlockKeeps ==
    ASSUME NEW s \in Checkpoint, NEW i \in Artifact, NEW v \in Value,
           NEW status \in Statuses, NEW next \in Nodes
    PROVE  Keeps(s, RecordOrBlock(s, i, v, status, next))
  BY BlockKeeps, RecordKeeps DEF RecordOrBlock

LEMMA BeginFreshType ==
    ASSUME NEW enabled \in Shapes
    PROVE  BeginFresh(enabled) \in Checkpoint /\ Ops(BeginFresh(enabled)) = {}
<1> DEFINE r == [inputs |-> [c \in Artifact |-> FirstVersion], plan |-> 0,
                 decision |-> 0, artifacts |-> [i \in Artifact |-> 0],
                 status |-> "running"]
           t == BeginFresh(enabled)
<1>1. FirstVersion \in Versions
  BY ConstantsOK DEF FirstVersion
<1>2. r \in Revision
  BY <1>1 DEF Revision, Statuses
<1>3. <<r>> \in Seq(Revision) \ {<<>>}
  <2>. HIDE DEF r
  <2>. QED BY <1>2
<1>4. [i \in Artifact |-> NoValue] \in [Artifact -> Value]
  BY NoValueType
<1>5. t = [next |-> Node("validate_profile", 1), status |-> "profile_validated",
           enabled |-> enabled, revs |-> <<r>>, receipts |-> <<>>, artifacts |-> <<>>,
           decisions |-> <<>>, values |-> [i \in Artifact |-> NoValue],
           review |-> NoDecision, retryOp |-> 0]
  BY DEF BeginFresh
<1>6. t \in Checkpoint /\ t.receipts = <<>>
  <2>. HIDE DEF r, t
  <2>. QED BY <1>3, <1>4, <1>5, NodeTypes DEF Checkpoint, Statuses
<1>. QED BY <1>6 DEF Ops

LEMMA BeginRetryKeeps ==
    ASSUME NEW s \in Checkpoint, NEW rev, NEW stage \in OpStage, NEW op \in Nat
    PROVE  Keeps(s, BeginRetry(s, rev, stage, op))
<1> DEFINE ids == [i \in Artifact |-> IF i >= stage THEN 0 ELSE Current(s).artifacts[i]]
           q == [Current(s) EXCEPT !.artifacts = ids]
           vs == [i \in Artifact |-> IF i >= stage THEN NoValue ELSE s.values[i]]
           t == Cleared(s, stage, op)
<1>1. ids \in [Artifact -> Nat]
  BY CurrentType DEF Revision
<1>2. q \in Revision
  <2>. HIDE DEF ids
  <2>. QED BY <1>1, CurrentType DEF Revision
<1>3. [s.revs EXCEPT ![Len(s.revs)] = q] \in Seq(Revision) \ {<<>>}
  <2>. HIDE DEF q
  <2>. QED BY <1>2, SetRevType
<1>4. vs \in [Artifact -> Value]
  BY NoValueType DEF Checkpoint
<1>5. t = [s EXCEPT !.next = Node("prepare", stage), !.status = "retry_requested",
                    !.retryOp = op, !.values = vs,
                    !.revs = [s.revs EXCEPT ![Len(s.revs)] = q],
                    !.review = NoDecision]
  BY DEF Cleared, Current
<1>6. t \in Checkpoint /\ t.receipts = s.receipts
  <2>. HIDE DEF t, q, vs
  <2>. QED BY <1>3, <1>4, <1>5, NodeTypes DEF Checkpoint, Statuses
<1>7. Keeps(s, t)
  BY <1>6, SameReceipts DEF Keeps
<1>. QED BY <1>7, BlockKeeps DEF BeginRetry

LEMMA ValidateProfileKeeps ==
    ASSUME NEW s \in Checkpoint
    PROVE  Keeps(s, ValidateProfile(s))
<1> DEFINE q == [Current(s) EXCEPT !.status = "profile_validated"]
           vs == [i \in Artifact |-> NoValue]
           t == [s EXCEPT !.values = vs, !.review = NoDecision,
                          !.revs = [s.revs EXCEPT ![Len(s.revs)] = q],
                          !.status = "profile_validated",
                          !.next = Node("pure", 1)]
<1>1. q \in Revision
  BY CurrentType DEF Revision, Statuses
<1>2. [s.revs EXCEPT ![Len(s.revs)] = q] \in Seq(Revision) \ {<<>>}
  <2>. HIDE DEF q
  <2>. QED BY <1>1, SetRevType
<1>3. vs \in [Artifact -> Value]
  BY NoValueType
<1>4. t \in Checkpoint /\ t.receipts = s.receipts
  <2>. HIDE DEF q, vs
  <2>. QED BY <1>2, <1>3, NodeTypes DEF Checkpoint, Statuses
<1>5. Keeps(s, t)
  BY <1>4, SameReceipts DEF Keeps
<1>6. ValidateProfile(s) \in {t, Block(s)}
  BY DEF ValidateProfile, Current
<1>. QED BY <1>5, <1>6, BlockKeeps

LEMMA PureKeeps ==
    ASSUME NEW s \in Checkpoint, NEW i \in {1, 3, 4}
    PROVE  Keeps(s, Pure(s, i))
<1> DEFINE v == CASE i = 1 -> Policy(s) [] i = 3 -> Screen(s) [] i = 4 -> Construct(s)
           blocked == IF i = 3 THEN "screening_blocked" ELSE "construction_blocked"
<1>1. v \in Value
  BY ValueTypes
<1>2. i \in Artifact /\ After(s, i) \in Nodes /\ End \in Nodes
  BY AfterType, NodeTypes DEF Artifact
<1>3. blocked \in Statuses /\ "awaiting_human_review" \in Statuses
  BY DEF Statuses, Blocked
<1>4. Pure(s, i) \in {RecordOrBlock(s, i, v, "awaiting_human_review", After(s, i)),
                     RecordOrBlock(s, i, v, blocked, End)}
  BY DEF Pure
<1>. QED
  <2>. HIDE DEF v, blocked
  <2>. QED BY <1>1, <1>2, <1>3, <1>4, RecordOrBlockKeeps

\* An attempt is a receipt: the ledger is finite, so its number is a natural.
LEMMA AttemptType ==
    ASSUME NEW s \in Checkpoint, NEW stage \in OpStage, NEW op \in Nat
    PROVE  Attempt(s, stage, op) \in OperationReceipt
<1>1. Cardinality(Prior(s, stage)) + 1 \in Nat
  <2>1. s.receipts \in Seq(OperationReceipt)
    BY DEF Checkpoint
  <2>2. IsFiniteSet(1..Len(s.receipts)) /\ DOMAIN s.receipts = 1..Len(s.receipts)
    BY <2>1, FS_Interval
  <2>3. IsFiniteSet(Prior(s, stage))
    BY <2>2, FS_Subset DEF Prior, Attempts
  <2>. QED BY <2>3, FS_CardinalityType
<1>2. OperationInput(s, Len(s.revs), stage) \in OperationInputs
  BY CurrentType DEF OperationInput, OperationInputs, Current, Revision, Artifact
<1>. QED
  BY <1>1, <1>2, CurrentType DEF Attempt, OperationReceipt

LEMMA StartedType ==
    ASSUME NEW s \in Checkpoint, NEW stage \in OpStage, NEW op \in Nat
    PROVE  /\ Started(s, stage, op) \in Checkpoint
           /\ Ops(Started(s, stage, op)) = Ops(s) \cup {op}
<1> DEFINE a == Attempt(s, stage, op)
           t == Started(s, stage, op)
<1>1. a \in OperationReceipt /\ a.op = op
  BY AttemptType DEF Attempt
<1>2. t = [s EXCEPT !.receipts = Append(s.receipts, a), !.retryOp = 0,
                    !.status = "operation_prepared", !.next = Node("execute", stage)]
  BY DEF Started
<1>4. s.receipts \in Seq(OperationReceipt)
  BY DEF Checkpoint
<1>3. t \in Checkpoint /\ t.receipts = Append(s.receipts, a)
  <2>. HIDE DEF t, a
  <2>1. Append(s.receipts, a) \in Seq(OperationReceipt)
    BY <1>1, <1>4
  <2>2. Node("execute", stage) \in Nodes
    BY NodeTypes
  <2>. QED BY <1>2, <2>1, <2>2 DEF Checkpoint, Statuses
<1>5. Ops(t) = Ops(s) \cup {op}
  <2>. HIDE DEF t, a
  <2>1. Len(t.receipts) = Len(s.receipts) + 1
    BY <1>1, <1>3, <1>4
  <2>2. \A k \in DOMAIN s.receipts : t.receipts[k] = s.receipts[k]
    BY <1>1, <1>3, <1>4
  <2>3. t.receipts[Len(s.receipts) + 1] = a
    BY <1>1, <1>3, <1>4
  <2>4. DOMAIN t.receipts = DOMAIN s.receipts \cup {Len(s.receipts) + 1}
    BY <1>1, <1>3, <1>4
  <2>. QED BY <1>1, <2>2, <2>3, <2>4 DEF Ops
<1>. QED BY <1>3, <1>5

LEMMA ReusedKeeps ==
    ASSUME NEW s \in Checkpoint, NEW stage \in OpStage
    PROVE  Keeps(s, Reused(s, stage)) /\ Keeps(s, Replayed(s, stage))
<1>1. stage \in Artifact
  BY DEF OpStage, Artifact
<1>2. Reused(s, stage) \in Checkpoint /\ Reused(s, stage).receipts = s.receipts
  BY NodeTypes DEF Reused, Checkpoint, Statuses
<1>3. Replayed(s, stage) \in Checkpoint /\ Replayed(s, stage).receipts = s.receipts
  BY <1>1, AfterType DEF Replayed, Checkpoint, Statuses
<1>. QED BY <1>2, <1>3, SameReceipts DEF Keeps

\* Resolving an attempt changes what became of it, never its id.
LEMMA ResolveKeeps ==
    ASSUME NEW s \in Checkpoint, NEW k \in DOMAIN s.receipts,
           NEW status \in {"succeeded", "failed"}, NEW output \in Nat
    PROVE  Keeps(s, Resolve(s, k, status, output))
<1> DEFINE q == [s.receipts[k] EXCEPT !.status = status, !.output = output]
           rs == [s.receipts EXCEPT ![k] = q]
           t == Resolve(s, k, status, output)
<1>1. s.receipts \in Seq(OperationReceipt) /\ s.receipts[k] \in OperationReceipt
  BY DEF Checkpoint
<1>2. q \in OperationReceipt /\ q.op = s.receipts[k].op
  BY <1>1 DEF OperationReceipt
<1>3. rs \in Seq(OperationReceipt) /\ DOMAIN rs = DOMAIN s.receipts
  <2>. HIDE DEF q
  <2>. QED BY <1>1, <1>2
<1>4. t = [s EXCEPT !.receipts = rs]
  BY <1>1 DEF Resolve
<1>5. t \in Checkpoint /\ t.receipts = rs
  <2>. HIDE DEF t, rs
  <2>. QED BY <1>3, <1>4 DEF Checkpoint
<1>6. \A j \in DOMAIN s.receipts : rs[j].op = s.receipts[j].op
  <2>. HIDE DEF q
  <2>. QED BY <1>1, <1>2
<1>7. Ops(t) = Ops(s)
  <2>. HIDE DEF t, rs
  <2>. QED BY <1>3, <1>5, <1>6 DEF Ops
<1>. QED BY <1>5, <1>7 DEF Keeps

LEMMA SucceededKeeps ==
    ASSUME NEW s \in Checkpoint, NEW stage \in OpStage, NEW k \in DOMAIN s.receipts,
           NEW v \in Value
    PROVE  Keeps(s, Succeeded(s, stage, k, v))
<1> DEFINE id == Len(s.artifacts) + 1
           ids == [Current(s).artifacts EXCEPT ![stage] = id]
           q == [Current(s) EXCEPT !.artifacts = ids, !.status = "awaiting_human_review"]
           t == [s EXCEPT !.artifacts = Append(s.artifacts, v),
                          !.values = [s.values EXCEPT ![stage] = v],
                          !.revs = [s.revs EXCEPT ![Len(s.revs)] = q],
                          !.status = "awaiting_human_review",
                          !.next = After(s, stage)]
<1>1. stage \in Artifact /\ id \in Nat
  BY DEF OpStage, Artifact, Checkpoint
<1>2. ids \in [Artifact -> Nat]
  <2>. HIDE DEF id
  <2>. QED BY <1>1, CurrentType DEF Revision
<1>3. q \in Revision
  <2>. HIDE DEF ids
  <2>. QED BY <1>2, CurrentType DEF Revision, Statuses
<1>4. [s.revs EXCEPT ![Len(s.revs)] = q] \in Seq(Revision) \ {<<>>}
  <2>. HIDE DEF q
  <2>. QED BY <1>3, SetRevType
<1>5. Append(s.artifacts, v) \in Seq(Value)
      /\ [s.values EXCEPT ![stage] = v] \in [Artifact -> Value]
  BY <1>1 DEF Checkpoint
<1>6. t \in Checkpoint /\ t.receipts = s.receipts
  <2>. HIDE DEF q
  <2>. QED BY <1>1, <1>4, <1>5, AfterType DEF Checkpoint, Statuses
<1>7. Succeeded(s, stage, k, v) = Resolve(t, k, "succeeded", id)
  BY DEF Succeeded
<1>. HIDE DEF t, id
<1>8. Keeps(t, Resolve(t, k, "succeeded", id))
  BY <1>1, <1>6, ResolveKeeps
<1>. QED BY <1>6, <1>7, <1>8, SameReceipts DEF Keeps

LEMMA FailedKeeps ==
    ASSUME NEW s \in Checkpoint, NEW stage \in OpStage, NEW k \in DOMAIN s.receipts,
           NEW v \in Value
    PROVE  Keeps(s, Failed(s, stage, k, v))
<1> DEFINE blocked == IF stage = 2 THEN "evidence_blocked" ELSE "explanation_blocked"
           t == Record(s, stage, v, blocked, End)
<1>1. stage \in Artifact /\ blocked \in Statuses /\ End \in Nodes
  BY NodeTypes DEF OpStage, Artifact, Statuses, Blocked
<1>2. Keeps(s, t) /\ t.receipts = s.receipts
  <2>1. Keeps(s, t)
    BY <1>1, RecordKeeps
  <2>2. t.receipts = s.receipts
    BY DEF Record, Checkpoint
  <2>. QED BY <2>1, <2>2
<1>3. Keeps(t, Resolve(t, k, "failed", 0))
  <2>. HIDE DEF t
  <2>. QED BY <1>2, ResolveKeeps DEF Keeps
<1>4. Failed(s, stage, k, v) \in {Block(s), Resolve(t, k, "failed", 0)}
  BY DEF Failed
<1>. QED
  <2>. HIDE DEF t
  <2>. QED BY <1>2, <1>3, <1>4, BlockKeeps DEF Keeps

LEMMA ReviewedKeeps ==
    ASSUME NEW s \in Checkpoint, NEW d \in ReviewDecision
    PROVE  Keeps(s, Reviewed(s, d))
<1>1. Reviewed(s, d) \in Checkpoint /\ Reviewed(s, d).receipts = s.receipts
  BY NodeTypes DEF Reviewed, Checkpoint, Statuses
<1>. QED BY <1>1, SameReceipts DEF Keeps

\* Feedback that is not empty has an earliest class.
LEMMA PlanIndexType ==
    ASSUME NEW d \in ReviewDecision, d.feedback # {}
    PROVE  PlanIndex(d) \in d.feedback /\ PlanIndex(d) \in Artifact
<1>1. d.feedback \subseteq Artifact
  BY DEF ReviewDecision
<1>2. \E i \in d.feedback : \A j \in d.feedback : i <= j
  BY <1>1 DEF Artifact
<1>. QED BY <1>1, <1>2 DEF PlanIndex

LEMMA BoundType ==
    ASSUME NEW s \in Checkpoint, NEW d \in ReviewDecision, NEW outcome \in Statuses
    PROVE  /\ Bound(s, d, outcome) \in Checkpoint
           /\ Bound(s, d, outcome).receipts = s.receipts
<1> DEFINE q == [Current(s) EXCEPT !.decision = d.id, !.status = outcome]
           t == Bound(s, d, outcome)
<1>1. q \in Revision
  BY CurrentType DEF Revision, ReviewDecision
<1>2. [s.revs EXCEPT ![Len(s.revs)] = q] \in Seq(Revision) \ {<<>>}
  <2>. HIDE DEF q
  <2>. QED BY <1>1, SetRevType
<1>3. Append(s.decisions, d) \in Seq(ReviewDecision)
  BY DEF Checkpoint
<1>4. t = [s EXCEPT !.decisions = Append(s.decisions, d),
                    !.revs = [s.revs EXCEPT ![Len(s.revs)] = q],
                    !.review = d]
  BY DEF Bound
<1>5. t \in Checkpoint /\ t.receipts = s.receipts
  <2>. HIDE DEF t, q
  <2>. QED BY <1>2, <1>3, <1>4 DEF Checkpoint
<1>. QED BY <1>5

LEMMA ChildKeeps ==
    ASSUME NEW s \in Checkpoint, NEW d \in ReviewDecision, d.feedback # {}
    PROVE  Keeps(s, Child(s, d))
<1> DEFINE index == PlanIndex(d)
           outcome == IF d.action = "reject" THEN "rejected" ELSE "revised"
           b == Bound(s, d, outcome)
           ids == [i \in Artifact |-> IF i < index THEN Current(s).artifacts[i] ELSE 0]
           r == [inputs |-> PlannedInputs(s, d), plan |-> index, decision |-> 0,
                 status |-> "running", artifacts |-> ids]
           vs == [i \in Artifact |-> IF i < index THEN b.values[i] ELSE NoValue]
           t == Child(s, d)
<1>1. index \in Artifact
  BY PlanIndexType
<1>2. b \in Checkpoint /\ b.receipts = s.receipts
  BY BoundType DEF Statuses
<1>3. ids \in [Artifact -> Nat]
  <2>. HIDE DEF index
  <2>. QED BY CurrentType DEF Revision
<1>4. PlannedInputs(s, d) \in [Artifact -> Versions]
  BY CurrentType DEF PlannedInputs, Revision, ReviewDecision
<1>5. r \in Revision
  <2>. HIDE DEF index, ids
  <2>1. index \in 0..5
    BY <1>1 DEF Artifact
  <2>. QED BY <1>3, <1>4, <2>1 DEF Revision, Statuses
<1>6. Append(b.revs, r) \in Seq(Revision) \ {<<>>}
  <2>. HIDE DEF b, r
  <2>1. b.revs \in Seq(Revision)
    BY <1>2 DEF Checkpoint
  <2>2. Append(b.revs, r) \in Seq(Revision) /\ Len(Append(b.revs, r)) # 0
    BY <1>5, <2>1
  <2>. QED BY <2>2
<1>7. vs \in [Artifact -> Value]
  <2>. HIDE DEF b, index
  <2>. QED BY <1>2, NoValueType DEF Checkpoint
<1>8. StageNode(index) \in Nodes
  BY <1>1, NodeTypes DEF Artifact
<1>9. t = [b EXCEPT !.revs = Append(b.revs, r), !.values = vs,
                    !.review = NoDecision, !.status = "revision_planned",
                    !.next = StageNode(index)]
  BY DEF Child
<1>10. t \in Checkpoint /\ t.receipts = b.receipts
  <2>. HIDE DEF t, b, r, vs, index
  <2>. QED BY <1>2, <1>6, <1>7, <1>8, <1>9 DEF Checkpoint, Statuses
<1>11. t.receipts = s.receipts
  <2>. HIDE DEF t, b
  <2>. QED BY <1>2, <1>10
<1>. QED BY <1>10, <1>11, SameReceipts DEF Keeps

LEMMA DecideKeeps ==
    ASSUME NEW s \in Checkpoint
    PROVE  Keeps(s, Decide(s))
<1> DEFINE d == s.review
<1>1. CASE ~Binds(s, d)
  BY <1>1, BlockKeeps DEF Decide
<1>2. CASE Binds(s, d)
  <2>1. d \in ReviewDecision
    <3>1. d.id = Len(s.decisions) + 1 /\ Len(s.decisions) \in Nat
      BY <1>2 DEF Binds, Checkpoint
    <3>2. d \in ReviewDecision \cup {NoDecision}
      BY DEF Checkpoint
    <3>. HIDE DEF d
    <3>. QED BY <3>1, <3>2 DEF NoDecision
  <2>2. CASE d.disposition = "revise"
    <3>1. d.feedback # {}
      BY <1>2, <2>2 DEF Binds, Plannable
    <3>. QED BY <1>2, <2>1, <2>2, <3>1, ChildKeeps DEF Decide
  <2>3. CASE d.disposition # "revise"
    <3> DEFINE outcome == IF d.action = "approve" THEN "approved" ELSE "rejected"
               t == [Bound(s, d, outcome) EXCEPT !.status = outcome, !.next = End]
    <3>1. outcome \in Statuses /\ End \in Nodes
      BY NodeTypes DEF Statuses
    <3>2. Bound(s, d, outcome) \in Checkpoint
          /\ Bound(s, d, outcome).receipts = s.receipts
      <4>. HIDE DEF outcome, d
      <4>. QED BY <2>1, <3>1, BoundType
    <3>3. Decide(s) = t
      BY <1>2, <2>3 DEF Decide, Closed
    <3>4. t \in Checkpoint /\ t.receipts = s.receipts
      <4>. HIDE DEF outcome, d
      <4>. QED BY <3>1, <3>2 DEF Checkpoint
    <3>. QED BY <3>3, <3>4, SameReceipts DEF Keeps
  <2>. QED BY <2>2, <2>3
<1>. QED BY <1>1, <1>2

-----------------------------------------------------------------------------
(* Every step preserves the invariant.                                       *)

\* The commit of a checkpoint that holds every called operation.
LEMMA CommitStep ==
    ASSUME IInv, NEW t \in Checkpoint, Commit(t),
           Ops(t) \subseteq 1..issued,
           \A i \in DOMAIN calls : calls[i] \in Ops(t),
           permits' \subseteq permits,
           UNCHANGED <<issued, calls, crashes>>
    PROVE  IInv'
<1>1. saved' = t /\ saved' # NoCheckpoint
  BY NoCheckpointIsNone DEF Commit
<1>2. /\ host'.pc \in {"idle", "run"} /\ host'.work = NoCheckpoint
      /\ host'.response = NoDecision
      /\ host' \in [pc : {"idle", "run", "call", "prepared"},
                    work : Checkpoint \cup {NoCheckpoint},
                    response : ReviewDecision \cup {NoDecision, Malformed}]
  BY DEF Commit, Idle, Running
<1>3. TypeOK'
  BY <1>1, <1>2 DEF IInv, TypeOK
<1>. QED
  BY <1>1, <1>2, <1>3
  DEF IInv, LedgerIssued, PreparedKeeps, PermitsUnused, HostHasCheckpoint, AtMostOneCall,
      StartIsDurable, Committed

\* A node whose result keeps the ledger's ids.
LEMMA KeepStep ==
    ASSUME IInv, Committed, NEW t, Keeps(saved, t), Commit(t),
           permits' \subseteq permits,
           UNCHANGED <<issued, calls, crashes>>
    PROVE  IInv'
<1>1. t \in Checkpoint /\ Ops(t) = Ops(saved)
  BY DEF Keeps
<1>2. Ops(t) \subseteq 1..issued
  BY <1>1 DEF IInv, LedgerIssued
<1>3. \A i \in DOMAIN calls : calls[i] \in Ops(t)
  BY <1>1 DEF IInv, StartIsDurable
<1>. QED BY <1>1, <1>2, <1>3, CommitStep

\* The host stops or starts over the same checkpoint.
LEMMA HostStep ==
    ASSUME IInv, Committed,
           NEW d \in ReviewDecision \cup {NoDecision, Malformed},
           host' \in {Idle, Running(d)},
           crashes' \in 0..MaxCrashes, permits' \subseteq permits,
           UNCHANGED <<saved, issued, calls>>
    PROVE  IInv'
<1>1. /\ host'.pc \in {"idle", "run"} /\ host'.work = NoCheckpoint
      /\ host' \in [pc : {"idle", "run", "call", "prepared"},
                    work : Checkpoint \cup {NoCheckpoint},
                    response : ReviewDecision \cup {NoDecision, Malformed}]
  BY DEF Idle, Running
<1>2. TypeOK'
  BY <1>1 DEF IInv, TypeOK
<1>. QED
  BY <1>1, <1>2
  DEF IInv, LedgerIssued, PreparedKeeps, PermitsUnused, HostHasCheckpoint, AtMostOneCall,
      StartIsDurable, Committed

LEMMA ElementType ==
    ASSUME NEW S, NEW q \in Seq(S)
    PROVE  \A i \in DOMAIN q : q[i] \in S
  OBVIOUS

LEMMA CommittedType ==
    ASSUME IInv, Committed
    PROVE  /\ saved \in Checkpoint
           /\ \A k \in DOMAIN saved.receipts :
                /\ saved.receipts[k] \in OperationReceipt
                /\ saved.receipts[k].op \in Ops(saved)
                /\ saved.receipts[k].op \in 1..issued
<1>1. saved \in Checkpoint
  BY DEF IInv, TypeOK, Committed
<1>. QED BY <1>1 DEF IInv, LedgerIssued, Ops, Checkpoint

LEMMA DecisionsType ==
    ASSUME NEW s \in Checkpoint, NEW d \in Decisions(s)
    PROVE  d \in ReviewDecision \cup {NoDecision, Malformed}
<1>1. FirstVersion \in Versions
  BY ConstantsOK DEF FirstVersion
<1>2. Len(s.decisions) + 1 \in Nat /\ Len(s.revs) \in Nat
  BY DEF Checkpoint
<1>3. Feedback \subseteq SUBSET Artifact
  BY ConstantsOK DEF Artifact
<1>4. CASE d = Malformed
  BY <1>4
<1> DEFINE approvals ==
             [id : {1, Len(s.decisions) + 1}, rev : {1, Len(s.revs)},
              action : {"approve"}, disposition : {"none"}, feedback : {{}},
              version : {FirstVersion}, admissible : BOOLEAN]
           closes ==
             [id : {Len(s.decisions) + 1}, rev : {Len(s.revs)},
              action : {"reject"}, disposition : {"close"}, feedback : {{}},
              version : {FirstVersion}, admissible : {TRUE}]
           revision(f, v) ==
             [id |-> Len(s.decisions) + 1, rev |-> Len(s.revs),
              action |-> IF f \in RejectedWith THEN "reject" ELSE "edit",
              disposition |-> "revise", feedback |-> f, version |-> v,
              admissible |-> TRUE]
           revisions ==
             IF Len(s.revs) = MaxRevisions THEN {} ELSE
             {revision(f, v) : f \in Feedback, v \in Versions \ {FirstVersion}}
<1>5. CASE d \in approvals
  BY <1>1, <1>2, <1>5 DEF ReviewDecision
<1>6. CASE d \in closes
  BY <1>1, <1>2, <1>6 DEF ReviewDecision
<1>7. ASSUME NEW f \in Feedback, NEW v \in Versions
      PROVE  revision(f, v) \in ReviewDecision
  BY <1>2, <1>3, <1>7 DEF ReviewDecision
<1>8. CASE d \in revisions
  <2>. HIDE DEF revision
  <2>. QED BY <1>7, <1>8
<1>9. Decisions(s) = {Malformed} \cup approvals \cup closes \cup revisions
  BY DEF Decisions
<1>. HIDE DEF approvals, closes, revisions
<1>. QED BY <1>4, <1>5, <1>6, <1>8, <1>9

LEMMA InitIInv == Init => IInv
  BY ConstantsOK
  DEF Init, IInv, TypeOK, Idle, LedgerIssued, PreparedKeeps, PermitsUnused,
      HostHasCheckpoint, AtMostOneCall, StartIsDurable, Committed, NoDecision

LEMMA RunPrepareStep ==
    ASSUME IInv, NEW stage \in OpStage, RunPrepare(stage)
    PROVE  IInv'
<1>1. Committed /\ saved \in Checkpoint
  BY CommittedType DEF RunPrepare, At, IInv, HostHasCheckpoint
<1>2. CASE MayReuse(saved, stage) /\ Commit(Reused(saved, stage))
           /\ UNCHANGED <<permits, issued>>
  BY <1>1, <1>2, ReusedKeeps, KeepStep DEF RunPrepare
<1>3. CASE Commit(Block(saved)) /\ UNCHANGED <<permits, issued>>
  BY <1>1, <1>3, BlockKeeps, KeepStep DEF RunPrepare
<1>4. CASE /\ issued' = issued + 1 /\ permits' = permits \cup {issued'}
           /\ host' = Preparing(Started(saved, stage, issued'))
           /\ saved' = saved
  <2> DEFINE t == Started(saved, stage, issued')
  <2>1. issued' \in Nat /\ 1..issued \subseteq 1..issued' /\ issued' \in 1..issued'
        /\ issued' \notin 1..issued
    BY <1>4 DEF IInv, TypeOK
  <2>2. t \in Checkpoint /\ Ops(t) = Ops(saved) \cup {issued'}
    BY <1>1, <2>1, StartedType
  <2>. HIDE DEF t
  <2>3. /\ host'.pc = "prepared" /\ host'.work = t /\ t # NoCheckpoint
        /\ host' \in [pc : {"idle", "run", "call", "prepared"},
                      work : Checkpoint \cup {NoCheckpoint},
                      response : ReviewDecision \cup {NoDecision, Malformed}]
    BY <1>4, <2>2, NoCheckpointIsNone DEF Preparing, t
  <2>4. calls' = calls /\ crashes' = crashes
    BY DEF RunPrepare
  <2>5. calls \in Seq(1..issued) /\ calls \in Seq(1..issued')
    BY <2>1 DEF IInv, TypeOK
  <2>6. TypeOK'
    BY <1>4, <2>1, <2>3, <2>4, <2>5 DEF IInv, TypeOK
  <2>7. LedgerIssued' /\ PreparedKeeps'
    <3>1. Ops(saved)' = Ops(saved) /\ Ops(saved) \subseteq 1..issued
      BY <1>1, <1>4 DEF IInv, LedgerIssued, Ops
    <3>2. Ops(saved)' \subseteq Ops(t) /\ Ops(t) \subseteq 1..issued'
      BY <2>1, <2>2, <3>1
    <3>3. Ops(host.work)' = Ops(t)
      BY <2>3 DEF Ops
    <3>. QED BY <2>1, <3>1, <3>2, <3>3 DEF LedgerIssued, PreparedKeeps
  <2>8. PermitsUnused'
    <3>1. \A i \in DOMAIN calls : calls[i] \in 1..issued
      BY <2>5, ElementType
    <3>. QED BY <1>4, <2>1, <2>4, <3>1 DEF IInv, PermitsUnused
  <2>9. HostHasCheckpoint' /\ AtMostOneCall' /\ StartIsDurable'
    BY <1>1, <1>4, <2>4
    DEF IInv, HostHasCheckpoint, AtMostOneCall, StartIsDurable, Committed, Ops
  <2>. QED BY <2>6, <2>7, <2>8, <2>9 DEF IInv
<1>. QED BY <1>2, <1>3, <1>4 DEF RunPrepare

\* The permit that is consumed belongs to a committed receipt and to no earlier call.
LEMMA RunExecuteStep ==
    ASSUME IInv, NEW stage \in OpStage, RunExecute(stage)
    PROVE  IInv'
<1>1. Committed /\ saved \in Checkpoint
  BY CommittedType DEF RunExecute, At, IInv, HostHasCheckpoint
<1>2. CASE Commit(Replayed(saved, stage)) /\ UNCHANGED <<permits, calls>>
  BY <1>1, <1>2, ReusedKeeps, KeepStep DEF RunExecute
<1>3. CASE Commit(Block(saved)) /\ UNCHANGED <<permits, calls>>
  BY <1>1, <1>3, BlockKeeps, KeepStep DEF RunExecute
<1>4. ASSUME NEW k \in Latest(saved, stage), MayExecute(saved, stage, k, permits),
             permits' = permits \ {saved.receipts[k].op},
             \/ /\ calls' = Append(calls, saved.receipts[k].op)
                /\ host' = [host EXCEPT !.pc = "call"]
                /\ saved' = saved
             \/ /\ calls' = calls
                /\ Commit(Failed(saved, stage, k, NoValue))
      PROVE  IInv'
  <2> DEFINE op == saved.receipts[k].op
  <2>1. k \in DOMAIN saved.receipts
    BY <1>4 DEF Latest, Prior, Attempts
  <2>2. op \in Ops(saved) /\ op \in 1..issued /\ op \in permits
    BY <1>1, <1>4, <2>1, CommittedType DEF MayExecute
  <2>3. UNCHANGED <<issued, crashes>>
    BY DEF RunExecute
  <2>4. CASE calls' = calls /\ Commit(Failed(saved, stage, k, NoValue))
    BY <1>1, <1>4, <2>1, <2>3, <2>4, NoValueType, FailedKeeps, KeepStep
  <2>5. CASE /\ calls' = Append(calls, op)
             /\ host' = [host EXCEPT !.pc = "call"]
             /\ saved' = saved
    <3>. HIDE DEF op
    <3>1. calls \in Seq(1..issued) /\ calls' \in Seq(1..issued)
      BY <2>2, <2>5 DEF IInv, TypeOK
    <3>2. /\ \A i \in DOMAIN calls : calls'[i] = calls[i]
          /\ calls'[Len(calls) + 1] = op
          /\ DOMAIN calls' = DOMAIN calls \cup {Len(calls) + 1}
          /\ Len(calls) + 1 \notin DOMAIN calls
      BY <2>2, <2>5, <3>1
    <3>3. \A i \in DOMAIN calls : calls[i] # op
      BY <2>2 DEF IInv, PermitsUnused
    <3>4. host.pc = "run" /\ host.work = NoCheckpoint /\ host'.pc = "call"
          /\ host'.work = NoCheckpoint
          /\ host' \in [pc : {"idle", "run", "call", "prepared"},
                        work : Checkpoint \cup {NoCheckpoint},
                        response : ReviewDecision \cup {NoDecision, Malformed}]
      BY <2>5 DEF IInv, TypeOK, RunExecute, At
    <3>5. TypeOK'
      BY <1>4, <2>3, <2>5, <3>1, <3>4 DEF IInv, TypeOK
    <3>6. LedgerIssued' /\ PreparedKeeps' /\ HostHasCheckpoint'
      BY <1>1, <2>3, <2>5, <3>4
      DEF IInv, LedgerIssued, PreparedKeeps, HostHasCheckpoint, Committed, Ops
    <3>7. PermitsUnused'
      BY <1>4, <3>2, <3>3 DEF IInv, PermitsUnused, op
    <3>8. AtMostOneCall'
      BY <3>2, <3>3 DEF IInv, AtMostOneCall
    <3>9. StartIsDurable'
      BY <1>1, <2>2, <2>5, <3>2 DEF IInv, StartIsDurable, Committed, Ops
    <3>. QED BY <3>5, <3>6, <3>7, <3>8, <3>9 DEF IInv
  <2>. QED BY <1>4, <2>4, <2>5
<1>. QED BY <1>2, <1>3, <1>4 DEF RunExecute

LEMMA AdapterReturnsStep ==
    ASSUME IInv, NEW stage \in OpStage, AdapterReturns(stage)
    PROVE  IInv'
<1>1. Committed /\ saved \in Checkpoint
  BY CommittedType DEF AdapterReturns, IInv, HostHasCheckpoint
<1>2. UNCHANGED <<permits, issued, calls, crashes>>
  BY DEF AdapterReturns
<1>3. PICK k \in Latest(saved, stage) :
        \/ \E v \in IF stage = 2 THEN {Evidence(saved, TRUE, c) : c \in Contents}
                                  ELSE {Explain(saved)} :
              Commit(Succeeded(saved, stage, k, v))
        \/ \E v \in IF stage = 2 THEN {NoValue, Evidence(saved, FALSE, NoContent)}
                                  ELSE {NoValue} :
              Commit(Failed(saved, stage, k, v))
        \/ Commit(Block(saved))
  BY DEF AdapterReturns
<1>4. k \in DOMAIN saved.receipts
  BY DEF Latest, Prior, Attempts
<1>5. \A v \in IF stage = 2 THEN {Evidence(saved, TRUE, c) : c \in Contents}
                            ELSE {Explain(saved)} : v \in Value
  BY <1>1, ValueTypes
<1>6. \A v \in IF stage = 2 THEN {NoValue, Evidence(saved, FALSE, NoContent)}
                            ELSE {NoValue} : v \in Value
  BY <1>1, ValueTypes, NoValueType
<1>7. ASSUME NEW v \in Value, Commit(Succeeded(saved, stage, k, v))
      PROVE  IInv'
  BY <1>1, <1>2, <1>4, <1>7, SucceededKeeps, KeepStep
<1>8. ASSUME NEW v \in Value, Commit(Failed(saved, stage, k, v))
      PROVE  IInv'
  BY <1>1, <1>2, <1>4, <1>8, FailedKeeps, KeepStep
<1>9. CASE Commit(Block(saved))
  BY <1>1, <1>2, <1>9, BlockKeeps, KeepStep
<1>. QED BY <1>3, <1>5, <1>6, <1>7, <1>8, <1>9

LEMMA SystemStep ==
    ASSUME IInv, System
    PROVE  IInv'
<1>1. CASE RunValidate
  BY <1>1, CommittedType, ValidateProfileKeeps, KeepStep
  DEF RunValidate, At, IInv, HostHasCheckpoint
<1>2. ASSUME NEW i \in {1, 3, 4}, RunPure(i)
      PROVE  IInv'
  BY <1>2, CommittedType, PureKeeps, KeepStep DEF RunPure, At, IInv, HostHasCheckpoint
<1>3. CASE RunReview
  <2>1. Committed /\ saved \in Checkpoint /\ UNCHANGED <<permits, issued, calls, crashes>>
    BY <1>3, CommittedType DEF RunReview, At, IInv, HostHasCheckpoint
  <2>2. CASE Commit(Block(saved))
    BY <2>1, <2>2, BlockKeeps, KeepStep
  <2>3. CASE host' = Idle /\ saved' = saved
    BY <2>1, <2>3, HostStep DEF IInv, TypeOK
  <2>4. CASE host.response \notin {NoDecision, Malformed}
             /\ Commit(Reviewed(saved, host.response))
    <3>1. host.response \in ReviewDecision
      BY <2>4 DEF IInv, TypeOK
    <3>. QED BY <2>1, <2>4, <3>1, ReviewedKeeps, KeepStep
  <2>. QED BY <1>3, <2>2, <2>3, <2>4 DEF RunReview
<1>4. CASE RunFinalize
  BY <1>4, CommittedType, DecideKeeps, KeepStep DEF RunFinalize, At, IInv, HostHasCheckpoint
<1>5. CASE CommitPrepared
  <2>1. host.work \in Checkpoint /\ Committed
    BY <1>5 DEF CommitPrepared, IInv, TypeOK, HostHasCheckpoint
  <2>2. Ops(host.work) \subseteq 1..issued
    BY <1>5 DEF CommitPrepared, IInv, PreparedKeeps
  <2>3. \A i \in DOMAIN calls : calls[i] \in Ops(host.work)
    BY <1>5 DEF CommitPrepared, IInv, PreparedKeeps, StartIsDurable
  <2>. QED BY <1>5, <2>1, <2>2, <2>3, CommitStep DEF CommitPrepared
<1>. QED
  BY <1>1, <1>2, <1>3, <1>4, <1>5, RunPrepareStep, RunExecuteStep, AdapterReturnsStep
  DEF System

LEMMA CallerStep ==
    ASSUME IInv, Caller
    PROVE  IInv'
<1>1. CASE Start
  <2>1. PICK enabled \in Shapes : Commit(BeginFresh(enabled))
    BY <1>1 DEF Start
  <2>2. \A i \in DOMAIN calls : FALSE
    BY <1>1 DEF Start, IInv, StartIsDurable, Committed
  <2>. QED BY <1>1, <2>1, <2>2, BeginFreshType, CommitStep DEF Start
<1>2. ASSUME saved # NoCheckpoint, NEW rev, NEW k \in DOMAIN saved.receipts, Retry(rev, k)
      PROVE  IInv'
  <2>1. Committed /\ saved \in Checkpoint /\ saved.receipts[k] \in OperationReceipt
    BY <1>2, CommittedType DEF Committed
  <2>2. saved.receipts[k].stage \in OpStage /\ saved.receipts[k].op \in Nat
    BY <2>1 DEF OperationReceipt
  <2>. QED BY <1>2, <2>1, <2>2, BeginRetryKeeps, KeepStep DEF Retry
<1>3. ASSUME saved # NoCheckpoint, NEW d \in Decisions(saved), Resume(d)
      PROVE  IInv'
  <2>1. Committed /\ saved \in Checkpoint
    BY <1>3, CommittedType DEF Committed
  <2>2. d \in ReviewDecision \cup {NoDecision, Malformed}
    BY <1>3, <2>1, DecisionsType
  <2>. QED BY <1>3, <2>1, <2>2, HostStep DEF Resume, IInv, TypeOK
<1>4. CASE Continue
  BY <1>4, HostStep DEF Continue, Committed, IInv, TypeOK
<1>5. CASE NewRuntime
  <2>1. CASE Committed
    BY <1>5, <2>1, HostStep DEF NewRuntime, IInv, TypeOK
  <2>2. CASE ~Committed
    <3>1. \A i \in DOMAIN calls : FALSE
      BY <2>2 DEF IInv, StartIsDurable
    <3>2. UNCHANGED <<saved, host, issued, calls, crashes>> /\ permits' = {}
      BY <1>5 DEF NewRuntime
    <3>. QED
      BY <2>2, <3>1, <3>2
      DEF IInv, TypeOK, LedgerIssued, PreparedKeeps, PermitsUnused, HostHasCheckpoint,
          AtMostOneCall, StartIsDurable, Committed, Ops
  <2>. QED BY <2>1, <2>2
<1>6. ASSUME NEW stage \in OpStage, Reschedule(stage)
      PROVE  IInv'
  <2> DEFINE t == [saved EXCEPT !.next = Node("execute", stage)]
  <2>1. Committed /\ saved \in Checkpoint
    BY <1>6, CommittedType DEF Reschedule, Committed
  <2>2. t \in Checkpoint /\ t.receipts = saved.receipts
    BY <2>1, NodeTypes DEF Checkpoint
  <2>3. Ops(t) = Ops(saved)
    BY <2>2, SameReceipts
  <2>4. saved' = t /\ UNCHANGED <<host, permits, issued, calls, crashes>> /\ host = Idle
    BY <1>6 DEF Reschedule
  <2>. HIDE DEF t
  <2>5. TypeOK'
    BY <2>2, <2>4 DEF IInv, TypeOK
  <2>6. Committed'
    BY <2>2, <2>4, NoCheckpointIsNone DEF Committed
  <2>7. Ops(saved)' = Ops(saved) /\ Ops(saved) \subseteq 1..issued
    BY <2>1, <2>3, <2>4 DEF IInv, LedgerIssued, Ops
  <2>8. LedgerIssued' /\ HostHasCheckpoint' /\ StartIsDurable'
    BY <2>4, <2>6, <2>7 DEF IInv, LedgerIssued, HostHasCheckpoint, StartIsDurable
  <2>9. PreparedKeeps' /\ PermitsUnused' /\ AtMostOneCall'
    BY <2>4 DEF IInv, PreparedKeeps, PermitsUnused, AtMostOneCall, Idle
  <2>. QED BY <2>5, <2>8, <2>9 DEF IInv
<1>. QED BY <1>1, <1>2, <1>3, <1>4, <1>5, <1>6 DEF Caller

LEMMA FaultStep ==
    ASSUME IInv, Fault
    PROVE  IInv'
<1>1. Committed
  BY DEF Fault, Crash, Abort, IInv, HostHasCheckpoint
<1>2. crashes' \in 0..MaxCrashes /\ permits' \subseteq permits /\ host' = Idle
      /\ UNCHANGED <<saved, issued, calls>>
  BY ConstantsOK DEF Fault, Crash, Abort, IInv, TypeOK
<1>. QED BY <1>1, <1>2, HostStep

LEMMA NextIInv ==
    ASSUME IInv, [Next]_vars
    PROVE  IInv'
<1>1. CASE UNCHANGED vars
  <2>1. UNCHANGED <<saved, host, permits, issued, calls, crashes>>
    BY <1>1 DEF vars
  <2>2. TypeOK'
    BY <2>1 DEF IInv, TypeOK
  <2>3. LedgerIssued' /\ PreparedKeeps'
    BY <2>1 DEF IInv, LedgerIssued, PreparedKeeps, Committed, Ops
  <2>4. PermitsUnused' /\ HostHasCheckpoint' /\ AtMostOneCall' /\ StartIsDurable'
    BY <2>1
    DEF IInv, PermitsUnused, HostHasCheckpoint, AtMostOneCall, StartIsDurable, Committed, Ops
  <2>. QED BY <2>2, <2>3, <2>4 DEF IInv
<1>. QED BY <1>1, SystemStep, CallerStep, FaultStep DEF Next

LEMMA Inductive == Spec => []IInv
  BY InitIInv, NextIInv, PTL DEF Spec

-----------------------------------------------------------------------------
(* The theorems.                                                             *)

\* The checkpoint, the host, the permits and the ids keep their types: graph/revision.py
\* and domain/revision.py never commit a malformed ledger.
THEOREM TypeCorrect == Spec => []TypeOK
<1>1. IInv => TypeOK
  BY DEF IInv
<1>. QED BY <1>1, Inductive, PTL

\* The one-use permits of RevisionRuntime: however the process crashes, is aborted, is
\* replaced or replays an execute node, no operation id is given to an adapter twice.
THEOREM OneCallPerOperation == Spec => []AtMostOneCall
<1>1. IInv => AtMostOneCall
  BY DEF IInv
<1>. QED BY <1>1, Inductive, PTL

\* prepare writes the started receipt before execute calls the adapter: every call that
\* was ever made has its receipt in the committed ledger.
THEOREM CallsHaveReceipts == Spec => []StartIsDurable
<1>1. IInv => StartIsDurable
  BY DEF IInv
<1>. QED BY <1>1, Inductive, PTL

-----------------------------------------------------------------------------
(* PART 2.  The ledger.                                                      *)

(* The inductive invariant: what holds of a committed checkpoint s.          *)

\* The last attempt of a stage in a revision; Latest is that of the current one.
Last(s, rev, stage) ==
    {k \in Attempts(s, rev, stage) : \A j \in Attempts(s, rev, stage) : j <= k}

\* An attempt belongs to a revision that runs its stage.
AttemptsOwned(s) ==
    \A k \in DOMAIN s.receipts :
        LET q == s.receipts[k]
        IN  /\ q.rev \in DOMAIN s.revs /\ q.stage \in s.enabled
            /\ s.revs[q.rev].plan <= q.stage

\* Nothing follows a retrieval that has not succeeded.
DownstreamWaits(s) ==
    \A rev \in DOMAIN s.revs : \A k \in Last(s, rev, 2) :
        s.receipts[k].status # "succeeded" =>
            /\ Attempts(s, rev, 5) = {}
            /\ \A i \in 3..5 : s.revs[rev].artifacts[i] = 0

\* An attempt that is under way has left no artifact.
StartedIsOpen(s) ==
    \A rev \in DOMAIN s.revs : \A stage \in OpStage : \A k \in Last(s, rev, stage) :
        s.receipts[k].status = "started" => s.revs[rev].artifacts[stage] = 0

\* SuccessIsFinal.
SuccessKept(s) ==
    \A j, k \in DOMAIN s.receipts :
        LET p == s.receipts[j]  q == s.receipts[k] IN
        p.status = "succeeded" =>
            /\ s.revs[p.rev].artifacts[p.stage] = p.output
            /\ (q.rev = p.rev /\ q.stage = p.stage) => k <= j

\* A screening that the current revision made would be made again.
ScreenedHere(s) ==
    Current(s).artifacts[3] # 0 /\ Current(s).plan <= 3 => s.values[3] = Screen(s)

\* An explanation was drafted over the revision's construction and its own inputs.
Explained(s) ==
    \A rev \in DOMAIN s.revs :
        LET r == s.revs[rev] IN
        r.artifacts[5] # 0 =>
            /\ r.artifacts[4] # 0
            /\ s.artifacts[r.artifacts[5]].ready
            /\ s.artifacts[r.artifacts[5]].basis
                   = Append(s.artifacts[r.artifacts[4]].basis, r.inputs[5])

\* Only a decided revision is approved or rejected.
DecisionsMade(s) ==
    \A rev \in DOMAIN s.revs :
        /\ s.revs[rev].decision \in 0..Len(s.decisions)
        /\ s.revs[rev].decision = 0 => s.revs[rev].status \notin {"approved", "rejected"}

\* ApprovedIsCurrent, of every decided revision: a decision is made for what can be reviewed.
ApprovalsCurrent(s) ==
    \A rev \in DOMAIN s.revs :
        LET r == s.revs[rev]
            value(i) == s.artifacts[r.artifacts[i]]
        IN  r.decision # 0 =>
              /\ \A i \in s.enabled : r.artifacts[i] # 0 /\ value(i).ready
              /\ \A i \in s.enabled : value(i).basis = SubSeq(r.inputs, 1, i)
              /\ \A i \in s.enabled \ {1, 2} : value(i).draw = value(2).draw

\* What the routes guarantee to the node that is next.  An execute node may be next whatever
\* became of its stage, and lead a decided revision through the nodes that follow it.
RouteIsSound(s) ==
    LET r == Current(s) IN
    /\ s.next \in {Node("validate_profile", 1), Node("pure", 1), Node("prepare", 2)} =>
          r.decision = 0
    /\ \A i \in Artifact : s.next[2] = i /\ s.next # Node("execute", i) =>
          i \in s.enabled /\ r.plan <= i
    /\ s.next = Node("validate_profile", 1) => r.artifacts[1] = 0
    /\ s.next \in {Node("validate_profile", 1), Node("pure", 1), Node("prepare", 2)} =>
          Prior(s, 5) = {} /\ \A i \in 2..5 : r.artifacts[i] = 0
    /\ s.next \in {Node("pure", 3), Node("pure", 4), Node("prepare", 5)} =>
          \A k \in Latest(s, 2) : s.receipts[k].status = "succeeded"
    /\ s.next = Finalize => Reviewable(s)

Ledger(s) ==
    /\ s \in Checkpoint
    /\ ValidState(s)
    /\ AttemptsOwned(s) /\ DownstreamWaits(s) /\ StartedIsOpen(s) /\ SuccessKept(s)
    /\ ScreenedHere(s) /\ Explained(s) /\ DecisionsMade(s) /\ ApprovalsCurrent(s)
    /\ RouteIsSound(s)

\* What a process that is between two commits may rely on.
HostKnows ==
    /\ host.pc = "prepared" =>
         \E stage \in OpStage :
            /\ saved.next = Node("prepare", stage) /\ MayAttempt(saved, stage)
            /\ issued \notin Ops(saved) /\ host.work = Started(saved, stage, issued)
    /\ host.pc = "call" =>
         \E stage \in OpStage :
            /\ saved.next = Node("execute", stage)
            /\ \A k \in Latest(saved, stage) : saved.receipts[k].status = "started"

LInv ==
    /\ IInv
    /\ Committed => Ledger(saved)
    /\ HostKnows

-----------------------------------------------------------------------------
(* The parts of a checkpoint.                                                *)

LEMMA Parts ==
    ASSUME NEW s \in Checkpoint
    PROVE  /\ Len(s.revs) \in Nat \ {0} /\ DOMAIN s.revs = 1..Len(s.revs)
           /\ Len(s.revs) \in DOMAIN s.revs /\ Current(s) = s.revs[Len(s.revs)]
           /\ \A rev \in DOMAIN s.revs : s.revs[rev] \in Revision
           /\ Len(s.receipts) \in Nat /\ DOMAIN s.receipts = 1..Len(s.receipts)
           /\ \A k \in DOMAIN s.receipts : s.receipts[k] \in OperationReceipt
           /\ Len(s.artifacts) \in Nat /\ DOMAIN s.artifacts = 1..Len(s.artifacts)
           /\ \A i \in DOMAIN s.artifacts : s.artifacts[i] \in Value
           /\ Len(s.decisions) \in Nat /\ DOMAIN s.decisions = 1..Len(s.decisions)
           /\ \A d \in DOMAIN s.decisions : s.decisions[d] \in ReviewDecision
           /\ s.values \in [Artifact -> Value] /\ s.enabled \in Shapes
<1>1. /\ s.revs \in Seq(Revision) /\ s.revs # <<>>
      /\ s.receipts \in Seq(OperationReceipt) /\ s.artifacts \in Seq(Value)
      /\ s.decisions \in Seq(ReviewDecision)
      /\ s.values \in [Artifact -> Value] /\ s.enabled \in Shapes
  BY DEF Checkpoint
<1>2. /\ Len(s.revs) \in Nat \ {0} /\ DOMAIN s.revs = 1..Len(s.revs)
      /\ Len(s.revs) \in DOMAIN s.revs
  BY <1>1
<1>3. /\ \A rev \in DOMAIN s.revs : s.revs[rev] \in Revision
      /\ \A k \in DOMAIN s.receipts : s.receipts[k] \in OperationReceipt
      /\ \A i \in DOMAIN s.artifacts : s.artifacts[i] \in Value
      /\ \A d \in DOMAIN s.decisions : s.decisions[d] \in ReviewDecision
  BY <1>1, ElementType, Zenon
<1>. QED BY <1>1, <1>2, <1>3 DEF Current

\* What a revision and an attempt are made of.
LEMMA RevisionParts ==
    ASSUME NEW r \in Revision
    PROVE  /\ r.inputs \in [Artifact -> Versions] /\ r.plan \in 0..5 /\ r.decision \in Nat
           /\ r.artifacts \in [Artifact -> Nat] /\ r.status \in Statuses
  BY DEF Revision

LEMMA ReceiptParts ==
    ASSUME NEW q \in OperationReceipt
    PROVE  /\ q.op \in Nat /\ q.rev \in Nat /\ q.stage \in OpStage /\ q.attempt \in Nat
           /\ q.status \in {"started", "succeeded", "failed"} /\ q.output \in Nat
  BY DEF OperationReceipt

-----------------------------------------------------------------------------
(* How one committed checkpoint follows another.                             *)

Prefix(p, q) == \A i \in DOMAIN p : i \in DOMAIN q /\ q[i] = p[i]

\* An attempt stays as it is, or fails.
ReceiptFollows(p, q) ==
    \/ q = p
    \/ /\ q.op = p.op /\ q.rev = p.rev /\ q.stage = p.stage
       /\ q.attempt = p.attempt /\ q.input = p.input
       /\ p.status = "started" /\ q.status = "failed"

\* A revision keeps its inputs, its plan and its artifacts; what it does not have yet may be
\* added, except that a success has rules of its own.
RevFollows(s, t, rev) ==
    LET p == s.revs[rev]  q == t.revs[rev] IN
    /\ rev \in DOMAIN s.revs /\ rev \in DOMAIN t.revs
    /\ q.inputs = p.inputs /\ q.plan = p.plan
    /\ \A i \in Artifact : q.artifacts[i] # p.artifacts[i] =>
          /\ p.artifacts[i] = 0 /\ i # 5 /\ i \in s.enabled /\ p.plan <= i
          /\ q.artifacts[i] \in DOMAIN t.artifacts
          /\ i = 2 => /\ ~t.artifacts[q.artifacts[2]].ready
                      /\ \A k \in Last(s, rev, 2) : t.receipts[k].status # "started"
          /\ i \in {3, 4} => \A k \in Last(s, rev, 2) : s.receipts[k].status = "succeeded"
    /\ q.decision # p.decision =>
          q.decision \in DOMAIN t.decisions /\ t.decisions[q.decision].rev = rev
    /\ q.decision = 0 => q.status \notin {"approved", "rejected"}
    /\ p.decision # 0 => q.artifacts = p.artifacts /\ q.decision = p.decision
    /\ \A stage \in OpStage :
          /\ Attempts(t, rev, stage) = Attempts(s, rev, stage)
          /\ \A k \in Attempts(s, rev, stage) :
                /\ ReceiptFollows(s.receipts[k], t.receipts[k])
                /\ p.decision # 0 => t.receipts[k] = s.receipts[k]

\* The same revision, but for its status.
SameButStatus(p, q) ==
    /\ q.inputs = p.inputs /\ q.plan = p.plan
    /\ q.artifacts = p.artifacts /\ q.decision = p.decision

\* The thread keeps what was decided.
Evolves(s, t) ==
    /\ Prefix(s.decisions, t.decisions) /\ Prefix(s.artifacts, t.artifacts)
    /\ \A rev \in DOMAIN s.revs : s.revs[rev].decision # 0 =>
          /\ rev \in DOMAIN t.revs /\ t.revs[rev] \in Revision
          /\ SameButStatus(s.revs[rev], t.revs[rev])
          /\ t.revs[rev].status # s.revs[rev].status => s.next[1] = "pure"
          /\ \A stage \in OpStage :
                /\ Attempts(t, rev, stage) = Attempts(s, rev, stage)
                /\ \A k \in Attempts(s, rev, stage) : t.receipts[k] = s.receipts[k]
    /\ Current(s).decision # 0 => Len(t.revs) = Len(s.revs)

\* The decided revision of ApprovalsCurrent.
ApprovedRev(s, rev) ==
    LET r == s.revs[rev]
        value(i) == s.artifacts[r.artifacts[i]]
    IN  /\ \A i \in s.enabled : r.artifacts[i] # 0 /\ value(i).ready
        /\ \A i \in s.enabled : value(i).basis = SubSeq(r.inputs, 1, i)
        /\ \A i \in s.enabled \ {1, 2} : value(i).draw = value(2).draw

\* What Ledger says of one revision.
RevSound(s, rev) ==
    LET r == s.revs[rev] IN
    /\ RevisionValid(s, rev)
    /\ \A k \in Last(s, rev, 2) : s.receipts[k].status # "succeeded" =>
          /\ Attempts(s, rev, 5) = {}
          /\ \A i \in 3..5 : r.artifacts[i] = 0
    /\ \A stage \in OpStage : \A k \in Last(s, rev, stage) :
          s.receipts[k].status = "started" => r.artifacts[stage] = 0
    /\ \A stage \in OpStage : \A k \in Attempts(s, rev, stage) :
          s.receipts[k].status = "succeeded" =>
             /\ r.artifacts[stage] = s.receipts[k].output
             /\ \A j \in Attempts(s, rev, stage) : j <= k
    /\ r.artifacts[5] # 0 =>
          /\ r.artifacts[4] # 0
          /\ s.artifacts[r.artifacts[5]].ready
          /\ s.artifacts[r.artifacts[5]].basis
                 = Append(s.artifacts[r.artifacts[4]].basis, r.inputs[5])
    /\ r.decision \in 0..Len(s.decisions)
    /\ r.decision = 0 => r.status \notin {"approved", "rejected"}
    /\ r.decision # 0 => ApprovedRev(s, rev)

\* What it says of the attempts, and of the current state.
AttemptsSound(s) ==
    /\ AttemptsOwned(s)
    /\ ReceiptOrder(s)
    /\ \A i, j \in DOMAIN s.receipts : s.receipts[i].op = s.receipts[j].op => i = j

CurrentSound(s) ==
    /\ \A d \in DOMAIN s.decisions : \E r \in DOMAIN s.revs : s.revs[r].decision = d
    /\ \A i \in Artifact :
         s.values[i] = IF Current(s).artifacts[i] = 0
                       THEN NoValue ELSE s.artifacts[Current(s).artifacts[i]]
    /\ Current(s).decision # 0 => s.review = s.decisions[Current(s).decision]
    /\ ScreenedHere(s)

\* The ledger revision by revision.
LEMMA ByRevision ==
    ASSUME NEW s \in Checkpoint
    PROVE  Ledger(s) <=> /\ \A rev \in DOMAIN s.revs : RevSound(s, rev)
                         /\ AttemptsSound(s) /\ CurrentSound(s) /\ RouteIsSound(s)
<1>1. ASSUME \A rev \in DOMAIN s.revs : RevSound(s, rev), AttemptsSound(s)
      PROVE  SuccessKept(s)
  <2> SUFFICES ASSUME NEW j \in DOMAIN s.receipts, NEW k \in DOMAIN s.receipts,
                      s.receipts[j].status = "succeeded"
               PROVE  /\ s.revs[s.receipts[j].rev].artifacts[s.receipts[j].stage]
                             = s.receipts[j].output
                      /\ s.receipts[k].rev = s.receipts[j].rev
                           /\ s.receipts[k].stage = s.receipts[j].stage => k <= j
    BY DEF SuccessKept
  <2>1. s.receipts[j].rev \in DOMAIN s.revs /\ s.receipts[j].stage \in OpStage
    BY <1>1, Parts, ReceiptParts DEF AttemptsSound, AttemptsOwned
  <2>2. j \in Attempts(s, s.receipts[j].rev, s.receipts[j].stage)
    BY DEF Attempts
  <2>3. s.receipts[k].rev = s.receipts[j].rev /\ s.receipts[k].stage = s.receipts[j].stage
          => k \in Attempts(s, s.receipts[j].rev, s.receipts[j].stage)
    BY DEF Attempts
  <2> DEFINE rev == s.receipts[j].rev   stage == s.receipts[j].stage
  <2>4. RevSound(s, rev)
    BY <1>1, <2>1
  <2>. HIDE DEF rev, stage
  <2>5. \A i \in Attempts(s, rev, stage) : s.receipts[i].status = "succeeded" =>
           /\ s.revs[rev].artifacts[stage] = s.receipts[i].output
           /\ \A h \in Attempts(s, rev, stage) : h <= i
    <3>1. stage \in OpStage
      BY <2>1 DEF stage
    <3>. QED BY <2>4, <3>1, Zenon DEF RevSound
  <2>. QED BY <2>2, <2>3, <2>5 DEF rev, stage
<1>2. ASSUME SuccessKept(s), NEW rev, NEW stage, NEW k \in Attempts(s, rev, stage),
             s.receipts[k].status = "succeeded"
      PROVE  /\ s.revs[rev].artifacts[stage] = s.receipts[k].output
             /\ \A j \in Attempts(s, rev, stage) : j <= k
  BY <1>2 DEF SuccessKept, Attempts
<1>3. ASSUME \A rev \in DOMAIN s.revs : RevSound(s, rev),
             AttemptsSound(s), CurrentSound(s), RouteIsSound(s)
      PROVE  Ledger(s)
  <2>1. ValidState(s)
    BY <1>3 DEF ValidState, RevSound, AttemptsSound, CurrentSound
  <2>2. DownstreamWaits(s) /\ StartedIsOpen(s) /\ Explained(s) /\ DecisionsMade(s)
    BY <1>3 DEF RevSound, DownstreamWaits, StartedIsOpen, Explained, DecisionsMade
  <2>3. ApprovalsCurrent(s)
    BY <1>3 DEF RevSound, ApprovalsCurrent, ApprovedRev
  <2>. QED BY <1>1, <1>3, <2>1, <2>2, <2>3 DEF Ledger, AttemptsSound, CurrentSound
<1>4. ASSUME Ledger(s), NEW rev \in DOMAIN s.revs
      PROVE  RevSound(s, rev)
  <2>1. RevisionValid(s, rev)
    BY <1>4 DEF Ledger, ValidState
  <2>2. s.revs[rev].decision # 0 => ApprovedRev(s, rev)
    BY <1>4 DEF Ledger, ApprovalsCurrent, ApprovedRev
  <2>3. \A stage \in OpStage : \A k \in Attempts(s, rev, stage) :
          s.receipts[k].status = "succeeded" =>
             /\ s.revs[rev].artifacts[stage] = s.receipts[k].output
             /\ \A j \in Attempts(s, rev, stage) : j <= k
    BY <1>2, <1>4 DEF Ledger
  <2>4. /\ \A k \in Last(s, rev, 2) : s.receipts[k].status # "succeeded" =>
             /\ Attempts(s, rev, 5) = {}
             /\ \A i \in 3..5 : s.revs[rev].artifacts[i] = 0
        /\ \A stage \in OpStage : \A k \in Last(s, rev, stage) :
             s.receipts[k].status = "started" => s.revs[rev].artifacts[stage] = 0
    BY <1>4 DEF Ledger, DownstreamWaits, StartedIsOpen
  <2>5. /\ s.revs[rev].artifacts[5] # 0 =>
             /\ s.revs[rev].artifacts[4] # 0
             /\ s.artifacts[s.revs[rev].artifacts[5]].ready
             /\ s.artifacts[s.revs[rev].artifacts[5]].basis
                    = Append(s.artifacts[s.revs[rev].artifacts[4]].basis, s.revs[rev].inputs[5])
        /\ s.revs[rev].decision \in 0..Len(s.decisions)
        /\ s.revs[rev].decision = 0 => s.revs[rev].status \notin {"approved", "rejected"}
    BY <1>4 DEF Ledger, Explained, DecisionsMade
  <2>. QED BY <2>1, <2>2, <2>3, <2>4, <2>5 DEF RevSound
<1>5. ASSUME Ledger(s) PROVE AttemptsSound(s) /\ CurrentSound(s) /\ RouteIsSound(s)
  BY <1>5 DEF Ledger, AttemptsSound, CurrentSound, ValidState
<1>. QED BY <1>3, <1>4, <1>5

LEMMA ShapeFacts ==
    ASSUME NEW enabled \in Shapes
    PROVE  /\ \A i \in enabled : i \in Artifact
           /\ \A i \in enabled \ {1, 2} : 2 \in enabled
           /\ 1 \in enabled
           /\ \A i, j \in Artifact : j \in enabled /\ i < j => i + 1 \in enabled
           /\ 2 \in enabled => 3 \in enabled /\ 4 \in enabled
           /\ 5 \in enabled => 2 \in enabled
<1>1. CASE enabled = {1}
  BY <1>1 DEF Artifact
<1>2. CASE enabled = 1..4
  BY <1>2 DEF Artifact
<1>3. CASE enabled = 1..5
  BY <1>3 DEF Artifact
<1>. QED BY <1>1, <1>2, <1>3 DEF Shapes

\* A revision stays sound while it only follows.
LEMMA RevSoundKept ==
    ASSUME NEW s \in Checkpoint, NEW t \in Checkpoint, Ledger(s), t.enabled = s.enabled,
           Prefix(s.artifacts, t.artifacts), Prefix(s.decisions, t.decisions),
           NEW rev \in DOMAIN s.revs,
           RevFollows(s, t, rev), rev > 1 => RevFollows(s, t, rev - 1),
           t.revs[rev].decision # 0 => s.revs[rev].decision # 0 \/ ApprovedRev(t, rev)
    PROVE  RevSound(t, rev)
<1> DEFINE p == s.revs[rev]   q == t.revs[rev]
<1>1. RevSound(s, rev) /\ RevisionValid(s, rev)
  BY ByRevision DEF RevSound
<1>2. /\ rev \in DOMAIN t.revs /\ p \in Revision /\ q \in Revision
      /\ rev \in Nat /\ DOMAIN s.revs = 1..Len(s.revs) /\ Len(s.revs) \in Nat
  BY Parts DEF RevFollows
<1>3. /\ q.inputs = p.inputs /\ q.plan = p.plan
      /\ q.decision # p.decision =>
            q.decision \in DOMAIN t.decisions /\ t.decisions[q.decision].rev = rev
      /\ q.decision = 0 => q.status \notin {"approved", "rejected"}
  BY DEF RevFollows
<1>4. \A i \in Artifact : q.artifacts[i] # p.artifacts[i] =>
          /\ p.artifacts[i] = 0 /\ i # 5 /\ i \in s.enabled /\ p.plan <= i
          /\ q.artifacts[i] \in DOMAIN t.artifacts
          /\ i = 2 => /\ ~t.artifacts[q.artifacts[2]].ready
                      /\ \A k \in Last(s, rev, 2) : t.receipts[k].status # "started"
          /\ i \in {3, 4} => \A k \in Last(s, rev, 2) : s.receipts[k].status = "succeeded"
  BY DEF RevFollows
<1>5. \A stage \in OpStage :
          /\ Attempts(t, rev, stage) = Attempts(s, rev, stage)
          /\ Last(t, rev, stage) = Last(s, rev, stage)
          /\ \A k \in Attempts(s, rev, stage) : ReceiptFollows(s.receipts[k], t.receipts[k])
  BY DEF RevFollows, Last
<1>6. \A i \in Artifact : p.artifacts[i] # 0 =>
          /\ q.artifacts[i] = p.artifacts[i] /\ i \in s.enabled
          /\ p.artifacts[i] \in DOMAIN s.artifacts /\ p.artifacts[i] \in DOMAIN t.artifacts
          /\ t.artifacts[p.artifacts[i]] = s.artifacts[p.artifacts[i]]
  BY <1>1, <1>4 DEF RevisionValid, Prefix
<1>7. rev > 1 => /\ SameButStatus(s.revs[rev - 1], t.revs[rev - 1])
                 /\ s.revs[rev - 1].decision # 0
                 /\ s.revs[rev - 1].decision \in DOMAIN s.decisions
                 /\ t.decisions[s.revs[rev - 1].decision] = s.decisions[s.revs[rev - 1].decision]
  <2> SUFFICES ASSUME rev > 1
               PROVE  /\ SameButStatus(s.revs[rev - 1], t.revs[rev - 1])
                      /\ s.revs[rev - 1].decision # 0
                      /\ s.revs[rev - 1].decision \in DOMAIN s.decisions
                      /\ t.decisions[s.revs[rev - 1].decision]
                             = s.decisions[s.revs[rev - 1].decision]
    OBVIOUS
  <2>1. s.revs[rev - 1].decision # 0
    BY <1>1 DEF RevisionValid
  <2>2. rev - 1 \in DOMAIN s.revs
    BY <1>2
  <2>3. s.revs[rev - 1].decision \in 0..Len(s.decisions)
    BY <2>2, ByRevision DEF RevSound
  <2>4. s.revs[rev - 1].decision \in DOMAIN s.decisions
    BY <2>1, <2>3, Parts
  <2>. QED BY <2>1, <2>4 DEF RevFollows, Prefix, SameButStatus
<1>8. \A stage \in OpStage : \A k \in Attempts(s, rev, stage) :
         LET a == s.receipts[k]  b == t.receipts[k]
         IN  /\ b.attempt = a.attempt /\ b.input = a.input
             /\ b.status = "succeeded" \/ a.status = "succeeded" => b = a
             /\ b.status = "started" => a.status = "started"
  BY <1>5 DEF ReceiptFollows
<1>. HIDE DEF p, q
<1>9. ASSUME NEW stage \in OpStage, NEW k \in Attempts(s, rev, stage)
      PROVE  OperationInput(t, rev, stage) = OperationInput(s, rev, stage)
  <2>1. CASE stage = 2
    BY <1>3, <2>1 DEF OperationInput, p, q
  <2>2. CASE stage = 5
    <3>1. \A i \in 1..4 : p.artifacts[i] # 0
      BY <1>1, <1>9, <2>2 DEF RevisionValid, ReceiptsValid, p
    <3>2. \A i \in 1..4 : q.artifacts[i] = p.artifacts[i]
      BY <1>6, <3>1 DEF Artifact
    <3>. QED BY <1>3, <2>2, <3>2 DEF OperationInput, p, q
  <2>. QED BY <2>1, <2>2 DEF OpStage
<1>10. ASSUME NEW stage \in OpStage
       PROVE  ReceiptsValid(t, rev, stage)
  <2> SUFFICES ASSUME NEW k \in Attempts(s, rev, stage)
               PROVE  LET b == t.receipts[k] IN
                      /\ b.attempt = Cardinality({j \in Attempts(s, rev, stage) : j <= k})
                      /\ stage = 5 => \A i \in 1..4 : q.artifacts[i] # 0
                      /\ b.input = OperationInput(t, rev, stage)
                      /\ b.status = "succeeded" => /\ \A j \in Attempts(s, rev, stage) : j <= k
                                                   /\ b.output \in DOMAIN t.artifacts
    BY <1>5 DEF ReceiptsValid, q
  <2>1. ReceiptsValid(s, rev, stage)
    BY <1>1 DEF RevisionValid
  <2>2. stage = 5 => \A i \in 1..4 : q.artifacts[i] # 0
    <3> SUFFICES ASSUME stage = 5, NEW i \in 1..4 PROVE q.artifacts[i] # 0
      OBVIOUS
    <3>1. p.artifacts[i] # 0
      BY <2>1 DEF ReceiptsValid, p
    <3>2. i \in Artifact
      BY DEF Artifact
    <3>. QED BY <1>6, <3>1, <3>2
  <2>3. t.receipts[k].attempt = Cardinality({j \in Attempts(s, rev, stage) : j <= k})
    BY <1>8, <2>1 DEF ReceiptsValid
  <2>4. t.receipts[k].input = OperationInput(t, rev, stage)
    BY <1>8, <1>9, <2>1 DEF ReceiptsValid
  <2>5. t.receipts[k].status = "succeeded" =>
           /\ \A j \in Attempts(s, rev, stage) : j <= k
           /\ t.receipts[k].output \in DOMAIN t.artifacts
    BY <1>8, <2>1 DEF ReceiptsValid, Prefix
  <2>. QED BY <2>2, <2>3, <2>4, <2>5
<1>11. ASSUME NEW stage \in OpStage
       PROVE  SideEffectProven(t, rev, stage)
  <2> SUFFICES ASSUME q.artifacts[stage] # 0, t.artifacts[q.artifacts[stage]].ready
               PROVE  IF rev > 1 /\ stage < q.plan
                      THEN q.artifacts[stage] = t.revs[rev - 1].artifacts[stage]
                      ELSE \E k \in Attempts(t, rev, stage) :
                              /\ t.receipts[k].status = "succeeded"
                              /\ t.receipts[k].output = q.artifacts[stage]
    BY DEF SideEffectProven, q
  <2>1. stage \in Artifact
    BY DEF OpStage, Artifact
  <2>2. q.artifacts[stage] = p.artifacts[stage]
    BY <1>4, <2>1 DEF OpStage
  <2>3. s.artifacts[p.artifacts[stage]].ready /\ p.artifacts[stage] # 0
    BY <1>6, <2>1, <2>2
  <2>4. IF rev > 1 /\ stage < p.plan
        THEN p.artifacts[stage] = s.revs[rev - 1].artifacts[stage]
        ELSE \E k \in Attempts(s, rev, stage) :
                /\ s.receipts[k].status = "succeeded"
                /\ s.receipts[k].output = p.artifacts[stage]
    BY <1>1, <2>3 DEF RevisionValid, SideEffectProven, p
  <2>5. CASE rev > 1 /\ stage < p.plan
    BY <1>3, <1>7, <2>2, <2>4, <2>5 DEF SameButStatus
  <2>6. CASE ~(rev > 1 /\ stage < p.plan)
    BY <1>3, <1>5, <1>8, <2>2, <2>4, <2>6
  <2>. QED BY <2>5, <2>6
<1>12. RevisionValid(t, rev)
  <2>1. rev = 1 => q.plan = 0
    BY <1>1, <1>3 DEF RevisionValid, p
  <2>2. rev > 1 =>
          LET parent == t.revs[rev - 1] IN
          /\ parent.decision # 0
          /\ LET d == t.decisions[parent.decision] IN
             /\ q.plan = PlanIndex(d)
             /\ q.inputs = [c \in Artifact |-> IF c \in d.feedback THEN d.version
                                               ELSE parent.inputs[c]]
          /\ \A i \in Artifact :
               i < q.plan /\ q.artifacts[i] # 0 => q.artifacts[i] = parent.artifacts[i]
    <3> SUFFICES ASSUME rev > 1
                 PROVE  LET parent == s.revs[rev - 1] IN
                        /\ parent.decision # 0
                        /\ LET d == s.decisions[parent.decision] IN
                           /\ q.plan = PlanIndex(d)
                           /\ q.inputs = [c \in Artifact |-> IF c \in d.feedback THEN d.version
                                                             ELSE parent.inputs[c]]
                        /\ \A i \in Artifact :
                             i < q.plan /\ q.artifacts[i] # 0
                                 => q.artifacts[i] = parent.artifacts[i]
      BY <1>7 DEF SameButStatus
    <3>1. \A i \in Artifact : i < p.plan /\ q.artifacts[i] # 0 => q.artifacts[i] = p.artifacts[i]
      <4>1. p.plan \in 0..5
        BY <1>2, RevisionParts
      <4>. QED BY <1>4, <4>1 DEF Artifact
    <3>. QED BY <1>1, <1>3, <3>1 DEF RevisionValid, p
  <2>3. q.decision # 0 => t.decisions[q.decision].rev = rev
    <3>1. CASE q.decision # p.decision
      BY <1>3, <3>1
    <3>2. CASE q.decision = p.decision /\ q.decision # 0
      <4>1. p.decision \in DOMAIN s.decisions
        <5>1. p.decision \in 0..Len(s.decisions)
          BY <1>1 DEF RevSound, p
        <5>. QED BY <3>2, <5>1, Parts
      <4>2. s.decisions[p.decision].rev = rev
        BY <1>1, <3>2 DEF RevisionValid, p
      <4>. QED BY <3>2, <4>1, <4>2 DEF Prefix
    <3>. QED BY <3>1, <3>2
  <2>4. \A i \in Artifact :
          q.artifacts[i] # 0 => i \in t.enabled /\ q.artifacts[i] \in DOMAIN t.artifacts
    <3> SUFFICES ASSUME NEW i \in Artifact, q.artifacts[i] # 0
                 PROVE  i \in s.enabled /\ q.artifacts[i] \in DOMAIN t.artifacts
      OBVIOUS
    <3>1. CASE q.artifacts[i] = p.artifacts[i]
      BY <1>6, <3>1
    <3>2. CASE q.artifacts[i] # p.artifacts[i]
      BY <1>4, <3>2
    <3>. QED BY <3>1, <3>2
  <2>. QED BY <1>10, <1>11, <2>1, <2>2, <2>3, <2>4 DEF RevisionValid, q
<1>13. ASSUME NEW k \in Last(t, rev, 2), t.receipts[k].status # "succeeded"
       PROVE  Attempts(t, rev, 5) = {} /\ \A i \in 3..5 : q.artifacts[i] = 0
  <2>1. k \in Last(s, rev, 2) /\ k \in Attempts(s, rev, 2)
    BY <1>5 DEF OpStage, Last
  <2>2. s.receipts[k].status # "succeeded"
    BY <1>8, <1>13, <2>1 DEF OpStage
  <2>3. Attempts(s, rev, 5) = {} /\ \A i \in 3..5 : p.artifacts[i] = 0
    BY <1>1, <2>1, <2>2 DEF RevSound, p
  <2>4. ASSUME NEW i \in 3..5 PROVE q.artifacts[i] = 0
    BY <1>4, <2>1, <2>2, <2>3 DEF Artifact
  <2>. QED BY <1>5, <2>3, <2>4 DEF OpStage
<1>14. ASSUME NEW stage \in OpStage, NEW k \in Last(t, rev, stage),
              t.receipts[k].status = "started"
       PROVE  q.artifacts[stage] = 0
  <2>1. k \in Last(s, rev, stage) /\ k \in Attempts(s, rev, stage)
    BY <1>5 DEF Last
  <2>2. p.artifacts[stage] = 0
    BY <1>1, <1>8, <1>14, <2>1 DEF RevSound, p
  <2>. QED BY <1>4, <1>14, <2>1, <2>2 DEF OpStage, Artifact
<1>15. ASSUME NEW stage \in OpStage, NEW k \in Attempts(t, rev, stage),
              t.receipts[k].status = "succeeded"
       PROVE  /\ q.artifacts[stage] = t.receipts[k].output
              /\ \A j \in Attempts(t, rev, stage) : j <= k
  <2>1. k \in Attempts(s, rev, stage) /\ t.receipts[k] = s.receipts[k]
    BY <1>5, <1>8, <1>15
  <2>2. /\ p.artifacts[stage] = s.receipts[k].output
        /\ \A j \in Attempts(s, rev, stage) : j <= k
    BY <1>1, <1>15, <2>1 DEF RevSound, p
  <2>3. s.receipts[k].output \in DOMAIN s.artifacts
    BY <1>1, <1>15, <2>1 DEF RevisionValid, ReceiptsValid
  <2>4. s.receipts[k].output # 0 /\ stage \in Artifact
    BY <2>3, Parts DEF OpStage, Artifact
  <2>. QED BY <1>5, <1>6, <2>1, <2>2, <2>4
<1>16. q.artifacts[5] # 0 =>
          /\ q.artifacts[4] # 0
          /\ t.artifacts[q.artifacts[5]].ready
          /\ t.artifacts[q.artifacts[5]].basis
                 = Append(t.artifacts[q.artifacts[4]].basis, q.inputs[5])
  <2> SUFFICES ASSUME q.artifacts[5] # 0
               PROVE  /\ q.artifacts[4] # 0
                      /\ t.artifacts[q.artifacts[5]].ready
                      /\ t.artifacts[q.artifacts[5]].basis
                             = Append(t.artifacts[q.artifacts[4]].basis, q.inputs[5])
    OBVIOUS
  <2>1. q.artifacts[5] = p.artifacts[5]
    BY <1>4 DEF Artifact
  <2>2. /\ p.artifacts[4] # 0 /\ s.artifacts[p.artifacts[5]].ready
        /\ s.artifacts[p.artifacts[5]].basis
               = Append(s.artifacts[p.artifacts[4]].basis, p.inputs[5])
    BY <1>1, <2>1 DEF RevSound, p
  <2>3. 4 \in Artifact /\ 5 \in Artifact
    BY DEF Artifact
  <2>4. /\ q.artifacts[4] = p.artifacts[4]
        /\ t.artifacts[p.artifacts[4]] = s.artifacts[p.artifacts[4]]
        /\ t.artifacts[p.artifacts[5]] = s.artifacts[p.artifacts[5]]
    BY <1>6, <2>1, <2>2, <2>3
  <2>. QED BY <1>3, <2>1, <2>2, <2>4
<1>17. q.decision \in 0..Len(t.decisions)
  <2>1. p.decision \in 0..Len(s.decisions)
    BY <1>1 DEF RevSound, p
  <2>2. p.decision = 0 \/ p.decision \in DOMAIN t.decisions
    BY <2>1, Parts DEF Prefix
  <2>. QED BY <1>3, <2>2, Parts
<1>18. q.decision # 0 => ApprovedRev(t, rev)
  <2> SUFFICES ASSUME q.decision # 0, s.revs[rev].decision # 0
               PROVE  ApprovedRev(t, rev)
    BY DEF q
  <2>1. ApprovedRev(s, rev)
    BY <1>1 DEF RevSound
  <2>2. \A i \in s.enabled : i \in Artifact
    BY ShapeFacts, Parts
  <2>3. \A i \in s.enabled : p.artifacts[i] # 0
    BY <2>1 DEF ApprovedRev, p
  <2>4. \A i \in s.enabled : /\ q.artifacts[i] = p.artifacts[i]
                             /\ t.artifacts[p.artifacts[i]] = s.artifacts[p.artifacts[i]]
    BY <1>6, <2>2, <2>3
  <2>5. \A i \in s.enabled \ {1, 2} : 2 \in s.enabled
    BY ShapeFacts, Parts
  <2>6. /\ \A i \in s.enabled : /\ p.artifacts[i] # 0 /\ s.artifacts[p.artifacts[i]].ready
                                /\ s.artifacts[p.artifacts[i]].basis = SubSeq(p.inputs, 1, i)
        /\ \A i \in s.enabled \ {1, 2} : s.artifacts[p.artifacts[i]].draw
                                            = s.artifacts[p.artifacts[2]].draw
    BY <2>1 DEF ApprovedRev, p
  <2>7. /\ \A i \in s.enabled : /\ q.artifacts[i] # 0 /\ t.artifacts[q.artifacts[i]].ready
                                /\ t.artifacts[q.artifacts[i]].basis = SubSeq(q.inputs, 1, i)
        /\ \A i \in s.enabled \ {1, 2} : t.artifacts[q.artifacts[i]].draw
                                            = t.artifacts[q.artifacts[2]].draw
    <3>1. ASSUME NEW i \in s.enabled
          PROVE  /\ q.artifacts[i] # 0 /\ t.artifacts[q.artifacts[i]].ready
                 /\ t.artifacts[q.artifacts[i]].basis = SubSeq(q.inputs, 1, i)
      BY <1>3, <2>4, <2>6
    <3>2. ASSUME NEW i \in s.enabled \ {1, 2}
          PROVE  t.artifacts[q.artifacts[i]].draw = t.artifacts[q.artifacts[2]].draw
      <4>1. i \in s.enabled /\ 2 \in s.enabled
        BY <2>5
      <4>2. t.artifacts[q.artifacts[i]] = s.artifacts[p.artifacts[i]]
        BY <2>4, <4>1
      <4>3. t.artifacts[q.artifacts[2]] = s.artifacts[p.artifacts[2]]
        BY <2>4, <4>1
      <4>4. s.artifacts[p.artifacts[i]].draw = s.artifacts[p.artifacts[2]].draw
        BY <2>6
      <4>. QED BY <4>2, <4>3, <4>4
    <3>. QED BY <3>1, <3>2
  <2>. QED BY <2>7 DEF ApprovedRev, q
<1>. QED BY <1>3, <1>12, <1>13, <1>14, <1>15, <1>16, <1>17, <1>18 DEF RevSound, q

LEMMA LedgerParts ==
    ASSUME NEW s, Ledger(s)
    PROVE  /\ s \in Checkpoint /\ ValidState(s)
           /\ Current(s) = s.revs[Len(s.revs)] /\ Len(s.revs) \in DOMAIN s.revs
           /\ Current(s) \in Revision /\ RevSound(s, Len(s.revs))
           /\ AttemptsSound(s) /\ CurrentSound(s) /\ RouteIsSound(s)
  BY ByRevision, Parts DEF Ledger

\* A step that changes at most the current revision, of which it leaves no more than the status
\* to be changed when it is decided.
LEMMA FollowCurrent ==
    ASSUME NEW s, Ledger(s), NEW t \in Checkpoint, t.enabled = s.enabled,
           Prefix(s.artifacts, t.artifacts), Prefix(s.decisions, t.decisions),
           DOMAIN t.receipts = DOMAIN s.receipts,
           \A k \in DOMAIN s.receipts :
              \/ t.receipts[k] = s.receipts[k]
              \/ /\ s.receipts[k].rev = Len(s.revs) /\ Current(s).decision = 0
                 /\ ReceiptFollows(s.receipts[k], t.receipts[k]),
           NEW q \in Revision, t.revs = [s.revs EXCEPT ![Len(s.revs)] = q],
           Current(s).decision # 0 =>
              /\ q.artifacts = Current(s).artifacts /\ q.decision = Current(s).decision
              /\ q.status # Current(s).status => s.next[1] = "pure",
           q.inputs = Current(s).inputs, q.plan = Current(s).plan,
           \A i \in Artifact : q.artifacts[i] # Current(s).artifacts[i] =>
              /\ Current(s).artifacts[i] = 0 /\ i # 5 /\ i \in s.enabled /\ Current(s).plan <= i
              /\ q.artifacts[i] \in DOMAIN t.artifacts
              /\ i = 2 => /\ ~t.artifacts[q.artifacts[2]].ready
                          /\ \A k \in Latest(s, 2) : t.receipts[k].status # "started"
              /\ i \in {3, 4} => \A k \in Latest(s, 2) : s.receipts[k].status = "succeeded",
           q.decision # Current(s).decision =>
              q.decision \in DOMAIN t.decisions /\ t.decisions[q.decision].rev = Len(s.revs),
           q.decision = 0 => q.status \notin {"approved", "rejected"},
           q.decision # 0 => Current(s).decision # 0 \/ ApprovedRev(t, Len(s.revs)),
           CurrentSound(t), RouteIsSound(t)
    PROVE  Ledger(t) /\ Evolves(s, t)
<1> DEFINE n == Len(s.revs)
<1>1. /\ s \in Checkpoint /\ n \in DOMAIN s.revs /\ Current(s) = s.revs[n]
      /\ DOMAIN t.revs = DOMAIN s.revs /\ t.revs[n] = q
      /\ \A rev \in DOMAIN s.revs : rev # n => t.revs[rev] = s.revs[rev]
  BY LedgerParts
<1>2. \A rev, stage :
         /\ Attempts(t, rev, stage) = Attempts(s, rev, stage)
         /\ \A k \in Attempts(s, rev, stage) :
               /\ ReceiptFollows(s.receipts[k], t.receipts[k])
               /\ rev # n \/ Current(s).decision # 0 => t.receipts[k] = s.receipts[k]
  <2>1. \A k \in DOMAIN s.receipts : /\ t.receipts[k].rev = s.receipts[k].rev
                                     /\ t.receipts[k].stage = s.receipts[k].stage
                                     /\ ReceiptFollows(s.receipts[k], t.receipts[k])
    BY DEF ReceiptFollows
  <2>. QED BY <2>1 DEF Attempts
<1>3. Last(s, n, 2) = Latest(s, 2)
  BY DEF Last, Latest, Prior
<1>4. ASSUME NEW rev \in DOMAIN s.revs PROVE RevFollows(s, t, rev)
  <2>1. \A stage \in OpStage :
          /\ Attempts(t, rev, stage) = Attempts(s, rev, stage)
          /\ \A k \in Attempts(s, rev, stage) :
                /\ ReceiptFollows(s.receipts[k], t.receipts[k])
                /\ s.revs[rev].decision # 0 => t.receipts[k] = s.receipts[k]
    BY <1>1, <1>2
  <2>2. CASE rev = n
    BY <1>1, <1>3, <2>1, <2>2 DEF RevFollows
  <2>3. CASE rev # n
    <3>1. s.revs[rev].decision = 0 => s.revs[rev].status \notin {"approved", "rejected"}
      BY DEF Ledger, DecisionsMade
    <3>. QED BY <1>1, <2>1, <2>3, <3>1 DEF RevFollows
  <2>. QED BY <2>2, <2>3
<1>5. ASSUME NEW rev \in DOMAIN s.revs PROVE RevSound(t, rev)
  <2>1. rev > 1 => rev - 1 \in DOMAIN s.revs
    BY <1>1, Parts
  <2>2. t.revs[rev].decision # 0 => s.revs[rev].decision # 0 \/ ApprovedRev(t, rev)
    BY <1>1
  <2>. QED BY <1>1, <1>4, <2>1, <2>2, RevSoundKept
<1>6. AttemptsSound(t)
  <2>1. \A k \in DOMAIN s.receipts :
           /\ t.receipts[k].rev = s.receipts[k].rev /\ t.receipts[k].stage = s.receipts[k].stage
           /\ t.receipts[k].op = s.receipts[k].op
    BY DEF ReceiptFollows
  <2>2. \A rev \in DOMAIN s.revs : t.revs[rev].plan = s.revs[rev].plan
    BY <1>1
  <2>3. AttemptsSound(s)
    BY LedgerParts
  <2>4. AttemptsOwned(t)
    BY <1>1, <2>1, <2>2, <2>3 DEF AttemptsSound, AttemptsOwned
  <2>5. ReceiptOrder(t)
    BY <2>1, <2>3 DEF AttemptsSound, ReceiptOrder
  <2>6. \A i, j \in DOMAIN t.receipts : t.receipts[i].op = t.receipts[j].op => i = j
    BY <2>1, <2>3 DEF AttemptsSound
  <2>. QED BY <2>4, <2>5, <2>6 DEF AttemptsSound
<1>7. Ledger(t)
  BY <1>1, <1>5, <1>6, ByRevision
<1>8. Evolves(s, t)
  <2>1. ASSUME NEW rev \in DOMAIN s.revs, s.revs[rev].decision # 0
        PROVE  /\ rev \in DOMAIN t.revs /\ t.revs[rev] \in Revision
               /\ SameButStatus(s.revs[rev], t.revs[rev])
               /\ t.revs[rev].status # s.revs[rev].status => s.next[1] = "pure"
               /\ \A stage \in OpStage :
                     /\ Attempts(t, rev, stage) = Attempts(s, rev, stage)
                     /\ \A k \in Attempts(s, rev, stage) : t.receipts[k] = s.receipts[k]
    <3>1. t.revs[rev] \in Revision
      BY <1>1, Parts
    <3>. QED BY <1>1, <1>2, <2>1, <3>1 DEF SameButStatus
  <2>2. Len(t.revs) = Len(s.revs)
    BY <1>1, Parts
  <2>. QED BY <2>1, <2>2 DEF Evolves
<1>. QED BY <1>7, <1>8

\* A step that touches no more than the status of the current revision and the fields of the
\* thread that the ledger does not keep.
Touches(s, t) ==
    /\ t.enabled = s.enabled /\ t.receipts = s.receipts /\ t.artifacts = s.artifacts
    /\ t.decisions = s.decisions /\ t.values = s.values
    /\ \/ t.revs = s.revs
       \/ /\ Current(s).decision = 0
          /\ \E status \in Statuses \ {"approved", "rejected"} :
                t.revs = [s.revs EXCEPT ![Len(s.revs)] = [Current(s) EXCEPT !.status = status]]

LEMMA TouchedCurrent ==
    ASSUME NEW s, Ledger(s), NEW t \in Checkpoint, Touches(s, t)
    PROVE  \E q \in Revision :
              /\ t.revs = [s.revs EXCEPT ![Len(s.revs)] = q] /\ Current(t) = q
              /\ Len(t.revs) = Len(s.revs)
              /\ q.inputs = Current(s).inputs /\ q.plan = Current(s).plan
              /\ q.artifacts = Current(s).artifacts /\ q.decision = Current(s).decision
              /\ \/ q = Current(s)
                 \/ Current(s).decision = 0 /\ q.status \notin {"approved", "rejected"}
<1>1. /\ s.revs \in Seq(Revision) /\ Len(s.revs) \in DOMAIN s.revs
      /\ Current(s) = s.revs[Len(s.revs)] /\ Current(s) \in Revision
  BY LedgerParts DEF Checkpoint
<1>2. CASE t.revs = s.revs
  <2>1. t.revs = [s.revs EXCEPT ![Len(s.revs)] = Current(s)]
    BY <1>1, <1>2
  <2>. QED BY <1>1, <1>2, <2>1 DEF Current
<1>3. ASSUME Current(s).decision = 0, NEW status \in Statuses \ {"approved", "rejected"},
             t.revs = [s.revs EXCEPT ![Len(s.revs)] = [Current(s) EXCEPT !.status = status]]
      PROVE  \E q \in Revision :
                /\ t.revs = [s.revs EXCEPT ![Len(s.revs)] = q] /\ Current(t) = q
                /\ Len(t.revs) = Len(s.revs)
                /\ q.inputs = Current(s).inputs /\ q.plan = Current(s).plan
                /\ q.artifacts = Current(s).artifacts /\ q.decision = Current(s).decision
                /\ \/ q = Current(s)
                   \/ Current(s).decision = 0 /\ q.status \notin {"approved", "rejected"}
  <2> DEFINE q == [Current(s) EXCEPT !.status = status]
  <2>1. /\ q \in Revision /\ q.inputs = Current(s).inputs /\ q.plan = Current(s).plan
        /\ q.artifacts = Current(s).artifacts /\ q.decision = Current(s).decision
        /\ q.status = status
    BY <1>1 DEF Revision
  <2>. HIDE DEF q
  <2>2. t.revs = [s.revs EXCEPT ![Len(s.revs)] = q]
    BY <1>3 DEF q
  <2>3. Len(t.revs) = Len(s.revs) /\ t.revs[Len(s.revs)] = q
    BY <1>1, <2>1, <2>2
  <2>. QED BY <1>3, <2>1, <2>2, <2>3 DEF Current
<1>. QED BY <1>2, <1>3 DEF Touches

\* It leaves what the nodes read as it is.
LEMMA TouchView ==
    ASSUME NEW s, Ledger(s), NEW t \in Checkpoint, Touches(s, t)
    PROVE  /\ Len(t.revs) = Len(s.revs)
           /\ Current(t).inputs = Current(s).inputs /\ Current(t).plan = Current(s).plan
           /\ Current(t).artifacts = Current(s).artifacts
           /\ Current(t).decision = Current(s).decision
           /\ \A stage : Prior(t, stage) = Prior(s, stage) /\ Latest(t, stage) = Latest(s, stage)
           /\ Policy(t) = Policy(s) /\ Screen(t) = Screen(s) /\ Construct(t) = Construct(s)
           /\ \A stage : OutputValid(t, stage) <=> OutputValid(s, stage)
<1>1. /\ Len(t.revs) = Len(s.revs)
      /\ Current(t).inputs = Current(s).inputs /\ Current(t).plan = Current(s).plan
      /\ Current(t).artifacts = Current(s).artifacts
      /\ Current(t).decision = Current(s).decision
  <2>1. PICK q \in Revision :
              /\ t.revs = [s.revs EXCEPT ![Len(s.revs)] = q] /\ Current(t) = q
              /\ Len(t.revs) = Len(s.revs)
              /\ q.inputs = Current(s).inputs /\ q.plan = Current(s).plan
              /\ q.artifacts = Current(s).artifacts /\ q.decision = Current(s).decision
              /\ \/ q = Current(s)
                 \/ Current(s).decision = 0 /\ q.status \notin {"approved", "rejected"}
    BY TouchedCurrent, ZenonT(60)
  <2>. QED BY <2>1
<1>2. t.receipts = s.receipts /\ t.values = s.values
  BY DEF Touches
<1>3. \A stage : Prior(t, stage) = Prior(s, stage)
  BY <1>1, <1>2 DEF Prior, Attempts
<1>4. \A stage : Latest(t, stage) = Latest(s, stage)
  BY <1>3 DEF Latest
<1>5. Policy(t) = Policy(s)
  BY <1>1 DEF Policy
<1>6. Screen(t) = Screen(s) /\ Construct(t) = Construct(s)
  BY <1>1, <1>2, <1>5 DEF Screen, Construct
<1>7. \A stage : OutputValid(t, stage) <=> OutputValid(s, stage)
  BY <1>1, <1>2 DEF OutputValid
<1>. QED BY <1>1, <1>3, <1>4, <1>5, <1>6, <1>7

LEMMA TouchKeeps ==
    ASSUME NEW s, Ledger(s), NEW t \in Checkpoint, Touches(s, t),
           Current(s).decision # 0 => t.review = s.review, RouteIsSound(t)
    PROVE  Ledger(t) /\ Evolves(s, t)
<1>1. PICK q \in Revision :
         /\ t.revs = [s.revs EXCEPT ![Len(s.revs)] = q] /\ Current(t) = q
         /\ Len(t.revs) = Len(s.revs)
         /\ q.inputs = Current(s).inputs /\ q.plan = Current(s).plan
         /\ q.artifacts = Current(s).artifacts /\ q.decision = Current(s).decision
         /\ \/ q = Current(s)
            \/ Current(s).decision = 0 /\ q.status \notin {"approved", "rejected"}
  BY TouchedCurrent
<1>2. /\ t.enabled = s.enabled /\ t.receipts = s.receipts /\ t.artifacts = s.artifacts
      /\ t.decisions = s.decisions /\ t.values = s.values
  BY DEF Touches
<1>3. Prefix(s.artifacts, t.artifacts) /\ Prefix(s.decisions, t.decisions)
  BY <1>2 DEF Prefix
<1>4. CurrentSound(t)
  <2>1. CurrentSound(s) /\ Len(s.revs) \in DOMAIN s.revs /\ Current(s) = s.revs[Len(s.revs)]
    BY LedgerParts
  <2>2. DOMAIN t.revs = DOMAIN s.revs
        /\ \A rev \in DOMAIN s.revs : t.revs[rev].decision = s.revs[rev].decision
    BY <1>1, <2>1
  <2>3. Screen(t) = Screen(s)
    BY TouchView
  <2>4. ScreenedHere(t)
    BY <1>1, <1>2, <2>1, <2>3 DEF CurrentSound, ScreenedHere
  <2>. QED BY <1>1, <1>2, <2>1, <2>2, <2>4 DEF CurrentSound
<1>5. q.decision = 0 => q.status \notin {"approved", "rejected"}
  <2>1. Current(s).decision = 0 => Current(s).status \notin {"approved", "rejected"}
    BY LedgerParts DEF RevSound
  <2>. QED BY <1>1, <2>1
<1>. QED BY <1>1, <1>2, <1>3, <1>4, <1>5, FollowCurrent

\* The end needs nothing.
LEMMA RouteToEnd ==
    ASSUME NEW t, t.next = End
    PROVE  RouteIsSound(t)
  BY DEF RouteIsSound, End, Node, Artifact, Finalize

LEMMA BlockLedger ==
    ASSUME NEW s, Ledger(s)
    PROVE  Ledger(Block(s)) /\ Evolves(s, Block(s))
<1> DEFINE b == [s EXCEPT !.status = "revision_blocked", !.next = End]
           t == Block(s)
<1>1. s \in Checkpoint /\ t \in Checkpoint
  BY LedgerParts, BlockKeeps DEF Keeps
<1>2. /\ b.enabled = s.enabled /\ b.receipts = s.receipts /\ b.artifacts = s.artifacts
      /\ b.decisions = s.decisions /\ b.values = s.values /\ b.revs = s.revs
      /\ b.review = s.review /\ b.next = End /\ b \in Checkpoint
  BY <1>1, NodeTypes DEF Checkpoint, Statuses
<1>3. CASE Current(s).decision = 0
  <2> DEFINE q == [Current(s) EXCEPT !.status = "blocked"]
  <2>1. t = [b EXCEPT !.revs[Len(b.revs)] = q]
    BY <1>3, LedgerParts DEF Block, SetCurrent
  <2>. HIDE DEF q, b
  <2>2. /\ t.enabled = b.enabled /\ t.receipts = b.receipts /\ t.artifacts = b.artifacts
        /\ t.decisions = b.decisions /\ t.values = b.values /\ t.next = b.next
        /\ t.revs = [b.revs EXCEPT ![Len(b.revs)] = q]
    BY <1>2, <2>1 DEF Checkpoint
  <2>3. Touches(s, t)
    <3>1. "blocked" \in Statuses \ {"approved", "rejected"}
      BY DEF Statuses
    <3>2. t.revs = [s.revs EXCEPT ![Len(s.revs)] = [Current(s) EXCEPT !.status = "blocked"]]
      BY <1>2, <2>2 DEF q
    <3>. QED BY <1>2, <1>3, <2>2, <3>1, <3>2 DEF Touches
  <2>4. RouteIsSound(t)
    BY <1>2, <2>2, RouteToEnd
  <2>. QED BY <1>1, <1>3, <2>3, <2>4, TouchKeeps
<1>4. CASE Current(s).decision # 0
  <2>1. t = b
    BY <1>4 DEF Block
  <2>. QED BY <1>1, <1>2, <2>1, TouchKeeps, RouteToEnd DEF Touches
<1>. QED BY <1>3, <1>4

-----------------------------------------------------------------------------
(* Where the graph goes next.                                                *)

LEMMA RouteToExecute ==
    ASSUME NEW t, NEW stage \in OpStage, t.next = Node("execute", stage)
    PROVE  RouteIsSound(t)
<1>1. \A i \in Artifact : t.next[2] = i => t.next = Node("execute", i)
  BY DEF Node
<1>2. /\ t.next # Node("validate_profile", 1) /\ t.next # Finalize
      /\ t.next \notin {Node("validate_profile", 1), Node("pure", 1), Node("prepare", 2)}
      /\ t.next \notin {Node("pure", 3), Node("pure", 4), Node("prepare", 5)}
  BY DEF Node, Finalize
<1>. QED BY <1>1, <1>2 DEF RouteIsSound

LEMMA AfterNodes ==
    ASSUME NEW s, s.enabled \in Shapes, NEW i \in Artifact
    PROVE  \/ After(s, i) = Review
           \/ /\ i + 1 \in s.enabled
              /\ \/ i = 1 /\ After(s, i) = Node("prepare", 2)
                 \/ i = 2 /\ After(s, i) = Node("pure", 3)
                 \/ i = 3 /\ After(s, i) = Node("pure", 4)
                 \/ i = 4 /\ After(s, i) = Node("prepare", 5)
<1>1. CASE \E j \in s.enabled : j > i
  <2>1. i + 1 \in s.enabled /\ i + 1 \in 2..5
    BY <1>1, ShapeFacts DEF Artifact
  <2>2. After(s, i) = StageNode(i + 1)
    BY <1>1 DEF After
  <2>3. /\ StageNode(2) = Node("prepare", 2) /\ StageNode(3) = Node("pure", 3)
        /\ StageNode(4) = Node("pure", 4) /\ StageNode(5) = Node("prepare", 5)
    BY DEF StageNode, OpStage
  <2>. QED BY <2>1, <2>2, <2>3 DEF Artifact
<1>2. CASE ~\E j \in s.enabled : j > i
  BY <1>2 DEF After
<1>. QED BY <1>1, <1>2

LEMMA RouteAfter ==
    ASSUME NEW s, s.enabled \in Shapes, NEW t, NEW i \in Artifact, t.next = After(s, i),
           t.enabled = s.enabled, Current(t).plan \in 0..5, Current(t).plan <= i,
           i = 1 => /\ Current(t).decision = 0 /\ Prior(t, 5) = {}
                    /\ \A j \in 2..5 : Current(t).artifacts[j] = 0,
           i \in {2, 3, 4} => \A k \in Latest(t, 2) : t.receipts[k].status = "succeeded"
    PROVE  RouteIsSound(t)
<1>1. CASE t.next = Review
  BY <1>1 DEF RouteIsSound, Node, Review, Artifact, Finalize
<1>2. CASE i = 1 /\ i + 1 \in s.enabled /\ t.next = Node("prepare", 2)
  BY <1>2 DEF RouteIsSound, Node, Artifact, Finalize
<1>3. CASE i = 2 /\ i + 1 \in s.enabled /\ t.next = Node("pure", 3)
  BY <1>3 DEF RouteIsSound, Node, Artifact, Finalize
<1>4. CASE i = 3 /\ i + 1 \in s.enabled /\ t.next = Node("pure", 4)
  BY <1>4 DEF RouteIsSound, Node, Artifact, Finalize
<1>5. CASE i = 4 /\ i + 1 \in s.enabled /\ t.next = Node("prepare", 5)
  BY <1>5 DEF RouteIsSound, Node, Artifact, Finalize
<1>. QED BY <1>1, <1>2, <1>3, <1>4, <1>5, AfterNodes

\* The last attempt of a stage is one attempt.
LEMMA LatestIsOne ==
    ASSUME NEW s \in Checkpoint, NEW stage, NEW k \in Latest(s, stage)
    PROVE  /\ \A j \in Latest(s, stage) : j = k
           /\ k \in Prior(s, stage) /\ k \in DOMAIN s.receipts /\ k \in Nat
           /\ s.receipts[k].rev = Len(s.revs) /\ s.receipts[k].stage = stage
           /\ k \in Last(s, Len(s.revs), stage)
<1>1. \A j \in Prior(s, stage) : j \in Nat
  BY Parts DEF Prior, Attempts
<1>2. k \in Prior(s, stage) /\ \A j \in Latest(s, stage) : j \in Prior(s, stage) /\ j <= k /\ k <= j
  BY DEF Latest
<1>. QED BY <1>1, <1>2 DEF Prior, Attempts, Last, Latest

\* A decided revision is complete.
LEMMA DecidedComplete ==
    ASSUME NEW s, Ledger(s), Current(s).decision # 0, NEW i \in s.enabled
    PROVE  /\ Current(s).artifacts[i] # 0
           /\ s.artifacts[Current(s).artifacts[i]].ready
<1>1. RevSound(s, Len(s.revs)) /\ Current(s) = s.revs[Len(s.revs)]
  BY LedgerParts
<1>2. ApprovedRev(s, Len(s.revs))
  BY <1>1 DEF RevSound
<1>. QED BY <1>1, <1>2 DEF ApprovedRev

\* A stage that was attempted is one that the current revision runs.
LEMMA AttemptOwned ==
    ASSUME NEW s, Ledger(s), NEW stage, NEW k \in Latest(s, stage)
    PROVE  stage \in s.enabled /\ Current(s).plan <= stage
<1>1. /\ k \in DOMAIN s.receipts /\ s.receipts[k].rev = Len(s.revs)
      /\ s.receipts[k].stage = stage
  BY LatestIsOne DEF Ledger
<1>. QED BY <1>1 DEF Ledger, AttemptsOwned, Current

-----------------------------------------------------------------------------
(* The steps that touch no more than statuses.                               *)

LEMMA ReusedLedger ==
    ASSUME NEW s, Ledger(s), NEW stage \in OpStage
    PROVE  Ledger(Reused(s, stage)) /\ Evolves(s, Reused(s, stage))
<1> DEFINE t == Reused(s, stage)
<1>1. s \in Checkpoint /\ t \in Checkpoint
  BY LedgerParts, ReusedKeeps DEF Keeps
<1>2. /\ t.enabled = s.enabled /\ t.receipts = s.receipts /\ t.artifacts = s.artifacts
      /\ t.decisions = s.decisions /\ t.values = s.values /\ t.revs = s.revs
      /\ t.review = s.review /\ t.next = Node("execute", stage)
  BY <1>1 DEF Reused, Checkpoint
<1>. HIDE DEF t
<1>3. Touches(s, t)
  BY <1>2 DEF Touches
<1>4. RouteIsSound(t)
  BY <1>2, RouteToExecute
<1>5. Ledger(t) /\ Evolves(s, t)
  BY <1>1, <1>2, <1>3, <1>4, TouchKeeps
<1>. QED BY <1>5 DEF t

LEMMA ReplayedLedger ==
    ASSUME NEW s, Ledger(s), NEW stage \in OpStage, MayReuse(s, stage)
    PROVE  Ledger(Replayed(s, stage)) /\ Evolves(s, Replayed(s, stage))
<1> DEFINE t == Replayed(s, stage)
<1>1. s \in Checkpoint /\ t \in Checkpoint
  BY LedgerParts, ReusedKeeps DEF Keeps
<1>2. /\ t.enabled = s.enabled /\ t.receipts = s.receipts /\ t.artifacts = s.artifacts
      /\ t.decisions = s.decisions /\ t.values = s.values /\ t.revs = s.revs
      /\ t.review = s.review /\ t.next = After(s, stage)
  BY <1>1 DEF Replayed, Checkpoint
<1>. HIDE DEF t
<1>3. Touches(s, t)
  BY <1>2 DEF Touches
<1>4. Current(s).plan <= stage
  <2>1. PICK k \in Latest(s, stage) : TRUE
    BY DEF MayReuse
  <2>. QED BY <1>1, <2>1, AttemptOwned
<1>5. RouteIsSound(t)
  <2>1. Current(t) = Current(s) /\ Latest(t, 2) = Latest(s, 2)
    BY <1>2 DEF Current, Latest, Prior, Attempts
  <2>2. stage = 2 => \A k \in Latest(s, 2) : s.receipts[k].status = "succeeded"
    BY <1>1, LatestIsOne DEF MayReuse
  <2>3. stage \in Artifact /\ s.enabled \in Shapes /\ Current(s).plan \in 0..5
    BY <1>1, Parts, CurrentType, RevisionParts DEF OpStage, Artifact
  <2>. QED BY <1>2, <1>4, <2>1, <2>2, <2>3, RouteAfter DEF OpStage
<1>6. Ledger(t) /\ Evolves(s, t)
  BY <1>1, <1>2, <1>3, <1>5, TouchKeeps
<1>. QED BY <1>6 DEF t

LEMMA RescheduleLedger ==
    ASSUME NEW s, Ledger(s), NEW stage \in OpStage
    PROVE  LET t == [s EXCEPT !.next = Node("execute", stage)]
           IN  Ledger(t) /\ Evolves(s, t)
<1> DEFINE t == [s EXCEPT !.next = Node("execute", stage)]
<1>1. s \in Checkpoint
  BY LedgerParts
<1>2. /\ t.enabled = s.enabled /\ t.receipts = s.receipts /\ t.artifacts = s.artifacts
      /\ t.decisions = s.decisions /\ t.values = s.values /\ t.revs = s.revs
      /\ t.review = s.review /\ t.next = Node("execute", stage) /\ t \in Checkpoint
  BY <1>1, NodeTypes DEF Checkpoint
<1>. HIDE DEF t
<1>3. Touches(s, t)
  BY <1>2 DEF Touches
<1>4. RouteIsSound(t)
  BY <1>2, RouteToExecute
<1>5. Ledger(t) /\ Evolves(s, t)
  BY <1>2, <1>3, <1>4, TouchKeeps
<1>. QED BY <1>5 DEF t

\* What a checkpoint's validation reads.
LEMMA SameValid ==
    ASSUME NEW s, NEW t, t.enabled = s.enabled, t.receipts = s.receipts,
           t.artifacts = s.artifacts, t.decisions = s.decisions, t.values = s.values,
           t.revs = s.revs, Current(s).decision = 0, ValidState(s)
    PROVE  ValidState(t)
<1>1. \A rev, stage : Attempts(t, rev, stage) = Attempts(s, rev, stage)
  BY DEF Attempts
<1>2. \A rev, stage : OperationInput(t, rev, stage) = OperationInput(s, rev, stage)
  BY DEF OperationInput
<1>3. \A rev, stage : ReceiptsValid(s, rev, stage) => ReceiptsValid(t, rev, stage)
  BY <1>1, <1>2 DEF ReceiptsValid
<1>4. \A rev, stage : SideEffectProven(s, rev, stage) => SideEffectProven(t, rev, stage)
  BY <1>1 DEF SideEffectProven
<1>5. \A rev : RevisionValid(s, rev) => RevisionValid(t, rev)
  BY <1>3, <1>4 DEF RevisionValid
<1>6. ReceiptOrder(s) => ReceiptOrder(t)
  BY DEF ReceiptOrder
<1>7. Current(t) = Current(s)
  BY DEF Current
<1>. QED BY <1>5, <1>6, <1>7 DEF ValidState

LEMMA ReviewedLedger ==
    ASSUME NEW s, Ledger(s), NEW d \in ReviewDecision, s.next = Review, Reviewable(s)
    PROVE  Ledger(Reviewed(s, d)) /\ Evolves(s, Reviewed(s, d))
<1> DEFINE t == Reviewed(s, d)
<1>1. s \in Checkpoint /\ t \in Checkpoint
  BY LedgerParts, ReviewedKeeps DEF Keeps
<1>2. /\ t.enabled = s.enabled /\ t.receipts = s.receipts /\ t.artifacts = s.artifacts
      /\ t.decisions = s.decisions /\ t.values = s.values /\ t.revs = s.revs
      /\ t.next = Finalize
  BY <1>1 DEF Reviewed, Checkpoint
<1>. HIDE DEF t
<1>3. Touches(s, t)
  BY <1>2 DEF Touches
<1>4. Current(s).decision = 0 /\ ValidState(s)
  BY DEF Reviewable
<1>5. RouteIsSound(t)
  <2>1. Current(t) = Current(s)
    BY <1>2 DEF Current
  <2>2. ValidState(t)
    BY <1>2, <1>4, SameValid
  <2>3. /\ Policy(t) = Policy(s) /\ Screen(t) = Screen(s) /\ Construct(t) = Construct(s)
        /\ \A stage : OutputValid(t, stage) <=> OutputValid(s, stage)
    BY <1>1, <1>3, TouchView
  <2>4. Reviewable(t)
    BY <1>2, <2>1, <2>2, <2>3 DEF Reviewable
  <2>. QED BY <1>2, <1>4, <2>1, <2>4 DEF RouteIsSound, Finalize, Node, Artifact
<1>6. Ledger(t) /\ Evolves(s, t)
  BY <1>1, <1>3, <1>4, <1>5, TouchKeeps
<1>. QED BY <1>6 DEF t

LEMMA ValidateProfileLedger ==
    ASSUME NEW s, Ledger(s), s.next = Node("validate_profile", 1)
    PROVE  Ledger(ValidateProfile(s)) /\ Evolves(s, ValidateProfile(s))
<1> DEFINE t == ValidateProfile(s)
           q == [Current(s) EXCEPT !.status = "profile_validated"]
           none == [i \in Artifact |-> NoValue]
<1>1. s \in Checkpoint /\ ValidState(s) /\ t \in Checkpoint
  BY LedgerParts, ValidateProfileKeeps DEF Keeps
<1>2. /\ Current(s).decision = 0 /\ 1 \in s.enabled /\ Current(s).plan <= 1
      /\ Prior(s, 5) = {} /\ \A i \in Artifact : Current(s).artifacts[i] = 0
  <2>1. /\ RouteIsSound(s) /\ s.next[2] = 1 /\ 1 \in Artifact
        /\ s.next # Node("execute", 1)
    BY LedgerParts DEF Node, Artifact
  <2>2. Current(s).decision = 0 /\ 1 \in s.enabled /\ Current(s).plan <= 1
    BY <2>1 DEF RouteIsSound
  <2>3. /\ Prior(s, 5) = {} /\ Current(s).artifacts[1] = 0
        /\ \A i \in 2..5 : Current(s).artifacts[i] = 0
    BY <2>1 DEF RouteIsSound
  <2>. QED BY <2>2, <2>3 DEF Artifact
<1>3. s.values = none
  <2>1. s.values \in [Artifact -> Value]
    BY <1>1 DEF Checkpoint
  <2>2. \A i \in Artifact : s.values[i] = NoValue
    BY <1>2, LedgerParts DEF CurrentSound
  <2>. QED BY <2>1, <2>2
<1>4. t = [s EXCEPT !.values = none, !.review = NoDecision,
                    !.revs = [s.revs EXCEPT ![Len(s.revs)] = q],
                    !.status = "profile_validated", !.next = Node("pure", 1)]
  BY <1>1, LedgerParts DEF ValidateProfile
<1>. HIDE DEF q, none, t
<1>5. /\ t.enabled = s.enabled /\ t.receipts = s.receipts /\ t.artifacts = s.artifacts
      /\ t.decisions = s.decisions /\ t.values = s.values
      /\ t.revs = [s.revs EXCEPT ![Len(s.revs)] = q] /\ t.next = Node("pure", 1)
  BY <1>1, <1>3, <1>4 DEF Checkpoint
<1>6. Touches(s, t)
  <2>1. "profile_validated" \in Statuses \ {"approved", "rejected"}
    BY DEF Statuses
  <2>2. t.revs = [s.revs EXCEPT ![Len(s.revs)] =
                     [Current(s) EXCEPT !.status = "profile_validated"]]
    BY <1>5 DEF q
  <2>. QED BY <1>2, <1>5, <2>1, <2>2 DEF Touches
<1>7. RouteIsSound(t)
  <2>1. /\ Current(t).plan = Current(s).plan /\ Current(t).artifacts = Current(s).artifacts
        /\ Current(t).decision = Current(s).decision /\ Prior(t, 5) = Prior(s, 5)
    BY <1>1, <1>6, TouchView
  <2>. QED BY <1>2, <1>5, <2>1 DEF RouteIsSound, Node, End, Artifact, Finalize
<1>8. Ledger(t) /\ Evolves(s, t)
  BY <1>1, <1>2, <1>6, <1>7, TouchKeeps
<1>. QED BY <1>8 DEF t

-----------------------------------------------------------------------------
(* The steps that record a result.                                           *)

\* A value that stage i of the current revision may record.
Recordable(s, i, v) ==
    /\ Current(s).decision # 0 => Current(s).artifacts[i] # 0
    /\ i \in s.enabled /\ Current(s).plan <= i
    /\ ~Conflicts(s, i, v)
    /\ v = NoValue => s.values[i] = NoValue
    /\ i = 5 => v = NoValue
    /\ i = 3 => v = Screen(s)
    /\ i \in {3, 4} => \A k \in Latest(s, 2) : s.receipts[k].status = "succeeded"
    /\ i = 2 => ~v.ready /\ Current(s).artifacts[3] = 0

\* What it makes of the values, the artifacts and the current revision q ...
Recorded(s, t, i, v, q) ==
    LET new == v # NoValue /\ Current(s).artifacts[i] = 0 IN
    /\ t.enabled = s.enabled /\ t.decisions = s.decisions
    /\ t.values = [s.values EXCEPT ![i] = v]
    /\ t.artifacts = IF new THEN Append(s.artifacts, v) ELSE s.artifacts
    /\ t.revs = [s.revs EXCEPT ![Len(s.revs)] = q]
    /\ q.inputs = Current(s).inputs /\ q.plan = Current(s).plan
    /\ q.decision = Current(s).decision /\ q.status \notin {"approved", "rejected"}
    /\ q.artifacts = IF new THEN [Current(s).artifacts EXCEPT ![i] = Len(s.artifacts) + 1]
                     ELSE Current(s).artifacts

\* ... and what becomes of the attempt that gave it.
Failing(s, t, i) ==
    /\ DOMAIN t.receipts = DOMAIN s.receipts
    /\ \A k \in DOMAIN s.receipts :
          \/ t.receipts[k] = s.receipts[k]
          \/ /\ s.receipts[k].rev = Len(s.revs) /\ Current(s).decision = 0
             /\ ReceiptFollows(s.receipts[k], t.receipts[k])
    /\ i = 2 => \A k \in Latest(s, 2) : t.receipts[k].status # "started"

LEMMA RecordFollows ==
    ASSUME NEW s, Ledger(s), NEW t \in Checkpoint, NEW i \in Artifact, NEW v \in Value,
           NEW q \in Revision, Recordable(s, i, v), Recorded(s, t, i, v, q), Failing(s, t, i),
           Current(s).decision # 0 => t.review = s.review /\ s.next[1] = "pure",
           RouteIsSound(t)
    PROVE  Ledger(t) /\ Evolves(s, t)
<1>0. /\ Current(s).decision # 0 => Current(s).artifacts[i] # 0
      /\ i \in s.enabled /\ Current(s).plan <= i
      /\ ~Conflicts(s, i, v) /\ (v = NoValue => s.values[i] = NoValue)
      /\ (i = 5 => v = NoValue) /\ (i = 3 => v = Screen(s))
      /\ i \in {3, 4} => \A k \in Latest(s, 2) : s.receipts[k].status = "succeeded"
      /\ i = 2 => /\ ~v.ready /\ Current(s).artifacts[3] = 0
                  /\ \A k \in Latest(s, 2) : t.receipts[k].status # "started"
      /\ t.enabled = s.enabled /\ t.decisions = s.decisions
      /\ DOMAIN t.receipts = DOMAIN s.receipts
      /\ \A k \in DOMAIN s.receipts :
            \/ t.receipts[k] = s.receipts[k]
            \/ /\ s.receipts[k].rev = Len(s.revs) /\ Current(s).decision = 0
               /\ ReceiptFollows(s.receipts[k], t.receipts[k])
      /\ t.values = [s.values EXCEPT ![i] = v]
      /\ t.artifacts = IF v # NoValue /\ Current(s).artifacts[i] = 0
                       THEN Append(s.artifacts, v) ELSE s.artifacts
      /\ t.revs = [s.revs EXCEPT ![Len(s.revs)] = q]
      /\ q.inputs = Current(s).inputs /\ q.plan = Current(s).plan
      /\ q.decision = Current(s).decision
      /\ q.status \notin {"approved", "rejected"}
      /\ q.artifacts = IF v # NoValue /\ Current(s).artifacts[i] = 0
                       THEN [Current(s).artifacts EXCEPT ![i] = Len(s.artifacts) + 1]
                       ELSE Current(s).artifacts
  BY DEF Recordable, Recorded, Failing
<1> USE <1>0
<1> DEFINE n == Len(s.revs)
           new == v # NoValue /\ Current(s).artifacts[i] = 0
<1>1. /\ s \in Checkpoint /\ n \in DOMAIN s.revs /\ Current(s) = s.revs[n]
      /\ Current(s) \in Revision /\ CurrentSound(s)
      /\ Current(s).artifacts \in [Artifact -> Nat]
  BY LedgerParts, RevisionParts
<1>2. /\ Len(s.artifacts) \in Nat /\ DOMAIN s.artifacts = 1..Len(s.artifacts)
      /\ s.artifacts \in Seq(Value) /\ s.values \in [Artifact -> Value]
      /\ s.revs \in Seq(Revision)
  BY <1>1, Parts DEF Checkpoint
<1>3. Prefix(s.artifacts, t.artifacts) /\ Prefix(s.decisions, t.decisions)
  BY <1>2 DEF Prefix
<1>4. Len(t.revs) = n /\ Current(t) = q /\ DOMAIN t.revs = DOMAIN s.revs
      /\ \A rev \in DOMAIN s.revs : t.revs[rev].decision = s.revs[rev].decision
  BY <1>1, <1>2 DEF Current
<1>5. new => Len(s.artifacts) + 1 \in DOMAIN t.artifacts /\ t.artifacts[Len(s.artifacts) + 1] = v
  BY <1>2
<1>6. \A j \in Artifact : q.artifacts[j] # Current(s).artifacts[j] =>
         j = i /\ new /\ Current(s).artifacts[i] = 0 /\ q.artifacts[i] = Len(s.artifacts) + 1
  BY <1>1
<1>7. \A j \in Artifact : Current(s).artifacts[j] # 0 =>
         /\ q.artifacts[j] = Current(s).artifacts[j]
         /\ t.artifacts[Current(s).artifacts[j]] = s.artifacts[Current(s).artifacts[j]]
  <2>1. RevisionValid(s, n)
    BY LedgerParts DEF RevSound
  <2>2. \A j \in Artifact : Current(s).artifacts[j] # 0 =>
           Current(s).artifacts[j] \in DOMAIN s.artifacts
    BY <1>1, <2>1 DEF RevisionValid
  <2>. QED BY <1>1, <1>3, <2>2 DEF Prefix
<1>8. \A j \in Artifact :
         t.values[j] = IF q.artifacts[j] = 0 THEN NoValue ELSE t.artifacts[q.artifacts[j]]
  <2> SUFFICES ASSUME NEW j \in Artifact
               PROVE  t.values[j] = IF q.artifacts[j] = 0 THEN NoValue
                                    ELSE t.artifacts[q.artifacts[j]]
    OBVIOUS
  <2>1. s.values[j] = IF Current(s).artifacts[j] = 0
                      THEN NoValue ELSE s.artifacts[Current(s).artifacts[j]]
    BY <1>1 DEF CurrentSound
  <2>2. CASE j # i
    BY <1>2, <1>6, <1>7, <2>1, <2>2
  <2>3. CASE j = i /\ new
    <3>1. q.artifacts[i] = Len(s.artifacts) + 1 /\ q.artifacts[i] # 0
      BY <1>1, <1>2, <2>3
    <3>. QED BY <1>2, <1>5, <2>3, <3>1
  <2>4. CASE j = i /\ ~new
    <3>1. t.values[i] = v /\ q.artifacts = Current(s).artifacts /\ t.artifacts = s.artifacts
      BY <1>2, <2>4
    <3>2. s.values[i] = v
      BY <2>1, <2>4 DEF Conflicts
    <3>. QED BY <2>1, <2>4, <3>1, <3>2
  <2>. QED BY <2>2, <2>3, <2>4
<1>9. ScreenedHere(t)
  <2> SUFFICES ASSUME q.artifacts[3] # 0, q.plan <= 3
               PROVE  t.values[3] = Screen(t)
    BY <1>4 DEF ScreenedHere
  <2>1. i # 2
    BY <1>6 DEF Artifact
  <2>2. t.values[2] = s.values[2]
    BY <1>2, <2>1 DEF Artifact
  <2>3. Screen(t) = Screen(s)
    BY <1>4, <2>2 DEF Screen
  <2>4. CASE i = 3
    BY <1>2, <2>3, <2>4
  <2>5. CASE i # 3
    <3>1. Current(s).artifacts[3] # 0
      BY <1>6, <2>5 DEF Artifact
    <3>2. s.values[3] = Screen(s)
      BY <1>1, <3>1 DEF CurrentSound, ScreenedHere
    <3>. QED BY <1>2, <2>3, <2>5, <3>2
  <2>. QED BY <2>4, <2>5
<1>10. CurrentSound(t)
  <2>1. \A d \in DOMAIN s.decisions : \E r \in DOMAIN s.revs : s.revs[r].decision = d
    BY <1>1 DEF CurrentSound
  <2>2. \A d \in DOMAIN t.decisions : \E r \in DOMAIN t.revs : t.revs[r].decision = d
    BY <1>4, <2>1
  <2>3. \A j \in Artifact :
           t.values[j] = IF Current(t).artifacts[j] = 0
                         THEN NoValue ELSE t.artifacts[Current(t).artifacts[j]]
    BY <1>4, <1>8
  <2>4. Current(t).decision # 0 => t.review = t.decisions[Current(t).decision]
    BY <1>1, <1>4 DEF CurrentSound
  <2>. QED BY <1>9, <2>2, <2>3, <2>4 DEF CurrentSound
<1>11. \A j \in Artifact : q.artifacts[j] # Current(s).artifacts[j] =>
          /\ Current(s).artifacts[j] = 0 /\ j # 5 /\ j \in s.enabled /\ Current(s).plan <= j
          /\ q.artifacts[j] \in DOMAIN t.artifacts
          /\ j = 2 => /\ ~t.artifacts[q.artifacts[2]].ready
                      /\ \A k \in Latest(s, 2) : t.receipts[k].status # "started"
          /\ j \in {3, 4} => \A k \in Latest(s, 2) : s.receipts[k].status = "succeeded"
  BY <1>5, <1>6
<1>. HIDE DEF n, new
<1>12. \A k \in DOMAIN s.receipts :
          \/ t.receipts[k] = s.receipts[k]
          \/ /\ s.receipts[k].rev = Len(s.revs) /\ Current(s).decision = 0
             /\ ReceiptFollows(s.receipts[k], t.receipts[k])
  OBVIOUS
<1>13. /\ Current(s).decision # 0 =>
            /\ q.artifacts = Current(s).artifacts /\ q.decision = Current(s).decision
            /\ q.status # Current(s).status => s.next[1] = "pure"
       /\ q.decision = 0 => q.status \notin {"approved", "rejected"}
       /\ q.decision # 0 => Current(s).decision # 0 \/ ApprovedRev(t, Len(s.revs))
  OBVIOUS
<1>14. q.decision # Current(s).decision =>
          q.decision \in DOMAIN t.decisions /\ t.decisions[q.decision].rev = Len(s.revs)
  OBVIOUS
<1>. QED BY <1>3, <1>10, <1>11, <1>12, <1>13, <1>14, FollowCurrent

\* What record_result leaves.
LEMMA RecordFields ==
    ASSUME NEW s \in Checkpoint, NEW i \in Artifact, NEW v \in Value,
           NEW status \in Statuses \ {"approved", "rejected"}, NEW next \in Nodes
    PROVE  LET t == Record(s, i, v, status, next)
           IN  /\ t \in Checkpoint /\ t.receipts = s.receipts /\ t.next = next
               /\ t.review = s.review
               /\ \E q \in Revision : Recorded(s, t, i, v, q)
<1> DEFINE r == Current(s)
           new == v # NoValue /\ Current(s).artifacts[i] = 0
           ids == [r.artifacts EXCEPT ![i] = IF new THEN Len(s.artifacts) + 1 ELSE @]
           q == [r EXCEPT !.status = status, !.artifacts = ids]
           arts == IF new THEN Append(s.artifacts, v) ELSE s.artifacts
           t == Record(s, i, v, status, next)
<1>1. r \in Revision /\ r.artifacts \in [Artifact -> Nat] /\ Len(s.artifacts) \in Nat
  BY CurrentType, RevisionParts, Parts
<1>2. /\ ids \in [Artifact -> Nat]
      /\ ids = IF new THEN [r.artifacts EXCEPT ![i] = Len(s.artifacts) + 1] ELSE r.artifacts
  BY <1>1
<1>3. /\ q \in Revision /\ q.inputs = r.inputs /\ q.plan = r.plan
      /\ q.decision = r.decision /\ q.status = status /\ q.artifacts = ids
  <2>. HIDE DEF ids, r
  <2>. QED BY <1>1, <1>2 DEF Revision
<1>4. t = [s EXCEPT !.values = [s.values EXCEPT ![i] = v], !.artifacts = arts,
                    !.revs = [s.revs EXCEPT ![Len(s.revs)] = q],
                    !.status = status, !.next = next]
  BY DEF Record
<1>. HIDE DEF q, arts, t
<1>5. /\ t.enabled = s.enabled /\ t.decisions = s.decisions
      /\ t.receipts = s.receipts /\ t.next = next /\ t.review = s.review
      /\ t.values = [s.values EXCEPT ![i] = v] /\ t.artifacts = arts
      /\ t.revs = [s.revs EXCEPT ![Len(s.revs)] = q]
  BY <1>4 DEF Checkpoint
<1>6. Recorded(s, t, i, v, q)
  BY <1>2, <1>3, <1>5 DEF Recorded, arts
<1>7. t \in Checkpoint
  BY RecordKeeps DEF Keeps, t
<1>. QED BY <1>3, <1>5, <1>6, <1>7 DEF t

LEMMA PureLedger ==
    ASSUME NEW s, Ledger(s), NEW i \in {1, 3, 4}, s.next = Node("pure", i)
    PROVE  Ledger(Pure(s, i)) /\ Evolves(s, Pure(s, i))
<1> DEFINE v == CASE i = 1 -> Policy(s) [] i = 3 -> Screen(s) [] i = 4 -> Construct(s)
           blocked == IF i = 3 THEN "screening_blocked" ELSE "construction_blocked"
<1>1. s \in Checkpoint /\ v \in Value /\ i \in Artifact /\ s.enabled \in Shapes
  BY LedgerParts, ValueTypes, Parts DEF Artifact
<1>2. /\ i \in s.enabled /\ Current(s).plan <= i
      /\ i = 1 => /\ Current(s).decision = 0 /\ Prior(s, 5) = {}
                  /\ \A j \in 2..5 : Current(s).artifacts[j] = 0
      /\ i \in {3, 4} => \A k \in Latest(s, 2) : s.receipts[k].status = "succeeded"
  <2>1. RouteIsSound(s) /\ s.next[2] = i /\ s.next # Node("execute", i)
    BY LedgerParts DEF Node
  <2>2. i \in s.enabled /\ Current(s).plan <= i
    BY <1>1, <2>1 DEF RouteIsSound
  <2>3. i = 1 => /\ Current(s).decision = 0 /\ Prior(s, 5) = {}
                 /\ \A j \in 2..5 : Current(s).artifacts[j] = 0
    BY <2>1 DEF RouteIsSound
  <2>4. i \in {3, 4} => \A k \in Latest(s, 2) : s.receipts[k].status = "succeeded"
    BY <2>1 DEF RouteIsSound
  <2>. QED BY <2>2, <2>3, <2>4
<1>3. v = NoValue => s.values[i] = NoValue
  <2> SUFFICES ASSUME v = NoValue, Current(s).artifacts[i] # 0
               PROVE  s.values[i] = NoValue
    BY <1>1, LedgerParts DEF CurrentSound
  <2>1. i = 3
    BY DEF Policy, Construct, NoValue
  <2>2. s.values[3] = Screen(s)
    BY <1>2, <2>1, LedgerParts DEF CurrentSound, ScreenedHere
  <2>. QED BY <2>1, <2>2
<1>4. \E status \in Statuses \ {"approved", "rejected"}, next \in {End, After(s, i)} :
         Pure(s, i) = RecordOrBlock(s, i, v, status, next)
  BY DEF Pure, Statuses, Blocked
<1>5. PICK status \in Statuses \ {"approved", "rejected"}, next \in {End, After(s, i)} :
         Pure(s, i) = RecordOrBlock(s, i, v, status, next)
  BY <1>4
<1>6. CASE Conflicts(s, i, v)
  BY <1>5, <1>6, BlockLedger DEF RecordOrBlock
<1>7. CASE ~Conflicts(s, i, v)
  <2> DEFINE t == Record(s, i, v, status, next)
  <2>1. Pure(s, i) = t
    BY <1>5, <1>7, LedgerParts DEF RecordOrBlock
  <2>2. next \in Nodes
    BY <1>1, AfterType, NodeTypes
  <2>3. Recordable(s, i, v)
    <3>1. Current(s).decision # 0 => Current(s).artifacts[i] # 0
      BY <1>2, DecidedComplete
    <3>. QED BY <1>2, <1>3, <1>7, <3>1 DEF Recordable
  <2>. HIDE DEF v
  <2>4. /\ t \in Checkpoint /\ t.receipts = s.receipts /\ t.next = next
        /\ t.review = s.review
        /\ \E q \in Revision : Recorded(s, t, i, v, q)
    BY <1>1, <2>2, RecordFields
  <2>. HIDE DEF t
  <2>5. PICK q \in Revision : Recorded(s, t, i, v, q)
    BY <2>4
  <2>6. RouteIsSound(t)
    <3>1. CASE next = End
      BY <2>4, <3>1, RouteToEnd
    <3>2. CASE next = After(s, i)
      <4>1. s.revs \in Seq(Revision) /\ Len(s.revs) \in DOMAIN s.revs
        BY <1>1, Parts DEF Checkpoint
      <4>2. Current(t) = q /\ Len(t.revs) = Len(s.revs) /\ t.enabled = s.enabled
        BY <2>5, <4>1 DEF Current, Recorded
      <4>3. /\ q.plan \in 0..5 /\ q.plan <= i /\ q.decision = Current(s).decision
            /\ t.next = After(s, i)
        BY <1>2, <2>4, <2>5, <3>2, RevisionParts DEF Recorded
      <4>4. Prior(t, 5) = Prior(s, 5) /\ Latest(t, 2) = Latest(s, 2)
        BY <2>4, <4>2 DEF Latest, Prior, Attempts
      <4>5. i = 1 => \A j \in 2..5 : q.artifacts[j] = 0
        <5> SUFFICES ASSUME i = 1, NEW j \in 2..5
                     PROVE  q.artifacts[j] = Current(s).artifacts[j]
          BY <1>2
        <5>1. Current(s).artifacts \in [Artifact -> Nat] /\ j \in Artifact /\ j # i
          BY <1>1, LedgerParts, RevisionParts DEF Artifact
        <5>. QED BY <2>5, <5>1 DEF Recorded
      <4>6. i \in {2, 3, 4} => \A k \in Latest(t, 2) : t.receipts[k].status = "succeeded"
        BY <1>2, <2>4, <4>4
      <4>7. i = 1 => /\ Current(t).decision = 0 /\ Prior(t, 5) = {}
                     /\ \A j \in 2..5 : Current(t).artifacts[j] = 0
        BY <1>2, <4>2, <4>3, <4>4, <4>5
      <4>8. /\ Current(t).plan \in 0..5 /\ Current(t).plan <= i
            /\ t.next = After(s, i) /\ t.enabled = s.enabled
        BY <4>2, <4>3
      <4>. QED BY <1>1, <4>6, <4>7, <4>8, RouteAfter
    <3>. QED BY <3>1, <3>2
  <2>7. Failing(s, t, i)
    BY <2>4 DEF Failing
  <2>8. s.next[1] = "pure"
    BY DEF Node
  <2>9. Ledger(t) /\ Evolves(s, t)
    BY <1>1, <2>3, <2>4, <2>5, <2>6, <2>7, <2>8, RecordFollows
  <2>. QED BY <2>1, <2>9
<1>. QED BY <1>6, <1>7

\* An attempt that is under way has left nothing to conflict with.
LEMMA OpenAttempt ==
    ASSUME NEW s, Ledger(s), NEW stage \in OpStage, NEW k \in Latest(s, stage),
           s.receipts[k].status = "started"
    PROVE  /\ Current(s).decision = 0 /\ stage \in s.enabled /\ Current(s).plan <= stage
           /\ stage \in Artifact /\ Current(s).artifacts[stage] = 0
           /\ s.values[stage] = NoValue
           /\ \A v : ~Conflicts(s, stage, v)
           /\ stage = 2 => Attempts(s, Len(s.revs), 5) = {}
                           /\ \A i \in 3..5 : Current(s).artifacts[i] = 0
           /\ \A j \in Attempts(s, Len(s.revs), stage) :
                 /\ j <= k
                 /\ s.receipts[j].status = "succeeded" => FALSE
<1> DEFINE n == Len(s.revs)
<1>1. /\ s \in Checkpoint /\ RevSound(s, n) /\ RouteIsSound(s) /\ CurrentSound(s)
      /\ Current(s) = s.revs[n] /\ stage \in Artifact
  BY LedgerParts DEF OpStage, Artifact
<1>2. k \in Last(s, n, stage) /\ k \in Attempts(s, n, stage) /\ k \in Nat
  BY <1>1, LatestIsOne DEF Last
<1>3. stage \in s.enabled /\ Current(s).plan <= stage
  BY AttemptOwned
<1>4. Current(s).artifacts[stage] = 0
  BY <1>1, <1>2 DEF RevSound
<1>5. Current(s).decision = 0
  BY <1>3, <1>4, DecidedComplete
<1>6. s.values[stage] = NoValue /\ \A v : ~Conflicts(s, stage, v)
  BY <1>1, <1>4 DEF CurrentSound, Conflicts
<1>7. stage = 2 => Attempts(s, n, 5) = {} /\ \A i \in 3..5 : Current(s).artifacts[i] = 0
  BY <1>1, <1>2 DEF RevSound
<1>8. ASSUME NEW j \in Attempts(s, n, stage)
      PROVE  j <= k /\ (s.receipts[j].status = "succeeded" => FALSE)
  <2>1. j <= k /\ j \in Nat
    BY <1>1, <1>2, Parts DEF Last, Attempts
  <2>2. s.receipts[j].status = "succeeded" => k <= j
    BY <1>1, <1>2 DEF RevSound
  <2>. QED BY <1>2, <2>1, <2>2
<1>. QED BY <1>1, <1>3, <1>4, <1>6, <1>7, <1>8, <1>5

\* Attempt k, and nothing else, comes to an end.
Resolved(s, t, k, status, output) ==
    LET p == s.receipts[k]  q == t.receipts[k] IN
    /\ t.enabled = s.enabled /\ t.decisions = s.decisions /\ t.values = s.values
    /\ t.artifacts = s.artifacts /\ t.revs = s.revs /\ t.next = s.next /\ t.retryOp = s.retryOp
    /\ DOMAIN t.receipts = DOMAIN s.receipts
    /\ \A j \in DOMAIN s.receipts : j # k => t.receipts[j] = s.receipts[j]
    /\ q.op = p.op /\ q.rev = p.rev /\ q.stage = p.stage /\ q.attempt = p.attempt
    /\ q.input = p.input /\ q.status = status /\ q.output = output

LEMMA ResolveFields ==
    ASSUME NEW s \in Checkpoint, NEW k \in DOMAIN s.receipts, NEW status, NEW output
    PROVE  Resolved(s, Resolve(s, k, status, output), k, status, output)
<1> DEFINE p == s.receipts[k]
           q == [p EXCEPT !.status = status, !.output = output]
           rs == [s.receipts EXCEPT ![k] = q]
           t == Resolve(s, k, status, output)
<1>1. p \in OperationReceipt /\ s.receipts \in Seq(OperationReceipt)
  BY Parts DEF Checkpoint
<1>2. /\ q.op = p.op /\ q.rev = p.rev /\ q.stage = p.stage /\ q.attempt = p.attempt
      /\ q.input = p.input /\ q.status = status /\ q.output = output
  <2>. HIDE DEF p
  <2>. QED BY <1>1 DEF OperationReceipt
<1>3. t = [s EXCEPT !.receipts = rs]
  BY <1>1 DEF Resolve, Checkpoint
<1>. HIDE DEF t, rs
<1>4. /\ t.enabled = s.enabled /\ t.decisions = s.decisions /\ t.values = s.values
      /\ t.artifacts = s.artifacts /\ t.revs = s.revs /\ t.next = s.next /\ t.receipts = rs
      /\ t.retryOp = s.retryOp
  BY <1>3 DEF Checkpoint
<1>. HIDE DEF q
<1>5. /\ DOMAIN rs = DOMAIN s.receipts /\ rs[k] = q
      /\ \A j \in DOMAIN s.receipts : j # k => rs[j] = s.receipts[j]
  BY <1>1 DEF rs
<1>6. Resolved(s, t, k, status, output)
  BY <1>2, <1>4, <1>5 DEF Resolved
<1>. QED BY <1>6 DEF t

LEMMA FailedLedger ==
    ASSUME NEW s, Ledger(s), NEW stage \in OpStage, NEW k \in Latest(s, stage),
           s.receipts[k].status = "started", s.next = Node("execute", stage),
           NEW v \in Value, ~v.ready, stage = 5 => v = NoValue
    PROVE  Ledger(Failed(s, stage, k, v)) /\ Evolves(s, Failed(s, stage, k, v))
<1> DEFINE blocked == IF stage = 2 THEN "evidence_blocked" ELSE "explanation_blocked"
           r == Record(s, stage, v, blocked, End)
           t == Resolve(r, k, "failed", 0)
<1>1. /\ s \in Checkpoint /\ stage \in Artifact /\ k \in DOMAIN s.receipts
      /\ s.receipts[k].rev = Len(s.revs)
  BY LedgerParts, LatestIsOne, OpenAttempt
<1>2. blocked \in Statuses \ {"approved", "rejected"}
  BY DEF Statuses, Blocked
<1>3. Failed(s, stage, k, v) = t
  BY OpenAttempt DEF Failed
<1>. HIDE DEF blocked
<1>4. /\ r \in Checkpoint /\ r.receipts = s.receipts /\ r.next = End
      /\ \E q \in Revision : Recorded(s, r, stage, v, q)
  BY <1>1, <1>2, NodeTypes, RecordFields
<1>5. t \in Checkpoint
  <2>. HIDE DEF r
  <2>. QED BY <1>1, <1>4, ResolveKeeps DEF Keeps
<1>. HIDE DEF r
<1>6. Resolved(r, t, k, "failed", 0)
  BY <1>1, <1>4, ResolveFields
<1>. HIDE DEF t
<1>7. PICK q \in Revision : Recorded(s, t, stage, v, q)
  <2>1. PICK q \in Revision : Recorded(s, r, stage, v, q)
    BY <1>4
  <2>2. Recorded(s, t, stage, v, q)
    BY <1>6, <2>1 DEF Recorded, Resolved
  <2>. QED BY <2>2
<1>8. Recordable(s, stage, v) /\ Current(s).decision = 0
  BY OpenAttempt DEF Recordable, OpStage
<1>9. Failing(s, t, stage)
  <2>1. \A j \in Latest(s, 2) : stage = 2 => j = k
    BY <1>1, LatestIsOne
  <2>2. ReceiptFollows(s.receipts[k], t.receipts[k])
    BY <1>4, <1>6 DEF ReceiptFollows, Resolved
  <2>. QED BY <1>1, <1>4, <1>6, <1>8, <2>1, <2>2 DEF Failing, Resolved
<1>10. RouteIsSound(t)
  BY <1>4, <1>6, RouteToEnd DEF Resolved
<1>11. Ledger(t) /\ Evolves(s, t)
  BY <1>1, <1>5, <1>7, <1>8, <1>9, <1>10, RecordFollows
<1>. QED BY <1>3, <1>11 DEF t, r

-----------------------------------------------------------------------------
(* The steps that replace the current revision.                              *)

\* The attempts of t are those of s, and perhaps more of its current revision.
AttemptsKept(s, t) ==
    /\ \A k \in DOMAIN s.receipts :
          /\ k \in DOMAIN t.receipts
          /\ t.receipts[k].rev = s.receipts[k].rev
          /\ t.receipts[k].stage = s.receipts[k].stage
          /\ t.receipts[k].op = s.receipts[k].op
          /\ s.receipts[k].rev # Len(s.revs) => t.receipts[k] = s.receipts[k]
    /\ \A k \in DOMAIN t.receipts :
          k \in DOMAIN s.receipts \/ t.receipts[k].rev = Len(s.revs)

\* The current revision alone changes.
OneReplaced(s, t) ==
    /\ t.enabled = s.enabled /\ t.decisions = s.decisions
    /\ DOMAIN t.revs = DOMAIN s.revs /\ Len(t.revs) = Len(s.revs)
    /\ \A rev \in DOMAIN s.revs : rev # Len(s.revs) => t.revs[rev] = s.revs[rev]
    /\ Current(s).decision = 0 /\ Current(t).decision = 0
    /\ Current(t).status \notin {"approved", "rejected"}
    /\ Current(t).inputs = Current(s).inputs /\ Current(t).plan = Current(s).plan

LEMMA CurrentReplaced ==
    ASSUME NEW s, Ledger(s), NEW t \in Checkpoint, Prefix(s.artifacts, t.artifacts),
           OneReplaced(s, t), AttemptsKept(s, t), RevSound(t, Len(s.revs)),
           AttemptsSound(t), CurrentSound(t), RouteIsSound(t)
    PROVE  Ledger(t) /\ Evolves(s, t)
<1> DEFINE n == Len(s.revs)
<1>1. /\ s \in Checkpoint /\ n \in DOMAIN s.revs /\ Current(s) = s.revs[n]
      /\ t.enabled = s.enabled /\ t.decisions = s.decisions
      /\ DOMAIN t.revs = DOMAIN s.revs /\ Len(t.revs) = n
      /\ Current(s).decision = 0
  BY LedgerParts DEF OneReplaced
<1>2. \A rev \in DOMAIN s.revs : rev # n => t.revs[rev] = s.revs[rev]
  BY DEF OneReplaced
<1>3. ASSUME NEW rev, rev # n, NEW stage
      PROVE  /\ Attempts(t, rev, stage) = Attempts(s, rev, stage)
             /\ \A k \in Attempts(s, rev, stage) : t.receipts[k] = s.receipts[k]
  BY <1>3 DEF AttemptsKept, Attempts
<1>4. Prefix(s.decisions, t.decisions)
  BY <1>1 DEF Prefix
<1>5. ASSUME NEW rev \in DOMAIN s.revs, rev # n PROVE RevFollows(s, t, rev)
  <2>1. s.revs[rev].decision = 0 => s.revs[rev].status \notin {"approved", "rejected"}
    BY DEF Ledger, DecisionsMade
  <2>2. t.revs[rev] = s.revs[rev]
    BY <1>2, <1>5
  <2>3. \A stage \in OpStage :
           /\ Attempts(t, rev, stage) = Attempts(s, rev, stage)
           /\ \A k \in Attempts(s, rev, stage) :
                 /\ ReceiptFollows(s.receipts[k], t.receipts[k])
                 /\ s.revs[rev].decision # 0 => t.receipts[k] = s.receipts[k]
    BY <1>3, <1>5 DEF ReceiptFollows
  <2>. QED BY <1>1, <2>1, <2>2, <2>3 DEF RevFollows
<1>6. ASSUME NEW rev \in DOMAIN s.revs PROVE RevSound(t, rev)
  <2>1. CASE rev # n
    <3>1. rev > 1 => rev - 1 \in DOMAIN s.revs /\ rev - 1 # n
      BY <1>1, Parts
    <3>2. t.revs[rev].decision # 0 => s.revs[rev].decision # 0
      BY <1>2, <2>1
    <3>. QED BY <1>1, <1>4, <1>5, <2>1, <3>1, <3>2, RevSoundKept
  <2>. QED BY <2>1
<1>7. Ledger(t)
  BY <1>1, <1>6, ByRevision
<1>8. Evolves(s, t)
  <2>1. \A rev \in DOMAIN s.revs : /\ s.revs[rev].decision # 0 => rev # n
                                   /\ s.revs[rev] \in Revision
    BY <1>1, Parts
  <2>. QED BY <1>1, <1>2, <1>3, <1>4, <2>1 DEF Evolves, SameButStatus
<1>. QED BY <1>7, <1>8

LEMMA HeadValid ==
    ASSUME NEW s, Ledger(s), NEW t \in Checkpoint, OneReplaced(s, t),
           \A i \in Artifact : i < Current(s).plan /\ Current(t).artifacts[i] # 0
              => Current(t).artifacts[i] = Current(s).artifacts[i],
           \A i \in Artifact : Current(t).artifacts[i] # 0
              => i \in s.enabled /\ Current(t).artifacts[i] \in DOMAIN t.artifacts,
           \A stage \in OpStage : /\ ReceiptsValid(t, Len(s.revs), stage)
                                  /\ SideEffectProven(t, Len(s.revs), stage)
    PROVE  RevisionValid(t, Len(s.revs))
<1> DEFINE n == Len(s.revs)
<1>1. /\ s \in Checkpoint /\ n \in DOMAIN s.revs /\ Current(s) = s.revs[n] /\ n \in Nat \ {0}
      /\ Current(t) = t.revs[n] /\ RevisionValid(s, n) /\ DOMAIN s.revs = 1..n
  BY LedgerParts, Parts DEF OneReplaced, RevSound, Current
<1>2. /\ t.enabled = s.enabled /\ t.decisions = s.decisions /\ Current(t).decision = 0
      /\ Current(t).inputs = Current(s).inputs /\ Current(t).plan = Current(s).plan
      /\ n > 1 => t.revs[n - 1] = s.revs[n - 1]
  BY <1>1 DEF OneReplaced
<1>3. n = 1 => Current(t).plan = 0
  BY <1>1, <1>2 DEF RevisionValid
<1>4. n > 1 =>
        LET parent == t.revs[n - 1] IN
        /\ parent.decision # 0
        /\ LET d == t.decisions[parent.decision] IN
           /\ Current(t).plan = PlanIndex(d)
           /\ Current(t).inputs = [c \in Artifact |-> IF c \in d.feedback THEN d.version
                                                      ELSE parent.inputs[c]]
        /\ \A i \in Artifact : i < Current(t).plan /\ Current(t).artifacts[i] # 0
             => Current(t).artifacts[i] = parent.artifacts[i]
  <2> SUFFICES ASSUME n > 1
               PROVE  LET parent == s.revs[n - 1] IN
                      /\ parent.decision # 0
                      /\ LET d == s.decisions[parent.decision] IN
                         /\ Current(s).plan = PlanIndex(d)
                         /\ Current(s).inputs = [c \in Artifact |->
                                                   IF c \in d.feedback THEN d.version
                                                   ELSE parent.inputs[c]]
                      /\ \A i \in Artifact : i < Current(s).plan /\ Current(t).artifacts[i] # 0
                           => Current(t).artifacts[i] = parent.artifacts[i]
    BY <1>2
  <2>. QED BY <1>1 DEF RevisionValid
<1>5. \A stage \in OpStage : ReceiptsValid(t, n, stage) /\ SideEffectProven(t, n, stage)
  OBVIOUS
<1>. HIDE DEF n
<1>6. \A i \in Artifact : Current(t).artifacts[i] # 0
         => i \in t.enabled /\ Current(t).artifacts[i] \in DOMAIN t.artifacts
  BY <1>2
<1>7. RevisionValid(t, n)
  <2>1. t.revs[n] = Current(t)
    BY <1>1
  <2>. QED BY <1>2, <1>3, <1>4, <1>5, <1>6, <2>1, SMTT(30) DEF RevisionValid
<1>. QED BY <1>7 DEF n

\* What an adapter's accepted output makes of the checkpoint.
Yields(s, t, stage, k, v, q) ==
    LET id == Len(s.artifacts) + 1 IN
    /\ t.enabled = s.enabled /\ t.decisions = s.decisions /\ t.next = After(s, stage)
    /\ t.retryOp = s.retryOp
    /\ t.values = [s.values EXCEPT ![stage] = v]
    /\ t.artifacts = Append(s.artifacts, v)
    /\ t.revs = [s.revs EXCEPT ![Len(s.revs)] = q]
    /\ q.inputs = Current(s).inputs /\ q.plan = Current(s).plan
    /\ q.decision = Current(s).decision /\ q.status = "awaiting_human_review"
    /\ q.artifacts = [Current(s).artifacts EXCEPT ![stage] = id]
    /\ LET a == s.receipts[k]  b == t.receipts[k] IN
       /\ DOMAIN t.receipts = DOMAIN s.receipts
       /\ \A j \in DOMAIN s.receipts : j # k => t.receipts[j] = s.receipts[j]
       /\ b.op = a.op /\ b.rev = a.rev /\ b.stage = a.stage /\ b.attempt = a.attempt
       /\ b.input = a.input /\ b.status = "succeeded" /\ b.output = id

LEMMA SucceededFields ==
    ASSUME NEW s \in Checkpoint, NEW stage \in OpStage, NEW k \in DOMAIN s.receipts,
           NEW v \in Value
    PROVE  /\ Succeeded(s, stage, k, v) \in Checkpoint
           /\ \E q \in Revision : Yields(s, Succeeded(s, stage, k, v), stage, k, v, q)
<1> DEFINE id == Len(s.artifacts) + 1
           ids == [Current(s).artifacts EXCEPT ![stage] = id]
           q == [Current(s) EXCEPT !.artifacts = ids, !.status = "awaiting_human_review"]
           as == Append(s.artifacts, v)
           vs == [s.values EXCEPT ![stage] = v]
           rs == [s.revs EXCEPT ![Len(s.revs)] = q]
           next == After(s, stage)
           r == [s EXCEPT !.artifacts = as, !.values = vs, !.revs = rs,
                          !.status = "awaiting_human_review", !.next = next]
           t == Succeeded(s, stage, k, v)
<1>1. /\ Current(s) \in Revision /\ Current(s).artifacts \in [Artifact -> Nat]
      /\ id \in Nat /\ stage \in Artifact
  BY CurrentType, RevisionParts, Parts DEF OpStage, Artifact
<1>2. ids \in [Artifact -> Nat]
  BY <1>1
<1>3. /\ q \in Revision /\ q.inputs = Current(s).inputs /\ q.plan = Current(s).plan
      /\ q.decision = Current(s).decision /\ q.status = "awaiting_human_review"
      /\ q.artifacts = ids
  <2>. HIDE DEF ids
  <2>. QED BY <1>1, <1>2 DEF Revision, Statuses
<1>4. t = Resolve(r, k, "succeeded", id)
  BY DEF Succeeded
<1>. HIDE DEF q, ids
<1>5. vs \in [Artifact -> Value] /\ as \in Seq(Value) /\ rs \in Seq(Revision) \ {<<>>}
      /\ next \in Nodes
  <2>1. vs \in [Artifact -> Value] /\ as \in Seq(Value)
    BY <1>1 DEF Checkpoint
  <2>. QED BY <1>1, <1>3, <2>1, SetRevType, AfterType
<1>. HIDE DEF vs, rs, as, next
<1>6. /\ r.enabled = s.enabled /\ r.decisions = s.decisions /\ r.next = next
      /\ r.values = vs /\ r.receipts = s.receipts /\ r.artifacts = as /\ r.revs = rs
      /\ r \in Checkpoint /\ r.retryOp = s.retryOp
  BY <1>5 DEF Checkpoint, Statuses
<1>. HIDE DEF r
<1>7. Resolved(r, t, k, "succeeded", id)
  BY <1>4, <1>6, ResolveFields
<1>8. t \in Checkpoint
  BY SucceededKeeps DEF Keeps
<1>. HIDE DEF t
<1>9. Yields(s, t, stage, k, v, q)
  BY <1>3, <1>6, <1>7 DEF Yields, Resolved, ids, vs, rs, as, next
<1>. QED BY <1>3, <1>8, <1>9 DEF t

\* The output of a stage: ready, and, for the explanation, over the construction.
AnswersStage(s, stage, v) ==
    /\ v \in Value /\ v.ready
    /\ stage = 5 => v.basis = Append(s.values[4].basis, Current(s).inputs[5])

LEMMA SucceededLedger ==
    ASSUME NEW s, Ledger(s), NEW stage \in OpStage, NEW k \in Latest(s, stage),
           s.receipts[k].status = "started", s.next = Node("execute", stage),
           NEW v, AnswersStage(s, stage, v)
    PROVE  Ledger(Succeeded(s, stage, k, v)) /\ Evolves(s, Succeeded(s, stage, k, v))
<1> DEFINE t == Succeeded(s, stage, k, v)
           n == Len(s.revs)
           id == Len(s.artifacts) + 1
<1>1. /\ s \in Checkpoint /\ n \in DOMAIN s.revs /\ Current(s) = s.revs[n]
      /\ RevSound(s, n) /\ RevisionValid(s, n) /\ CurrentSound(s) /\ AttemptsSound(s)
      /\ Current(s).artifacts \in [Artifact -> Nat] /\ Current(s).plan \in 0..5
      /\ s.revs \in Seq(Revision) /\ s.artifacts \in Seq(Value)
      /\ s.values \in [Artifact -> Value] /\ id \in Nat \ {0}
      /\ DOMAIN s.artifacts = 1..Len(s.artifacts) /\ s.enabled \in Shapes
  <2>1. /\ s \in Checkpoint /\ n \in DOMAIN s.revs /\ Current(s) = s.revs[n]
        /\ RevSound(s, n) /\ CurrentSound(s) /\ AttemptsSound(s) /\ Current(s) \in Revision
    BY LedgerParts
  <2>2. RevisionValid(s, n)
    BY <2>1 DEF RevSound
  <2>3. Current(s).artifacts \in [Artifact -> Nat] /\ Current(s).plan \in 0..5
    BY <2>1, RevisionParts
  <2>4. /\ Len(s.artifacts) \in Nat /\ DOMAIN s.artifacts = 1..Len(s.artifacts)
        /\ s.values \in [Artifact -> Value] /\ s.enabled \in Shapes
    BY <2>1, Parts
  <2>5. s.revs \in Seq(Revision) /\ s.artifacts \in Seq(Value)
    BY <2>1 DEF Checkpoint
  <2>. QED BY <2>1, <2>2, <2>3, <2>4, <2>5
<1>2. /\ k \in DOMAIN s.receipts /\ s.receipts[k].rev = n /\ s.receipts[k].stage = stage
      /\ k \in Attempts(s, n, stage) /\ k \in Nat
  BY <1>1, LatestIsOne DEF Prior
<1>3. /\ Current(s).decision = 0 /\ stage \in s.enabled /\ Current(s).plan <= stage
      /\ stage \in Artifact /\ Current(s).artifacts[stage] = 0
      /\ stage = 2 => Attempts(s, n, 5) = {} /\ \A i \in 3..5 : Current(s).artifacts[i] = 0
      /\ \A j \in Attempts(s, n, stage) :
            j <= k /\ (s.receipts[j].status = "succeeded" => FALSE)
  BY OpenAttempt
<1>4. t \in Checkpoint /\ \E q \in Revision : Yields(s, t, stage, k, v, q)
  BY <1>1, <1>2, SucceededFields DEF AnswersStage
<1>. HIDE DEF t
<1>5. PICK q \in Revision : Yields(s, t, stage, k, v, q)
  BY <1>4
<1>6. /\ t.enabled = s.enabled /\ t.decisions = s.decisions /\ t.next = After(s, stage)
      /\ DOMAIN t.revs = DOMAIN s.revs /\ Len(t.revs) = n /\ Current(t) = q /\ t.revs[n] = q
      /\ \A rev \in DOMAIN s.revs : rev # n => t.revs[rev] = s.revs[rev]
  BY <1>1, <1>5 DEF Yields, Current
<1>7. /\ q.inputs = Current(s).inputs /\ q.plan = Current(s).plan /\ q.decision = 0
      /\ q.status \notin {"approved", "rejected"} /\ q.artifacts[stage] = id
      /\ \A i \in Artifact : i # stage => q.artifacts[i] = Current(s).artifacts[i]
  BY <1>1, <1>3, <1>5 DEF Yields
<1>8. /\ t.artifacts[id] = v /\ id \in DOMAIN t.artifacts
      /\ \A i \in DOMAIN s.artifacts : i \in DOMAIN t.artifacts /\ t.artifacts[i] = s.artifacts[i]
  BY <1>1, <1>5 DEF Yields, AnswersStage
<1>9. /\ DOMAIN t.receipts = DOMAIN s.receipts
      /\ \A j \in DOMAIN s.receipts : j # k => t.receipts[j] = s.receipts[j]
      /\ t.receipts[k].status = "succeeded" /\ t.receipts[k].output = id
      /\ \A j \in DOMAIN s.receipts : /\ t.receipts[j].op = s.receipts[j].op
                                      /\ t.receipts[j].rev = s.receipts[j].rev
                                      /\ t.receipts[j].stage = s.receipts[j].stage
                                      /\ t.receipts[j].attempt = s.receipts[j].attempt
                                      /\ t.receipts[j].input = s.receipts[j].input
  BY <1>2, <1>5 DEF Yields
<1>10. /\ t.values[stage] = v
       /\ \A i \in Artifact : i # stage => t.values[i] = s.values[i]
  BY <1>1, <1>3, <1>5 DEF Yields
<1>. HIDE DEF n, id
<1>11. \A rev, st : Attempts(t, rev, st) = Attempts(s, rev, st)
  BY <1>9 DEF Attempts
<1>12. \A st : Last(t, n, st) = Last(s, n, st)
  BY <1>11 DEF Last
<1>13. \A st \in OpStage : st # stage => \A j \in Attempts(s, n, st) :
          t.receipts[j] = s.receipts[j]
  BY <1>2, <1>9 DEF Attempts
<1>14. \A j \in Last(s, n, stage) : j = k
  BY <1>1, <1>2, <1>3, Parts DEF Last, Attempts
<1>15. OneReplaced(s, t)
  BY <1>3, <1>6, <1>7 DEF OneReplaced, n
<1>16. AttemptsKept(s, t)
  BY <1>2, <1>9 DEF AttemptsKept, n
<1>17. \A i \in Artifact : Current(s).artifacts[i] # 0 =>
          i \in s.enabled /\ Current(s).artifacts[i] \in DOMAIN s.artifacts
  BY <1>1 DEF RevisionValid
<1>18. stage = 5 => \A i \in 1..4 : Current(s).artifacts[i] # 0
  BY <1>1, <1>2, ZenonT(60) DEF RevisionValid, ReceiptsValid
<1>19. ASSUME NEW st \in OpStage PROVE ReceiptsValid(t, n, st)
  <2> SUFFICES ASSUME NEW j \in Attempts(s, n, st)
               PROVE  LET b == t.receipts[j] IN
                      /\ b.attempt = Cardinality({h \in Attempts(s, n, st) : h <= j})
                      /\ st = 5 => \A i \in 1..4 : t.revs[n].artifacts[i] # 0
                      /\ b.input = OperationInput(t, n, st)
                      /\ b.status = "succeeded" => /\ \A h \in Attempts(s, n, st) : h <= j
                                                   /\ b.output \in DOMAIN t.artifacts
    BY <1>11 DEF ReceiptsValid
  <2>1. /\ s.receipts[j].attempt = Cardinality({h \in Attempts(s, n, st) : h <= j})
        /\ st = 5 => \A i \in 1..4 : Current(s).artifacts[i] # 0
        /\ s.receipts[j].input = OperationInput(s, n, st)
        /\ s.receipts[j].status = "succeeded" => /\ \A h \in Attempts(s, n, st) : h <= j
                                                 /\ s.receipts[j].output \in DOMAIN s.artifacts
    BY <1>1 DEF RevisionValid, ReceiptsValid
  <2>2. j \in DOMAIN s.receipts /\ st = 5 => stage = 5
    BY <1>3 DEF OpStage, Attempts
  <2>3. st = 5 => \A i \in 1..4 : q.artifacts[i] = Current(s).artifacts[i]
    BY <1>7, <2>2 DEF Artifact, Attempts
  <2>4. OperationInput(t, n, st) = OperationInput(s, n, st)
    <3>1. t.revs[n].inputs = s.revs[n].inputs
      BY <1>1, <1>6, <1>7
    <3>2. CASE st = 2
      BY <3>1, <3>2 DEF OperationInput
    <3>3. CASE st = 5
      <4>1. \A i \in 1..4 : t.revs[n].artifacts[i] = s.revs[n].artifacts[i]
        BY <1>1, <1>6, <2>3, <3>3
      <4>. QED BY <3>1, <3>3, <4>1 DEF OperationInput
    <3>. QED BY <3>2, <3>3 DEF OpStage
  <2>5. t.receipts[j].attempt = s.receipts[j].attempt /\ t.receipts[j].input = s.receipts[j].input
    BY <1>9 DEF Attempts
  <2>6. t.receipts[j].status = "succeeded" => /\ \A h \in Attempts(s, n, st) : h <= j
                                              /\ t.receipts[j].output \in DOMAIN t.artifacts
    <3>1. CASE j = k
      <4>1. st = stage
        BY <1>2, <3>1 DEF Attempts
      <4>. QED BY <1>3, <1>8, <1>9, <3>1, <4>1 DEF n
    <3>2. CASE j # k
      <4>1. t.receipts[j] = s.receipts[j]
        BY <1>9, <3>2 DEF Attempts
      <4>. QED BY <1>8, <2>1, <4>1
    <3>. QED BY <3>1, <3>2
  <2>. QED BY <1>6, <2>1, <2>3, <2>4, <2>5, <2>6
<1>20. ASSUME NEW st \in OpStage PROVE SideEffectProven(t, n, st)
  <2>1. CASE st = stage
    <3>1. ~(n > 1 /\ st < q.plan)
      BY <1>1, <1>3, <1>7, <2>1 DEF OpStage
    <3>2. \E j \in Attempts(t, n, st) :
             t.receipts[j].status = "succeeded" /\ t.receipts[j].output = t.revs[n].artifacts[st]
      BY <1>2, <1>6, <1>7, <1>9, <1>11, <2>1
    <3>. QED BY <1>6, <3>1, <3>2 DEF SideEffectProven
  <2>2. CASE st # stage /\ st = 5
    BY <1>3, <1>6, <1>7, <2>2 DEF SideEffectProven, OpStage, Artifact
  <2>3. CASE st # stage /\ st = 2
    <3>1. q.artifacts[2] = Current(s).artifacts[2]
      BY <1>7, <2>3 DEF Artifact
    <3> SUFFICES ASSUME q.artifacts[2] # 0, t.artifacts[q.artifacts[2]].ready
                 PROVE  IF n > 1 /\ 2 < q.plan
                        THEN q.artifacts[2] = t.revs[n - 1].artifacts[2]
                        ELSE \E j \in Attempts(t, n, 2) :
                                /\ t.receipts[j].status = "succeeded"
                                /\ t.receipts[j].output = q.artifacts[2]
      BY <1>6, <2>3 DEF SideEffectProven
    <3>2. s.artifacts[Current(s).artifacts[2]].ready
      BY <1>8, <1>17, <3>1 DEF Artifact
    <3>3. IF n > 1 /\ 2 < q.plan
          THEN q.artifacts[2] = s.revs[n - 1].artifacts[2]
          ELSE \E j \in Attempts(s, n, 2) :
                  /\ s.receipts[j].status = "succeeded"
                  /\ s.receipts[j].output = q.artifacts[2]
      <4>1. SideEffectProven(s, n, 2)
        BY <1>1 DEF RevisionValid, OpStage
      <4>. QED BY <1>1, <1>7, <3>1, <3>2, <4>1 DEF SideEffectProven
    <3>4. n > 1 => t.revs[n - 1] = s.revs[n - 1]
      <4>1. n \in Nat /\ DOMAIN s.revs = 1..n
        BY <1>1, Parts DEF n
      <4>. QED BY <1>6, <4>1
    <3>. QED BY <1>11, <1>13, <2>3, <3>3, <3>4
  <2>. QED BY <2>1, <2>2, <2>3 DEF OpStage
<1>21. RevisionValid(t, n)
  <2>1. \A i \in Artifact : i < Current(s).plan /\ Current(t).artifacts[i] # 0
           => Current(t).artifacts[i] = Current(s).artifacts[i]
    <3> SUFFICES ASSUME NEW i \in Artifact, i < Current(s).plan
                 PROVE  q.artifacts[i] = Current(s).artifacts[i]
      BY <1>6
    <3>1. Current(s).plan \in 0..5 /\ stage \in Artifact /\ Current(s).plan <= stage
      BY <1>1, <1>3
    <3>2. i # stage
      BY <3>1 DEF Artifact
    <3>. QED BY <1>7, <3>2
  <2>2. \A i \in Artifact : Current(t).artifacts[i] # 0
           => i \in s.enabled /\ Current(t).artifacts[i] \in DOMAIN t.artifacts
    BY <1>3, <1>6, <1>7, <1>8, <1>17
  <2>. QED BY <1>4, <1>15, <1>19, <1>20, <2>1, <2>2, HeadValid DEF n
<1>22. ASSUME NEW j \in Last(t, n, 2), t.receipts[j].status # "succeeded"
       PROVE  Attempts(t, n, 5) = {} /\ \A i \in 3..5 : t.revs[n].artifacts[i] = 0
  <2>1. j # k /\ stage # 2
    BY <1>9, <1>12, <1>14, <1>22
  <2>2. stage = 5 /\ j \in Attempts(s, n, 2)
    BY <1>12, <1>22, <2>1 DEF OpStage, Last
  <2>3. s.receipts[j].status # "succeeded"
    BY <1>13, <1>22, <2>2 DEF OpStage
  <2>4. Attempts(s, n, 5) = {}
    BY <1>1, <1>12, <1>22, <2>3 DEF RevSound
  <2>. QED BY <1>2, <2>2, <2>4
<1>23. ASSUME NEW st \in OpStage, NEW j \in Last(t, n, st), t.receipts[j].status = "started"
       PROVE  t.revs[n].artifacts[st] = 0
  <2>1. st # stage
    BY <1>9, <1>12, <1>14, <1>23
  <2>2. s.receipts[j].status = "started"
    BY <1>12, <1>13, <1>23, <2>1 DEF Last
  <2>3. Current(s).artifacts[st] = 0
    BY <1>1, <1>12, <1>23, <2>2 DEF RevSound
  <2>. QED BY <1>6, <1>7, <2>1, <2>3 DEF OpStage, Artifact
<1>24. ASSUME NEW st \in OpStage, NEW j \in Attempts(t, n, st),
              t.receipts[j].status = "succeeded"
       PROVE  /\ t.revs[n].artifacts[st] = t.receipts[j].output
              /\ \A h \in Attempts(t, n, st) : h <= j
  <2>1. j \in Attempts(s, n, st) /\ j \in DOMAIN s.receipts
    BY <1>11, <1>24 DEF Attempts
  <2>2. CASE st = stage
    <3>1. j = k
      BY <1>3, <1>9, <1>24, <2>1, <2>2 DEF n
    <3>. QED BY <1>3, <1>6, <1>7, <1>9, <1>11, <2>2, <3>1 DEF n
  <2>3. CASE st # stage
    <3>1. t.receipts[j] = s.receipts[j]
      BY <1>13, <2>1, <2>3
    <3>2. /\ Current(s).artifacts[st] = s.receipts[j].output
          /\ \A h \in Attempts(s, n, st) : h <= j
      <4>1. \A x \in OpStage : \A y \in Attempts(s, n, x) : s.receipts[y].status = "succeeded" =>
               /\ s.revs[n].artifacts[x] = s.receipts[y].output
               /\ \A h \in Attempts(s, n, x) : h <= y
        BY <1>1 DEF RevSound
      <4>. QED BY <1>1, <1>24, <2>1, <3>1, <4>1
    <3>. QED BY <1>6, <1>7, <1>11, <2>3, <3>1, <3>2 DEF OpStage, Artifact
  <2>. QED BY <2>2, <2>3
<1>25. q.artifacts[5] # 0 =>
          /\ q.artifacts[4] # 0
          /\ t.artifacts[q.artifacts[5]].ready
          /\ t.artifacts[q.artifacts[5]].basis
                 = Append(t.artifacts[q.artifacts[4]].basis, q.inputs[5])
  <2>1. CASE stage = 2
    BY <1>3, <1>7, <2>1 DEF Artifact
  <2>2. CASE stage = 5
    <3>1. q.artifacts[4] = Current(s).artifacts[4] /\ Current(s).artifacts[4] # 0
      BY <1>7, <1>18, <2>2 DEF Artifact
    <3>2. s.values[4] = s.artifacts[Current(s).artifacts[4]]
      BY <1>1, <3>1 DEF CurrentSound, Artifact
    <3>3. t.artifacts[q.artifacts[4]] = s.values[4]
      BY <1>8, <1>17, <3>1, <3>2 DEF Artifact
    <3>. QED BY <1>7, <1>8, <2>2, <3>1, <3>3 DEF AnswersStage
  <2>. QED BY <2>1, <2>2 DEF OpStage
<1>26. RevSound(t, n)
  <2>1. 0 \in 0..Len(t.decisions)
    BY <1>4, Parts
  <2>. QED BY <1>6, <1>7, <1>21, <1>22, <1>23, <1>24, <1>25, <2>1 DEF RevSound
<1>27. AttemptsSound(t)
  <2>1. \A rev \in DOMAIN s.revs : t.revs[rev].plan = s.revs[rev].plan
    BY <1>1, <1>6, <1>7
  <2>2. AttemptsOwned(t)
    <3>1. AttemptsOwned(s)
      BY <1>1 DEF AttemptsSound
    <3>. QED BY <1>6, <1>9, <2>1, <3>1 DEF AttemptsOwned
  <2>3. ReceiptOrder(t)
    <3>1. ReceiptOrder(s)
      BY <1>1 DEF AttemptsSound
    <3>. QED BY <1>9, <3>1 DEF ReceiptOrder
  <2>4. \A i, j \in DOMAIN t.receipts : t.receipts[i].op = t.receipts[j].op => i = j
    <3>1. \A i, j \in DOMAIN s.receipts : s.receipts[i].op = s.receipts[j].op => i = j
      BY <1>1 DEF AttemptsSound
    <3>. QED BY <1>9, <3>1
  <2>. QED BY <2>2, <2>3, <2>4 DEF AttemptsSound
<1>28. CurrentSound(t)
  <2>1. \A d \in DOMAIN t.decisions : \E r \in DOMAIN t.revs : t.revs[r].decision = d
    <3>1. \A rev \in DOMAIN s.revs : t.revs[rev].decision = s.revs[rev].decision
      BY <1>1, <1>3, <1>6, <1>7
    <3>2. \A d \in DOMAIN s.decisions : \E r \in DOMAIN s.revs : s.revs[r].decision = d
      BY <1>1 DEF CurrentSound
    <3>3. DOMAIN t.decisions = DOMAIN s.decisions /\ DOMAIN t.revs = DOMAIN s.revs
      BY <1>1, <1>6, <1>7
    <3>. QED BY <3>1, <3>2, <3>3
  <2>2. ASSUME NEW i \in Artifact
        PROVE  t.values[i] = IF q.artifacts[i] = 0 THEN NoValue ELSE t.artifacts[q.artifacts[i]]
    <3>1. CASE i = stage
      BY <1>1, <1>7, <1>8, <1>10, <3>1
    <3>2. CASE i # stage
      <4>1. s.values[i] = IF Current(s).artifacts[i] = 0
                          THEN NoValue ELSE s.artifacts[Current(s).artifacts[i]]
        BY <1>1 DEF CurrentSound
      <4>. QED BY <1>7, <1>8, <1>10, <1>17, <3>2, <4>1
    <3>. QED BY <3>1, <3>2
  <2>3. ScreenedHere(t)
    <3>1. CASE stage = 2
      BY <1>3, <1>6, <1>7, <3>1 DEF ScreenedHere, Artifact
    <3>2. CASE stage = 5
      <4>1. t.values[2] = s.values[2] /\ t.values[3] = s.values[3]
        BY <1>10, <3>2 DEF Artifact
      <4>2. Screen(t) = Screen(s)
        BY <1>6, <1>7, <4>1 DEF Screen
      <4>3. q.artifacts[3] = Current(s).artifacts[3]
        BY <1>7, <3>2 DEF Artifact
      <4>. QED BY <1>1, <1>6, <1>7, <4>1, <4>2, <4>3 DEF ScreenedHere, CurrentSound
    <3>. QED BY <3>1, <3>2 DEF OpStage
  <2>. QED BY <1>6, <1>7, <2>1, <2>2, <2>3 DEF CurrentSound
<1>29. RouteIsSound(t)
  <2>1. stage = 2 => \A j \in Latest(t, 2) : t.receipts[j].status = "succeeded"
    <3>1. Latest(t, 2) = Last(t, n, 2)
      BY <1>6 DEF Latest, Prior, Last
    <3>. QED BY <1>9, <1>12, <1>14, <3>1
  <2>2. stage # 1 /\ (stage \in {2, 3, 4} => stage = 2)
    BY DEF OpStage
  <2>3. Current(t).plan \in 0..5 /\ Current(t).plan <= stage /\ Current(t).decision = 0
    BY <1>1, <1>3, <1>6, <1>7
  <2>. QED BY <1>1, <1>3, <1>6, <2>1, <2>2, <2>3, RouteAfter
<1>30. Prefix(s.artifacts, t.artifacts)
  BY <1>8 DEF Prefix
<1>31. Ledger(t) /\ Evolves(s, t)
  BY <1>4, <1>15, <1>16, <1>26, <1>27, <1>28, <1>29, <1>30, CurrentReplaced DEF n
<1>. QED BY <1>31 DEF t

\* No attempt succeeded if the last one did not.
LEMMA NoSuccess ==
    ASSUME NEW s, Ledger(s), NEW stage \in OpStage,
           \A k \in Latest(s, stage) : s.receipts[k].status # "succeeded",
           NEW j \in Attempts(s, Len(s.revs), stage)
    PROVE  s.receipts[j].status # "succeeded"
<1> SUFFICES ASSUME s.receipts[j].status = "succeeded" PROVE FALSE
  OBVIOUS
<1>1. \A x \in OpStage : \A y \in Attempts(s, Len(s.revs), x) :
         s.receipts[y].status = "succeeded" => \A h \in Attempts(s, Len(s.revs), x) : h <= y
  BY LedgerParts DEF RevSound
<1>2. j \in Latest(s, stage)
  BY <1>1 DEF Latest, Prior
<1>. QED BY <1>2

LEMMA StartedLedger ==
    ASSUME NEW s, Ledger(s), NEW stage \in OpStage, s.next = Node("prepare", stage),
           MayAttempt(s, stage), NEW op \in Nat, op \notin Ops(s)
    PROVE  Ledger(Started(s, stage, op)) /\ Evolves(s, Started(s, stage, op))
<1> DEFINE t == Started(s, stage, op)
           n == Len(s.revs)
           m == Len(s.receipts) + 1
           a == Attempt(s, stage, op)
<1>1. /\ s \in Checkpoint /\ n \in DOMAIN s.revs /\ Current(s) = s.revs[n]
      /\ RevSound(s, n) /\ RevisionValid(s, n) /\ CurrentSound(s) /\ AttemptsSound(s)
      /\ s.receipts \in Seq(OperationReceipt) /\ Len(s.receipts) \in Nat
      /\ DOMAIN s.receipts = 1..Len(s.receipts)
  <2>1. /\ s \in Checkpoint /\ n \in DOMAIN s.revs /\ Current(s) = s.revs[n]
        /\ RevSound(s, n) /\ CurrentSound(s) /\ AttemptsSound(s)
    BY LedgerParts
  <2>2. RevisionValid(s, n)
    BY <2>1 DEF RevSound
  <2>3. s.receipts \in Seq(OperationReceipt)
    BY <2>1 DEF Checkpoint
  <2>. QED BY <2>1, <2>2, <2>3, Parts
<1>2. /\ stage \in Artifact /\ stage \in s.enabled /\ Current(s).plan <= stage
      /\ stage = 2 => Attempts(s, n, 5) = {} /\ \A i \in 2..5 : Current(s).artifacts[i] = 0
      /\ stage = 5 => \A k \in Latest(s, 2) : s.receipts[k].status = "succeeded"
  <2>1. /\ RouteIsSound(s) /\ s.next[2] = stage /\ stage \in Artifact
        /\ s.next # Node("execute", stage)
    BY LedgerParts DEF Node, OpStage, Artifact
  <2>2. stage \in s.enabled /\ Current(s).plan <= stage
    BY <2>1 DEF RouteIsSound
  <2>3. stage = 2 => Prior(s, 5) = {} /\ \A i \in 2..5 : Current(s).artifacts[i] = 0
    BY <2>1 DEF RouteIsSound
  <2>4. stage = 5 => \A k \in Latest(s, 2) : s.receipts[k].status = "succeeded"
    BY <2>1 DEF RouteIsSound
  <2>. QED BY <2>1, <2>2, <2>3, <2>4 DEF Prior
<1>3. /\ \A j \in Attempts(s, n, stage) : s.receipts[j].status # "succeeded"
      /\ stage = 5 => \A i \in 1..4 : Current(s).artifacts[i] # 0
  <2>1. \A k \in Latest(s, stage) : s.receipts[k].status # "succeeded"
    <3>1. CASE Prior(s, stage) = {}
      BY <3>1 DEF Latest
    <3>2. CASE Prior(s, stage) # {}
      BY <1>1, <3>2, LatestIsOne DEF MayAttempt
    <3>. QED BY <3>1, <3>2
  <2>. QED BY <2>1, NoSuccess DEF MayAttempt
<1>4. /\ a \in OperationReceipt /\ a.op = op /\ a.rev = n /\ a.stage = stage
      /\ a.attempt = Cardinality(Attempts(s, n, stage)) + 1
      /\ a.input = OperationInput(s, n, stage) /\ a.status = "started"
  BY <1>1, AttemptType DEF Attempt, Prior
<1>5. t = [s EXCEPT !.receipts = Append(s.receipts, a), !.retryOp = 0,
                    !.status = "operation_prepared", !.next = Node("execute", stage)]
  BY DEF Started
<1>6. t \in Checkpoint
  BY <1>1, StartedType
<1>. HIDE DEF t, a
<1>7. /\ t.enabled = s.enabled /\ t.decisions = s.decisions /\ t.values = s.values
      /\ t.artifacts = s.artifacts /\ t.revs = s.revs /\ t.review = s.review
      /\ t.next = Node("execute", stage) /\ t.receipts = Append(s.receipts, a)
  BY <1>1, <1>5 DEF Checkpoint
<1>8. /\ DOMAIN t.receipts = DOMAIN s.receipts \cup {m} /\ m \notin DOMAIN s.receipts
      /\ m \in Nat /\ \A k \in DOMAIN s.receipts : k < m
      /\ t.receipts[m] = a /\ \A k \in DOMAIN s.receipts : t.receipts[k] = s.receipts[k]
  BY <1>1, <1>4, <1>7
<1>9. Current(t) = Current(s) /\ Len(t.revs) = n
  BY <1>7 DEF Current
<1>. HIDE DEF m
<1>10. \A rev, st : Attempts(t, rev, st) =
          IF rev = n /\ st = stage THEN Attempts(s, rev, st) \cup {m} ELSE Attempts(s, rev, st)
  BY <1>4, <1>8 DEF Attempts
<1>11. \A rev, st : \A k \in Attempts(s, rev, st) :
          k \in DOMAIN s.receipts /\ k < m /\ k # m /\ k \in Nat /\ t.receipts[k] = s.receipts[k]
  BY <1>1, <1>8 DEF Attempts
<1>. HIDE DEF n
<1>12. Last(t, n, stage) = {m}
  BY <1>8, <1>10, <1>11 DEF Last
<1>13. \A st : st # stage => Last(t, n, st) = Last(s, n, st)
  BY <1>10 DEF Last
<1>14. Current(s).artifacts[stage] = 0
  <2>1. CASE stage = 2
    BY <1>2, <2>1
  <2>2. CASE stage = 5
    <3> SUFFICES ASSUME Current(s).artifacts[5] # 0 PROVE FALSE
      BY <2>2
    <3>1. s.artifacts[Current(s).artifacts[5]].ready
      BY <1>1 DEF RevSound
    <3>2. SideEffectProven(s, n, 5)
      BY <1>1 DEF RevisionValid, OpStage
    <3>3. ~(5 < Current(s).plan)
      <4>1. Current(s).plan \in 0..5
        BY <1>1, LedgerParts, RevisionParts
      <4>. QED BY <4>1
    <3>4. \E k \in Attempts(s, n, 5) : s.receipts[k].status = "succeeded"
      BY <1>1, <3>1, <3>2, <3>3 DEF SideEffectProven
    <3>. QED BY <1>3, <2>2, <3>4 DEF n
  <2>. QED BY <2>1, <2>2 DEF OpStage
<1>15. Current(s).decision = 0
  BY <1>2, <1>14, DecidedComplete
<1>16. OneReplaced(s, t)
  <2>1. Current(s).status \notin {"approved", "rejected"}
    BY <1>1, <1>15 DEF RevSound
  <2>. QED BY <1>7, <1>9, <1>15, <2>1 DEF OneReplaced
<1>17. AttemptsKept(s, t)
  BY <1>4, <1>8 DEF AttemptsKept, n
<1>18. \A st \in OpStage : OperationInput(t, n, st) = OperationInput(s, n, st)
  BY <1>7 DEF OperationInput
<1>19. ASSUME NEW st \in OpStage PROVE ReceiptsValid(t, n, st)
  <2>1. \A j \in Attempts(s, n, st) :
           /\ s.receipts[j].attempt = Cardinality({h \in Attempts(s, n, st) : h <= j})
           /\ st = 5 => \A i \in 1..4 : s.revs[n].artifacts[i] # 0
           /\ s.receipts[j].input = OperationInput(s, n, st)
           /\ s.receipts[j].status = "succeeded" => /\ \A h \in Attempts(s, n, st) : h <= j
                                                    /\ s.receipts[j].output \in DOMAIN s.artifacts
    BY <1>1 DEF RevisionValid, ReceiptsValid
  <2>2. CASE st # stage
    <3>1. Attempts(t, n, st) = Attempts(s, n, st)
      BY <1>10, <2>2
    <3>2. \A j \in Attempts(s, n, st) : t.receipts[j] = s.receipts[j]
      BY <1>11
    <3> SUFFICES ASSUME NEW j \in Attempts(s, n, st)
                 PROVE  LET b == s.receipts[j] IN
                        /\ b.attempt = Cardinality({h \in Attempts(s, n, st) : h <= j})
                        /\ st = 5 => \A i \in 1..4 : s.revs[n].artifacts[i] # 0
                        /\ b.input = OperationInput(s, n, st)
                        /\ b.status = "succeeded" => /\ \A h \in Attempts(s, n, st) : h <= j
                                                     /\ b.output \in DOMAIN s.artifacts
      BY <1>7, <1>18, <3>1, <3>2 DEF ReceiptsValid
    <3>. QED BY <2>1
  <2>3. CASE st = stage
    <3> DEFINE p == Attempts(s, n, stage)
    <3>1. Attempts(t, n, st) = p \cup {m} /\ m \notin p /\ \A h \in p : h < m /\ h \in Nat
      BY <1>10, <1>11, <2>3
    <3>2. IsFiniteSet(p)
      <4>1. IsFiniteSet(DOMAIN s.receipts)
        BY <1>1, FS_Interval
      <4>2. p \subseteq DOMAIN s.receipts
        BY DEF Attempts
      <4>. QED BY <4>1, <4>2, FS_Subset
    <3>3. Cardinality(p \cup {m}) = Cardinality(p) + 1
      BY <3>1, <3>2, FS_AddElement
    <3>4. {h \in p \cup {m} : h <= m} = p \cup {m}
      BY <1>8, <3>1
    <3>5. \A j \in p : {h \in p \cup {m} : h <= j} = {h \in p : h <= j}
      BY <1>8, <3>1
    <3>6. \A j \in p : t.receipts[j] = s.receipts[j] /\ s.receipts[j].status # "succeeded"
      BY <1>3, <1>11 DEF n
    <3>7. stage = 5 => \A i \in 1..4 : t.revs[n].artifacts[i] # 0
      BY <1>1, <1>3, <1>7
    <3> SUFFICES ASSUME NEW j \in p \cup {m}
                 PROVE  LET b == t.receipts[j] IN
                        /\ b.attempt = Cardinality({h \in p \cup {m} : h <= j})
                        /\ stage = 5 => \A i \in 1..4 : t.revs[n].artifacts[i] # 0
                        /\ b.input = OperationInput(t, n, stage)
                        /\ b.status = "succeeded" => /\ \A h \in p \cup {m} : h <= j
                                                     /\ b.output \in DOMAIN t.artifacts
      BY <2>3, <3>1 DEF ReceiptsValid
    <3>8. CASE j = m
      BY <1>4, <1>8, <1>18, <3>3, <3>4, <3>7, <3>8 DEF n
    <3>9. CASE j \in p
      BY <1>18, <2>1, <2>3, <3>5, <3>6, <3>7, <3>9
    <3>. QED BY <3>8, <3>9
  <2>. QED BY <2>2, <2>3
<1>20. ASSUME NEW st \in OpStage PROVE SideEffectProven(t, n, st)
  <2>1. SideEffectProven(s, n, st)
    BY <1>1 DEF RevisionValid
  <2>2. \A k \in Attempts(s, n, st) : k \in Attempts(t, n, st) /\ t.receipts[k] = s.receipts[k]
    BY <1>10, <1>11
  <2>. QED BY <1>7, <2>1, <2>2 DEF SideEffectProven
<1>21. RevisionValid(t, n)
  <2>1. \A i \in Artifact : Current(t).artifacts[i] # 0
           => i \in s.enabled /\ Current(t).artifacts[i] \in DOMAIN t.artifacts
    BY <1>1, <1>7, <1>9 DEF RevisionValid
  <2>. QED BY <1>6, <1>9, <1>16, <1>19, <1>20, <2>1, HeadValid DEF n
<1>22. ASSUME NEW j \in Last(t, n, 2), t.receipts[j].status # "succeeded"
       PROVE  Attempts(t, n, 5) = {} /\ \A i \in 3..5 : t.revs[n].artifacts[i] = 0
  <2>1. CASE stage = 2
    BY <1>1, <1>2, <1>7, <1>10, <2>1 DEF n
  <2>2. CASE stage = 5
    <3>1. j \in Last(s, n, 2) /\ j \in Latest(s, 2)
      BY <1>13, <1>22, <2>2 DEF Last, Latest, Prior, n
    <3>2. t.receipts[j] = s.receipts[j]
      BY <1>11, <3>1 DEF Last
    <3>. QED BY <1>2, <1>22, <2>2, <3>1, <3>2
  <2>. QED BY <2>1, <2>2 DEF OpStage
<1>23. ASSUME NEW st \in OpStage, NEW j \in Last(t, n, st), t.receipts[j].status = "started"
       PROVE  t.revs[n].artifacts[st] = 0
  <2>1. CASE st = stage
    BY <1>1, <1>7, <1>14, <2>1
  <2>2. CASE st # stage
    <3>1. j \in Last(s, n, st) /\ t.receipts[j] = s.receipts[j]
      BY <1>11, <1>13, <1>23, <2>2 DEF Last
    <3>2. \A x \in OpStage : \A y \in Last(s, n, x) :
             s.receipts[y].status = "started" => s.revs[n].artifacts[x] = 0
      BY <1>1 DEF RevSound
    <3>. QED BY <1>7, <1>23, <3>1, <3>2
  <2>. QED BY <2>1, <2>2
<1>24. ASSUME NEW st \in OpStage, NEW j \in Attempts(t, n, st),
              t.receipts[j].status = "succeeded"
       PROVE  /\ t.revs[n].artifacts[st] = t.receipts[j].output
              /\ \A h \in Attempts(t, n, st) : h <= j
  <2>1. st # stage
    <3> SUFFICES ASSUME st = stage PROVE FALSE
      OBVIOUS
    <3>1. j = m \/ j \in Attempts(s, n, stage)
      BY <1>10, <1>24
    <3>. QED BY <1>3, <1>4, <1>8, <1>11, <1>24, <3>1 DEF n
  <2>2. j \in Attempts(s, n, st) /\ t.receipts[j] = s.receipts[j]
    BY <1>10, <1>11, <1>24, <2>1
  <2>3. \A x \in OpStage : \A y \in Attempts(s, n, x) : s.receipts[y].status = "succeeded" =>
           /\ s.revs[n].artifacts[x] = s.receipts[y].output
           /\ \A h \in Attempts(s, n, x) : h <= y
    BY <1>1 DEF RevSound
  <2>. QED BY <1>7, <1>10, <1>24, <2>1, <2>2, <2>3
<1>25. RevSound(t, n)
  <2>1. /\ t.revs[n] = s.revs[n] /\ t.artifacts = s.artifacts
        /\ s.revs[n].decision = 0 /\ 0 \in 0..Len(t.decisions)
        /\ s.revs[n].status \notin {"approved", "rejected"}
        /\ s.revs[n].artifacts[5] # 0 =>
              /\ s.revs[n].artifacts[4] # 0
              /\ s.artifacts[s.revs[n].artifacts[5]].ready
              /\ s.artifacts[s.revs[n].artifacts[5]].basis
                     = Append(s.artifacts[s.revs[n].artifacts[4]].basis, s.revs[n].inputs[5])
    BY <1>1, <1>6, <1>7, <1>15, Parts DEF RevSound
  <2>. QED BY <1>21, <1>22, <1>23, <1>24, <2>1 DEF RevSound
<1>26. AttemptsSound(t)
  <2>1. AttemptsOwned(t)
    <3>1. AttemptsOwned(s)
      BY <1>1 DEF AttemptsSound
    <3>2. \A k \in DOMAIN s.receipts :
             /\ t.receipts[k].rev \in DOMAIN t.revs /\ t.receipts[k].stage \in t.enabled
             /\ t.revs[t.receipts[k].rev].plan <= t.receipts[k].stage
      BY <1>7, <1>8, <3>1 DEF AttemptsOwned
    <3>3. /\ a.rev \in DOMAIN t.revs /\ a.stage \in t.enabled
          /\ t.revs[a.rev].plan <= a.stage
      BY <1>1, <1>2, <1>4, <1>7 DEF n
    <3>. QED BY <1>8, <3>2, <3>3 DEF AttemptsOwned
  <2>2. ReceiptOrder(t)
    <3> SUFFICES ASSUME NEW i \in DOMAIN t.receipts, NEW j \in DOMAIN t.receipts, i < j,
                        t.receipts[i].rev = t.receipts[j].rev,
                        t.receipts[i].stage = 5, t.receipts[j].stage = 2
                 PROVE  FALSE
      BY DEF ReceiptOrder
    <3>1. i \in DOMAIN s.receipts /\ t.receipts[i] = s.receipts[i]
      BY <1>1, <1>8
    <3>2. CASE j = m
      <4>1. stage = 2 /\ s.receipts[i].rev = n
        BY <1>4, <1>8, <3>1, <3>2 DEF n
      <4>2. i \in Attempts(s, n, 5)
        BY <3>1, <4>1 DEF Attempts
      <4>. QED BY <1>2, <4>1, <4>2 DEF n
    <3>3. CASE j \in DOMAIN s.receipts
      <4>1. ReceiptOrder(s)
        BY <1>1 DEF AttemptsSound
      <4>. QED BY <1>8, <3>1, <3>3, <4>1 DEF ReceiptOrder
    <3>. QED BY <1>8, <3>2, <3>3
  <2>3. \A i, j \in DOMAIN t.receipts : t.receipts[i].op = t.receipts[j].op => i = j
    <3>1. \A i, j \in DOMAIN s.receipts : s.receipts[i].op = s.receipts[j].op => i = j
      BY <1>1 DEF AttemptsSound
    <3>2. \A i \in DOMAIN s.receipts : s.receipts[i].op # op
      BY DEF Ops
    <3>. QED BY <1>4, <1>8, <3>1, <3>2
  <2>. QED BY <2>1, <2>2, <2>3 DEF AttemptsSound
<1>27. CurrentSound(t)
  <2>1. Screen(t) = Screen(s)
    BY <1>7, <1>9 DEF Screen
  <2>2. ScreenedHere(t)
    BY <1>1, <1>7, <1>9, <2>1 DEF ScreenedHere, CurrentSound
  <2>. QED BY <1>1, <1>7, <1>9, <2>2 DEF CurrentSound
<1>28. RouteIsSound(t)
  BY <1>7, RouteToExecute
<1>29. Prefix(s.artifacts, t.artifacts)
  BY <1>7 DEF Prefix
<1>30. Ledger(t) /\ Evolves(s, t)
  BY <1>6, <1>16, <1>17, <1>25, <1>26, <1>27, <1>28, <1>29, CurrentReplaced DEF n
<1>. QED BY <1>30 DEF t

LEMMA ClearedLedger ==
    ASSUME NEW s, Ledger(s), NEW rev, NEW stage \in OpStage, NEW op \in Nat,
           RetryTargets(s, rev, stage, op)
    PROVE  Ledger(Cleared(s, stage, op)) /\ Evolves(s, Cleared(s, stage, op))
<1> DEFINE n == Len(s.revs)
           ids == [i \in Artifact |-> IF i >= stage THEN 0 ELSE Current(s).artifacts[i]]
           q == [Current(s) EXCEPT !.artifacts = ids]
           rs == [s.revs EXCEPT ![n] = q]
           vs == [i \in Artifact |-> IF i >= stage THEN NoValue ELSE s.values[i]]
           t == Cleared(s, stage, op)
<1>1. /\ s \in Checkpoint /\ n \in DOMAIN s.revs /\ Current(s) = s.revs[n]
      /\ RevSound(s, n) /\ RevisionValid(s, n) /\ CurrentSound(s) /\ AttemptsSound(s)
      /\ Current(s) \in Revision /\ s.revs \in Seq(Revision)
  <2>1. /\ s \in Checkpoint /\ n \in DOMAIN s.revs /\ Current(s) = s.revs[n]
        /\ RevSound(s, n) /\ CurrentSound(s) /\ AttemptsSound(s) /\ Current(s) \in Revision
    BY LedgerParts
  <2>2. RevisionValid(s, n)
    BY <2>1 DEF RevSound
  <2>. QED BY <2>1, <2>2 DEF Checkpoint
<1>2. PICK k \in Latest(s, stage) : s.receipts[k].status # "succeeded"
  BY DEF RetryTargets
<1>3. /\ k \in DOMAIN s.receipts /\ s.receipts[k].rev = n /\ s.receipts[k].stage = stage
      /\ k \in Last(s, n, stage) /\ k \in Attempts(s, n, stage)
      /\ \A j \in Latest(s, stage) : j = k
  BY <1>1, LatestIsOne DEF Prior
<1>4. \A j \in Attempts(s, n, stage) : s.receipts[j].status # "succeeded"
  BY <1>2, <1>3, NoSuccess
<1>5. /\ Current(s).decision = 0 /\ stage \in s.enabled /\ Current(s).plan <= stage
      /\ stage \in Artifact
      /\ stage = 2 => Attempts(s, n, 5) = {}
      /\ stage = 5 => \A j \in Last(s, n, 2) : s.receipts[j].status = "succeeded"
  <2>1. AttemptsOwned(s)
    BY <1>1 DEF AttemptsSound
  <2>2. stage \in s.enabled /\ Current(s).plan <= stage
    BY <1>1, <1>3, <2>1 DEF AttemptsOwned
  <2>3. \A j \in Last(s, n, 2) : s.receipts[j].status # "succeeded" => Attempts(s, n, 5) = {}
    BY <1>1 DEF RevSound
  <2>. QED BY <1>2, <1>3, <2>2, <2>3 DEF RetryTargets, OpStage, Artifact
<1>6. /\ ids \in [Artifact -> Nat]
      /\ \A i \in Artifact : i >= stage => ids[i] = 0
      /\ \A i \in Artifact : ~(i >= stage) => ids[i] = Current(s).artifacts[i]
  BY <1>1, RevisionParts
<1>7. /\ q \in Revision /\ q.inputs = Current(s).inputs /\ q.plan = Current(s).plan
      /\ q.decision = Current(s).decision /\ q.status = Current(s).status /\ q.artifacts = ids
  <2>. HIDE DEF ids
  <2>. QED BY <1>1, <1>6 DEF Revision
<1>8. t = [s EXCEPT !.next = Node("prepare", stage), !.status = "retry_requested",
                    !.retryOp = op, !.values = vs, !.revs = rs, !.review = NoDecision]
  BY DEF Cleared, Current
<1>9. t \in Checkpoint
  <2>1. vs \in [Artifact -> Value]
    BY <1>1, NoValueType, Parts
  <2>2. rs \in Seq(Revision) \ {<<>>}
    BY <1>1, <1>7, SetRevType
  <2>3. Node("prepare", stage) \in Nodes /\ NoDecision \in ReviewDecision \cup {NoDecision}
    BY NodeTypes
  <2>. HIDE DEF vs, rs, t
  <2>. QED BY <1>1, <1>8, <2>1, <2>2, <2>3 DEF Checkpoint, Statuses
<1>. HIDE DEF t, vs, rs, q, ids
<1>10. /\ t.enabled = s.enabled /\ t.decisions = s.decisions /\ t.values = vs
       /\ t.artifacts = s.artifacts /\ t.revs = rs /\ t.receipts = s.receipts
       /\ t.next = Node("prepare", stage)
  BY <1>1, <1>8 DEF Checkpoint
<1>11. /\ DOMAIN t.revs = DOMAIN s.revs /\ Len(t.revs) = n /\ Current(t) = q /\ t.revs[n] = q
       /\ \A r \in DOMAIN s.revs : r # n => t.revs[r] = s.revs[r]
  BY <1>1, <1>7, <1>10 DEF Current, rs
<1>12. \A i \in Artifact : t.values[i] = IF i >= stage THEN NoValue ELSE s.values[i]
  BY <1>10 DEF vs
<1>. HIDE DEF n
<1>13. \A r, st : Attempts(t, r, st) = Attempts(s, r, st) /\ Last(t, r, st) = Last(s, r, st)
  BY <1>10 DEF Attempts, Last
<1>14. OneReplaced(s, t)
  <2>1. Current(s).status \notin {"approved", "rejected"}
    BY <1>1, <1>5 DEF RevSound
  <2>. QED BY <1>5, <1>7, <1>10, <1>11, <2>1 DEF OneReplaced, n
<1>15. AttemptsKept(s, t)
  BY <1>10 DEF AttemptsKept
<1>16. \A i \in Artifact : q.artifacts[i] # 0 =>
          ~(i >= stage) /\ q.artifacts[i] = Current(s).artifacts[i]
  BY <1>6, <1>7
<1>17. ASSUME NEW st \in OpStage PROVE ReceiptsValid(t, n, st)
  <2> SUFFICES ASSUME NEW j \in Attempts(s, n, st)
               PROVE  LET b == s.receipts[j] IN
                      /\ b.attempt = Cardinality({h \in Attempts(s, n, st) : h <= j})
                      /\ st = 5 => \A i \in 1..4 : q.artifacts[i] # 0
                      /\ b.input = OperationInput(t, n, st)
                      /\ b.status = "succeeded" => /\ \A h \in Attempts(s, n, st) : h <= j
                                                   /\ b.output \in DOMAIN s.artifacts
    <3>1. Attempts(t, n, st) = Attempts(s, n, st)
      BY <1>13
    <3>. QED BY <1>10, <1>11, <3>1 DEF ReceiptsValid
  <2>1. /\ s.receipts[j].attempt = Cardinality({h \in Attempts(s, n, st) : h <= j})
        /\ st = 5 => \A i \in 1..4 : Current(s).artifacts[i] # 0
        /\ s.receipts[j].input = OperationInput(s, n, st)
        /\ s.receipts[j].status = "succeeded" => /\ \A h \in Attempts(s, n, st) : h <= j
                                                 /\ s.receipts[j].output \in DOMAIN s.artifacts
    BY <1>1 DEF RevisionValid, ReceiptsValid
  <2>2. st = 5 => \A i \in 1..4 : q.artifacts[i] = Current(s).artifacts[i]
    <3> SUFFICES ASSUME st = 5, NEW i \in 1..4 PROVE q.artifacts[i] = Current(s).artifacts[i]
      OBVIOUS
    <3>1. stage = 5
      BY <1>5 DEF OpStage
    <3>. QED BY <1>6, <1>7, <3>1 DEF Artifact
  <2>3. OperationInput(t, n, st) = OperationInput(s, n, st)
    <3>1. t.revs[n].inputs = s.revs[n].inputs
      BY <1>1, <1>7, <1>11
    <3>2. CASE st = 2
      BY <3>1, <3>2 DEF OperationInput
    <3>3. CASE st = 5
      <4>1. \A i \in 1..4 : t.revs[n].artifacts[i] = s.revs[n].artifacts[i]
        BY <1>1, <1>11, <2>2, <3>3
      <4>. QED BY <3>1, <3>3, <4>1 DEF OperationInput
    <3>. QED BY <3>2, <3>3 DEF OpStage
  <2>. QED BY <2>1, <2>2, <2>3
<1>18. ASSUME NEW st \in OpStage PROVE SideEffectProven(t, n, st)
  <2> SUFFICES ASSUME q.artifacts[st] # 0, s.artifacts[q.artifacts[st]].ready
               PROVE  IF n > 1 /\ st < q.plan
                      THEN q.artifacts[st] = t.revs[n - 1].artifacts[st]
                      ELSE \E j \in Attempts(s, n, st) :
                              /\ s.receipts[j].status = "succeeded"
                              /\ s.receipts[j].output = q.artifacts[st]
    BY <1>10, <1>11, <1>13 DEF SideEffectProven
  <2>1. SideEffectProven(s, n, st) /\ q.artifacts[st] = Current(s).artifacts[st]
    <3>1. SideEffectProven(s, n, st)
      BY <1>1 DEF RevisionValid
    <3>2. q.artifacts[st] = Current(s).artifacts[st]
      BY <1>16 DEF OpStage, Artifact
    <3>. QED BY <3>1, <3>2
  <2>2. n > 1 => t.revs[n - 1] = s.revs[n - 1]
    <3>1. n \in Nat /\ DOMAIN s.revs = 1..n
      BY <1>1, Parts DEF n
    <3>. QED BY <1>11, <3>1
  <2>. QED BY <1>1, <1>7, <2>1, <2>2 DEF SideEffectProven
<1>19. RevisionValid(t, n)
  <2>1. \A i \in Artifact : Current(t).artifacts[i] # 0
           => /\ Current(t).artifacts[i] = Current(s).artifacts[i]
              /\ i \in s.enabled /\ Current(t).artifacts[i] \in DOMAIN t.artifacts
    BY <1>1, <1>10, <1>11, <1>16 DEF RevisionValid
  <2>. QED BY <1>9, <1>14, <1>17, <1>18, <2>1, HeadValid DEF n
<1>20. ASSUME NEW j \in Last(t, n, 2), t.receipts[j].status # "succeeded"
       PROVE  Attempts(t, n, 5) = {} /\ \A i \in 3..5 : t.revs[n].artifacts[i] = 0
  <2>1. \A y \in Last(s, n, 2) : s.receipts[y].status # "succeeded" =>
           Attempts(s, n, 5) = {} /\ \A i \in 3..5 : s.revs[n].artifacts[i] = 0
    BY <1>1 DEF RevSound
  <2>2. Attempts(s, n, 5) = {} /\ \A i \in 3..5 : Current(s).artifacts[i] = 0
    BY <1>1, <1>10, <1>13, <1>20, <2>1
  <2>3. \A i \in 3..5 : q.artifacts[i] = 0
    BY <1>16, <2>2 DEF Artifact
  <2>. QED BY <1>11, <1>13, <2>2, <2>3
<1>21. ASSUME NEW st \in OpStage, NEW j \in Last(t, n, st), t.receipts[j].status = "started"
       PROVE  t.revs[n].artifacts[st] = 0
  <2>1. \A x \in OpStage : \A y \in Last(s, n, x) :
           s.receipts[y].status = "started" => s.revs[n].artifacts[x] = 0
    BY <1>1 DEF RevSound
  <2>2. Current(s).artifacts[st] = 0
    BY <1>1, <1>10, <1>13, <1>21, <2>1
  <2>. QED BY <1>11, <1>16, <2>2 DEF OpStage, Artifact
<1>22. ASSUME NEW st \in OpStage, NEW j \in Attempts(t, n, st),
              t.receipts[j].status = "succeeded"
       PROVE  /\ t.revs[n].artifacts[st] = t.receipts[j].output
              /\ \A h \in Attempts(t, n, st) : h <= j
  <2>1. st = 2 /\ stage = 5
    BY <1>4, <1>5, <1>10, <1>13, <1>22 DEF OpStage
  <2>2. \A x \in OpStage : \A y \in Attempts(s, n, x) : s.receipts[y].status = "succeeded" =>
           /\ s.revs[n].artifacts[x] = s.receipts[y].output
           /\ \A h \in Attempts(s, n, x) : h <= y
    BY <1>1 DEF RevSound
  <2>3. q.artifacts[2] = Current(s).artifacts[2]
    BY <1>6, <1>7, <2>1 DEF Artifact
  <2>. QED BY <1>1, <1>10, <1>11, <1>13, <1>22, <2>1, <2>2, <2>3
<1>23. RevSound(t, n)
  <2>1. q.artifacts[5] = 0
    BY <1>6, <1>7 DEF OpStage, Artifact
  <2>2. /\ q.decision = 0 /\ 0 \in 0..Len(t.decisions) /\ q.status \notin {"approved", "rejected"}
    <3>1. Len(t.decisions) \in Nat
      BY <1>9, Parts
    <3>2. s.revs[n].decision = 0 => s.revs[n].status \notin {"approved", "rejected"}
      BY <1>1 DEF RevSound
    <3>. QED BY <1>1, <1>5, <1>7, <3>1, <3>2
  <2>. QED BY <1>11, <1>19, <1>20, <1>21, <1>22, <2>1, <2>2 DEF RevSound
<1>24. AttemptsSound(t)
  <2>1. AttemptsOwned(s) /\ ReceiptOrder(s)
    BY <1>1 DEF AttemptsSound
  <2>2. \A r \in DOMAIN s.revs : t.revs[r].plan = s.revs[r].plan
    BY <1>1, <1>7, <1>11
  <2>3. AttemptsOwned(t)
    BY <1>10, <1>11, <2>1, <2>2 DEF AttemptsOwned
  <2>4. ReceiptOrder(t)
    BY <1>10, <2>1 DEF ReceiptOrder
  <2>. QED BY <1>1, <1>10, <2>3, <2>4 DEF AttemptsSound
<1>25. CurrentSound(t)
  <2>1. \A d \in DOMAIN t.decisions : \E r \in DOMAIN t.revs : t.revs[r].decision = d
    <3>1. \A r \in DOMAIN s.revs : t.revs[r].decision = s.revs[r].decision
      BY <1>1, <1>7, <1>11
    <3>. QED BY <1>1, <1>10, <1>11, <3>1 DEF CurrentSound
  <2>2. ASSUME NEW i \in Artifact
        PROVE  t.values[i] = IF q.artifacts[i] = 0 THEN NoValue ELSE t.artifacts[q.artifacts[i]]
    <3>1. s.values[i] = IF Current(s).artifacts[i] = 0
                        THEN NoValue ELSE s.artifacts[Current(s).artifacts[i]]
      BY <1>1 DEF CurrentSound
    <3>. QED BY <1>6, <1>7, <1>10, <1>12, <3>1
  <2>3. ScreenedHere(t)
    <3> SUFFICES ASSUME q.artifacts[3] # 0, q.plan <= 3 PROVE t.values[3] = Screen(t)
      BY <1>11 DEF ScreenedHere
    <3>1. stage = 5 /\ Current(s).artifacts[3] # 0
      BY <1>16 DEF OpStage, Artifact
    <3>2. t.values[2] = s.values[2] /\ t.values[3] = s.values[3]
      BY <1>12, <3>1 DEF Artifact
    <3>3. Screen(t) = Screen(s)
      BY <1>7, <1>11, <3>2 DEF Screen
    <3>. QED BY <1>1, <1>7, <3>1, <3>2, <3>3 DEF ScreenedHere, CurrentSound
  <2>. QED BY <1>5, <1>7, <1>11, <2>1, <2>2, <2>3 DEF CurrentSound
<1>26. RouteIsSound(t)
  <2>1. /\ t.next # Node("validate_profile", 1) /\ t.next # Finalize /\ t.next # Node("pure", 1)
        /\ t.next \notin {Node("pure", 3), Node("pure", 4)}
        /\ t.next = Node("prepare", 2) => stage = 2
        /\ t.next = Node("prepare", 5) => stage = 5
        /\ \A i \in Artifact : t.next[2] = i => i = stage
    BY <1>10 DEF Node, Finalize
  <2>2. Latest(t, 2) = Last(s, n, 2) /\ Prior(t, 5) = Attempts(s, n, 5)
    BY <1>11, <1>13 DEF Latest, Prior, Last
  <2>3. stage = 2 => \A i \in 2..5 : q.artifacts[i] = 0
    BY <1>6, <1>7 DEF Artifact
  <2>4. /\ q.decision = 0 /\ stage \in t.enabled /\ q.plan <= stage
    BY <1>5, <1>7, <1>10
  <2>. QED BY <1>5, <1>10, <1>11, <2>1, <2>2, <2>3, <2>4 DEF RouteIsSound
<1>27. Prefix(s.artifacts, t.artifacts)
  BY <1>10 DEF Prefix
<1>28. Ledger(t) /\ Evolves(s, t)
  BY <1>9, <1>14, <1>15, <1>23, <1>24, <1>25, <1>26, <1>27, CurrentReplaced DEF n
<1>. QED BY <1>28 DEF t

LEMMA BeginRetryLedger ==
    ASSUME NEW s, Ledger(s), NEW rev, NEW stage \in OpStage, NEW op \in Nat
    PROVE  Ledger(BeginRetry(s, rev, stage, op)) /\ Evolves(s, BeginRetry(s, rev, stage, op))
  BY BlockLedger, ClearedLedger DEF BeginRetry

-----------------------------------------------------------------------------
(* PART 3.  Decisions.                                                       *)

(* The inputs of a revision up to a stage.                                   *)

LEMMA SameLength ==
    ASSUME NEW m \in Nat, NEW n \in Nat, 1..m = 1..n
    PROVE  m = n
<1>1. \A i \in Int : i \in 1..m <=> i \in 1..n
  OBVIOUS
<1>2. /\ m \in 1..m <=> m \in 1..n
      /\ n \in 1..m <=> n \in 1..n
      /\ 1 \in 1..m <=> 1 \in 1..n
  BY <1>1
<1>. QED BY <1>2

LEMMA InputsAreSeq ==
    ASSUME NEW p \in [Artifact -> Versions]
    PROVE  p \in Seq(Versions) /\ Len(p) = 5
<1>1. p \in [1..5 -> Versions] /\ DOMAIN p = 1..5
  BY DEF Artifact
<1>2. p \in Seq(Versions)
  BY <1>1, Zenon, SeqDef
<1>3. DOMAIN p = 1..Len(p) /\ Len(p) \in Nat
  <2>1. \A q \in Seq(Versions) : DOMAIN q = 1..Len(q) /\ Len(q) \in Nat
    OBVIOUS
  <2>. QED BY <1>2, <2>1, Zenon
<1>. QED BY <1>1, <1>2, <1>3, SameLength

LEMMA InputsUpTo ==
    ASSUME NEW p \in [Artifact -> Versions], NEW i \in Artifact
    PROVE  /\ SubSeq(p, 1, i) \in Seq(Versions) /\ Len(SubSeq(p, 1, i)) = i
           /\ \A j \in 1..i : SubSeq(p, 1, i)[j] = p[j]
  BY InputsAreSeq, SubSeqProperties DEF Artifact

LEMMA SameInputs ==
    ASSUME NEW p \in [Artifact -> Versions], NEW i \in Artifact,
           NEW q \in Seq(Versions), Len(q) = i, \A j \in 1..i : q[j] = p[j]
    PROVE  q = SubSeq(p, 1, i)
  BY InputsUpTo, SeqEqual

\* One input after the other.
LEMMA InputsGrow ==
    ASSUME NEW p \in [Artifact -> Versions]
    PROVE  /\ <<p[1]>> = SubSeq(p, 1, 1) /\ <<p[1], p[2]>> = SubSeq(p, 1, 2)
           /\ \A i \in 1..4 : Append(SubSeq(p, 1, i), p[i + 1]) = SubSeq(p, 1, i + 1)
<1>1. \A i \in Artifact : p[i] \in Versions
  OBVIOUS
<1>2. /\ <<p[1]>> \in Seq(Versions) /\ Len(<<p[1]>>) = 1
      /\ <<p[1], p[2]>> \in Seq(Versions) /\ Len(<<p[1], p[2]>>) = 2
  BY <1>1 DEF Artifact
<1>3. <<p[1]>> = SubSeq(p, 1, 1)
  BY <1>2, SameInputs DEF Artifact
<1>4. <<p[1], p[2]>> = SubSeq(p, 1, 2)
  BY <1>2, SameInputs DEF Artifact
<1>5. ASSUME NEW i \in 1..4
      PROVE  Append(SubSeq(p, 1, i), p[i + 1]) = SubSeq(p, 1, i + 1)
  <2> DEFINE q == Append(SubSeq(p, 1, i), p[i + 1])
  <2>1. i \in Artifact /\ i + 1 \in Artifact
    BY DEF Artifact
  <2>2. q \in Seq(Versions) /\ Len(q) = i + 1 /\ \A j \in 1..(i + 1) : q[j] = p[j]
    BY <1>1, <2>1, InputsUpTo
  <2>. HIDE DEF q
  <2>3. q = SubSeq(p, 1, i + 1)
    BY <2>1, <2>2, SameInputs
  <2>. QED BY <2>3 DEF q
<1>. QED BY <1>3, <1>4, <1>5

-----------------------------------------------------------------------------
(* What a reviewer approves.                                                 *)

LEMMA ReviewableIsApproved ==
    ASSUME NEW s, Ledger(s), Reviewable(s)
    PROVE  ApprovedRev(s, Len(s.revs))
<1> DEFINE r == Current(s)
           value(i) == s.artifacts[r.artifacts[i]]
<1>1. /\ s \in Checkpoint /\ r = s.revs[Len(s.revs)] /\ r \in Revision /\ CurrentSound(s)
      /\ RevSound(s, Len(s.revs)) /\ s.enabled \in Shapes
  BY LedgerParts, Parts
<1>2. r.inputs \in [Artifact -> Versions]
  BY <1>1, RevisionParts
<1>3. ASSUME NEW i \in Artifact, s.values[i].ready \/ s.values[i].kind = 5
      PROVE  r.artifacts[i] # 0 /\ s.values[i] = value(i)
  <2>1. s.values[i] = IF r.artifacts[i] = 0 THEN NoValue ELSE value(i)
    BY <1>1 DEF CurrentSound
  <2>2. NoValue.ready = FALSE /\ NoValue.kind = 0
    BY DEF NoValue
  <2>. QED BY <1>3, <2>1, <2>2
<1>4. /\ 1 \in Artifact /\ 2 \in Artifact /\ 3 \in Artifact /\ 4 \in Artifact /\ 5 \in Artifact
  BY DEF Artifact
<1>5. /\ r.artifacts[1] # 0 /\ value(1).ready /\ value(1).basis = SubSeq(r.inputs, 1, 1)
  <2>1. s.values[1].ready /\ s.values[1].basis = <<r.inputs[1]>>
    BY DEF Reviewable, Policy
  <2>. QED BY <1>2, <1>3, <1>4, <2>1, InputsGrow
<1>6. ASSUME 2 \in s.enabled
      PROVE  /\ r.artifacts[2] # 0 /\ value(2).ready
             /\ value(2).basis = SubSeq(r.inputs, 1, 2)
  <2>1. s.values[2].ready /\ s.values[2].basis = <<r.inputs[1], r.inputs[2]>>
    BY <1>6 DEF Reviewable, OutputValid
  <2>. QED BY <1>2, <1>3, <1>4, <2>1, InputsGrow
<1>7. ASSUME 2 \in s.enabled
      PROVE  /\ s.values[3].ready /\ s.values[3].draw = s.values[2].draw
             /\ s.values[3].basis = Append(s.values[2].basis, r.inputs[3])
             /\ s.values[4].ready /\ s.values[4].draw = s.values[3].draw
             /\ s.values[4].basis = Append(s.values[3].basis, r.inputs[4])
  <2>1. /\ s.values[3] = Screen(s) /\ s.values[4] = Construct(s) /\ s.values[4].ready
    BY <1>7 DEF Reviewable
  <2> DEFINE c == s.values[3]
             consistent == /\ s.values[1] = Policy(s)
                           /\ c.ready /\ c.basis[1] = Current(s).inputs[1]
             ready == consistent /\ <<4, c.draw, Current(s).inputs[4]>> \notin Unbuildable
             basis == Append(c.basis, Current(s).inputs[4])
  <2>2. /\ s.values[3].ready /\ s.values[4].draw = s.values[3].draw
        /\ s.values[4].basis = Append(s.values[3].basis, r.inputs[4])
    <3>1. s.values[4] = [kind |-> 4, ready |-> ready, basis |-> basis, draw |-> c.draw]
      BY <2>1 DEF Construct
    <3>2. ready => c.ready
      OBVIOUS
    <3>. HIDE DEF ready, basis, c
    <3>3. s.values[4].ready => ready
      BY <3>1
    <3>4. s.values[4].basis = basis /\ s.values[4].draw = c.draw
      BY <3>1
    <3>. QED BY <2>1, <3>2, <3>3, <3>4 DEF basis, c
  <2>3. Screen(s) # NoValue
    BY <2>1, <2>2 DEF NoValue
  <2>4. /\ s.values[3].draw = s.values[2].draw
        /\ s.values[3].basis = Append(s.values[2].basis, r.inputs[3])
    <3>1. s.values[3] = [kind |-> 3, ready |-> TRUE,
                         basis |-> Append(s.values[2].basis, r.inputs[3]),
                         draw |-> s.values[2].draw]
      BY <2>1, <2>3 DEF Screen
    <3>. QED BY <3>1
  <2>. QED BY <2>1, <2>2, <2>4
<1>8. ASSUME 2 \in s.enabled
      PROVE  /\ r.artifacts[3] # 0 /\ value(3).ready /\ value(3).draw = value(2).draw
             /\ value(3).basis = SubSeq(r.inputs, 1, 3)
             /\ r.artifacts[4] # 0 /\ value(4).ready /\ value(4).draw = value(2).draw
             /\ value(4).basis = SubSeq(r.inputs, 1, 4)
             /\ s.values[4] = value(4)
  <2>1. s.values[2] = value(2) /\ s.values[3] = value(3) /\ s.values[4] = value(4)
        /\ r.artifacts[3] # 0 /\ r.artifacts[4] # 0
    <3>1. s.values[2].ready
      BY <1>8 DEF Reviewable, OutputValid
    <3>. QED BY <1>3, <1>4, <1>7, <1>8, <3>1
  <2>2. /\ Append(SubSeq(r.inputs, 1, 2), r.inputs[3]) = SubSeq(r.inputs, 1, 3)
        /\ Append(SubSeq(r.inputs, 1, 3), r.inputs[4]) = SubSeq(r.inputs, 1, 4)
    <3>1. \A i \in 1..4 :
             Append(SubSeq(r.inputs, 1, i), r.inputs[i + 1]) = SubSeq(r.inputs, 1, i + 1)
      BY <1>2, InputsGrow
    <3>2. 2 \in 1..4 /\ 3 \in 1..4 /\ 2 + 1 = 3 /\ 3 + 1 = 4
      OBVIOUS
    <3>. QED BY <3>1, <3>2
  <2>. QED BY <1>6, <1>7, <1>8, <2>1, <2>2
<1>9. ASSUME 5 \in s.enabled
      PROVE  /\ r.artifacts[5] # 0 /\ value(5).ready /\ value(5).draw = value(2).draw
             /\ value(5).basis = SubSeq(r.inputs, 1, 5)
  <2>1. 2 \in s.enabled
    BY <1>1, <1>9, ShapeFacts
  <2>2. s.values[5].kind = 5 /\ s.values[5].draw = s.values[4].draw
    BY <1>9 DEF Reviewable, OutputValid
  <2>3. r.artifacts[5] # 0 /\ s.values[5] = value(5)
    BY <1>3, <1>4, <2>2
  <2>4. value(5).ready /\ value(5).basis = Append(value(4).basis, r.inputs[5])
    BY <1>1, <2>3 DEF RevSound
  <2>5. Append(SubSeq(r.inputs, 1, 4), r.inputs[5]) = SubSeq(r.inputs, 1, 5)
    <3>1. \A i \in 1..4 :
             Append(SubSeq(r.inputs, 1, i), r.inputs[i + 1]) = SubSeq(r.inputs, 1, i + 1)
      BY <1>2, InputsGrow
    <3>2. 4 \in 1..4 /\ 4 + 1 = 5
      OBVIOUS
    <3>. QED BY <3>1, <3>2
  <2>. QED BY <1>8, <2>1, <2>2, <2>3, <2>4, <2>5
<1>10. \A i \in s.enabled : i \in Artifact /\ (i \notin {1, 2} => 2 \in s.enabled)
  BY <1>1, ShapeFacts
<1>11. ASSUME NEW i \in s.enabled
       PROVE  /\ r.artifacts[i] # 0 /\ value(i).ready
              /\ value(i).basis = SubSeq(r.inputs, 1, i)
              /\ i \notin {1, 2} => value(i).draw = value(2).draw
  <2>1. i = 1 \/ i = 2 \/ i = 3 \/ i = 4 \/ i = 5
    BY <1>10 DEF Artifact
  <2>2. i \notin {1, 2} => 2 \in s.enabled
    BY <1>10
  <2>. HIDE DEF r, value
  <2>. QED BY <1>5, <1>6, <1>8, <1>9, <2>1, <2>2
<1>. QED BY <1>1, <1>11 DEF ApprovedRev

-----------------------------------------------------------------------------
(* What a decision makes of the checkpoint.                                  *)

\* The decision is bound to the current revision.
BoundTo(s, t, d, outcome, q) ==
    /\ t.enabled = s.enabled /\ t.receipts = s.receipts /\ t.artifacts = s.artifacts
    /\ t.values = s.values /\ t.decisions = Append(s.decisions, d) /\ t.review = d
    /\ t.revs = [s.revs EXCEPT ![Len(s.revs)] = q]
    /\ q.inputs = Current(s).inputs /\ q.plan = Current(s).plan
    /\ q.artifacts = Current(s).artifacts /\ q.decision = d.id /\ q.status = outcome

LEMMA BoundFields ==
    ASSUME NEW s \in Checkpoint, NEW d \in ReviewDecision, NEW outcome \in Statuses
    PROVE  /\ Bound(s, d, outcome) \in Checkpoint
           /\ \E q \in Revision : BoundTo(s, Bound(s, d, outcome), d, outcome, q)
<1> DEFINE q == [Current(s) EXCEPT !.decision = d.id, !.status = outcome]
           ds == Append(s.decisions, d)
           rs == [s.revs EXCEPT ![Len(s.revs)] = q]
           t == Bound(s, d, outcome)
<1>1. /\ q \in Revision /\ q.inputs = Current(s).inputs /\ q.plan = Current(s).plan
      /\ q.artifacts = Current(s).artifacts /\ q.decision = d.id /\ q.status = outcome
  BY CurrentType DEF Revision, ReviewDecision
<1>2. t \in Checkpoint
  BY BoundType
<1>. HIDE DEF q
<1>3. t = [s EXCEPT !.decisions = ds, !.revs = rs, !.review = d]
  BY DEF Bound, q
<1>. HIDE DEF ds, rs, t
<1>4. /\ t.enabled = s.enabled /\ t.receipts = s.receipts /\ t.artifacts = s.artifacts
      /\ t.values = s.values /\ t.decisions = ds /\ t.review = d /\ t.revs = rs
  BY <1>3 DEF Checkpoint
<1>5. BoundTo(s, t, d, outcome, q)
  BY <1>1, <1>4 DEF BoundTo, ds, rs
<1>. QED BY <1>1, <1>2, <1>5 DEF t

\* Every decision names its revision, and the new one the current revision.
LEMMA DecisionsNamed ==
    ASSUME NEW s, Ledger(s), Current(s).decision = 0, NEW d,
           d.id = Len(s.decisions) + 1, d.rev = Len(s.revs)
    PROVE  LET ds == Append(s.decisions, d) IN
           /\ DOMAIN ds = 1..(Len(s.decisions) + 1) /\ Len(s.decisions) \in Nat
           /\ ds[d.id] = d /\ d.id \in DOMAIN ds /\ Prefix(s.decisions, ds)
           /\ \A e \in DOMAIN ds : e # d.id =>
                 \E r \in DOMAIN s.revs : r # Len(s.revs) /\ s.revs[r].decision = e
<1> DEFINE ds == Append(s.decisions, d)
           m == Len(s.decisions)
<1>1. /\ s \in Checkpoint /\ m \in Nat /\ DOMAIN s.decisions = 1..m
      /\ CurrentSound(s) /\ Current(s) = s.revs[Len(s.revs)]
  BY LedgerParts, Parts
<1>2. DOMAIN ds = 1..(m + 1) /\ ds[m + 1] = d /\ \A e \in 1..m : ds[e] = s.decisions[e]
  BY <1>1 DEF Checkpoint
<1>3. ASSUME NEW e \in DOMAIN ds, e # d.id
      PROVE  \E r \in DOMAIN s.revs : r # Len(s.revs) /\ s.revs[r].decision = e
  <2>1. e \in DOMAIN s.decisions /\ e # 0
    BY <1>1, <1>2, <1>3
  <2>2. PICK r \in DOMAIN s.revs : s.revs[r].decision = e
    BY <1>1, <2>1 DEF CurrentSound
  <2>. QED BY <1>1, <2>1, <2>2
<1>. HIDE DEF ds
<1>4. Prefix(s.decisions, ds)
  BY <1>1, <1>2 DEF Prefix
<1>5. ds[d.id] = d /\ d.id \in DOMAIN ds
  BY <1>1, <1>2
<1>. QED BY <1>1, <1>2, <1>3, <1>4, <1>5 DEF ds

LEMMA ClosedLedger ==
    ASSUME NEW s, Ledger(s), s.next = Finalize, NEW d \in ReviewDecision, Binds(s, d)
    PROVE  Ledger(Closed(s, d)) /\ Evolves(s, Closed(s, d))
<1> DEFINE outcome == IF d.action = "approve" THEN "approved" ELSE "rejected"
           n == Len(s.revs)
           b == Bound(s, d, outcome)
           t == Closed(s, d)
<1>1. /\ s \in Checkpoint /\ n \in DOMAIN s.revs /\ Current(s) = s.revs[n]
      /\ Current(s) \in Revision /\ CurrentSound(s) /\ Reviewable(s)
      /\ Current(s).decision = 0 /\ d.id = Len(s.decisions) + 1 /\ d.rev = n
      /\ s.revs \in Seq(Revision)
  <2>1. Reviewable(s)
    BY LedgerParts DEF RouteIsSound
  <2>. QED BY <2>1, LedgerParts DEF Binds, Checkpoint
<1>2. outcome \in Statuses
  BY DEF Statuses
<1>. HIDE DEF outcome
<1>3. b \in Checkpoint /\ \E q \in Revision : BoundTo(s, b, d, outcome, q)
  BY <1>1, <1>2, BoundFields
<1>4. PICK q \in Revision : BoundTo(s, b, d, outcome, q)
  BY <1>3
<1>5. t = [b EXCEPT !.status = outcome, !.next = End]
  BY DEF Closed, outcome
<1>. HIDE DEF b, t
<1>6. /\ t \in Checkpoint /\ t.enabled = b.enabled /\ t.receipts = b.receipts
      /\ t.artifacts = b.artifacts /\ t.values = b.values /\ t.decisions = b.decisions
      /\ t.review = b.review /\ t.revs = b.revs /\ t.next = End
  BY <1>2, <1>3, <1>5, NodeTypes DEF Checkpoint
<1>7. BoundTo(s, t, d, outcome, q)
  BY <1>4, <1>6 DEF BoundTo
<1>8. /\ t.enabled = s.enabled /\ t.receipts = s.receipts /\ t.artifacts = s.artifacts
      /\ t.values = s.values /\ t.decisions = Append(s.decisions, d) /\ t.review = d
      /\ t.revs = [s.revs EXCEPT ![n] = q]
      /\ q.inputs = Current(s).inputs /\ q.plan = Current(s).plan
      /\ q.artifacts = Current(s).artifacts /\ q.decision = d.id /\ q.status = outcome
  BY <1>7 DEF BoundTo
<1>9. /\ DOMAIN t.decisions = 1..(Len(s.decisions) + 1) /\ Len(s.decisions) \in Nat
      /\ t.decisions[d.id] = d /\ d.id \in DOMAIN t.decisions
      /\ Prefix(s.decisions, t.decisions)
      /\ \A e \in DOMAIN t.decisions : e # d.id =>
            \E r \in DOMAIN s.revs : r # n /\ s.revs[r].decision = e
  BY <1>1, <1>8, DecisionsNamed
<1>10. /\ DOMAIN t.revs = DOMAIN s.revs /\ Len(t.revs) = n /\ t.revs[n] = q /\ Current(t) = q
       /\ \A r \in DOMAIN s.revs : r # n => t.revs[r] = s.revs[r]
  BY <1>1, <1>8 DEF Current
<1>11. ApprovedRev(t, n)
  <2>1. ApprovedRev(s, n)
    BY <1>1, ReviewableIsApproved
  <2>2. t.revs[n].inputs = s.revs[n].inputs /\ t.revs[n].artifacts = s.revs[n].artifacts
    BY <1>1, <1>8, <1>10
  <2>3. t.artifacts = s.artifacts /\ t.enabled = s.enabled
    BY <1>8
  <2>. HIDE DEF n
  <2>. QED BY <2>1, <2>2, <2>3, Zenon DEF ApprovedRev
<1>12. CurrentSound(t)
  <2>1. \A e \in DOMAIN t.decisions : \E r \in DOMAIN t.revs : t.revs[r].decision = e
    BY <1>1, <1>8, <1>9, <1>10
  <2>2. ScreenedHere(t)
    <3>1. Current(t).inputs = Current(s).inputs /\ t.values = s.values
      BY <1>8, <1>10
    <3>2. Screen(t) = Screen(s)
      BY <3>1 DEF Screen
    <3>3. ScreenedHere(s)
      BY <1>1 DEF CurrentSound
    <3>. QED BY <1>8, <1>10, <3>2, <3>3 DEF ScreenedHere
  <2>3. t.review = t.decisions[Current(t).decision]
    BY <1>8, <1>9, <1>10
  <2>4. \A i \in Artifact :
           t.values[i] = IF Current(t).artifacts[i] = 0
                         THEN NoValue ELSE t.artifacts[Current(t).artifacts[i]]
    <3>1. \A i \in Artifact :
             s.values[i] = IF Current(s).artifacts[i] = 0
                           THEN NoValue ELSE s.artifacts[Current(s).artifacts[i]]
      BY <1>1 DEF CurrentSound
    <3>. QED BY <1>8, <1>10, <3>1
  <2>. QED BY <2>1, <2>2, <2>3, <2>4 DEF CurrentSound
<1>13. RouteIsSound(t)
  BY <1>6, RouteToEnd
<1>14. d.id # 0 /\ t.decisions[q.decision].rev = n /\ q.decision \in DOMAIN t.decisions
  BY <1>1, <1>8, <1>9
<1>15. Prefix(s.artifacts, t.artifacts)
  BY <1>8 DEF Prefix
<1>16. Ledger(t) /\ Evolves(s, t)
  BY <1>1, <1>6, <1>8, <1>9, <1>11, <1>12, <1>13, <1>14, <1>15, FollowCurrent
<1>. QED BY <1>16 DEF t

\* The child revision restarts at the earliest class of the feedback.
Restarts(s, t, d, q, r) ==
    LET index == PlanIndex(d) IN
    /\ t.enabled = s.enabled /\ t.receipts = s.receipts /\ t.artifacts = s.artifacts
    /\ t.decisions = Append(s.decisions, d) /\ t.next = StageNode(index)
    /\ t.values = [i \in Artifact |-> IF i < index THEN s.values[i] ELSE NoValue]
    /\ t.revs = Append([s.revs EXCEPT ![Len(s.revs)] = q], r)
    /\ q.inputs = Current(s).inputs /\ q.plan = Current(s).plan
    /\ q.artifacts = Current(s).artifacts /\ q.decision = d.id
    /\ q.status \in {"rejected", "revised"}
    /\ r.inputs = PlannedInputs(s, d) /\ r.plan = index /\ r.decision = 0
    /\ r.status = "running"
    /\ r.artifacts = [i \in Artifact |-> IF i < index THEN Current(s).artifacts[i] ELSE 0]

LEMMA ChildFields ==
    ASSUME NEW s \in Checkpoint, NEW d \in ReviewDecision, d.feedback # {}
    PROVE  /\ Child(s, d) \in Checkpoint
           /\ \E q, r \in Revision : Restarts(s, Child(s, d), d, q, r)
<1> DEFINE index == PlanIndex(d)
           outcome == IF d.action = "reject" THEN "rejected" ELSE "revised"
           b == Bound(s, d, outcome)
           ids == [i \in Artifact |-> IF i < index THEN Current(s).artifacts[i] ELSE 0]
           r == [inputs |-> PlannedInputs(s, d), plan |-> index, decision |-> 0,
                 status |-> "running", artifacts |-> ids]
           rs == Append(b.revs, r)
           vs == [i \in Artifact |-> IF i < index THEN b.values[i] ELSE NoValue]
           next == StageNode(index)
           t == Child(s, d)
<1>1. t \in Checkpoint
  BY ChildKeeps DEF Keeps
<1>2. index \in Artifact /\ index \in 0..5
  BY PlanIndexType DEF Artifact
<1>3. outcome \in Statuses /\ outcome \in {"rejected", "revised"}
  BY DEF Statuses
<1>. HIDE DEF outcome
<1>4. b \in Checkpoint /\ \E q \in Revision : BoundTo(s, b, d, outcome, q)
  BY <1>3, BoundFields
<1>5. PICK q \in Revision : BoundTo(s, b, d, outcome, q)
  BY <1>4
<1>6. ids \in [Artifact -> Nat] /\ PlannedInputs(s, d) \in [Artifact -> Versions]
  <2>1. ids \in [Artifact -> Nat]
    <3>. HIDE DEF index
    <3>. QED BY CurrentType DEF Revision
  <2>2. PlannedInputs(s, d) \in [Artifact -> Versions]
    BY CurrentType DEF PlannedInputs, Revision, ReviewDecision
  <2>. QED BY <2>1, <2>2
<1>7. /\ r \in Revision /\ r.inputs = PlannedInputs(s, d) /\ r.plan = index
      /\ r.decision = 0 /\ r.status = "running" /\ r.artifacts = ids
  <2>. HIDE DEF index, ids
  <2>. QED BY <1>2, <1>6 DEF Revision, Statuses
<1>8. t = [b EXCEPT !.revs = rs, !.values = vs, !.review = NoDecision,
                    !.status = "revision_planned", !.next = next]
  BY DEF Child, outcome
<1>. HIDE DEF r, b, t, rs, vs, next
<1>9. /\ t.enabled = b.enabled /\ t.receipts = b.receipts /\ t.artifacts = b.artifacts
      /\ t.decisions = b.decisions /\ t.next = next /\ t.values = vs /\ t.revs = rs
  BY <1>4, <1>8 DEF Checkpoint
<1>10. /\ b.enabled = s.enabled /\ b.receipts = s.receipts /\ b.artifacts = s.artifacts
       /\ b.values = s.values /\ b.decisions = Append(s.decisions, d)
       /\ b.revs = [s.revs EXCEPT ![Len(s.revs)] = q]
       /\ q.inputs = Current(s).inputs /\ q.plan = Current(s).plan
       /\ q.artifacts = Current(s).artifacts /\ q.decision = d.id /\ q.status = outcome
  BY <1>5 DEF BoundTo
<1>11. Restarts(s, t, d, q, r)
  BY <1>3, <1>7, <1>9, <1>10 DEF Restarts, rs, vs, next
<1>. QED BY <1>1, <1>7, <1>11 DEF t

\* The node that a restart leads to.
LEMMA RouteToStage ==
    ASSUME NEW t, NEW i \in Artifact, t.next = StageNode(i), i \in t.enabled,
           Current(t).plan = i, Current(t).decision = 0,
           \A j \in Artifact : j >= i => Current(t).artifacts[j] = 0,
           \A stage \in OpStage : Prior(t, stage) = {}
    PROVE  RouteIsSound(t)
<1>1. \/ i = 1 /\ t.next = Node("validate_profile", 1)
      \/ i = 2 /\ t.next = Node("prepare", 2)
      \/ i = 3 /\ t.next = Node("pure", 3)
      \/ i = 4 /\ t.next = Node("pure", 4)
      \/ i = 5 /\ t.next = Node("prepare", 5)
  BY DEF StageNode, OpStage, Artifact
<1>2. /\ \A j \in Artifact : t.next[2] = j => j = i
      /\ t.next = Node("validate_profile", 1) => i = 1
      /\ t.next \in {Node("validate_profile", 1), Node("pure", 1), Node("prepare", 2)}
            => i \in {1, 2}
      /\ t.next # Finalize
  BY <1>1 DEF Node, Finalize
<1>3. Prior(t, 5) = {} /\ Latest(t, 2) = {}
  BY DEF OpStage, Latest
<1>4. i \in {1, 2} => \A j \in 2..5 : Current(t).artifacts[j] = 0
  BY DEF Artifact
<1>5. i = 1 => Current(t).artifacts[1] = 0
  BY DEF Artifact
<1>. QED BY <1>2, <1>3, <1>4, <1>5 DEF RouteIsSound, Artifact

LEMMA ChildLedger ==
    ASSUME NEW s, Ledger(s), s.next = Finalize,
           NEW d \in ReviewDecision, Binds(s, d), Plannable(s, d)
    PROVE  Ledger(Child(s, d)) /\ Evolves(s, Child(s, d))
<1> DEFINE n == Len(s.revs)
           index == PlanIndex(d)
           t == Child(s, d)
           ds == Append(s.decisions, d)
<1>1. /\ s \in Checkpoint /\ n \in DOMAIN s.revs /\ Current(s) = s.revs[n]
      /\ Current(s) \in Revision /\ CurrentSound(s) /\ AttemptsSound(s)
      /\ s.revs \in Seq(Revision) /\ n \in Nat \ {0} /\ DOMAIN s.revs = 1..n
      /\ RevisionValid(s, n)
  <2>1. RevSound(s, n) /\ s \in Checkpoint
    BY LedgerParts
  <2>. QED BY <2>1, LedgerParts, Parts DEF Checkpoint, RevSound
<1>2. /\ Current(s).decision = 0 /\ d.id = Len(s.decisions) + 1 /\ d.rev = n
      /\ d.feedback # {} /\ d.feedback \subseteq s.enabled
  BY DEF Binds, Plannable
<1>3. index \in Artifact /\ index \in s.enabled
  BY <1>2, PlanIndexType
<1>4. t \in Checkpoint /\ \E q, r \in Revision : Restarts(s, t, d, q, r)
  BY <1>1, <1>2, ChildFields
<1>5. PICK q \in Revision, r \in Revision : Restarts(s, t, d, q, r)
  BY <1>4
<1>. HIDE DEF t
<1>6. /\ t.enabled = s.enabled /\ t.receipts = s.receipts /\ t.artifacts = s.artifacts
      /\ t.decisions = ds /\ t.next = StageNode(index)
      /\ t.values = [i \in Artifact |-> IF i < index THEN s.values[i] ELSE NoValue]
      /\ t.revs = Append([s.revs EXCEPT ![n] = q], r)
      /\ q.inputs = Current(s).inputs /\ q.plan = Current(s).plan
      /\ q.artifacts = Current(s).artifacts /\ q.decision = d.id
      /\ q.status \in {"rejected", "revised"}
      /\ r.inputs = PlannedInputs(s, d) /\ r.plan = index /\ r.decision = 0
      /\ r.status = "running"
      /\ r.artifacts = [i \in Artifact |-> IF i < index THEN Current(s).artifacts[i] ELSE 0]
  BY <1>5 DEF Restarts
<1>7. /\ DOMAIN ds = 1..(Len(s.decisions) + 1) /\ Len(s.decisions) \in Nat
      /\ ds[d.id] = d /\ d.id \in DOMAIN ds /\ Prefix(s.decisions, ds) /\ d.id # 0
      /\ \A e \in DOMAIN ds : e # d.id =>
            \E x \in DOMAIN s.revs : x # n /\ s.revs[x].decision = e
  BY <1>1, <1>2, DecisionsNamed
<1>. HIDE DEF ds, index
<1>8. /\ DOMAIN t.revs = 1..(n + 1) /\ Len(t.revs) = n + 1 /\ t.revs[n] = q
      /\ t.revs[n + 1] = r /\ Current(t) = r
      /\ \A x \in DOMAIN s.revs : x # n => t.revs[x] = s.revs[x]
  <2> DEFINE rs == [s.revs EXCEPT ![n] = q]
  <2>1. /\ rs \in Seq(Revision) /\ Len(rs) = n /\ rs[n] = q
        /\ \A x \in DOMAIN s.revs : x # n => rs[x] = s.revs[x]
    BY <1>1
  <2>2. t.revs = Append(rs, r)
    BY <1>6
  <2>. HIDE DEF n, rs
  <2>3. /\ DOMAIN t.revs = 1..(n + 1) /\ Len(t.revs) = n + 1 /\ t.revs[n + 1] = r
        /\ \A x \in 1..n : t.revs[x] = rs[x]
    BY <1>1, <2>1, <2>2
  <2>. QED BY <1>1, <2>1, <2>3 DEF Current
<1>. HIDE DEF n
<1>9. /\ \A i \in Artifact : i < index => r.artifacts[i] = Current(s).artifacts[i]
      /\ \A i \in Artifact : ~(i < index) => r.artifacts[i] = 0
      /\ \A i \in Artifact : i < index => t.values[i] = s.values[i]
      /\ \A i \in Artifact : ~(i < index) => t.values[i] = NoValue
  BY <1>6
<1>10. \A x, stage : Attempts(t, x, stage) = Attempts(s, x, stage)
  BY <1>6 DEF Attempts
<1>11. \A stage : Attempts(t, n + 1, stage) = {}
  <2>1. \A k \in DOMAIN s.receipts : s.receipts[k].rev \in DOMAIN s.revs
    BY <1>1 DEF AttemptsSound, AttemptsOwned
  <2>2. n + 1 \notin DOMAIN s.revs
    BY <1>1
  <2>. QED BY <1>6, <2>1, <2>2 DEF Attempts
<1>12. ASSUME NEW x \in DOMAIN s.revs PROVE RevFollows(s, t, x)
  <2>1. \A stage \in OpStage :
           /\ Attempts(t, x, stage) = Attempts(s, x, stage)
           /\ \A k \in Attempts(s, x, stage) :
                 /\ ReceiptFollows(s.receipts[k], t.receipts[k])
                 /\ s.revs[x].decision # 0 => t.receipts[k] = s.receipts[k]
    BY <1>6, <1>10 DEF ReceiptFollows
  <2>2. x \in DOMAIN t.revs
    BY <1>1, <1>8
  <2>3. CASE x = n
    <3>1. d.id \in DOMAIN t.decisions /\ t.decisions[d.id].rev = n
      BY <1>2, <1>6, <1>7
    <3>2. t.revs[x] = q /\ s.revs[x] = Current(s)
      BY <1>1, <1>8, <2>3
    <3>. QED BY <1>2, <1>6, <1>7, <2>1, <2>2, <2>3, <3>1, <3>2 DEF RevFollows
  <2>4. CASE x # n
    <3>1. s.revs[x].decision = 0 => s.revs[x].status \notin {"approved", "rejected"}
      BY DEF Ledger, DecisionsMade
    <3>2. t.revs[x] = s.revs[x]
      BY <1>8, <2>4
    <3>. QED BY <2>1, <2>2, <3>1, <3>2 DEF RevFollows
  <2>. QED BY <2>3, <2>4
<1>13. Prefix(s.artifacts, t.artifacts) /\ Prefix(s.decisions, t.decisions)
  BY <1>6, <1>7 DEF Prefix
<1>14. ASSUME NEW x \in DOMAIN s.revs PROVE RevSound(t, x)
  <2>1. x > 1 => x - 1 \in DOMAIN s.revs
    BY <1>1
  <2>2. x > 1 => RevFollows(s, t, x - 1)
    BY <1>12, <2>1
  <2>3. RevFollows(s, t, x)
    BY <1>12
  <2>4. t.revs[x].decision # 0 => s.revs[x].decision # 0 \/ ApprovedRev(t, x)
    <3>1. CASE x = n
      <4>1. ApprovedRev(s, n)
        BY ReviewableIsApproved, LedgerParts DEF RouteIsSound, n
      <4>2. t.revs[n].inputs = s.revs[n].inputs /\ t.revs[n].artifacts = s.revs[n].artifacts
        BY <1>1, <1>6, <1>8
      <4>3. t.artifacts = s.artifacts /\ t.enabled = s.enabled
        BY <1>6
      <4>4. ApprovedRev(t, n)
        BY <4>1, <4>2, <4>3, Zenon DEF ApprovedRev
      <4>. QED BY <3>1, <4>4
    <3>2. CASE x # n
      BY <1>8, <3>2
    <3>. QED BY <3>1, <3>2
  <2>. QED BY <1>1, <1>4, <1>6, <1>13, <2>2, <2>3, <2>4, RevSoundKept
<1>15. \A stage \in OpStage : ReceiptsValid(t, n + 1, stage)
  BY <1>11 DEF ReceiptsValid
<1>16. \A i \in Artifact : r.artifacts[i] # 0 =>
          i < index /\ r.artifacts[i] = Current(s).artifacts[i]
  BY <1>9
<1>17. /\ n + 1 > 1 /\ n + 1 # 1 /\ (n + 1) - 1 = n
  BY <1>1
<1>18. ASSUME NEW stage \in OpStage PROVE SideEffectProven(t, n + 1, stage)
  <2>1. stage \in Artifact
    BY DEF OpStage, Artifact
  <2>2. r.artifacts[stage] # 0 => stage < r.plan /\ r.artifacts[stage] = q.artifacts[stage]
    BY <1>6, <1>16, <2>1
  <2>. QED BY <1>8, <1>17, <2>2 DEF SideEffectProven
<1>19. RevisionValid(t, n + 1)
  <2>1. r.inputs = [c \in Artifact |-> IF c \in d.feedback THEN d.version ELSE q.inputs[c]]
    BY <1>6 DEF PlannedInputs
  <2>2. t.decisions[q.decision] = d /\ q.decision # 0 /\ r.plan = PlanIndex(d)
    BY <1>6, <1>7 DEF index
  <2>3. \A i \in Artifact : i < r.plan /\ r.artifacts[i] # 0
           => r.artifacts[i] = q.artifacts[i]
    BY <1>6, <1>16
  <2>4. \A i \in Artifact : r.artifacts[i] # 0
           => i \in t.enabled /\ r.artifacts[i] \in DOMAIN t.artifacts
    BY <1>1, <1>6, <1>16 DEF RevisionValid
  <2>5. r.decision = 0
    BY <1>6
  <2>. QED BY <1>8, <1>15, <1>17, <1>18, <2>1, <2>2, <2>3, <2>4, <2>5 DEF RevisionValid
<1>20. RevSound(t, n + 1)
  <2>1. \A stage : Last(t, n + 1, stage) = {}
    BY <1>11 DEF Last
  <2>2. r.artifacts[5] = 0
    BY <1>3, <1>9 DEF Artifact
  <2>3. 0 \in 0..Len(t.decisions)
    BY <1>4, Parts
  <2>. QED BY <1>6, <1>8, <1>11, <1>19, <2>1, <2>2, <2>3 DEF RevSound
<1>21. AttemptsSound(t)
  <2>1. \A x \in DOMAIN s.revs : x \in DOMAIN t.revs /\ t.revs[x].plan = s.revs[x].plan
    BY <1>1, <1>6, <1>8
  <2>2. AttemptsOwned(s) /\ ReceiptOrder(s)
    BY <1>1 DEF AttemptsSound
  <2>3. AttemptsOwned(t)
    BY <1>6, <2>1, <2>2 DEF AttemptsOwned
  <2>4. ReceiptOrder(t)
    BY <1>6, <2>2 DEF ReceiptOrder
  <2>. QED BY <1>1, <1>6, <2>3, <2>4 DEF AttemptsSound
<1>22. CurrentSound(t)
  <2>1. ASSUME NEW e \in DOMAIN t.decisions
        PROVE  \E x \in DOMAIN t.revs : t.revs[x].decision = e
    <3>1. CASE e = d.id
      <4>1. n \in DOMAIN t.revs /\ t.revs[n].decision = e
        BY <1>1, <1>6, <1>8, <3>1
      <4>. QED BY <4>1
    <3>2. CASE e # d.id
      <4>1. PICK x \in DOMAIN s.revs : x # n /\ s.revs[x].decision = e
        BY <1>6, <1>7, <3>2
      <4>2. x \in DOMAIN t.revs /\ t.revs[x] = s.revs[x]
        BY <1>1, <1>8, <4>1
      <4>. QED BY <4>1, <4>2
    <3>. QED BY <3>1, <3>2
  <2>2. ASSUME NEW i \in Artifact
        PROVE  t.values[i] = IF r.artifacts[i] = 0 THEN NoValue ELSE t.artifacts[r.artifacts[i]]
    <3>1. s.values[i] = IF Current(s).artifacts[i] = 0
                        THEN NoValue ELSE s.artifacts[Current(s).artifacts[i]]
      BY <1>1 DEF CurrentSound
    <3>2. CASE i < index
      BY <1>6, <1>9, <3>1, <3>2
    <3>3. CASE ~(i < index)
      BY <1>9, <3>3
    <3>. QED BY <3>2, <3>3
  <2>3. ScreenedHere(t)
    <3>1. r.artifacts[3] # 0 => ~(r.plan <= 3)
      <4>1. r.artifacts[3] # 0 => 3 < index
        BY <1>16 DEF Artifact
      <4>. QED BY <1>3, <1>6, <4>1 DEF Artifact
    <3>. QED BY <1>8, <3>1 DEF ScreenedHere
  <2>. QED BY <1>6, <1>8, <2>1, <2>2, <2>3 DEF CurrentSound
<1>23. RouteIsSound(t)
  <2>1. \A stage \in OpStage : Prior(t, stage) = {}
    BY <1>8, <1>11 DEF Prior
  <2>2. \A j \in Artifact : j >= index => r.artifacts[j] = 0
    <3>1. \A j \in Artifact : j >= index => ~(j < index)
      BY <1>3 DEF Artifact
    <3>. QED BY <1>9, <3>1
  <2>. QED BY <1>3, <1>6, <1>8, <2>1, <2>2, RouteToStage
<1>24. Ledger(t)
  <2>1. \A x \in DOMAIN t.revs : x \in DOMAIN s.revs \/ x = n + 1
    BY <1>1, <1>8
  <2>2. \A x \in DOMAIN t.revs : RevSound(t, x)
    BY <1>14, <1>20, <2>1
  <2>. QED BY <1>4, <1>21, <1>22, <1>23, <2>2, ByRevision
<1>25. Evolves(s, t)
  <2>1. \A x \in DOMAIN s.revs : s.revs[x].decision # 0 =>
           x \in DOMAIN t.revs /\ t.revs[x] = s.revs[x] /\ s.revs[x] \in Revision
    BY <1>1, <1>2, <1>8, Parts
  <2>. QED BY <1>2, <1>6, <1>10, <1>13, <2>1 DEF Evolves, SameButStatus
<1>. QED BY <1>24, <1>25 DEF t

LEMMA DecideLedger ==
    ASSUME NEW s, Ledger(s), s.next = Finalize
    PROVE  Ledger(Decide(s)) /\ Evolves(s, Decide(s))
<1> DEFINE d == s.review
<1>1. CASE ~Binds(s, d)
  BY <1>1, BlockLedger DEF Decide
<1>2. CASE Binds(s, d)
  <2>1. d \in ReviewDecision
    <3>1. d.id = Len(s.decisions) + 1 /\ Len(s.decisions) \in Nat
      BY <1>2, LedgerParts, Parts DEF Binds
    <3>2. d \in ReviewDecision \cup {NoDecision}
      BY LedgerParts DEF Checkpoint
    <3>. HIDE DEF d
    <3>. QED BY <3>1, <3>2 DEF NoDecision
  <2>2. CASE d.disposition = "revise"
    <3>1. Plannable(s, d) /\ Decide(s) = Child(s, d)
      BY <1>2, <2>2 DEF Binds, Decide
    <3>. QED BY <1>2, <2>1, <3>1, ChildLedger
  <2>3. CASE d.disposition # "revise"
    <3>1. Decide(s) = Closed(s, d)
      BY <1>2, <2>3 DEF Decide
    <3>. QED BY <1>2, <2>1, <3>1, ClosedLedger
  <2>. QED BY <2>2, <2>3
<1>. QED BY <1>1, <1>2

\* A new thread.
LEMMA BeginFreshLedger ==
    ASSUME NEW enabled \in Shapes
    PROVE  Ledger(BeginFresh(enabled))
<1> DEFINE r == [inputs |-> [c \in Artifact |-> FirstVersion], plan |-> 0, decision |-> 0,
                 artifacts |-> [i \in Artifact |-> 0], status |-> "running"]
           t == BeginFresh(enabled)
<1>1. t \in Checkpoint
  BY BeginFreshType
<1>2. /\ t.next = Node("validate_profile", 1) /\ t.enabled = enabled /\ t.revs = <<r>>
      /\ t.receipts = <<>> /\ t.artifacts = <<>> /\ t.decisions = <<>>
      /\ t.values = [i \in Artifact |-> NoValue]
  BY DEF BeginFresh
<1>3. /\ r.plan = 0 /\ r.decision = 0 /\ r.status = "running"
      /\ \A i \in Artifact : r.artifacts[i] = 0
  OBVIOUS
<1>. HIDE DEF t, r
<1>4. DOMAIN t.revs = {1} /\ Len(t.revs) = 1 /\ t.revs[1] = r /\ Current(t) = r
  BY <1>2 DEF Current
<1>5. DOMAIN t.receipts = {} /\ DOMAIN t.decisions = {} /\ Len(t.decisions) = 0
  BY <1>2
<1>6. \A rev, stage : Attempts(t, rev, stage) = {} /\ Last(t, rev, stage) = {}
  BY <1>5 DEF Attempts, Last
<1>7. \A stage \in OpStage : stage \in Artifact
  BY DEF OpStage, Artifact
<1>8. RevSound(t, 1)
  <2>1. \A stage \in OpStage : ReceiptsValid(t, 1, stage) /\ SideEffectProven(t, 1, stage)
    BY <1>3, <1>4, <1>6, <1>7 DEF ReceiptsValid, SideEffectProven
  <2>2. RevisionValid(t, 1)
    BY <1>3, <1>4, <2>1 DEF RevisionValid
  <2>3. r.artifacts[5] = 0
    BY <1>3 DEF Artifact
  <2>. QED BY <1>3, <1>4, <1>5, <1>6, <2>2, <2>3 DEF RevSound
<1>9. AttemptsSound(t)
  BY <1>5 DEF AttemptsSound, AttemptsOwned, ReceiptOrder
<1>10. CurrentSound(t)
  <2>1. r.artifacts[3] = 0
    BY <1>3 DEF Artifact
  <2>. QED BY <1>2, <1>3, <1>4, <1>5, <2>1 DEF CurrentSound, ScreenedHere
<1>11. RouteIsSound(t)
  <2>1. \A stage : Prior(t, stage) = {} /\ Latest(t, stage) = {}
    BY <1>6 DEF Prior, Latest
  <2>2. t.next[2] = 1 /\ t.next # Finalize /\ 1 \in t.enabled
    BY <1>2, ShapeFacts DEF Node, Finalize
  <2>3. \A j \in 1..5 : r.artifacts[j] = 0
    BY <1>3 DEF Artifact
  <2>4. \A i \in Artifact : t.next[2] = i => i \in t.enabled /\ r.plan <= i
    BY <1>3, <2>2
  <2>5. t.next \notin {Node("pure", 3), Node("pure", 4), Node("prepare", 5)}
    BY <1>2 DEF Node
  <2>. QED BY <1>3, <1>4, <2>1, <2>2, <2>3, <2>4, <2>5 DEF RouteIsSound
<1>12. Ledger(t)
  BY <1>1, <1>4, <1>8, <1>9, <1>10, <1>11, ByRevision
<1>. QED BY <1>12 DEF t

-----------------------------------------------------------------------------
(* The attempts and the authorised retry.                                    *)

\* No attempt is added and the authorisation stays.
Quiet(s, t) == Len(t.receipts) = Len(s.receipts) /\ t.retryOp = s.retryOp

LEMMA BlockQuiet ==
    ASSUME NEW s \in Checkpoint
    PROVE  Quiet(s, Block(s))
<1> DEFINE b == [s EXCEPT !.status = "revision_blocked", !.next = End]
           t == SetCurrent(b, [Current(s) EXCEPT !.status = "blocked"])
<1>1. Block(s) = b \/ Block(s) = t
  BY DEF Block
<1>2. b \in Checkpoint /\ b.receipts = s.receipts /\ b.retryOp = s.retryOp
  BY NodeTypes DEF Checkpoint, Statuses
<1>3. t.receipts = b.receipts /\ t.retryOp = b.retryOp
  <2>. HIDE DEF b
  <2>. QED BY <1>2 DEF SetCurrent, Checkpoint
<1>. QED BY <1>1, <1>2, <1>3 DEF Quiet

LEMMA RecordQuiet ==
    ASSUME NEW s \in Checkpoint, NEW i, NEW v, NEW status, NEW next
    PROVE  Record(s, i, v, status, next).receipts = s.receipts
           /\ Quiet(s, Record(s, i, v, status, next))
<1> DEFINE new == v # NoValue /\ Current(s).artifacts[i] = 0
           as == IF new THEN Append(s.artifacts, v) ELSE s.artifacts
           rs == [s.revs EXCEPT ![Len(s.revs)] =
                    [Current(s) EXCEPT !.status = status,
                        !.artifacts[i] = IF new THEN Len(s.artifacts) + 1 ELSE @]]
           vs == [s.values EXCEPT ![i] = v]
           t == Record(s, i, v, status, next)
<1>1. t = [s EXCEPT !.values = vs, !.artifacts = as, !.revs = rs, !.status = status,
                    !.next = next]
  BY DEF Record
<1>. HIDE DEF as, rs, vs, t
<1>2. t.receipts = s.receipts /\ t.retryOp = s.retryOp
  BY <1>1 DEF Checkpoint
<1>. QED BY <1>2 DEF Quiet, t

LEMMA ResolveQuiet ==
    ASSUME NEW s \in Checkpoint, NEW k, NEW status, NEW output
    PROVE  Quiet(s, Resolve(s, k, status, output))
<1> DEFINE qs == [s.receipts EXCEPT ![k].status = status]
           ps == [qs EXCEPT ![k].output = output]
           t == Resolve(s, k, status, output)
<1>1. t = [s EXCEPT !.receipts = ps]
  BY ZenonT(60) DEF Resolve, Checkpoint
<1>. HIDE DEF ps, t
<1>2. t.receipts = ps /\ t.retryOp = s.retryOp
  BY <1>1 DEF Checkpoint
<1>3. Len(ps) = Len(s.receipts)
  BY Parts DEF ps
<1>. QED BY <1>2, <1>3 DEF Quiet, t

\* Every node but prepare, and every answer of an adapter.
LEMMA FailedQuiet ==
    ASSUME NEW s \in Checkpoint, NEW stage \in OpStage, NEW k, NEW v \in Value
    PROVE  Quiet(s, Failed(s, stage, k, v))
<1> DEFINE blocked == IF stage = 2 THEN "evidence_blocked" ELSE "explanation_blocked"
           t == Record(s, stage, v, blocked, End)
<1>1. stage \in Artifact /\ blocked \in Statuses /\ End \in Nodes
  BY NodeTypes DEF OpStage, Artifact, Statuses, Blocked
<1>2. t \in Checkpoint /\ Quiet(s, t)
  BY <1>1, RecordKeeps, RecordQuiet DEF Keeps
<1>3. Quiet(t, Resolve(t, k, "failed", 0))
  BY <1>2, ResolveQuiet
<1>4. Quiet(s, Block(s))
  BY BlockQuiet
<1>5. Failed(s, stage, k, v) \in {Block(s), Resolve(t, k, "failed", 0)}
  BY DEF Failed
<1>. HIDE DEF t
<1>. QED BY <1>2, <1>3, <1>4, <1>5 DEF Quiet

LEMMA SucceededQuiet ==
    ASSUME NEW s \in Checkpoint, NEW stage \in OpStage, NEW k \in DOMAIN s.receipts,
           NEW v \in Value
    PROVE  Quiet(s, Succeeded(s, stage, k, v))
<1> DEFINE t == Succeeded(s, stage, k, v)
<1>1. t \in Checkpoint /\ \E q \in Revision : Yields(s, t, stage, k, v, q)
  BY SucceededFields
<1>. HIDE DEF t
<1>2. DOMAIN t.receipts = DOMAIN s.receipts /\ t.retryOp = s.retryOp
  BY <1>1 DEF Yields
<1>3. Len(t.receipts) = Len(s.receipts)
  <2>1. /\ Len(t.receipts) \in Nat /\ DOMAIN t.receipts = 1..Len(t.receipts)
        /\ Len(s.receipts) \in Nat /\ DOMAIN s.receipts = 1..Len(s.receipts)
    BY <1>1, Parts
  <2>. QED BY <1>2, <2>1, SameLength
<1>4. Quiet(s, t)
  BY <1>2, <1>3 DEF Quiet
<1>. QED BY <1>4 DEF t

LEMMA PureQuiet ==
    ASSUME NEW s \in Checkpoint, NEW i \in {1, 3, 4}
    PROVE  Quiet(s, Pure(s, i))
<1>1. \A v, status, next : Quiet(s, RecordOrBlock(s, i, v, status, next))
  BY BlockQuiet, RecordQuiet DEF RecordOrBlock
<1>. QED BY <1>1 DEF Pure

LEMMA ValidateProfileQuiet ==
    ASSUME NEW s \in Checkpoint
    PROVE  Quiet(s, ValidateProfile(s))
<1> DEFINE t == [s EXCEPT !.values = [i \in Artifact |-> NoValue],
                          !.review = NoDecision,
                          !.revs[Len(s.revs)].status = "profile_validated",
                          !.status = "profile_validated",
                          !.next = Node("pure", 1)]
<1>1. t.receipts = s.receipts /\ t.retryOp = s.retryOp
  BY DEF Checkpoint
<1>2. Quiet(s, t)
  BY <1>1 DEF Quiet
<1>3. ValidateProfile(s) = t \/ ValidateProfile(s) = Block(s)
  BY DEF ValidateProfile
<1>. QED BY <1>2, <1>3, BlockQuiet

LEMMA StatusQuiet ==
    ASSUME NEW s \in Checkpoint, NEW stage, NEW d
    PROVE  /\ Quiet(s, Reused(s, stage)) /\ Quiet(s, Replayed(s, stage))
           /\ Quiet(s, Reviewed(s, d))
           /\ Quiet(s, [s EXCEPT !.next = Node("execute", stage)])
<1>1. Quiet(s, Reused(s, stage))
  BY DEF Quiet, Reused, Checkpoint
<1>2. Quiet(s, Replayed(s, stage))
  BY DEF Quiet, Replayed, Checkpoint
<1>3. Quiet(s, Reviewed(s, d))
  BY DEF Quiet, Reviewed, Checkpoint
<1>4. Quiet(s, [s EXCEPT !.next = Node("execute", stage)])
  BY DEF Quiet, Checkpoint
<1>. QED BY <1>1, <1>2, <1>3, <1>4

LEMMA DecideQuiet ==
    ASSUME NEW s \in Checkpoint
    PROVE  Quiet(s, Decide(s))
<1> DEFINE d == s.review
<1>1. ASSUME NEW outcome PROVE Quiet(s, Bound(s, d, outcome))
                               /\ DOMAIN Bound(s, d, outcome) = DOMAIN s
  <2> DEFINE ds == Append(s.decisions, d)
             rs == [s.revs EXCEPT ![Len(s.revs)] =
                       [Current(s) EXCEPT !.decision = d.id, !.status = outcome]]
             b == Bound(s, d, outcome)
  <2>1. b = [s EXCEPT !.decisions = ds, !.revs = rs, !.review = d]
    BY DEF Bound
  <2>. HIDE DEF ds, rs, b
  <2>2. b.receipts = s.receipts /\ b.retryOp = s.retryOp /\ DOMAIN b = DOMAIN s
    BY <2>1 DEF Checkpoint
  <2>. QED BY <2>2 DEF Quiet, b
<1>2. "receipts" \in DOMAIN s /\ "retryOp" \in DOMAIN s
  BY DEF Checkpoint
<1>3. Quiet(s, Closed(s, d))
  <2> DEFINE outcome == IF d.action = "approve" THEN "approved" ELSE "rejected"
             b == Bound(s, d, outcome)
  <2>1. Closed(s, d) = [b EXCEPT !.status = outcome, !.next = End]
    BY DEF Closed
  <2>2. Quiet(s, b) /\ "receipts" \in DOMAIN b /\ "retryOp" \in DOMAIN b
    BY <1>1, <1>2
  <2>. HIDE DEF b, outcome
  <2>3. Closed(s, d).receipts = b.receipts /\ Closed(s, d).retryOp = b.retryOp
    BY <2>1, <2>2
  <2>. QED BY <2>2, <2>3 DEF Quiet
<1>4. Quiet(s, Child(s, d))
  <2> DEFINE outcome == IF d.action = "reject" THEN "rejected" ELSE "revised"
             index == PlanIndex(d)
             b == Bound(s, d, outcome)
             r == [inputs |-> PlannedInputs(s, d), plan |-> index,
                   decision |-> 0, status |-> "running",
                   artifacts |-> [i \in Artifact |->
                                     IF i < index THEN Current(s).artifacts[i] ELSE 0]]
             rs == Append(b.revs, r)
             vs == [i \in Artifact |-> IF i < index THEN b.values[i] ELSE NoValue]
             next == StageNode(index)
  <2>1. Child(s, d) = [b EXCEPT !.revs = rs, !.values = vs, !.review = NoDecision,
                                !.status = "revision_planned", !.next = next]
    BY DEF Child
  <2>2. Quiet(s, b) /\ "receipts" \in DOMAIN b /\ "retryOp" \in DOMAIN b
    BY <1>1, <1>2
  <2>. HIDE DEF b, outcome, rs, vs, next
  <2>3. Child(s, d).receipts = b.receipts /\ Child(s, d).retryOp = b.retryOp
    BY <2>1, <2>2
  <2>. QED BY <2>2, <2>3 DEF Quiet
<1>. QED BY <1>3, <1>4, BlockQuiet DEF Decide

-----------------------------------------------------------------------------
(* Every step preserves the invariant.                                       *)

\* RetryIsExplicit of one step.
RetryRule(s, t) ==
    LET old == s.receipts  new == t.receipts  q == new[Len(new)]
        before == Attempts(s, q.rev, q.stage)
    IN  /\ Len(new) > Len(old) =>
             /\ Len(new) = Len(old) + 1
             /\ t.retryOp = 0
             /\ IF before = {} THEN s.retryOp = 0
                ELSE \E k \in before : /\ \A j \in before : j <= k
                                       /\ old[k].op = s.retryOp
                                       /\ old[k].status # "succeeded"
        /\ (s.retryOp # 0 /\ Len(new) = Len(old)) => t.retryOp # 0

Advances ==
    /\ Committed' => Ledger(saved')
    /\ HostKnows'
    /\ Committed => Evolves(saved, saved') /\ RetryRule(saved, saved')

LEMMA QuietRule ==
    ASSUME NEW s \in Checkpoint, NEW t, Len(t.receipts) = Len(s.receipts),
           s.retryOp # 0 => t.retryOp # 0
    PROVE  RetryRule(s, t)
<1>1. ~(Len(t.receipts) > Len(s.receipts))
  BY Parts
<1>. QED BY <1>1 DEF RetryRule

LEMMA StayStep ==
    ASSUME LInv, saved' = saved, HostKnows'
    PROVE  Advances
<1>1. ASSUME Committed PROVE Evolves(saved, saved') /\ RetryRule(saved, saved')
  <2>1. saved \in Checkpoint
    BY <1>1 DEF LInv, Ledger
  <2>2. Evolves(saved, saved)
    BY <2>1, Parts DEF Evolves, Prefix, SameButStatus
  <2>3. RetryRule(saved, saved)
    BY <2>1, QuietRule
  <2>. QED BY <2>2, <2>3
<1>2. Committed' => Ledger(saved')
  BY DEF LInv, Committed
<1>. QED BY <1>1, <1>2 DEF Advances

\* After a commit the host goes on or stops.
LEMMA HostKnowsCommitted ==
    ASSUME NEW t, Commit(t)
    PROVE  saved' = t /\ HostKnows'
<1>1. saved' = t /\ host'.pc \in {"idle", "run"}
  BY DEF Commit, Idle, Running
<1>. QED BY <1>1 DEF HostKnows

LEMMA CommitQuiet ==
    ASSUME LInv, Committed, NEW t, Ledger(t) /\ Evolves(saved, t), Quiet(saved, t), Commit(t)
    PROVE  Advances
<1>1. saved \in Checkpoint
  BY DEF LInv, Ledger
<1>2. saved' = t /\ HostKnows'
  BY HostKnowsCommitted
<1>3. RetryRule(saved, t)
  BY <1>1, QuietRule DEF Quiet
<1>. QED BY <1>2, <1>3 DEF Advances

\* The host runs over a ledger.
LEMMA HostLedger ==
    ASSUME LInv, host.pc # "idle" \/ Committed
    PROVE  Committed /\ Ledger(saved) /\ saved \in Checkpoint
  BY DEF LInv, IInv, HostHasCheckpoint, Ledger

LEMMA BlockAdvances ==
    ASSUME LInv, Committed, Commit(Block(saved))
    PROVE  Advances
  BY HostLedger, BlockLedger, BlockQuiet, CommitQuiet

LEMMA RunPrepareAdvances ==
    ASSUME LInv, NEW stage \in OpStage, RunPrepare(stage)
    PROVE  Advances
<1>1. /\ Committed /\ Ledger(saved) /\ saved \in Checkpoint
      /\ saved.next = Node("prepare", stage)
  BY HostLedger DEF RunPrepare, At
<1>2. CASE Commit(Reused(saved, stage))
  BY <1>1, <1>2, ReusedLedger, StatusQuiet, CommitQuiet
<1>3. CASE Commit(Block(saved))
  BY <1>1, <1>3, BlockAdvances
<1>4. CASE /\ MayAttempt(saved, stage) /\ issued' = issued + 1
           /\ host' = Preparing(Started(saved, stage, issued'))
           /\ saved' = saved
  <2>1. issued' \notin Ops(saved)
    BY <1>1, <1>4 DEF LInv, IInv, TypeOK, LedgerIssued
  <2>2. host'.pc = "prepared" /\ host'.work = Started(saved, stage, issued')
    BY <1>4 DEF Preparing
  <2>3. \E st \in OpStage :
           /\ saved'.next = Node("prepare", st) /\ MayAttempt(saved', st)
           /\ issued' \notin Ops(saved') /\ host'.work = Started(saved', st, issued')
    BY <1>1, <1>4, <2>1, <2>2
  <2>4. HostKnows'
    BY <2>2, <2>3 DEF HostKnows
  <2>. QED BY <1>4, <2>4, StayStep
<1>. QED BY <1>2, <1>3, <1>4 DEF RunPrepare

\* A permitted attempt is open until the adapter answers.
LEMMA RunExecuteAdvances ==
    ASSUME LInv, NEW stage \in OpStage, RunExecute(stage)
    PROVE  Advances
<1>1. /\ Committed /\ Ledger(saved) /\ saved \in Checkpoint
      /\ saved.next = Node("execute", stage) /\ host.pc = "run"
  BY HostLedger DEF RunExecute, At
<1>2. CASE MayReuse(saved, stage) /\ Commit(Replayed(saved, stage))
  BY <1>1, <1>2, ReplayedLedger, StatusQuiet, CommitQuiet
<1>3. CASE Commit(Block(saved))
  BY <1>1, <1>3, BlockAdvances
<1>4. ASSUME NEW k \in Latest(saved, stage), MayExecute(saved, stage, k, permits)
      PROVE  /\ saved.receipts[k].status = "started" /\ k \in DOMAIN saved.receipts
             /\ \A j \in Latest(saved, stage) : saved.receipts[j].status = "started"
  BY <1>1, <1>4, LatestIsOne DEF MayExecute
<1>5. ASSUME NEW k \in Latest(saved, stage), MayExecute(saved, stage, k, permits),
             Commit(Failed(saved, stage, k, NoValue))
      PROVE  Advances
  <2>1. NoValue \in Value /\ ~NoValue.ready
    BY NoValueType DEF NoValue
  <2>2. Ledger(Failed(saved, stage, k, NoValue))
        /\ Evolves(saved, Failed(saved, stage, k, NoValue))
    BY <1>1, <1>4, <1>5, <2>1, FailedLedger
  <2>. QED BY <1>1, <1>5, <2>1, <2>2, FailedQuiet, CommitQuiet
<1>6. ASSUME NEW k \in Latest(saved, stage), MayExecute(saved, stage, k, permits),
             host' = [host EXCEPT !.pc = "call"], saved' = saved
      PROVE  Advances
  <2>1. host'.pc = "call"
    BY <1>6 DEF LInv, IInv, TypeOK
  <2>2. \E st \in OpStage :
           /\ saved'.next = Node("execute", st)
           /\ \A j \in Latest(saved', st) : saved'.receipts[j].status = "started"
    BY <1>1, <1>4, <1>6
  <2>3. HostKnows'
    BY <2>1, <2>2 DEF HostKnows
  <2>. QED BY <1>6, <2>3, StayStep
<1>. QED BY <1>2, <1>3, <1>5, <1>6 DEF RunExecute

LEMMA AdapterReturnsAdvances ==
    ASSUME LInv, NEW stage \in OpStage, AdapterReturns(stage)
    PROVE  Advances
<1>1. /\ Committed /\ Ledger(saved) /\ saved \in Checkpoint
      /\ saved.next = Node("execute", stage) /\ host.pc = "call"
  BY HostLedger DEF AdapterReturns
<1>2. \A k \in Latest(saved, stage) : saved.receipts[k].status = "started"
  <2>1. PICK st \in OpStage :
           /\ saved.next = Node("execute", st)
           /\ \A k \in Latest(saved, st) : saved.receipts[k].status = "started"
    BY <1>1 DEF LInv, HostKnows
  <2>2. st = stage
    BY <1>1, <2>1 DEF Node
  <2>. QED BY <2>1, <2>2
<1>3. PICK k \in Latest(saved, stage) :
        \/ \E v \in IF stage = 2 THEN {Evidence(saved, TRUE, c) : c \in Contents}
                                  ELSE {Explain(saved)} :
              Commit(Succeeded(saved, stage, k, v))
        \/ \E v \in IF stage = 2 THEN {NoValue, Evidence(saved, FALSE, NoContent)}
                                  ELSE {NoValue} :
              Commit(Failed(saved, stage, k, v))
        \/ Commit(Block(saved))
  BY DEF AdapterReturns
<1>4. k \in DOMAIN saved.receipts /\ saved.receipts[k].status = "started"
  BY <1>1, <1>2, LatestIsOne
<1>5. ASSUME NEW v \in IF stage = 2 THEN {Evidence(saved, TRUE, c) : c \in Contents}
                                    ELSE {Explain(saved)}
      PROVE  AnswersStage(saved, stage, v)
  <2>1. CASE stage = 2
    <3>1. PICK c \in Contents : v = Evidence(saved, TRUE, c)
      BY <1>5, <2>1
    <3>2. v \in Value
      BY <1>1, <3>1, ValueTypes
    <3>3. v.ready
      BY <3>1 DEF Evidence
    <3>. QED BY <2>1, <3>2, <3>3 DEF AnswersStage
  <2>2. CASE stage # 2
    <3>1. v = Explain(saved) /\ v \in Value
      BY <1>1, <1>5, <2>2, ValueTypes
    <3>2. v.ready /\ v.basis = Append(saved.values[4].basis, Current(saved).inputs[5])
      BY <3>1 DEF Explain
    <3>. QED BY <3>1, <3>2 DEF AnswersStage
  <2>. QED BY <2>1, <2>2
<1>6. ASSUME NEW v \in IF stage = 2 THEN {NoValue, Evidence(saved, FALSE, NoContent)}
                                    ELSE {NoValue}
      PROVE  v \in Value /\ ~v.ready /\ (stage = 5 => v = NoValue)
  <2>1. NoValue \in Value /\ ~NoValue.ready
    BY NoValueType DEF NoValue
  <2>2. Evidence(saved, FALSE, NoContent) \in Value
    BY <1>1, ValueTypes
  <2>3. ~Evidence(saved, FALSE, NoContent).ready
    BY DEF Evidence
  <2>4. v = NoValue \/ (stage = 2 /\ v = Evidence(saved, FALSE, NoContent))
    BY <1>6
  <2>5. CASE v = NoValue
    BY <2>1, <2>5
  <2>6. CASE stage = 2 /\ v = Evidence(saved, FALSE, NoContent)
    <3>1. v \in Value /\ ~v.ready
      BY <2>2, <2>3, <2>6, Zenon
    <3>2. stage # 5
      BY <2>6
    <3>. QED BY <3>1, <3>2, Zenon
  <2>. QED BY <2>4, <2>5, <2>6
<1>7. ASSUME NEW v, AnswersStage(saved, stage, v), Commit(Succeeded(saved, stage, k, v))
      PROVE  Advances
  <2>1. v \in Value
    BY <1>7 DEF AnswersStage
  <2>2. /\ Ledger(Succeeded(saved, stage, k, v))
        /\ Evolves(saved, Succeeded(saved, stage, k, v))
    BY <1>1, <1>4, <1>7, SucceededLedger
  <2>3. Quiet(saved, Succeeded(saved, stage, k, v))
    BY <1>1, <1>4, <2>1, SucceededQuiet
  <2>. QED BY <1>1, <1>7, <2>2, <2>3, CommitQuiet
<1>8. ASSUME NEW v \in Value, ~v.ready, stage = 5 => v = NoValue,
             Commit(Failed(saved, stage, k, v))
      PROVE  Advances
  <2>1. Ledger(Failed(saved, stage, k, v)) /\ Evolves(saved, Failed(saved, stage, k, v))
    BY <1>1, <1>4, <1>8, FailedLedger
  <2>. QED BY <1>1, <1>8, <2>1, FailedQuiet, CommitQuiet
<1>9. CASE Commit(Block(saved))
  BY <1>1, <1>9, BlockAdvances
<1>. QED BY <1>3, <1>5, <1>6, <1>7, <1>8, <1>9

\* The one commit that adds an attempt.
LEMMA CommitPreparedAdvances ==
    ASSUME LInv, CommitPrepared
    PROVE  Advances
<1>1. /\ Committed /\ Ledger(saved) /\ saved \in Checkpoint
      /\ host.pc = "prepared" /\ Commit(host.work)
  BY HostLedger DEF CommitPrepared
<1>2. PICK stage \in OpStage :
         /\ saved.next = Node("prepare", stage) /\ MayAttempt(saved, stage)
         /\ issued \notin Ops(saved) /\ host.work = Started(saved, stage, issued)
  BY <1>1 DEF LInv, HostKnows
<1> DEFINE s == saved
           t == host.work
           a == Attempt(s, stage, issued)
<1>3. saved' = t /\ HostKnows'
  BY <1>1, HostKnowsCommitted
<1>4. Ledger(t) /\ Evolves(s, t)
  <2>1. issued \in Nat
    BY DEF LInv, IInv, TypeOK
  <2>. QED BY <1>1, <1>2, <2>1, StartedLedger
<1>5. t.receipts = Append(s.receipts, a) /\ t.retryOp = 0
  <2> DEFINE rs == Append(s.receipts, a)
  <2>1. t = [s EXCEPT !.receipts = rs, !.retryOp = 0, !.status = "operation_prepared",
                      !.next = Node("execute", stage)]
    BY <1>2 DEF Started
  <2>. HIDE DEF rs, t
  <2>2. t.receipts = rs /\ t.retryOp = 0
    BY <1>1, <2>1 DEF Checkpoint
  <2>. QED BY <2>2 DEF rs
<1>6. Len(t.receipts) = Len(s.receipts) + 1 /\ t.receipts[Len(t.receipts)] = a
  <2>1. s.receipts \in Seq(OperationReceipt)
    BY <1>1 DEF Checkpoint
  <2>. HIDE DEF s, t, a
  <2>. QED BY <1>5, <2>1
<1>7. a.rev = Len(s.revs) /\ a.stage = stage
  BY DEF Attempt
<1>8. IF Attempts(s, a.rev, a.stage) = {} THEN s.retryOp = 0
      ELSE \E k \in Attempts(s, a.rev, a.stage) :
              /\ \A j \in Attempts(s, a.rev, a.stage) : j <= k
              /\ s.receipts[k].op = s.retryOp
              /\ s.receipts[k].status # "succeeded"
  BY <1>2, <1>7 DEF MayAttempt, Latest, Prior
<1>9. RetryRule(s, t)
  <2>1. Len(t.receipts) # Len(s.receipts)
    BY <1>1, <1>6, Parts
  <2>. HIDE DEF s, t, a
  <2>. QED BY <1>5, <1>6, <1>8, <2>1 DEF RetryRule
<1>. QED BY <1>3, <1>4, <1>9 DEF Advances

LEMMA SystemAdvances ==
    ASSUME LInv, System
    PROVE  Advances
<1>1. CASE RunValidate
  <2>1. /\ Committed /\ Ledger(saved) /\ saved \in Checkpoint
        /\ saved.next = Node("validate_profile", 1) /\ Commit(ValidateProfile(saved))
    BY <1>1, HostLedger DEF RunValidate, At
  <2>. QED BY <2>1, ValidateProfileLedger, ValidateProfileQuiet, CommitQuiet
<1>2. ASSUME NEW i \in {1, 3, 4}, RunPure(i)
      PROVE  Advances
  <2>1. /\ Committed /\ Ledger(saved) /\ saved \in Checkpoint
        /\ saved.next = Node("pure", i) /\ Commit(Pure(saved, i))
    BY <1>2, HostLedger DEF RunPure, At
  <2>. QED BY <2>1, PureLedger, PureQuiet, CommitQuiet
<1>3. CASE RunReview
  <2>1. /\ Committed /\ Ledger(saved) /\ saved \in Checkpoint /\ saved.next = Review
    BY <1>3, HostLedger DEF RunReview, At, Review
  <2>2. CASE Commit(Block(saved))
    BY <2>1, <2>2, BlockAdvances
  <2>3. CASE host' = Idle /\ saved' = saved
    <3>1. HostKnows'
      BY <2>3 DEF HostKnows, Idle
    <3>. QED BY <2>3, <3>1, StayStep
  <2>4. CASE /\ Reviewable(saved) /\ host.response \notin {NoDecision, Malformed}
             /\ Commit(Reviewed(saved, host.response))
    <3>1. host.response \in ReviewDecision
      BY <2>4 DEF LInv, IInv, TypeOK
    <3>. QED BY <2>1, <2>4, <3>1, ReviewedLedger, StatusQuiet, CommitQuiet
  <2>. QED BY <1>3, <2>2, <2>3, <2>4 DEF RunReview
<1>4. CASE RunFinalize
  <2>1. /\ Committed /\ Ledger(saved) /\ saved \in Checkpoint /\ saved.next = Finalize
        /\ Commit(Decide(saved))
    BY <1>4, HostLedger DEF RunFinalize, At, Finalize
  <2>. QED BY <2>1, DecideLedger, DecideQuiet, CommitQuiet
<1>. QED
  BY <1>1, <1>2, <1>3, <1>4, RunPrepareAdvances, RunExecuteAdvances,
     AdapterReturnsAdvances, CommitPreparedAdvances
  DEF System

LEMMA CallerAdvances ==
    ASSUME LInv, Caller
    PROVE  Advances
<1>1. CASE Start
  <2>1. PICK enabled \in Shapes : Commit(BeginFresh(enabled))
    BY <1>1 DEF Start
  <2>2. ~Committed
    BY <1>1 DEF Start, Committed
  <2>. QED BY <2>1, <2>2, BeginFreshLedger, HostKnowsCommitted DEF Advances
<1>2. ASSUME saved # NoCheckpoint, NEW rev, NEW k \in DOMAIN saved.receipts, Retry(rev, k)
      PROVE  Advances
  <2> DEFINE q == saved.receipts[k]
             t == BeginRetry(saved, rev, q.stage, q.op)
  <2>1. Committed /\ Ledger(saved) /\ saved \in Checkpoint
    BY <1>2, HostLedger DEF Committed
  <2>2. q.stage \in OpStage /\ q.op \in 1..issued /\ q.op \in Nat /\ q.op # 0
    <3>1. q \in OperationReceipt /\ q.op \in 1..issued
      BY <2>1, CommittedType DEF LInv
    <3>2. issued \in Nat
      BY DEF LInv, IInv, TypeOK
    <3>. HIDE DEF q
    <3>. QED BY <3>1, <3>2, ReceiptParts
  <2>. HIDE DEF q
  <2>3. Ledger(t) /\ Evolves(saved, t)
    BY <2>1, <2>2, BeginRetryLedger
  <2>4. Commit(t)
    BY <1>2 DEF Retry, q
  <2>5. RetryRule(saved, t)
    <3>1. CASE t = Block(saved)
      <4>1. Quiet(saved, t)
        BY <2>1, <3>1, BlockQuiet
      <4>. QED BY <2>1, <4>1, QuietRule DEF Quiet
    <3>2. CASE t = Cleared(saved, q.stage, q.op)
      <4> DEFINE rs == [saved.revs EXCEPT ![Len(saved.revs)].artifacts =
                           [i \in Artifact |-> IF i >= q.stage THEN 0 ELSE @[i]]]
                 vs == [i \in Artifact |-> IF i >= q.stage THEN NoValue ELSE saved.values[i]]
      <4>1. t = [saved EXCEPT !.next = Node("prepare", q.stage),
                              !.status = "retry_requested", !.retryOp = q.op,
                              !.values = vs, !.revs = rs, !.review = NoDecision]
        BY <3>2 DEF Cleared
      <4>. HIDE DEF t, rs, vs
      <4>2. t.receipts = saved.receipts /\ t.retryOp = q.op
        BY <2>1, <4>1 DEF Checkpoint
      <4>. QED BY <2>1, <2>2, <4>2, QuietRule
    <3>. QED BY <3>1, <3>2 DEF BeginRetry
  <2>. QED BY <2>3, <2>4, <2>5, HostKnowsCommitted DEF Advances
<1>3. ASSUME NEW d, Resume(d)
      PROVE  Advances
  <2>1. saved' = saved /\ HostKnows'
    BY <1>3 DEF Resume, HostKnows, Running
  <2>. QED BY <2>1, StayStep
<1>4. CASE Continue
  <2>1. saved' = saved /\ HostKnows'
    BY <1>4 DEF Continue, HostKnows, Running
  <2>. QED BY <2>1, StayStep
<1>5. CASE NewRuntime
  <2>1. saved' = saved /\ HostKnows'
    BY <1>5 DEF NewRuntime, HostKnows, Idle
  <2>. QED BY <2>1, StayStep
<1>6. ASSUME NEW stage \in OpStage, Reschedule(stage)
      PROVE  Advances
  <2> DEFINE t == [saved EXCEPT !.next = Node("execute", stage)]
  <2>1. /\ Committed /\ Ledger(saved) /\ saved \in Checkpoint
        /\ saved' = t /\ host' = host /\ host = Idle
    BY <1>6, HostLedger DEF Reschedule, Committed
  <2>2. Ledger(t) /\ Evolves(saved, t)
    BY <2>1, RescheduleLedger
  <2>3. RetryRule(saved, t)
    <3>1. Quiet(saved, t)
      BY <2>1, StatusQuiet
    <3>. HIDE DEF t
    <3>. QED BY <2>1, <3>1, QuietRule DEF Quiet
  <2>4. HostKnows'
    BY <2>1 DEF HostKnows, Idle
  <2>. HIDE DEF t
  <2>. QED BY <2>1, <2>2, <2>3, <2>4 DEF Advances
<1>. QED BY <1>1, <1>2, <1>3, <1>4, <1>5, <1>6 DEF Caller

LEMMA StepAdvances ==
    ASSUME LInv, [Next]_vars
    PROVE  Advances
<1>1. CASE UNCHANGED vars
  <2>1. saved' = saved /\ host' = host /\ issued' = issued
    BY <1>1 DEF vars
  <2>2. HostKnows'
    BY <2>1 DEF LInv, HostKnows
  <2>. QED BY <2>1, <2>2, StayStep
<1>2. CASE Fault
  <2>1. saved' = saved /\ HostKnows'
    BY <1>2 DEF Fault, Crash, Abort, HostKnows, Idle
  <2>. QED BY <2>1, StayStep
<1>. QED BY <1>1, <1>2, SystemAdvances, CallerAdvances DEF Next

LEMMA LedgerInductive == Spec => []LInv
<1>1. Init => LInv
  <2> SUFFICES ASSUME Init PROVE LInv
    OBVIOUS
  <2>1. IInv
    BY InitIInv
  <2>2. ~Committed /\ HostKnows
    BY DEF Init, Committed, HostKnows, Idle
  <2>. QED BY <2>1, <2>2 DEF LInv
<1>2. LInv /\ [Next]_vars => LInv'
  <2> SUFFICES ASSUME LInv, [Next]_vars PROVE LInv'
    OBVIOUS
  <2>1. IInv'
    BY NextIInv DEF LInv
  <2>2. Advances
    BY StepAdvances
  <2>. QED BY <2>1, <2>2 DEF Advances, LInv
<1>. QED BY <1>1, <1>2, PTL DEF Spec

-----------------------------------------------------------------------------
(* The theorems.                                                             *)

\* No interleaving of nodes, retries, replays and crashes commits a checkpoint that
\* validate_revision_state, run by every node and on every restore, would refuse.
THEOREM CheckpointsAreValid == Spec => []CheckpointValidates
<1>1. LInv => CheckpointValidates
  BY DEF LInv, Ledger, CheckpointValidates
<1>. QED BY <1>1, LedgerInductive, PTL

\* The output of a succeeded attempt stays the artifact of its revision, through retries of
\* the other stage, replays of its node and later revisions, and no attempt follows it.
THEOREM SuccessStays == Spec => []SuccessIsFinal
<1>1. LInv => SuccessIsFinal
  BY DEF LInv, Ledger, SuccessKept, SuccessIsFinal
<1>. QED BY <1>1, LedgerInductive, PTL

\* What a reviewer approved was derived from the inputs of the approved revision: no artifact
\* of an earlier revision or of a replaced attempt slipped in, nor does one when its nodes are
\* replayed after the approval.
THEOREM ApprovalsAreCurrent == Spec => []ApprovedIsCurrent
<1>1. LInv => ApprovedIsCurrent
  BY DEF LInv, Ledger, ApprovalsCurrent, ApprovedIsCurrent
<1>. QED BY <1>1, LedgerInductive, PTL

\* No later decision, revision, retry, replay or crash rewrites the inputs, the plan, the decision,
\* the artifacts or the receipts of a decided revision, and none is added after the last one is
\* decided.  Only the label `status' may change, which record_result sets without a look at the
\* decision (graph/revision.py).
THEOREM DecidedStays == Spec => DecidedIsImmutable
<1> DEFINE Kept(rev) ==
             LET old == saved.revs[rev]  new == saved'.revs[rev]
             IN  old.decision # 0 =>
                   /\ [new EXCEPT !.status = old.status] = old
                   /\ new.status # old.status => saved.next[1] = "pure"
                   /\ saved'.decisions[old.decision] = saved.decisions[old.decision]
                   /\ \A i \in Artifact : old.artifacts[i] # 0 =>
                        saved'.artifacts[old.artifacts[i]] = saved.artifacts[old.artifacts[i]]
                   /\ \A stage \in OpStage :
                        /\ Attempts(saved', rev, stage) = Attempts(saved, rev, stage)
                        /\ \A k \in Attempts(saved, rev, stage) :
                             saved'.receipts[k] = saved.receipts[k]
           LengthKept == Current(saved).decision # 0 => Len(saved'.revs) = Len(saved.revs)
<1>1. ASSUME LInv, [Next]_vars, Committed
      PROVE  (\A rev \in DOMAIN saved.revs : Kept(rev)) /\ LengthKept
  <2>1. Evolves(saved, saved') /\ Ledger(saved)
    BY <1>1, StepAdvances DEF Advances, LInv
  <2>2. saved \in Checkpoint
    BY <2>1 DEF Ledger
  <2>3. ASSUME NEW rev \in DOMAIN saved.revs, saved.revs[rev].decision # 0
        PROVE  Kept(rev)
    <3> DEFINE old == saved.revs[rev]   new == saved'.revs[rev]
    <3>1. /\ new \in Revision /\ SameButStatus(old, new)
          /\ new.status # old.status => saved.next[1] = "pure"
          /\ \A stage \in OpStage :
               /\ Attempts(saved', rev, stage) = Attempts(saved, rev, stage)
               /\ \A k \in Attempts(saved, rev, stage) :
                    saved'.receipts[k] = saved.receipts[k]
      BY <2>1, <2>3 DEF Evolves
    <3>2. old \in Revision /\ RevSound(saved, rev)
      BY <2>1, <2>2, Parts, ByRevision
    <3>3. [new EXCEPT !.status = old.status] = old
      <4>. HIDE DEF old, new
      <4>. QED BY <3>1, <3>2 DEF SameButStatus, Revision
    <3>4. old.decision \in DOMAIN saved.decisions
      <4>1. old.decision \in 0..Len(saved.decisions)
        BY <3>2 DEF RevSound
      <4>. QED BY <2>2, <2>3, <4>1, Parts
    <3>5. \A i \in Artifact : old.artifacts[i] # 0 => old.artifacts[i] \in DOMAIN saved.artifacts
      BY <3>2 DEF RevSound, RevisionValid
    <3>6. /\ saved'.decisions[old.decision] = saved.decisions[old.decision]
          /\ \A i \in Artifact : old.artifacts[i] # 0 =>
               saved'.artifacts[old.artifacts[i]] = saved.artifacts[old.artifacts[i]]
      BY <2>1, <3>4, <3>5 DEF Evolves, Prefix
    <3>. QED BY <3>1, <3>3, <3>6
  <2>4. LengthKept
    BY <2>1 DEF Evolves
  <2>5. ASSUME NEW rev \in DOMAIN saved.revs PROVE Kept(rev)
    BY <2>3
  <2>. QED BY <2>4, <2>5
<1>2. LInv /\ [Next]_vars =>
        [Committed => (\A rev \in DOMAIN saved.revs : Kept(rev)) /\ LengthKept]_vars
  BY <1>1
<1>. QED BY <1>2, LedgerInductive, PTL DEF Spec, DecidedIsImmutable

\* A failed, a blocked or an interrupted attempt is repeated only on the retry request that
\* names it, and one request gives one attempt: neither a resumed node nor a
\* rescheduled one repeats it by itself.
THEOREM RetriesAreExplicit == Spec => RetryIsExplicit
<1>1. LInv /\ [Next]_vars =>
        [Committed =>
           LET old == saved.receipts  new == saved'.receipts  q == new[Len(new)]
               before == Attempts(saved, q.rev, q.stage)
           IN  /\ Len(new) > Len(old) =>
                    /\ Len(new) = Len(old) + 1
                    /\ saved'.retryOp = 0
                    /\ IF before = {} THEN saved.retryOp = 0
                       ELSE \E k \in before : /\ \A j \in before : j <= k
                                              /\ old[k].op = saved.retryOp
                                              /\ old[k].status # "succeeded"
               /\ (saved.retryOp # 0 /\ Len(new) = Len(old)) => saved'.retryOp # 0]_vars
  BY StepAdvances DEF Advances, RetryRule
<1>. QED BY <1>1, LedgerInductive, PTL DEF Spec, RetryIsExplicit
=============================================================================
