# TLA+ models of the ETF advisor

TLA+ specifications of the stateful parts of the agentic ETF advisor, the TLC
configurations that check them on small instances, and TLAPS proofs about them. Paths
below are relative to the repository; `etf_advisor/` stands for `src/etf_advisor/`.

* [The system](#the-system): its parts, state, operations and interactions
* [Modules and their code](#modules-and-their-code)
* [Runs](#runs): what each one shows, its bounds and why they are enough
* [Fairness](#fairness)
* [Proofs](#proofs)
* [Not modelled](#not-modelled)
* [Plan](#plan)

## The system

The advisor takes an investor profile, calculates a policy, retrieves and screens ETF
evidence, constructs a portfolio, lets a language model explain it and asks a person to
approve, edit or reject the result. Around this graph are the stores it needs: saved
reviews with retention, versioned research snapshots in two databases, a local catalogue
of listings, jobs that research listings of that catalogue, and a registry of audited fund
identities. A dashboard is the reviewer's page. Beside the advisor the repository has a tool
that keeps the ledgers of its own development tickets and guards its pull requests.

| Component | State | Operations | What is hard | What makes it correct |
|---|---|---|---|---|
| **Review workflow** `graph/`, `domain/revision.py` | The checkpoint: a ledger of revisions, receipts, artifacts and decisions, the values on display, the next node. In memory: one-use permits of the runtime | start, the nodes of the graph, prepare/execute of two external operations, review, decide, retry, resume | Crashes between the receipt and the answer of an operation; late, repeated or inadmissible decisions; replayed nodes; partial restart after feedback | No operation is called twice or without a durable receipt; a retry is explicit; what is decided stays, but for its status label; what is approved belongs to its own inputs; every checkpoint can be restored |
| **Saved-review lifecycle** `lifecycle.py`, `checkpoint.py` | A lifecycle row and a checkpoint per thread, an advisory lock, handles of processes, previews | open, create, commit of a write, preview, prune, delete | Row and checkpoint are two tables; a preview is acted on later; handles outlive decisions; clocks differ | Row and checkpoint agree; nothing in use is pruned; a deleted review stays deleted |
| **Snapshot publication and retrieval** `rag/` | Documents in Chroma; manifests, a projection and the active pointer in Neo4j | stage, verify, activate by compare-and-set, generic upsert, hybrid search | Two stores without a common transaction; several publishers; readers that span an activation; lost acknowledgements | Readers see one whole snapshot; no publication is lost; the active snapshot is complete |
| **Listing catalogue** `catalogue/store.py`, `service.py` | Blob files, a pointer file, a lock file; the reports of a refresh while it runs | refresh page by page, add a listing, publish | Collection takes minutes without a lock while the provider changes; any file operation fails; the lock file survives its owner | The pointer names a whole blob; versions form one line; reports are true; additions survive; what counts as complete is |
| **Catalogue research job** `catalogue/research_job.py` | A manifest with a generation, a native lock | begin, advance, retry, finalize, publish | Crashes around calls to the collector and the publisher; several dashboards | Calls are on record and limited; progress is kept; one job publishes one snapshot |
| **Fund identity registry** `data/fund_identity_registry.py`, `domain/fund_identity.py` | Blobs and a pointer under a native lock | publish, active | As for the catalogue, with a read-back after the pointer moved; curators audit against what they saw | One audited history; a committed publication is never reported as refused |
| **Snapshot payload files** `research/snapshot_io.py` | One file per version | persist, load | Two writers of one path | The first content stays |
| **Dashboard session** `dashboard.py`, `dashboard_app.py` | Per session a handle (state, outcome unknown) and what the page shows of it | start, resume, retry, refresh, restore, discard, delete | A page is stale; a submission raises after it was decided | Only a page that shows the thread as it is reaches it |
| **Ticket workflow tool** `scripts/ticket_workflow.py` | Append-only ledgers of development tickets, a lock file | append of 24 kinds of events, check of a pull request | Long protocols of several sessions; content changes between events; lineages of split tickets | What CI lets through was earned; failures are repaired; reviewers are independent; allowances are conserved |
| **Evidence, screening, construction** `rag/evidence.py`, `domain/screening.py`, `construction.py`, `policy.py` | none: functions that the graph's nodes call in turn, on checkpoints that are read again later | select, screen, construct, validate what was persisted | Many refusals in an order; rounding; a bounded search; a mixed checkpoint | Positions rest on verified facts; sums are exact and limits hold; giving up is justified |
| **Others** (adapters, encodings, explanation, evaluation, command line) | none of their own | | I/O, parsing, formulas | Unit tests |

How they interact:

* The **graph** runs inside a handle that the **lifecycle** store opens (`managed`): one
  process per thread holds the advisory lock, and every checkpoint of the graph goes
  through `ManagedSaver.commit`. `ReviewWorkflow` therefore has one host; `Lifecycle`
  shows why there is one.
* The graph's retrieval operation reads through `HybridRetriever.search` what
  **publication** activated. `ReviewWorkflow` sees an answer, ready or blocked;
  `SnapshotPublication` says which snapshot an answer is from.
* A **research job** collects listings that the **catalogue** pinned in its scope and
  hands its final snapshot to **publication**. `ResearchJob` treats that call as the
  activation, the refusal or the lost acknowledgement that `SnapshotPublication` makes of
  it.
* A **refresh** collects what it then publishes through the **catalogue** store:
  `CatalogueRefresh` follows one refresh up to its candidate, `CatalogueStore` several
  publishers from there on.
* The nodes of the graph call **evidence, screening and construction**: `ReviewWorkflow`
  sees artifacts with the inputs they were made from, `Advice` what is in them.
* A **dashboard session** acts on a thread under `managed`, one step of which is one use of
  the lock in `Lifecycle`; of the graph it sees how `invoke` ends, which `ReviewWorkflow`
  says.

## Modules and their code

### ReviewWorkflow

`saved` is the committed checkpoint with the ledger; `host` the process that runs
supersteps, `permits` is `RevisionRuntime._permits`, `issued` and `calls` are the
operation ids handed out and used. A node of the graph is an action that reads `saved` and
commits its result: `RunValidate`, `RunPure` (policy, screening, construction),
`RunPrepare`, `RunExecute`, `RunReview`, `RunFinalize`. `RunPrepare` is separate from its
commit because the permit is in memory first; `RunExecute` is separate from
`AdapterReturns` because the adapter is called in between. `Crash` loses the process and
its permits, `Abort` is an exception that leaves `invoke` with the runtime alive.
`Start`, `Retry`, `Resume`, `Continue` are the four ways to invoke the graph, and
`Reschedule` is `update_state(as_node=...)`, by which the repository's tests
(`tests/test_revision.py:279`) replay an execute node. It is possible on any thread that is
not blocked, also when the operation was never attempted and when the revision is decided:
no node looks at `review_decision_id` before it runs. `ValidState` is
`validate_revision_state`, which every node runs first and whose refusal is `Block`.

The data is what the properties tell apart. An artifact is a record of the versions of the
inputs it was made from (`basis`) and of the answer of the retrieval it derives from
(`draw`); recomputing a pure stage compares these. Feedback is a set of classes that get
one new version. `Unbuildable` says for which contents and policy versions screening or
construction fails. Threads without a ledger (from before revisions) and an invalid
profile, which ends before there is a ledger to speak of, are left out.

### Lifecycle

One thread: `record` is its row in `advisor_lifecycle`, `saved` the semantic events of the
latest checkpoint. `OpenCreate` and `Open` are `managed`; `BeginWrite`/`CommitWrite`
are `ManagedSaver.commit` around a put, read at the beginning of its transaction and
visible at the end; `Preview`, `BeginPrune`, `BeginDelete`, `Erase` are `preview_expired`,
`prune` and `delete`. Each process reads a clock that lags true time by at most `Skew`.
`Crash` also stands for the loss of the connection, which rolls back the transaction and
frees the lock. The process-local store and `inspect` add nothing to these.

### SnapshotPublication and ResearchCatalog

`ResearchCatalog` is the promise of `README.md` ("Publication stages versioned Chroma
documents..."): snapshots are published, confirmed and searched in one step.
`SnapshotPublication` has the code's steps: `ReadActive`, `ReadDigest`, `Stage`,
`BeginActivate`, `CommitActivate` and `ReadBack` are `publish_research_snapshot`;
`VerifyActive` and `RecheckActive` its path for a snapshot that is active already;
`IndexChroma`, `BeginUpsert`, `EndUpsert` are `index_documents`; `SearchBegin` to
`SearchEnd` are `HybridRetriever.search` with each of its queries. A Neo4j transaction that
has locked the catalog node is one step up to its commit. `CommitActivate` may lose its
acknowledgement, `Stage` may add a part of the documents and fail. Reads of
`verify_snapshot` are one step that may fail even if all is well, which is what a
publication between them makes it do. The search's limit is taken to be at least the size
of a snapshot, so that a whole answer can be recognised.

### CatalogueStore

`ReadParent`, `Collect` and `CollectFails` are the part of `refresh` and `add_direct`
without the lock; `Acquire`, `LockTimeout`, `CheckParent`, `WriteBlob`, `MovePointer` and
`Release` are `publish`. Each of them may fail (`Fault`), `Release` may fail after the
pointer moved, `Crash` leaves the lock file, and `RemoveOrphan` is a person who removes
it: `docs/iterations/024-issue103-catalogue.md` says that the code does not. A refresh that is
answered from the last one changes nothing and is left out.

### ResearchJob

`job` is the manifest. A batch is `BeginCollection` (`advance_catalogue_research` or
`retry_catalogue_research`), then for each listing `StartAttempt`, `Collect`, `EndAttempt`
(`_advance_one`: write `started`, call, write the result). `Finalize` is one step, for it
calls nothing outside; `Publish`, `Activate`, `RecordPublished` are
`publish_catalogue_research`. `Load` is the dashboard that shows a generation, which the
operations compare. An operation that is refused changes nothing and is left out.

### CatalogueRefresh

One refresh. `reports`, `found`, `attempts` and `tries` are the local variables of
`refresh`; the last report is the current one. `Begin` reuses a recent catalogue or starts;
`Page` is a call that is answered and all the checks of its answer, `ProviderError` one that
fails or is answered too late, `OutOfPages` and `OutOfCalls` the two limits; the first
exchange that is not complete ends the refresh (`Truncate`). `Publish` is
`make_catalogue` with `validate_catalogue` (`ValidCoverage`, `OneExchangeEach`) and what the
store then answers. `Change` lets the provider rearrange, drop, add or replace rows between
any two calls, and `Answers` also has pages that lost or repeat a row or cannot be read. An
identity is of one exchange, so the branch for duplicates across exchanges
(`catalogue/service.py:874`) cannot be taken. `Verdict` merges the three ways a page ends its
exchange.

### FundRegistry

`blobs`, `pointer` (`active.json`) and `lock` are the registry's directory; a digest stands
for its content. A call of `publish` goes through `Call`, `Acquire` or `Timeout`,
`Validate`, `StoreBlob`, `MovePointer`, `ReadBack`, `CleanUp` and `Release`; each file
operation may fail (`Failure` says what is then reported), and `Die` ends the process, which
frees the native lock. Of an envelope the model keeps the parent, the funds with their
status and share classes, and `audited`: the funds that the curator's comparisons were made
with, which may be those of an older generation. `Publishable` is `validate_publication`.

### DashboardSession

`handle` is the `DashboardRun` of each browser session and `page` what its page shows, the
handle at the last rerun of the script. A click takes effect if its control is still
rendered from the handle, whose keys hold the revision and the operation; otherwise it is
only a `Rerun`. `Resume` and `Retry` read the thread under the lock, refuse or invoke the
graph (`Submitted`), which returns or raises with the thread left at any point
(`Remains`). A thread is reduced to its revisions, its status and the attempts of its
explanation. Durable runs keep no adapters, and a memory run only that of the explanation
(`dashboard.py:479`), so that retrievals are never retried from a page.

### TicketWorkflow

`state` is the fold of the ledgers of all tickets by `replay`; each kind of event of policy
`owner-led-v1` is an action: `Initialize` and `InitializeChild`; `PhaseStart`,
`PhaseEnd`, `PhaseInterrupt`, `PhaseResume`, `Coordination`; `CapsuleUpdate`, `OwnerHandoff`,
`DesignReady`, `Acceptance`, `Blocker`, `Resolve`, `Amend` (the three amendments of issue
123), `Continuation`, `Extension`, `Split`, `Delivery`. `Gate` is `State.gate`, `LineageAgrees`
the check of the map of all ledgers at each append. `Edit` changes the repository's content
between events; `Die` leaves `repository.lock`, which `ClearLock` (a person) removes.
`checks`, `debt` and `granted` are histories.

### Evidence, Screening, Construction, Advice

The first three are functions, `Advice` the nodes that call them: `Search`, `Retrieve`,
`Screen`, the construction, and the `Validate` of the persisted portfolio; `Reload` is a
checkpoint read before the construction or after it. A document is a record of its facts, each
available, missing or absent, with its age; names that are compared and sorted are their ranks.
Weights, cents and shares are the code's integer arithmetic. A `Reload` may find a part of
another review: an `Altered` profile with or without its policy, or the evidence (with or
without its verdicts), the verdicts or the portfolio of a review with the same profile whose
search had the results `Elsewhere`. Both reviews are of the same time: the times of evidence
and verdicts, which the construction compares as well, and the source of a position are left
out, so that the model lets through more mixtures than the code. Left out too are the
curator's registry inside evidence, issuer pairs, the dollar amounts of a legacy profile as
floats, and the messages.

## Runs

| Run | What it shows | Bounds | Why they are enough |
|---|---|---|---|
| `review_workflow` | The ledger's rules through decisions, retries, replays and crashes, and that every invocation comes to rest | 2 revisions, 1 retry, 1 crash, 2 adapter answers, 2 versions per input class, 5 kinds of feedback, all three graph shapes | Rules relate a revision to its parent and an attempt to the one before it; the feedback has every restart stage; one crash is possible at any step, and replays, aborts and late decisions on top of it |
| `lifecycle` | Row, checkpoint, prune and delete under races, skewed clocks and crashes | 2 processes, retention 2, skew 1, time to 4, 3 versions, delete before the first erasure only, prune at any time | A preview can expire, be overtaken by a write and be acted on; a review can be deleted and created again while another process has a preview |
| `snapshot_publication` | Two publishers, an indexer and a reader over two stores; refinement of `ResearchCatalog` | 3 snapshots of 2 versions (one version twice, with different content), 2 symbols, 1 fault | Conflicting content, replacement, a repeated publication and a snapshot with fewer ETFs all occur; each race is between two publishers or one and a reader |
| `catalogue_store` | Publication of the catalogue under file errors and crashes | 2 processes, 2 listings, 4 versions, 2 faults | Two faults let a lock be orphaned and a later operation fail as well; four versions let both processes be overtaken |
| `research_job` | A job of three listings shared by two dashboards | Batches of 2, 2 attempts, records at most 1 old, time to 2, 15 writes | Three listings have a batch that ends early and one that follows; 15 writes are what the longest complete job takes (two attempts of two writes per listing, one to finalize, two to publish), so that shorter ones leave room for repeated publication |
| `catalogue_refresh` | What a refresh publishes is what the provider had | 2 exchanges, 5 symbols, pages of 2 rows, 2 pages, 6 calls, 2 changes of the listings, every parent with or without an addition that collides | Two pages of one exchange let a row be repeated or missed in between; five rows exceed the pages; six calls exceed what two complete exchanges need by two, so that retries and the limit both occur |
| `fund_registry` | One audited history under races, failures and deaths | 2 publishers, 3 calls, 2 funds that may claim one share class, 2 faults | Three calls let an audit be two generations late; two faults fail a publication and its clean-up |
| `dashboard_session` | Stale pages, unknown outcomes and retries never reach the thread | 3 sessions, 3 revisions, 3 attempts of an operation | One session decides, one has a stale page and one deletes or restores; a third revision lets a page be two behind |
| `ticket` | Certification and repair of one ordinary ticket | 3 agents, 2 contents, 2 pieces of evidence, 1 blocker, 1 grant; all phases but design, interruption in each | A result and a later content; a failure, its remediation and a second failure that a grant answers |
| `ticket_design` | A design that is challenged, reset and updated voids old results | 4 agents, 2 contents, 1 capsule update; writers that die; one amendment | Design, challenge, work and review need four sessions; one update makes an old design stale |
| `ticket_split` | Allowances and independence across a lineage | A root and 2 children, 2 agents, 1 granted slot; an allocation of an implementation and a review | Both children may be split from the root or one from the other, and each may spend what was given |
| `advice` | Selection, screening, construction and its validation | An index of 15 documents that differ in one fact each, every choice of up to 6 in order, 5 profiles, 3 states of the exchange rate | A portfolio has 3 to 5 positions, so six results have every smaller set, a duplicate and a defect; a defect is one fact |

What the properties say, by run:

* `review_workflow`. `TypeOK`. `CheckpointValidates`: what is committed, the next restore
  accepts. `AtMostOneCall`, `StartIsDurable`: the prepare/execute boundary. `SuccessIsFinal`:
  a success is kept and not attempted again. `ApprovedIsCurrent`: nothing stale is approved.
  `DecidedIsImmutable`: whatever is replayed, the inputs, artifacts, decision and receipts of a
  decided revision stay, and none follows the last one; its status label is set by replayed pure
  nodes only. `RetryIsExplicit`: a second attempt needs the request that names the first.
  `Settles`: every invocation pauses, ends or dies.
* `lifecycle`. `TypeOK`. `CheckpointCovered`: no torn commit. `RecordAdvances`: one version at a
  time, retention is renewed by new events only. `PruneSparesTouched`: an old preview is
  harmless. `NoResurrection`: a handle from before a deletion writes nothing after it.
* `snapshot_publication`. `TypeOK`. `ActiveIsComplete`: both stores hold all of the active
  snapshot. `NoLostPublication`: compare-and-set. `AtomicCatalog`: it implements
  `ResearchCatalog`, so every answer is one whole snapshot.
* `catalogue_store`. `TypeOK`. `PointerIsReadable`, `OutcomeIsTrue`, `AdditionsSurvive`,
  `LineageIsLinear`.
* `research_job`. `TypeOK`. `CallsAreRecorded`: a call has its attempt and is the only one for
  it. `CollectedInOrder`, `ProgressIsKept`, `OneSnapshot`, `SucceededIsActivated`.
* `catalogue_refresh`. `CompleteIsTrue`: a complete exchange has as many listings as the
  provider had at every page, each from one of the pages, and exactly those of the provider if
  it only reordered them; the proof of coverage refuses nothing the refresh completed but a
  symbol on two exchanges. That one listing replaced by another between two pages goes
  unnoticed is what `docs/iterations/024-issue103-catalogue-design.md:131` says.
* `fund_registry`. `RegistryIsOneHistory`: generations follow each other, every change was
  audited against what it replaced, what is retired or closed stays so, and the answers of
  `publish` are true.
* `dashboard_session`. `ActsOnWhatIsShown`: a submission meets the thread exactly as the page
  shows it, and no late one blocks the review.
* `ticket`, `ticket_design`, `ticket_split`. `GateIsEarned`: what CI lets through has its
  verification, acceptance and review for that content, after the last phase that may have
  written. `FailuresAreRepaired`: no delivery without the remediation of every failure.
  `ReviewIsIndependent`, `AllowanceConserved`: no lineage reviews itself or spends more than it
  was given.
* `advice`. `PositionsAreVerified`: what a portfolio holds passes each screening rule on
  current facts, recomputed from the documents, also when the checkpoint mixed two reviews.
  `DraftReconciles`: weights, cash and limits add up, and every sleeve and position has its
  share of the cash to within a minor unit; a sleeve whose share of a small amount is below
  half a unit rightly has none. `ShortlistSearchIsComplete`: when the constructor gives up, or
  stops at a size, no larger set of the candidates has any weights within the limits. The
  candidates are all eligible ones, or the shortlist when a catalogue review has more of them
  than places: over all of them the property does not hold, and no document says it does.

`CHECK_DEADLOCK FALSE` is in the configurations of the systems that may stop: a review that
is blocked has no further step, and in the others the bounds of time, versions and faults
end the behaviour. Each property has a mutant beside the definition it changes
(`\* Mutant:` comments), with which TLC finds the property violated.

Things the models let one see that are not violations: `record_result`
(`graph/revision.py:367`) sets the status label of a decided revision too, so that
`Reschedule(2)`, `Continue`, `RunExecute` (which does not call) and `RunPure(3)` on an approved
thread mark the approved revision as awaiting review, although
`docs/iterations/017-revision-loop-and-audit-trail.md:85` calls `approve` terminal; its decision
and all it was about are kept (`DecidedIsImmutable`). A `publish` of an already
published job sets its publication from succeeded to started again until it is recorded
(`catalogue/research_job.py:691`); the retry of an older snapshot's publication activates
that snapshot again, since compare-and-set is against the identity it reads at its own
beginning (`rag/snapshots.py:197`); a listing whose attempts are used up blocks its job
(`catalogue/research_job.py:496`); a submission that raises between two nodes leaves a
checkpoint that neither a refresh nor a restore of the dashboard can read
(`dashboard.py:356`), so that the review can only be deleted; a symbol that was added
directly on one exchange and is later listed on another makes every refresh fail
(`catalogue/service.py:256`), and nothing removes a direct addition; for a target of 95 % growth
the shortlist has no room for a defensive fund while ten growth funds are available
(`domain/construction.py:1098`; `docs/iterations/028-issue105-catalogue-design.md:259-262` admits
that a bounded shortlist may miss a combination).

## Fairness

Only `ReviewWorkflow` has a fairness condition, `WF_vars(System)`: `invoke` is synchronous
and runs node after node until the graph pauses or ends, and the adapters it calls
return or raise, because they are called with timeouts. Nothing is assumed of reviewers, of
callers or of crashes. The other modules state safety only: their processes may stop
anywhere, and the code promises no progress to a caller that gives up after its timeout.

## Proofs

The theorems hold for every value of the constants: any number of processes, revisions,
versions, listings, faults and so on. What a model's bounds say (`MaxFaults`, `MaxRevisions`,
`MaxTime`) is a parameter there and no restriction. TLC checked every inductive invariant on
the run of its module before it was proved. Each proof module `EXTENDS` its component and
proves three facts, `Init => IInv`, `IInv /\ [Next]_vars => IInv'` with one lemma per action,
and `IInv => Inv` for each property; an action property follows from `IInv` and the step.

| Module | Theorem: property | Rests on |
|---|---|---|
| `ReviewWorkflow_proofs` | `TypeCorrect`: `TypeOK`; `OneCallPerOperation`: `AtMostOneCall`; `CallsHaveReceipts`: `StartIsDurable`; `CheckpointsAreValid`: `CheckpointValidates`; `SuccessStays`: `SuccessIsFinal`; `ApprovalsAreCurrent`: `ApprovedIsCurrent`; `DecidedStays`: `DecidedIsImmutable`; `RetriesAreExplicit`: `RetryIsExplicit` | `ConstantsOK` |
| `Lifecycle_proofs` | `TypeCorrect`: `TypeOK`; `MetadataAgrees`: `CheckpointCovered`; `RecordsAdvance`: `RecordAdvances`; `PruneSpares`: `PruneSparesTouched`; `DeletedStaysDeleted`: `NoResurrection` | `LifecycleConstants` |
| `SnapshotPublication_proofs` | `TypeCorrect`: `TypeOK`; `ActiveComplete`: `ActiveIsComplete`; `PublicationsAreSeen`: `NoLostPublication`; `ImplementsCatalog`: `AtomicCatalog` | `SnapshotConstants` |
| `CatalogueStore_proofs` | `TypeCorrect`: `TypeOK`; `PointerReadable`: `PointerIsReadable`; `OutcomesAreTrue`: `OutcomeIsTrue`; `AdditionsAreKept`: `AdditionsSurvive`; `LinearLineage`: `LineageIsLinear` | `CatalogueConstants` |
| `ResearchJob_proofs` | `TypeCorrect`: `TypeOK`; `CallsRecorded`: `CallsAreRecorded`; `CollectsInOrder`: `CollectedInOrder`; `ActivatesOneSnapshot`: `OneSnapshot`; `SucceededActivated`: `SucceededIsActivated`; `CollectedStays`: `ProgressIsKept` | `JobConstants` |
| `FundRegistry_proofs` | `OneHistory`: `RegistryIsOneHistory` | `RegistryConstants` |
| `DashboardSession_proofs` | `SubmissionsAreCurrent`: `ActsOnWhatIsShown` | nothing: no constant is restricted |
| `TicketWorkflow_proofs` | `LedgersAreTyped`: `TypeOK` of that module; `TheGateIsEarned`: `GateIsEarned`; `AllFailuresAreRepaired`: `FailuresAreRepaired`; `ReviewersAreIndependent`: `ReviewIsIndependent`; `AllowanceIsConserved`: `AllowanceConserved`; by `LedgersAreSound` and `BooksBalance`, the two invariants | `WorkflowConstants`, `InputConstants` |

The assumptions say that bounds are natural numbers and that tags ("no owner", "no snapshot")
are none of the things they stand beside. Four of them say more, about the code's world:

* `SnapshotConstants`: a version and a digest identify a snapshot, that is, digests do not
  collide; every snapshot has a document (`research/models.py:371`).
* `LifecycleConstants`: `Skew < Retention`. Retention is at least a day (`lifecycle.py:43`) and
  clocks are taken to be less than that apart. Otherwise a row that is created after a
  deletion could be dated before the one that a preview still holds.
* `ConstantsOK`: feedback is a set of classes that is not empty.
* `InputConstants`: there are finitely many issues, a profile has one of the three classes, and
  allocations and grants are counts, which the validation of an event checks.

### The prepare/execute boundary

`AtMostOneCall` is not inductive: a permit could be held for an operation that was called
before. `IInv` adds what the code relies on silently: a permit is consumed before the call
(`PermitsUnused`), every id of the ledger was issued, so a new id is new (`LedgerIssued`), and
a prepared result that waits for its commit keeps every receipt of the checkpoint it replaces
(`PreparedKeeps`), which is why no call loses its receipt. Most lemmas say of one
transformation of the checkpoint that its result is a checkpoint with the same operation ids
(`Keeps`); each action then is a commit of such a result (`KeepStep`), a start or a stop
(`HostStep`), or one of the three that move permits, ids or calls.

### The ledger of a thread

The other five properties of `ReviewWorkflow` share one invariant, `LInv`: that `IInv`, that
the committed checkpoint satisfies `Ledger`, and what a process between two commits knows
(`HostKnows`). `ValidState`, which the code checks in every node, is not inductive: it does not
say why the next node may do what it does. `Ledger` says it:

* `RouteIsSound` is what the graph's edges establish before a node runs: the revision is
  open where something may be new, its plan has the stage, nothing downstream of it exists, a
  stage after the retrieval has a retrieval that succeeded, and `finalize` only follows what is
  reviewable. An execute node may be next in any state, and lead a decided revision through the
  nodes after it.
* `AttemptsOwned`, `StartedIsOpen`, `DownstreamWaits`, `SuccessKept`: an attempt is of a
  revision that runs its stage, leaves no artifact while it is under way, holds up what
  depends on it until it succeeds, and is the last one when it has.
* `ScreenedHere`, `Explained`: replayed nodes find that a screening of this revision is what
  they would make again, and an explanation rests on the construction it was drafted over. With
  `ValidState`, an artifact is then current if the artifacts before it are, and a child that
  starts at a stage inherits exactly those whose inputs the feedback left alone.
* `DecisionsMade`, `ApprovalsCurrent`: what is decided has its decision, and every artifact of
  it was current when it was. Its artifacts are all there, so that a replayed node finds what it
  would record, and its attempts have ended, so that a replayed operation is not called.

The module first proves that each node keeps `Ledger`, with one lemma per kind of change:
an artifact is set, an attempt is started or ends, a revision is blocked. It then
adds reviews and decisions, planned revisions, retries and the host's steps, and concludes
that `LInv` is inductive. The two action properties follow from a relation each between a
checkpoint and the next: `Evolves` (decisions and artifacts only grow, a decided revision keeps
all its receipts and everything but its status label, which a pure node may set, and none
follows it later) and `RetryRule` (a second attempt uses up the request that names the first,
and nothing else does).

### The ledgers of tickets

`GateIsEarned` and its companions speak of a delivery; what makes them true lies many events
before it. `TicketInv` says it of each ledger, beside its type and the agreement of the map of
ledgers (`LineageAgrees`, `AllocationsAgree`, which `validate_map` checks at each append):

* `Earned`: a verification, acceptance or review the ledger still holds is in the history since
  the last phase that may have written. A consequential ticket that is ready has its design,
  challenge and approval at the capsule it has now, its only design was started and its
  challenger is known, so that neither is reserved again, and none of the phases that could
  move them is under way or suspended and might end later.
* `Repairs`: an open debt keeps one of the four facts that stop a delivery (`AsksForRepair`): a
  failed final review, a pending repair, or a failed verification or blocker whose number the
  remediations have not reached. A remediation that is under way answers a debt only if
  the debt is older than it, which is what the numbers are for.
* `Independent`: who writes has the role of a worker and whoever reviewed that of a
  reviewer. `LineageAgrees` excludes readers from every other ticket of the lineage.

`AllowanceConserved` compares sums over a lineage that grows with each split. Its invariant,
`Accounts`, is double-entry. What a ticket holds (`Entry`) is what it has spent and, unless it is
retired, may still spend; a child without a ledger holds what its parent allocated to it
(`Held`). `Balanced` says that all holdings of a lineage are at most the root's allowance and the
grants; `Books` that no ledger overdraws and only a retired one has children. A start moves a
slot inside one entry, a grant adds the same to both sides, a split moves what is left of one
entry to the children, the initialization of a child changes nobody's holding, and an
initialization without predecessor opens books with `COUNTS`. `AllocationsAgree` is needed
because a child with two parents would hold one allocation of two. The sums are folds over
functions on finite sets; the module proves what it needs of them (`SumBelow`, `SumAbove`,
`SumChange`, `SumSpread`) by choosing a least set for which the claim fails.

### The dashboard

`ActsOnWhatIsShown` relates a page to a thread that other sessions move on. The invariant
(`HoldEarlier`) says that what a session holds, and what its page shows, is an earlier state of
the thread (`Precedes`): revisions and attempts are only added, and a revision that came to await
its decision gets no attempt any more. The keys of a page's controls hold only the revision and
the operation; they are enough because at one revision there is one state that awaits a
decision (`DecidesOnThread`) and one with a given last attempt to retry (`RetriesThread`).

### The stores

* `Lifecycle`: a commit reads when its transaction begins and is visible when it ends, so the
  invariant says what a session may rely on in between: nobody erases while a handle is open
  (`OpenIsCurrent`), what will be written follows the row that is there (`WriteFollows`). An old
  preview is harmless because, once anybody has written, any row is newer than the previewed
  one (`PreviewIsKept`), also one created again after a deletion (`CreatedIsYounger`); so the
  comparison that begins a prune is one with the whole history (`PruneIsUntouched`).
* `SnapshotPublication`: what a publisher staged stays in Chroma (`StagedIsHeld`), what an open
  transaction compared holds until it ends (`OpenIsCurrent`), and a search that is under way has
  all of its snapshot's documents although that may no longer be active (`SearchIsWhole`). The
  refinement maps `published` to the snapshots that have their manifest; the commit of an
  activation maps to `Publish`, the first read of a publication to `Forget`, its successful
  report to `Confirm`, the end of a search to `Answer`, and every other step to a stutter.
* `CatalogueStore`: a candidate is a child of what its process read and keeps its additions
  (`CandidateIsChild`); under the lock, what was compared stays current (`LockedIsCurrent`); a
  version is built by one process and reported once (`VersionsAreOwned`). That orphaned lock
  files are removed by a person only is why the second one is kept.
* `ResearchJob`: `HasTurn` is what the holder of the lock relies on at each of its steps: the
  listing it attempts is the first without a record, its attempt is within the limit and not
  called for yet. `AttemptsAreCounted` and `FinalIsWhole` tie records to attempts and the
  final snapshot to all records.
* `FundRegistry`: `Earned` says what a call may rely on: its envelope stays publishable and its
  blob stored until it moves the pointer, and it knows whether it published, since calls
  are not shared (`ProcsInv`). The history then grows by an envelope that was validated against
  its last element.

### What is only model-checked

* `Settles` of `ReviewWorkflow`: liveness under fairness is out of the prover's reach.
* `Advice` (`PositionsAreVerified`, `DraftReconciles`, `ShortlistSearchIsComplete`): arithmetic and
  searches over sequences, whose general form is induction over data.
* `CatalogueRefresh` (`CompleteIsTrue`): sums over the pages of a sequence whose rows change.

## Not modelled

* *Data adapters, explanation*: I/O and the parsing or validation of one answer, without
  state that lasts. Where the graph depends on them, their outcomes are choices.
* *Models and encodings*: digests identify contents here. That two contents have two
  digests, and that a content survives its encoding, is assumed.
* *Evaluation, command line, configuration*: batch programs and wiring.
* *Snapshot payload files, the Yahoo request budget, legacy visibility*: one exclusive link
  per file; limits inside one call; a preparation that asks its callers to be alone.
* *Ticket workflow*: the policy `timed-v1`, the ledgers with rules of their own (issue 73, and
  issues 23 and 83), the fields of a capsule, reports on the command line.
* *Fund registry*: sources and their times, contexts, aliases, renames and succession,
  dispositions of comparisons, size limits; of a class only whether it is active.
* *Dashboard*: rendering, the catalogue and research pages, a creation that raises and leaves a
  review whose token nobody has.
* *Evidence to construction*: the curator's registry, the catalogue's retrieval, issuer pairs,
  messages and lists of passed checks.
* *Inside what is modelled*: loss of the connection that owns the advisory lock while the
  saver's connection lives (`checkpoint.py:159`); snapshots of schema 1 without fingerprints;
  the search of a catalogue; several namespaces of one thread.

## Plan

Done: `ReviewWorkflow`, `Lifecycle`, `SnapshotPublication` with `ResearchCatalog`,
`CatalogueStore`, `CatalogueRefresh`, `ResearchJob`, `FundRegistry`, `DashboardSession`,
`TicketWorkflow`, `Evidence`, `Screening`, `Construction` and `Advice`; the theorems of eight
components above, with every safety property of their runs.

What is left: `CompleteIsTrue` of `CatalogueRefresh`, which needs an invariant that ties the
pages of a report to the rows found on them; of `Advice`, what validation alone establishes of
a persisted portfolio. No module declares a `RECURSIVE` operator.
