--------------------------- MODULE TicketWorkflow ---------------------------
(***************************************************************************)
(* The owner-led ticket ledgers of scripts/ticket_workflow.py.             *)
(*                                                                         *)
(* A ledger is an append-only list of events; replay() folds it into a     *)
(* State.  Here `state' holds the fold of every ledger file, and an action *)
(* is one append(): the event's checks in replay(), the check of the whole *)
(* map of ledgers, the atomic replace of the file.  The lock file of       *)
(* append() outlives a writer that dies.                                   *)
(*                                                                         *)
(* Under owner-led-v1 the booleans verified, accepted and reviewed are     *)
(* set and cleared with their contents, so the contents stand for both.    *)
(* `checks', `debt' and `granted' are history variables.                   *)
(***************************************************************************)
EXTENDS Integers, Sequences, SequencesExt, TLC

CONSTANTS
    Tickets,        \* issues that may have a ledger
    Sessions,       \* sessions of agents
    Contents,       \* digests of the repository's content
    Evidence,       \* normalized evidence of user authorities
    PullRequests,   \* pull requests
    Blockers,       \* identifiers of blockers
    Profiles,       \* classifications with review_required, as initialized
    Allocations,    \* counts a split may give to a child
    Grants,         \* counts an extension or continuation may add
    Roots,          \* bound: issues whose ledger may start without a predecessor
    Used,           \* bound: the phases the coordinator reserves
    Pausable,       \* bound: the phases ("none": between phases) in which work may pause
    WritersDie,     \* bound: may a writer die inside append()?
    MaxRevisions,   \* bound: capsule updates within one design reset
    AmendsFrom,     \* generations of the capsule that the three amendments start from
    NoSession, NoContent, NoPr

ASSUME WorkflowConstants ==
    /\ NoSession \notin Sessions /\ NoContent \notin Contents /\ NoPr \notin PullRequests
    /\ AmendsFrom \in [1..3 -> Nat]
    /\ MaxRevisions \in Nat /\ WritersDie \in BOOLEAN
    /\ \A p \in Profiles : p.class \in {"consequential", "disputed"} => p.review

VARIABLES
    state,      \* the State of every ledger file: a function on the issues that have one
    tree,       \* content_digest of the repository, as each ticket sees it
    lock,       \* repository.lock exists although nobody is appending
    checks,     \* history: verifications, acceptances and reviews since the last write phase
    debt,       \* history: failures and blockers not answered by a remediation yet
    granted     \* history: slots granted by users to each ticket

vars == <<state, tree, lock, checks, debt, granted>>

-----------------------------------------------------------------------------
(* Phases, roles and limits.                                                 *)

Counted == {"implementation", "initial_review", "remediation", "final_review", "design_reset"}
Phases == Counted \cup {"planning", "design", "challenge", "verification"}
WritePhases == {"implementation", "remediation", "verification"}
ReadPhases == {"challenge", "initial_review", "final_review"}
Reviews == {"initial_review", "final_review"}
COUNTS == [p \in Counted |-> 1]
NoCounts == [p \in Counted |-> 0]

Role(phase) ==
    CASE phase = "planning" -> "planner"
      [] phase \in {"design", "design_reset"} -> "architect"
      [] phase \in ReadPhases -> "reviewer"
      [] phase \in WritePhases -> "worker"

Classes == {"ordinary", "consequential", "disputed"}
ReviewedClasses == {"consequential", "disputed"}
Consequential(r) == r.profile.class = "consequential"
Plus(a, b) == [p \in Counted |-> a[p] + b[p]]
Minus(a, b) == [p \in Counted |-> a[p] - b[p]]

NoRef == [gen |-> 0, rev |-> 0]
NoPhase == [phase |-> "none", session |-> NoSession, capsule |-> NoRef, content |-> NoContent]
NoSplit == [child \in {} |-> NoCounts]

\* What the command line and the validation of an event admit.
ASSUME InputConstants ==
    /\ IsFiniteSet(Tickets) /\ Roots \subseteq Tickets
    /\ Profiles \subseteq [class : Classes, review : BOOLEAN]
    /\ Allocations \cup Grants \subseteq [Counted -> Nat]
    /\ Used \subseteq Phases

\* The State of a ledger whose only event is an initialization without predecessor.  The
\* numbers of required_remediation (in blockers) and verification_repair_count are 0 for "none".
State(profile, owner, evidence) ==
    [profile |-> profile, capsule |-> [gen |-> 1, rev |-> 0], owner |-> owner,
     owners |-> {owner}, refs |-> {evidence}, consumed |-> {evidence}, ancestry |-> <<>>,
     roles |-> [s \in Sessions |-> "none"], writers |-> {},
     design |-> NoRef, challenge |-> NoRef, approved |-> NoRef,
     verified |-> NoContent, accepted |-> NoContent, reviewed |-> NoContent,
     limits |-> COUNTS, counts |-> NoCounts, local |-> NoCounts,
     active |-> NoPhase, suspended |-> NoPhase, clock |-> TRUE,
     designer |-> NoSession, designStarted |-> FALSE, challenger |-> NoSession,
     author |-> NoSession, ready |-> FALSE, initialFailed |-> FALSE,
     remediated |-> FALSE, finalFailed |-> FALSE, blockers |-> [b \in Blockers |-> 0],
     delivered |-> FALSE, binding |-> NoContent, pr |-> NoPr, retired |-> FALSE,
     splits |-> NoSplit, amended |-> 0, pendingRepair |-> FALSE, repairCount |-> 0]

Idle(r) == r.active = NoPhase /\ r.suspended = NoPhase
Blocked(r) == \E b \in Blockers : r.blockers[b] > 0
Terminal(r) == r.delivered \/ r.retired
ReviewNeeded(r) == r.profile.review \/ r.local["initial_review"] > 0
\* authorization_history: what was consumed and what the capsules refer to.
Authorized(r) == r.consumed \cup r.refs
\* The separate challenge of a consequential design passed.
ChallengeOk(r) == r.challenge # NoRef
Current(r) == r.verified # NoContent /\ r.accepted = r.verified

-----------------------------------------------------------------------------
(* The gates of State.gate.                                                  *)

\* Mutant: the remediation after a failed verification is not counted.
GateVerificationUncounted(r) ==
    r.repairCount > 0 => r.remediated /\ ~Blocked(r)

GateVerification(r) ==
    r.repairCount > 0 =>
        r.local["remediation"] >= r.repairCount /\ r.remediated /\ ~Blocked(r)

GateRemediation(r) ==
    /\ r.author # NoSession
    /\ r.initialFailed \/ r.pendingRepair \/ Blocked(r)
    /\ r.repairCount > 0 => Blocked(r)

GateReview(r, phase) ==
    /\ Current(r)
    /\ phase = "initial_review" => r.author # NoSession /\ r.local["remediation"] = 0
    /\ phase = "final_review" => r.remediated

\* May the phase be reserved?
Gate(r, phase) ==
    /\ ~Terminal(r) /\ Idle(r) /\ r.clock /\ ~r.finalFailed
    /\ phase \in Counted => r.counts[phase] < r.limits[phase]
    /\ phase = "design" => ~r.designStarted
    /\ phase = "challenge" => r.designer # NoSession /\ r.challenger = NoSession
    /\ phase \in WritePhases \cup Reviews => r.ready
    /\ phase = "verification" => GateVerification(r)
    /\ phase = "remediation" => GateRemediation(r)
    /\ phase \in Reviews => GateReview(r, phase)

\* May the ticket be delivered?
GateDelivery(r) ==
    /\ ~Terminal(r) /\ r.clock /\ Idle(r)
    /\ ~Blocked(r) /\ ~r.finalFailed /\ ~r.pendingRepair
    /\ r.ready /\ Current(r)
    /\ ReviewNeeded(r) => r.reviewed = r.verified

\* Sessions that may not read independently.
Excluded(r) == {r.designer, r.owner} \cup r.writers

\* May this session, in the role of the phase, reserve it?
MayStart(r, phase, s) ==
    /\ r.roles[s] \in {"none", Role(phase)}
    /\ phase = "design_reset" => r.roles[s] = "none"
    /\ phase \in ReadPhases => s \notin Excluded(r)
    /\ phase \in WritePhases => /\ s \notin {r.designer, r.challenger}
                                /\ s = r.owner
                                /\ r.approved = r.capsule

-----------------------------------------------------------------------------
(* The map of ledgers (validate_map).                                        *)

Root(m, t) == IF m[t].ancestry = <<>> THEN t ELSE Head(m[t].ancestry)
Lineage(m, t) == {u \in DOMAIN m : Root(m, u) = Root(m, t)}

Readers(r) == {s \in Sessions : r.roles[s] = "reviewer"}
People(r) == r.owners \cup {s \in Sessions : r.roles[s] # "none"}
\* Owners of children that have no ledger yet.
AwaitedOwners(m, r) == {r.splits[c].owner : c \in DOMAIN r.splits \ DOMAIN m}

AllocationsAgree(m) ==
    \A t \in DOMAIN m :
        /\ \A u \in DOMAIN m \ {t} : DOMAIN m[t].splits \cap DOMAIN m[u].splits = {}
        /\ \A c \in DOMAIN m[t].splits \cap DOMAIN m : m[c].ancestry # <<>>
        /\ m[t].ancestry # <<>> => t \in DOMAIN m[Last(m[t].ancestry)].splits

\* Mutant: the participants of other tickets are not looked at.
LineageAgreesAuthority(m) ==
    \A t \in DOMAIN m : \A u \in Lineage(m, t) \ {t} :
        m[t].consumed \cap m[u].consumed = {}

LineageAgrees(m) ==
    \A t \in DOMAIN m : \A u \in Lineage(m, t) :
        /\ Readers(m[t]) \cap AwaitedOwners(m, m[u]) = {}
        /\ u # t => /\ m[t].consumed \cap m[u].consumed = {}
                    /\ Readers(m[t]) \cap People(m[u]) = {}

\* append(): the lock is taken, the map with the candidate is validated, the file is
\* replaced; the writer may die before it removes the lock.  The ledger is part of the
\* content of every other ticket.
AppendEvent(t, r) ==
    LET map == [u \in DOMAIN state \cup {t} |-> IF u = t THEN r ELSE state[u]] IN
    /\ ~lock
    /\ AllocationsAgree(map) /\ LineageAgrees(map)
    /\ state' = map
    /\ lock' \in {FALSE, WritersDie}
    /\ tree' \in [Tickets -> Contents]
    /\ \A u \in Tickets : (tree'[u] = tree[u]) <=> (u = t)

Unrecorded == UNCHANGED <<checks, debt, granted>>

-----------------------------------------------------------------------------
(* Initialization and phases.                                                *)

Init ==
    /\ state = [t \in {} |-> NoSplit]
    /\ tree \in [Tickets -> Contents]
    /\ lock = FALSE
    /\ checks = [t \in Tickets |-> {}]
    /\ debt = [t \in Tickets |-> "none"]
    /\ granted = [t \in Tickets |-> NoCounts]

Initialize(t, profile, owner, evidence) ==
    /\ t \notin DOMAIN state
    /\ AppendEvent(t, State(profile, owner, evidence))
    /\ Unrecorded

\* A child starts from the allocation of its retired parent; review_required is its own.
InitializeChild(t, parent, review) ==
    /\ t \notin DOMAIN state
    /\ parent \in DOMAIN state /\ state[parent].retired
    /\ t \in DOMAIN state[parent].splits
    /\ LET a == state[parent].splits[t] IN
       /\ a.class \in ReviewedClasses => review
       /\ AppendEvent(t, [State([class |-> a.class, review |-> review], a.owner, a.evidence)
                          EXCEPT !.consumed = {},
                                 !.counts = a.counts,
                                 !.limits = a.limits,
                                 !.ancestry = Append(state[parent].ancestry, parent)])
    /\ Unrecorded

Bump(counts, phase) == [p \in Counted |-> IF p = phase THEN counts[p] + 1 ELSE counts[p]]

\* Mutant: a remediation keeps the verification, acceptance and review before it.
VoidsButRemediation(phase) == phase \in {"implementation", "verification", "design_reset"}

\* Mutant: so does a design reset.
VoidsButReset(phase) == phase \in WritePhases

\* Does the start of the phase void verification, acceptance and review?
Voids(phase) == phase \in WritePhases \cup {"design_reset"}

\* The reservation of a phase: what it spends, and which earlier results it voids.
Reserved(r, phase, s, content) ==
    LET reset == phase = "design_reset"
        ref == [r.capsule EXCEPT !.gen = IF reset THEN @ + 1 ELSE @]
        Kept(value, none) == IF reset THEN none ELSE value
        Fresh(value) == IF Voids(phase) THEN NoContent ELSE value
    IN [r EXCEPT !.roles[s] = Role(phase),
                 !.writers = IF phase \in WritePhases THEN @ \cup {s} ELSE @,
                 !.counts = Bump(@, phase), !.local = Bump(@, phase),
                 !.capsule = ref,
                 !.ready = @ /\ ~reset,
                 !.designer = Kept(@, NoSession), !.challenger = Kept(@, NoSession),
                 !.design = Kept(@, NoRef), !.challenge = Kept(@, NoRef),
                 !.approved = Kept(@, NoRef),
                 !.designStarted = @ \/ phase = "design",
                 !.verified = Fresh(@), !.accepted = Fresh(@), !.reviewed = Fresh(@),
                 !.remediated = @ /\ phase # "remediation",
                 !.active = [phase |-> phase, session |-> s, capsule |-> ref,
                             content |-> content]]

\* A review reads the verified content; it and a verification read what is in the tree.
PhaseStart(t, phase, s) ==
    LET r == state[t]
        reads == phase \in Reviews \cup {"verification"}
        content == IF reads THEN tree[t] ELSE NoContent
    IN /\ Gate(r, phase) /\ MayStart(r, phase, s)
       /\ phase \in Reviews => content = r.verified
       /\ AppendEvent(t, Reserved(r, phase, s, content))
       /\ checks' = [checks EXCEPT ![t] =
              IF phase \in {"implementation", "remediation", "design_reset"} THEN {} ELSE @]
       /\ debt' = [debt EXCEPT ![t] =
              IF phase = "remediation" /\ @ # "none" THEN "repairing" ELSE @]
       /\ UNCHANGED granted

\* completed(): what a passed or failed phase leaves behind.
Completed(r, passed) ==
    LET p == r.active.phase
        s == r.active.session
        Content(c) == IF passed THEN c ELSE NoContent
        done == [r EXCEPT !.active = NoPhase]
    IN CASE p \in {"design", "design_reset"} ->
                IF ~passed THEN done
                ELSE [done EXCEPT !.designer = s, !.designStarted = TRUE,
                                  !.design = r.active.capsule]
         [] p = "challenge" ->
                [done EXCEPT !.challenger = s,
                             !.challenge = IF passed THEN r.active.capsule ELSE NoRef]
         [] p = "implementation" -> [done EXCEPT !.author = IF passed THEN s ELSE @]
         [] p = "verification" ->
                [done EXCEPT !.verified = Content(r.active.content),
                             !.repairCount = IF passed THEN 0
                                             ELSE r.local["remediation"] + 1]
         [] p = "initial_review" ->
                [done EXCEPT !.reviewed = Content(r.active.content),
                             !.initialFailed = ~passed]
         [] p = "remediation" ->
                [done EXCEPT !.remediated = passed, !.pendingRepair = @ /\ ~passed]
         [] p = "final_review" ->
                [done EXCEPT !.reviewed = Content(r.active.content), !.finalFailed = ~passed]
         [] OTHER -> done

Check(kind, r) == [kind |-> kind, content |-> r.active.content, session |-> r.active.session]

PhaseEnd(t, passed) ==
    LET r == state[t]
        p == r.active.phase
    IN /\ ~Terminal(r) /\ r.active # NoPhase
       /\ (passed /\ p \in Reviews \cup {"verification"}) => r.active.content = tree[t]
       /\ AppendEvent(t, Completed(r, passed))
       /\ checks' = [checks EXCEPT ![t] = @ \cup
              IF ~passed THEN {}
              ELSE CASE p = "verification" -> {Check("verified", r)}
                     [] p \in Reviews -> {Check("reviewed", r)}
                     [] OTHER -> {}]
       /\ debt' = [debt EXCEPT ![t] =
              CASE p = "remediation" /\ @ = "repairing" -> IF passed THEN "none" ELSE "open"
                [] p \in {"verification", "final_review"} /\ ~passed -> "open"
                [] OTHER -> @]
       /\ UNCHANGED granted

\* An interrupted phase keeps its reservation and stops the clock.
PhaseInterrupt(t) ==
    LET r == state[t] IN
    /\ ~Terminal(r) /\ r.active # NoPhase /\ r.active.phase \in Pausable
    /\ AppendEvent(t, [r EXCEPT !.suspended = r.active, !.active = NoPhase, !.clock = FALSE])
    /\ Unrecorded

PhaseResume(t) ==
    LET r == state[t] IN
    /\ ~Terminal(r) /\ r.active = NoPhase /\ r.suspended # NoPhase
    /\ AppendEvent(t, [r EXCEPT !.active = r.suspended, !.suspended = NoPhase, !.clock = TRUE])
    /\ Unrecorded

Coordination(t) ==
    LET r == state[t] IN
    /\ ~Terminal(r) /\ Idle(r) /\ (r.clock => "none" \in Pausable)
    /\ AppendEvent(t, [r EXCEPT !.clock = ~@])
    /\ Unrecorded

-----------------------------------------------------------------------------
(* Approval, acceptance, blockers.                                           *)

CapsuleUpdate(t, evidence) ==
    LET r == state[t]
        ref == [r.capsule EXCEPT !.rev = @ + 1]
    IN /\ r.active.phase = "design_reset" /\ r.capsule.rev < MaxRevisions
       /\ evidence \in r.refs \/ evidence \notin r.consumed
       /\ AppendEvent(t, [r EXCEPT !.capsule = ref, !.active.capsule = ref,
                                   !.refs = @ \cup {evidence},
                                   !.consumed = @ \cup ({evidence} \ r.refs)])
       /\ Unrecorded

OwnerHandoff(t, s) ==
    LET r == state[t] IN
    /\ ~Terminal(r) /\ Idle(r) /\ r.roles[s] = "none"
    /\ AppendEvent(t, [r EXCEPT !.owner = s, !.owners = @ \cup {s}])
    /\ Unrecorded

DesignReady(t) ==
    LET r == state[t] IN
    /\ ~Terminal(r) /\ Idle(r)
    /\ Consequential(r) \/ r.designStarted => r.designer # NoSession
    /\ Consequential(r) => ChallengeOk(r) /\ {r.design, r.challenge} = {r.capsule}
    /\ AppendEvent(t, [r EXCEPT !.approved = r.capsule, !.ready = TRUE])
    /\ Unrecorded

Acceptance(t) ==
    LET r == state[t] IN
    /\ ~Terminal(r) /\ r.active = NoPhase /\ r.author # NoSession
    /\ r.verified # NoContent /\ r.verified = tree[t]
    /\ AppendEvent(t, [r EXCEPT !.accepted = tree[t]])
    /\ checks' = [checks EXCEPT ![t] =
           @ \cup {[kind |-> "accepted", content |-> tree[t], session |-> NoSession]}]
    /\ UNCHANGED <<debt, granted>>

\* A blocker found during a remediation may be answered by that remediation.
Blocker(t, b) ==
    LET r == state[t]
        now == r.active.phase = "remediation"
    IN /\ ~Terminal(r) /\ r.blockers[b] = 0
       /\ AppendEvent(t, [r EXCEPT !.blockers[b] =
              IF now THEN r.local["remediation"] ELSE r.local["remediation"] + 1])
       /\ debt' = [debt EXCEPT ![t] = IF now /\ @ # "open" THEN "repairing" ELSE "open"]
       /\ UNCHANGED <<checks, granted>>

Resolve(t, b) ==
    LET r == state[t] IN
    /\ ~Terminal(r) /\ r.blockers[b] > 0 /\ r.active = NoPhase
    /\ r.remediated /\ r.local["remediation"] >= r.blockers[b]
    /\ AppendEvent(t, [r EXCEPT !.blockers[b] = 0])
    /\ Unrecorded

-----------------------------------------------------------------------------
(* The three amendments of one pinned ticket, each once and in this order, each from a *)
(* pinned generation of its capsule.  Which pinned prefix the ledger has is left out.  *)

Amended(r, evidence) ==
    [r EXCEPT !.capsule.gen = @ + 1, !.profile.class = "consequential",
              !.amended = @ + 1, !.consumed = @ \cup {evidence}, !.refs = @ \cup {evidence},
              !.ready = FALSE, !.challenge = NoRef, !.design = NoRef, !.approved = NoRef,
              !.designer = NoSession, !.challenger = NoSession, !.author = NoSession,
              !.designStarted = TRUE, !.remediated = FALSE,
              !.verified = NoContent, !.accepted = NoContent, !.reviewed = NoContent]

MayAmend(r, evidence) ==
    /\ ~Terminal(r) /\ Idle(r) /\ r.clock /\ ~r.finalFailed
    /\ r.pr = NoPr /\ r.ancestry = <<>> /\ r.profile.review
    /\ r.amended < 3 /\ r.capsule.gen = AmendsFrom[r.amended + 1]
    /\ evidence \notin Authorized(r)

AdmitCapsuleAmendment(r) == r.amended = 0 /\ r.profile.class = "ordinary"
AdmitLocalRegistryAuthority(r) == r.amended = 1 /\ Consequential(r)
\* The third also pins the owner to the capsule's, the first of the ticket.
AdmitManifestSequence(r) == r.amended = 2 /\ Consequential(r) /\ r.owners = {r.owner}

Amend(t, evidence) ==
    LET r == state[t] IN
    /\ MayAmend(r, evidence)
    /\ AdmitCapsuleAmendment(r) \/ AdmitLocalRegistryAuthority(r) \/ AdmitManifestSequence(r)
    /\ AppendEvent(t, Amended(r, evidence))
    /\ checks' = [checks EXCEPT ![t] = {}]
    /\ UNCHANGED <<debt, granted>>

-----------------------------------------------------------------------------
(* Grants, splits and delivery: the events that need a user.                 *)

\* A delivered or failed ticket goes on with granted slots; all certification is void.
Reopened(r) ==
    [r EXCEPT !.finalFailed = FALSE, !.remediated = FALSE, !.pendingRepair = TRUE,
              !.verified = NoContent, !.accepted = NoContent, !.reviewed = NoContent]

GrantTo(r, evidence, delta) ==
    [r EXCEPT !.limits = Plus(@, delta), !.consumed = @ \cup {evidence}]

Continuation(t, evidence, delta) ==
    LET r == state[t] IN
    /\ ~r.retired /\ Idle(r) /\ r.ancestry = <<>>
    /\ evidence \notin Authorized(r)
    /\ r.author # NoSession /\ r.ready /\ delta["remediation"] > 0
    /\ r.profile.review \/ r.counts["initial_review"] + r.counts["final_review"] > 0
           => delta["final_review"] > 0
    /\ AppendEvent(t, [Reopened(GrantTo(r, evidence, delta)) EXCEPT !.delivered = FALSE])
    /\ granted' = [granted EXCEPT ![t] = Plus(@, delta)]
    /\ UNCHANGED <<checks, debt>>

Extension(t, evidence, delta) ==
    LET r == state[t]
        more == GrantTo(r, evidence, delta)
    IN /\ ~Terminal(r) /\ r.active = NoPhase
       /\ evidence \notin Authorized(r) /\ delta # NoCounts
       /\ r.finalFailed => delta["remediation"] > 0 /\ delta["final_review"] > 0
       /\ AppendEvent(t, IF r.finalFailed THEN Reopened(more) ELSE more)
       /\ granted' = [granted EXCEPT ![t] = Plus(@, delta)]
       /\ UNCHANGED <<checks, debt>>

Sum(allocate) ==
    [p \in Counted |-> FoldFunction(LAMBDA counts, total : counts[p] + total, 0, allocate)]

\* Mutant: every child gets what it was allocated on top of the parent's limits.
ChildLimitsOfParent(r, allocated) == Plus(r.limits, allocated)

ChildLimits(r, allocated) == Plus(r.counts, allocated)

\* The parent's remaining slots are shared out once; what is left is given up.
Split(t, evidence, allocate, class, owner) ==
    LET r == state[t]
        pool == Minus(r.limits, r.counts)
        total == Sum(allocate)
    IN /\ ~Terminal(r) /\ Idle(r) /\ r.ready
       /\ ~Blocked(r) /\ ~r.finalFailed /\ ~r.pendingRepair /\ r.repairCount = 0
       /\ r.initialFailed => r.reviewed # NoContent
       /\ Consequential(r) => ChallengeOk(r)
       /\ evidence \notin r.consumed
       /\ \A p \in Counted : total[p] <= pool[p]
       /\ AppendEvent(t, [r EXCEPT
              !.splits = [c \in DOMAIN allocate |->
                             [counts |-> r.counts, limits |-> ChildLimits(r, allocate[c]),
                              class |-> class, owner |-> owner, evidence |-> evidence]],
              !.retired = TRUE, !.clock = FALSE, !.consumed = @ \cup {evidence}])
       /\ Unrecorded

Delivery(t, pr) ==
    LET r == state[t] IN
    /\ GateDelivery(r) /\ r.verified = tree[t]
    /\ r.pr \in {NoPr, pr}
    /\ AppendEvent(t, [r EXCEPT !.delivered = TRUE, !.binding = r.verified, !.pr = pr,
                                !.clock = FALSE])
    /\ Unrecorded

-----------------------------------------------------------------------------
(* The repository around the ledgers.                                        *)

\* Somebody edits the repository.
Edit ==
    /\ \E t \in Tickets, c \in Contents : c # tree[t] /\ tree' = [tree EXCEPT ![t] = c]
    /\ UNCHANGED <<state, lock, checks, debt, granted>>

\* A writer dies between taking the lock and replacing the file.
Die == WritersDie /\ ~lock /\ lock' = TRUE /\ UNCHANGED <<state, tree, checks, debt, granted>>

\* The coordinator inspects and removes an abandoned lock.
ClearLock == lock /\ lock' = FALSE /\ UNCHANGED <<state, tree, checks, debt, granted>>

OfSession(t, s) ==
    \/ \E phase \in Used : PhaseStart(t, phase, s)
    \/ OwnerHandoff(t, s)

OfUser(t, e) ==
    \/ CapsuleUpdate(t, e)
    \/ Amend(t, e)
    \/ \E delta \in Grants : Continuation(t, e, delta) \/ Extension(t, e, delta)
    \/ \E kids \in SUBSET (Tickets \ {t}) \ {{}} : \E allocate \in [kids -> Allocations] :
          \E class \in {p.class : p \in Profiles}, owner \in Sessions :
             Split(t, e, allocate, class, owner)

Event(t) ==
    \/ \E s \in Sessions : OfSession(t, s)
    \/ \E e \in Evidence : OfUser(t, e)
    \/ \E passed \in BOOLEAN : PhaseEnd(t, passed)
    \/ PhaseInterrupt(t) \/ PhaseResume(t) \/ Coordination(t)
    \/ DesignReady(t) \/ Acceptance(t)
    \/ \E b \in Blockers : Blocker(t, b) \/ Resolve(t, b)
    \/ \E pr \in PullRequests : Delivery(t, pr)

Next ==
    \/ \E t \in Roots, profile \in Profiles, s \in Sessions, e \in Evidence :
          Initialize(t, profile, s, e)
    \/ \E t, parent \in Tickets, review \in BOOLEAN : InitializeChild(t, parent, review)
    \/ \E t \in DOMAIN state : Event(t)
    \/ Edit \/ Die \/ ClearLock

Spec == Init /\ [][Next]_vars

-----------------------------------------------------------------------------
(* Properties.                                                               *)

\* check_pr: the CI gate on a pull request with this content.
CheckPr(t, pr, content) ==
    /\ t \in DOMAIN state /\ state[t].delivered
    /\ state[t].pr = pr /\ state[t].binding = content

Passing(t, kind, content) ==
    {check \in checks[t] : check.kind = kind /\ check.content = content}

\* What the CI gate lets through was, with exactly that content and since the last
\* phase that may have written, verified, accepted and, where required, reviewed, and
\* a consequential ticket's design was challenged as it stands: phases, interruptions,
\* resets and continuations cannot carry an old result over.
GateIsEarned ==
    \A t \in Tickets, pr \in PullRequests, c \in Contents :
        CheckPr(t, pr, c) =>
            /\ Passing(t, "verified", c) # {} /\ Passing(t, "accepted", c) # {}
            /\ state[t].profile.review => Passing(t, "reviewed", c) # {}
            /\ Consequential(state[t]) =>
                  {state[t].design, state[t].challenge, state[t].approved} = {state[t].capsule}

\* A failed verification, a failed final review or a blocker is answered by a
\* remediation that starts after it and passes before the ticket is delivered.
FailuresAreRepaired ==
    \A t \in DOMAIN state : state[t].delivered => debt[t] = "none"

\* The reviewer whose pass the delivery of a ticket rests on wrote nothing in this ticket,
\* and took no part in any other ticket of its lineage.
ReviewIsIndependent ==
    \A t \in DOMAIN state : \A check \in checks[t] :
        check.kind = "reviewed" /\ state[t].delivered =>
            /\ check.session \notin state[t].writers
            /\ \A u \in Lineage(state, t) \ {t} : check.session \notin People(state[u])

\* However often a ticket is split, all tickets of its lineage together never start a
\* counted phase more often than the root was allowed and users granted.
AllowanceConserved ==
    \A t \in DOMAIN state : state[t].ancestry = <<>> =>
        LET spent == Sum([u \in Lineage(state, t) |-> state[u].local])
            given == Sum([u \in Lineage(state, t) |-> granted[u]])
        IN \A p \in Counted : spent[p] <= COUNTS[p] + given[p]
=============================================================================
