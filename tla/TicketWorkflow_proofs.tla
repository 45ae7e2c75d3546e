------------------------- MODULE TicketWorkflow_proofs -------------------------
(***************************************************************************)
(* Theorems about the ledgers of TicketWorkflow, for any number of tickets, *)
(* sessions, contents, blockers and users' grants.                         *)
(***************************************************************************)
EXTENDS TicketWorkflow, FiniteSetTheorems, SequenceTheorems, WellFoundedInduction, TLAPS

-----------------------------------------------------------------------------
(* Types.                                                                    *)

Ref == [gen : Nat, rev : Nat]
Digest == Contents \cup {NoContent}
Person == Sessions \cup {NoSession}
Reserving == [phase : Phases, session : Sessions, capsule : Ref, content : Digest]
Reservation == {NoPhase} \cup Reserving
RoleName == {"none", "planner", "architect", "reviewer", "worker"}
Vector == [Counted -> Nat]
Profile == [class : Classes, review : BOOLEAN]
RoleMap == [Sessions -> RoleName]
BlockerMap == [Blockers -> Nat]
Share == [counts : Vector, limits : Vector, class : Classes, owner : Sessions,
          evidence : Evidence]
SplitMap == UNION {[kids -> Share] : kids \in SUBSET Tickets}

Ledger ==
    [profile : Profile, capsule : Ref, owner : Sessions,
     owners : SUBSET Sessions, refs : SUBSET Evidence, consumed : SUBSET Evidence,
     ancestry : Seq(Tickets), roles : RoleMap, writers : SUBSET Sessions,
     design : Ref, challenge : Ref, approved : Ref,
     verified : Digest, accepted : Digest, reviewed : Digest,
     limits : Vector, counts : Vector, local : Vector,
     active : Reservation, suspended : Reservation, clock : BOOLEAN,
     designer : Person, designStarted : BOOLEAN, challenger : Person,
     author : Person, ready : BOOLEAN, initialFailed : BOOLEAN,
     remediated : BOOLEAN, finalFailed : BOOLEAN, blockers : BlockerMap,
     delivered : BOOLEAN, binding : Digest, pr : PullRequests \cup {NoPr}, retired : BOOLEAN,
     splits : SplitMap,
     amended : 0..3, pendingRepair : BOOLEAN, repairCount : Nat]

\* The fields of a ledger, for steps that need no more than their presence.
Fields == {"profile", "capsule", "owner", "owners", "refs", "consumed", "ancestry", "roles",
           "writers", "design", "challenge", "approved", "verified", "accepted", "reviewed",
           "limits", "counts", "local", "active", "suspended", "clock", "designer",
           "designStarted", "challenger", "author", "ready", "initialFailed", "remediated",
           "finalFailed", "blockers", "delivered", "binding", "pr", "retired", "splits",
           "amended", "pendingRepair", "repairCount"}

LEMMA LedgerFields ==
    ASSUME NEW r \in Ledger
    PROVE  DOMAIN r = Fields
  BY DEF Ledger, Fields

LEMMA NewLedger ==
    ASSUME NEW profile \in Profile, NEW s \in Sessions,
           NEW e \in Evidence
    PROVE  State(profile, s, e) \in Ledger
<1>. DEFINE r == State(profile, s, e)
<1>1. <<>> \in Seq(Tickets) /\ NoRef \in Ref /\ [gen |-> 1, rev |-> 0] \in Ref
  BY DEF NoRef, Ref
<1>2. COUNTS \in Vector /\ NoCounts \in Vector
  BY DEF COUNTS, NoCounts, Vector
<1>3. NoSplit \in SplitMap
  <2>1. NoSplit \in [{} -> Share]
    BY DEF NoSplit
  <2>. QED BY <2>1 DEF SplitMap
<1>4. [s1 \in Sessions |-> "none"] \in RoleMap /\ [b \in Blockers |-> 0] \in BlockerMap
  BY DEF RoleMap, RoleName, BlockerMap
<1>. QED BY <1>1, <1>2, <1>3, <1>4 DEF State, Ledger, Digest, Person, Reservation

-----------------------------------------------------------------------------
(* The invariant of one ledger: r with the history c of checks and the debt d. *)

During(r, phases) == r.active.phase \in phases \/ r.suspended.phase \in phases

\* A repair or blocker of this number still asks for a remediation.
Unanswered(r, n) == n > r.local["remediation"] \/ (n > 0 /\ ~r.remediated)

\* What keeps a ledger from being delivered without one.
AsksForRepair(r) ==
    \/ r.finalFailed \/ r.pendingRepair
    \/ Unanswered(r, r.repairCount)
    \/ \E b \in Blockers : Unanswered(r, r.blockers[b])

\* A debt lasts as long as the ledger asks for a repair.
Repairs(r, d) ==
    /\ r.active # NoPhase => r.suspended = NoPhase
    /\ ~Idle(r) => ~r.finalFailed
    /\ r.repairCount > 0 => r.verified = NoContent
    /\ During(r, {"verification"}) => ~Unanswered(r, r.repairCount)
    /\ During(r, {"remediation"}) => ~r.remediated /\ r.local["remediation"] > 0
    /\ d \in {"none", "open", "repairing"}
    /\ d = "repairing" => /\ During(r, {"remediation"})
                          /\ r.pendingRepair \/ Blocked(r) \/ r.repairCount > 0
    /\ d = "open" => AsksForRepair(r)
    /\ d = "open" /\ During(r, {"remediation"}) =>
          \E b \in Blockers : r.blockers[b] > r.local["remediation"]
    /\ r.delivered => d = "none"

Shown(c, kind, content) == \E x \in c : x.kind = kind /\ x.content = content
Agreed(r) == {r.design, r.challenge, r.approved} = {r.capsule}

\* Results a ledger holds were earned since the last phase that may have written, and the
\* challenge of a consequential design that is ready stands.
Earned(r, c) ==
    /\ r.verified # NoContent => Shown(c, "verified", r.verified)
    /\ r.accepted # NoContent => Shown(c, "accepted", r.accepted)
    /\ r.reviewed # NoContent => Shown(c, "reviewed", r.reviewed)
    /\ r.designer # NoSession => r.designStarted
    /\ r.challenge # NoRef => r.challenger # NoSession
    /\ r.ready /\ Consequential(r) =>
          /\ Agreed(r) /\ r.designStarted /\ r.challenger # NoSession
          /\ ~During(r, {"design", "challenge", "design_reset"})
    /\ r.delivered =>
          /\ Idle(r) /\ r.binding # NoContent
          /\ r.verified = r.binding /\ r.accepted = r.binding
          /\ r.profile.review => r.reviewed = r.binding
          /\ Consequential(r) => Agreed(r)

\* Nobody writes and reviews.
Independent(r, c) ==
    /\ r.active.phase \in Reviews => r.roles[r.active.session] = "reviewer"
    /\ r.suspended.phase \in Reviews => r.roles[r.suspended.session] = "reviewer"
    /\ \A s \in r.writers : r.roles[s] = "worker"
    /\ \A x \in c : x.kind = "reviewed" =>
          x.session \in Sessions /\ r.roles[x.session] = "reviewer"

Sound(r, c, d) == r \in Ledger /\ Repairs(r, d) /\ Earned(r, c) /\ Independent(r, c)

\* The invariant of the program.
Histories == [kind : {"verified", "accepted", "reviewed"}, content : Digest, session : Person]

TypeOK ==
    /\ DOMAIN state \subseteq Tickets /\ state \in [DOMAIN state -> Ledger]
    /\ tree \in [Tickets -> Contents] /\ lock \in BOOLEAN
    /\ checks \in [Tickets -> SUBSET Histories]
    /\ debt \in [Tickets -> {"none", "open", "repairing"}]
    /\ granted \in [Tickets -> Vector]

TicketInv ==
    /\ TypeOK
    /\ \A t \in DOMAIN state : Sound(state[t], checks[t], debt[t])
    /\ \A t \in Tickets \ DOMAIN state :
          checks[t] = {} /\ debt[t] = "none" /\ granted[t] = NoCounts
    /\ LineageAgrees(state) /\ AllocationsAgree(state)

-----------------------------------------------------------------------------
(* Parts of a ledger that an event leaves alone.                             *)

SamePlan(r, n) ==
    /\ n.profile = r.profile /\ n.capsule = r.capsule /\ n.ready = r.ready
    /\ n.design = r.design /\ n.challenge = r.challenge /\ n.approved = r.approved
    /\ n.designer = r.designer /\ n.designStarted = r.designStarted
    /\ n.challenger = r.challenger

SamePhase(r, n) == n.active = r.active /\ n.suspended = r.suspended

SameRepairs(r, n) ==
    /\ n.finalFailed = r.finalFailed /\ n.remediated = r.remediated
    /\ n.pendingRepair = r.pendingRepair /\ n.repairCount = r.repairCount
    /\ n.local = r.local /\ n.blockers = r.blockers

SameResults(r, n) ==
    /\ n.verified = r.verified /\ n.accepted = r.accepted /\ n.reviewed = r.reviewed
    /\ n.delivered = r.delivered /\ n.binding = r.binding

SamePeople(r, n) == n.roles = r.roles /\ n.writers = r.writers

LEMMA RepairsKept ==
    ASSUME NEW r, NEW n, NEW d, Repairs(r, d), SamePhase(r, n), SameRepairs(r, n),
           n.verified = r.verified, n.delivered = r.delivered
    PROVE  Repairs(n, d)
  BY DEF Repairs, SamePhase, SameRepairs, Idle, During, Unanswered, AsksForRepair, Blocked

LEMMA EarnedKept ==
    ASSUME NEW r, NEW n, NEW c, Earned(r, c), SamePhase(r, n), SamePlan(r, n),
           SameResults(r, n)
    PROVE  Earned(n, c)
  BY DEF Earned, SamePhase, SamePlan, SameResults, Idle, During, Consequential, Agreed

LEMMA IndependentKept ==
    ASSUME NEW r, NEW n, NEW c, Independent(r, c), SamePhase(r, n), SamePeople(r, n)
    PROVE  Independent(n, c)
  BY DEF Independent, SamePhase, SamePeople

LEMMA LedgerNumbers ==
    ASSUME NEW r \in Ledger
    PROVE  /\ r.local["remediation"] \in Nat /\ r.repairCount \in Nat
           /\ r.blockers \in [Blockers -> Nat] /\ r.local \in Vector
<1>1. r.local \in Vector /\ r.blockers \in BlockerMap /\ r.repairCount \in Nat
  BY DEF Ledger
<1>. QED BY <1>1 DEF Vector, Counted, BlockerMap

LEMMA KnownTicket ==
    ASSUME TicketInv, NEW t \in DOMAIN state
    PROVE  /\ t \in Tickets /\ Sound(state[t], checks[t], debt[t]) /\ state[t] \in Ledger
           /\ checks[t] \in SUBSET Histories /\ granted[t] \in Vector
           /\ checks = [checks EXCEPT ![t] = checks[t]]
           /\ debt = [debt EXCEPT ![t] = debt[t]]
           /\ granted = [granted EXCEPT ![t] = granted[t]]
  BY DEF TicketInv, TypeOK, Sound

-----------------------------------------------------------------------------
(* Appending an event.                                                       *)

LEMMA AppendStep ==
    ASSUME TicketInv, NEW t \in Tickets, NEW n, AppendEvent(t, n),
           NEW c \in SUBSET Histories, NEW d, NEW g \in Vector, Sound(n, c, d),
           checks' = [checks EXCEPT ![t] = c], debt' = [debt EXCEPT ![t] = d],
           granted' = [granted EXCEPT ![t] = g]
    PROVE  TicketInv'
<1>. DEFINE map == [u \in DOMAIN state \cup {t} |-> IF u = t THEN n ELSE state[u]]
<1>1. /\ state' = map /\ LineageAgrees(map) /\ AllocationsAgree(map)
      /\ lock' \in {FALSE, WritersDie} /\ tree' \in [Tickets -> Contents]
  BY DEF AppendEvent
<1>2. /\ DOMAIN state' = DOMAIN state \cup {t} /\ DOMAIN state \subseteq Tickets
      /\ state'[t] = n /\ \A u \in DOMAIN state \ {t} : state'[u] = state[u]
  BY <1>1 DEF TicketInv, TypeOK
<1>3. /\ checks'[t] = c /\ \A u \in Tickets \ {t} : checks'[u] = checks[u]
      /\ debt'[t] = d /\ \A u \in Tickets \ {t} : debt'[u] = debt[u]
      /\ granted'[t] = g /\ \A u \in Tickets \ {t} : granted'[u] = granted[u]
  BY DEF TicketInv, TypeOK
<1>4. \A u \in DOMAIN state' : Sound(state'[u], checks'[u], debt'[u])
  BY <1>2, <1>3 DEF TicketInv
<1>5. \A u \in Tickets \ DOMAIN state' :
         checks'[u] = {} /\ debt'[u] = "none" /\ granted'[u] = NoCounts
  BY <1>2, <1>3 DEF TicketInv
<1>6. d \in {"none", "open", "repairing"}
  BY DEF Sound, Repairs
<1>7. TypeOK'
  <2>1. state' \in [DOMAIN state' -> Ledger] /\ DOMAIN state' \subseteq Tickets
    BY <1>1, <1>2, <1>4 DEF Sound
  <2>2. lock' \in BOOLEAN
    BY <1>1, WorkflowConstants
  <2>. QED BY <1>1, <1>6, <2>1, <2>2 DEF TypeOK, TicketInv
<1>8. LineageAgrees(state)' /\ AllocationsAgree(state)'
  <2>. HIDE DEF map
  <2>. QED BY <1>1
<1>. QED BY <1>4, <1>5, <1>7, <1>8 DEF TicketInv

\* The history does not change.
LEMMA UnrecordedStep ==
    ASSUME TicketInv, NEW t \in DOMAIN state, NEW n, AppendEvent(t, n), Unrecorded,
           Sound(n, checks[t], debt[t])
    PROVE  TicketInv'
<1>1. /\ checks' = [checks EXCEPT ![t] = checks[t]] /\ debt' = [debt EXCEPT ![t] = debt[t]]
      /\ granted' = [granted EXCEPT ![t] = granted[t]]
  BY KnownTicket DEF Unrecorded
<1>. QED BY <1>1, AppendStep, KnownTicket

-----------------------------------------------------------------------------
(* Every event keeps the invariant.                                          *)

LEMMA BlockerStep ==
    ASSUME TicketInv, NEW t \in DOMAIN state, NEW b \in Blockers, Blocker(t, b)
    PROVE  TicketInv'
<1>. DEFINE r == state[t]
            c == checks[t]
            d == debt[t]
            m == IF r.active.phase = "remediation" THEN r.local["remediation"]
                 ELSE r.local["remediation"] + 1
            k == [r.blockers EXCEPT ![b] = m]
            n == [r EXCEPT !.blockers[b] = m]
            e == IF r.active.phase = "remediation" /\ d # "open" THEN "repairing" ELSE "open"
<1>1. /\ ~Terminal(r) /\ r.blockers[b] = 0 /\ AppendEvent(t, n)
      /\ debt' = [debt EXCEPT ![t] = e] /\ UNCHANGED <<checks, granted>>
  BY DEF Blocker
<1>2. /\ t \in Tickets /\ Sound(r, c, d) /\ r \in Ledger
      /\ c \in SUBSET Histories /\ granted[t] \in Vector
      /\ checks' = [checks EXCEPT ![t] = c] /\ granted' = [granted EXCEPT ![t] = granted[t]]
  BY <1>1, KnownTicket
<1>. HIDE DEF r, c, d
<1>3. r.local["remediation"] \in Nat /\ m \in Nat /\ r.blockers \in [Blockers -> Nat]
  BY <1>2, LedgerNumbers
<1>4. k \in BlockerMap /\ k[b] = m /\ \A x \in Blockers \ {b} : k[x] = r.blockers[x]
  <2>. HIDE DEF m
  <2>. QED BY <1>3 DEF BlockerMap
<1>5. n \in Ledger /\ n.blockers = k
  <2>. HIDE DEF m
  <2>. QED BY <1>2, <1>4, ZenonT(60) DEF Ledger
<1>. HIDE DEF k
<1>6. /\ SamePlan(r, n) /\ SamePhase(r, n) /\ SameResults(r, n) /\ SamePeople(r, n)
      /\ n.finalFailed = r.finalFailed /\ n.remediated = r.remediated
      /\ n.pendingRepair = r.pendingRepair /\ n.repairCount = r.repairCount
      /\ n.local = r.local
  <2>1. DOMAIN r = Fields
    BY <1>2, LedgerFields
  <2>. QED BY <2>1 DEF Fields, SamePlan, SamePhase, SameResults, SamePeople
<1>. HIDE DEF n
<1>7. Earned(n, c) /\ Independent(n, c)
  BY <1>2, <1>6, EarnedKept, IndependentKept DEF Sound
<1>8. Repairs(n, e)
  <2>. HIDE DEF m
  <2>1. \/ r.active.phase = "remediation" /\ m = r.local["remediation"]
        \/ r.active.phase # "remediation" /\ m = r.local["remediation"] + 1
    BY DEF m
  <2>. QED BY <1>1, <1>2, <1>3, <1>4, <1>5, <1>6, <2>1
    DEF Sound, Repairs, During, Idle, Terminal, NoPhase,
      AsksForRepair, Unanswered, Blocked, SamePhase, SameResults
<1>9. Sound(n, c, e)
  BY <1>5, <1>7, <1>8 DEF Sound
<1>. QED BY <1>1, <1>2, <1>9, AppendStep

LEMMA ResolveStep ==
    ASSUME TicketInv, NEW t \in DOMAIN state, NEW b \in Blockers, Resolve(t, b)
    PROVE  TicketInv'
<1>. DEFINE r == state[t]
            k == [r.blockers EXCEPT ![b] = 0]
            n == [r EXCEPT !.blockers[b] = 0]
<1>1. /\ ~Terminal(r) /\ r.active = NoPhase /\ AppendEvent(t, n) /\ Unrecorded
      /\ r.remediated /\ r.local["remediation"] >= r.blockers[b]
  BY DEF Resolve
<1>2. Sound(r, checks[t], debt[t]) /\ r \in Ledger
  BY KnownTicket
<1>. HIDE DEF r
<1>3. r.local["remediation"] \in Nat /\ r.blockers \in [Blockers -> Nat] /\ r.repairCount \in Nat
  BY <1>2, LedgerNumbers
<1>4. k \in BlockerMap /\ k[b] = 0 /\ \A x \in Blockers \ {b} : k[x] = r.blockers[x]
  BY <1>3 DEF BlockerMap
<1>5. n \in Ledger /\ n.blockers = k
  BY <1>2, <1>4, ZenonT(60) DEF Ledger
<1>. HIDE DEF k
<1>6. /\ SamePlan(r, n) /\ SamePhase(r, n) /\ SameResults(r, n) /\ SamePeople(r, n)
      /\ n.finalFailed = r.finalFailed /\ n.remediated = r.remediated
      /\ n.pendingRepair = r.pendingRepair /\ n.repairCount = r.repairCount
      /\ n.local = r.local
  <2>1. DOMAIN r = Fields
    BY <1>2, LedgerFields
  <2>. QED BY <2>1 DEF Fields, SamePlan, SamePhase, SameResults, SamePeople
<1>. HIDE DEF n
<1>7. Earned(n, checks[t]) /\ Independent(n, checks[t])
  BY <1>2, <1>6, EarnedKept, IndependentKept DEF Sound
<1>8. Repairs(n, debt[t])
  BY <1>1, <1>2, <1>3, <1>4, <1>5, <1>6
  DEF Sound, Repairs, During, Idle, NoPhase,
      AsksForRepair, Unanswered, Blocked, SamePhase, SameResults
<1>. QED BY <1>1, <1>5, <1>7, <1>8, UnrecordedStep DEF Sound

LEMMA InterruptStep ==
    ASSUME TicketInv, NEW t \in DOMAIN state, PhaseInterrupt(t)
    PROVE  TicketInv'
<1>. DEFINE r == state[t]
            n == [r EXCEPT !.suspended = r.active, !.active = NoPhase, !.clock = FALSE]
<1>1. r.active # NoPhase /\ AppendEvent(t, n) /\ Unrecorded
  BY DEF PhaseInterrupt
<1>2. Sound(r, checks[t], debt[t]) /\ r \in Ledger
  BY KnownTicket
<1>. HIDE DEF r
<1>3. /\ n \in Ledger /\ n.active = NoPhase /\ n.suspended = r.active
      /\ SamePlan(r, n) /\ SameRepairs(r, n) /\ SameResults(r, n) /\ SamePeople(r, n)
  <2>1. DOMAIN r = Fields
    BY <1>2, LedgerFields
  <2>2. n \in Ledger
    BY <1>2, ZenonT(60) DEF Ledger, Reservation
  <2>3. /\ n.active = NoPhase /\ n.suspended = r.active
        /\ SamePlan(r, n) /\ SameRepairs(r, n)
    BY <2>1 DEF Fields, SamePlan, SameRepairs
  <2>4. SameResults(r, n) /\ SamePeople(r, n)
    BY <2>1 DEF Fields, SameResults, SamePeople
  <2>. QED BY <2>2, <2>3, <2>4
<1>. HIDE DEF n
<1>4. Earned(n, checks[t])
  BY <1>1, <1>2, <1>3
  DEF Sound, Earned, SamePlan, SameResults, Idle, During, Consequential, Agreed, NoPhase
<1>5. Independent(n, checks[t])
  BY <1>1, <1>2, <1>3 DEF Sound, Independent, SamePeople, NoPhase, Reviews
<1>6. Repairs(n, debt[t])
  BY <1>1, <1>2, <1>3 DEF Sound, Repairs, During, Idle, NoPhase,
      AsksForRepair, Unanswered, Blocked, SameRepairs, SameResults
<1>. QED BY <1>1, <1>3, <1>4, <1>5, <1>6, UnrecordedStep DEF Sound

LEMMA ResumeStep ==
    ASSUME TicketInv, NEW t \in DOMAIN state, PhaseResume(t)
    PROVE  TicketInv'
<1>. DEFINE r == state[t]
            n == [r EXCEPT !.active = r.suspended, !.suspended = NoPhase, !.clock = TRUE]
<1>1. r.active = NoPhase /\ r.suspended # NoPhase /\ AppendEvent(t, n) /\ Unrecorded
  BY DEF PhaseResume
<1>2. Sound(r, checks[t], debt[t]) /\ r \in Ledger
  BY KnownTicket
<1>. HIDE DEF r
<1>3. /\ n \in Ledger /\ n.active = r.suspended /\ n.suspended = NoPhase
      /\ SamePlan(r, n) /\ SameRepairs(r, n) /\ SameResults(r, n) /\ SamePeople(r, n)
  <2>1. DOMAIN r = Fields
    BY <1>2, LedgerFields
  <2>2. n \in Ledger
    BY <1>2, ZenonT(60) DEF Ledger, Reservation
  <2>3. /\ n.active = r.suspended /\ n.suspended = NoPhase
        /\ SamePlan(r, n) /\ SameRepairs(r, n)
    BY <2>1 DEF Fields, SamePlan, SameRepairs
  <2>4. SameResults(r, n) /\ SamePeople(r, n)
    BY <2>1 DEF Fields, SameResults, SamePeople
  <2>. QED BY <2>2, <2>3, <2>4
<1>. HIDE DEF n
<1>4. Earned(n, checks[t])
  BY <1>1, <1>2, <1>3
  DEF Sound, Earned, SamePlan, SameResults, Idle, During, Consequential, Agreed, NoPhase
<1>5. Independent(n, checks[t])
  BY <1>1, <1>2, <1>3 DEF Sound, Independent, SamePeople, NoPhase, Reviews
<1>6. Repairs(n, debt[t])
  BY <1>1, <1>2, <1>3 DEF Sound, Repairs, During, Idle, NoPhase,
      AsksForRepair, Unanswered, Blocked, SameRepairs, SameResults
<1>. QED BY <1>1, <1>3, <1>4, <1>5, <1>6, UnrecordedStep DEF Sound

LEMMA CoordinationStep ==
    ASSUME TicketInv, NEW t \in DOMAIN state, Coordination(t)
    PROVE  TicketInv'
<1>. DEFINE r == state[t]
            turned == ~r.clock
            n == [r EXCEPT !.clock = turned]
<1>1. AppendEvent(t, n) /\ Unrecorded /\ turned \in BOOLEAN
  BY DEF Coordination
<1>. HIDE DEF turned
<1>2. Sound(r, checks[t], debt[t]) /\ r \in Ledger
  BY KnownTicket
<1>. HIDE DEF r
<1>3. /\ n \in Ledger /\ SamePhase(r, n)
      /\ SamePlan(r, n) /\ SameRepairs(r, n) /\ SameResults(r, n) /\ SamePeople(r, n)
  BY <1>1, <1>2 DEF Ledger, SamePhase, SamePlan, SameRepairs, SameResults, SamePeople
<1>. HIDE DEF n
<1>4. Repairs(n, debt[t]) /\ Earned(n, checks[t]) /\ Independent(n, checks[t])
  BY <1>2, <1>3, RepairsKept, EarnedKept, IndependentKept DEF Sound, SameResults
<1>. QED BY <1>1, <1>3, <1>4, UnrecordedStep DEF Sound

LEMMA HandoffStep ==
    ASSUME TicketInv, NEW t \in DOMAIN state, NEW s \in Sessions, OwnerHandoff(t, s)
    PROVE  TicketInv'
<1>. DEFINE r == state[t]
            n == [r EXCEPT !.owner = s, !.owners = @ \cup {s}]
<1>1. AppendEvent(t, n) /\ Unrecorded
  BY DEF OwnerHandoff
<1>2. Sound(r, checks[t], debt[t]) /\ r \in Ledger
  BY KnownTicket
<1>. HIDE DEF r
<1>3. /\ n \in Ledger /\ SamePhase(r, n)
      /\ SamePlan(r, n) /\ SameRepairs(r, n) /\ SameResults(r, n) /\ SamePeople(r, n)
  <2>1. DOMAIN r = Fields
    BY <1>2, LedgerFields
  <2>2. n \in Ledger
    BY <1>2, ZenonT(60) DEF Ledger
  <2>3. SamePhase(r, n) /\ SamePlan(r, n) /\ SameRepairs(r, n)
    BY <2>1 DEF Fields, SamePhase, SamePlan, SameRepairs
  <2>4. SameResults(r, n) /\ SamePeople(r, n)
    BY <2>1 DEF Fields, SameResults, SamePeople
  <2>. QED BY <2>2, <2>3, <2>4
<1>. HIDE DEF n
<1>4. Repairs(n, debt[t]) /\ Earned(n, checks[t]) /\ Independent(n, checks[t])
  BY <1>2, <1>3, RepairsKept, EarnedKept, IndependentKept DEF Sound, SameResults
<1>. QED BY <1>1, <1>3, <1>4, UnrecordedStep DEF Sound

LEMMA CapsuleStep ==
    ASSUME TicketInv, NEW t \in DOMAIN state, NEW e \in Evidence, CapsuleUpdate(t, e)
    PROVE  TicketInv'
<1>. DEFINE r == state[t]
            ref == [r.capsule EXCEPT !.rev = @ + 1]
            n == [r EXCEPT !.capsule = ref, !.active.capsule = ref,
                           !.refs = @ \cup {e}, !.consumed = @ \cup ({e} \ r.refs)]
<1>1. r.active.phase = "design_reset" /\ AppendEvent(t, n) /\ Unrecorded
  BY DEF CapsuleUpdate
<1>2. Sound(r, checks[t], debt[t]) /\ r \in Ledger
  BY KnownTicket
<1>. HIDE DEF r
<1>3. ref \in Ref
  BY <1>2 DEF Ledger, Ref
<1>4. r.active \in Reserving
  BY <1>1, <1>2 DEF Ledger, Reservation, NoPhase
<1>. HIDE DEF ref
<1>5. /\ [r.active EXCEPT !.capsule = ref] \in Reserving
      /\ [r.active EXCEPT !.capsule = ref].phase = r.active.phase
      /\ [r.active EXCEPT !.capsule = ref].session = r.active.session
  BY <1>3, <1>4 DEF Reserving
<1>6. /\ n \in Ledger /\ n.suspended = r.suspended /\ n.capsule = ref
      /\ n.active \in Reserving
      /\ n.active.phase = r.active.phase /\ n.active.session = r.active.session
      /\ n.profile = r.profile /\ n.ready = r.ready
      /\ n.designer = r.designer /\ n.designStarted = r.designStarted
      /\ n.challenge = r.challenge /\ n.challenger = r.challenger
      /\ SameRepairs(r, n) /\ SameResults(r, n) /\ SamePeople(r, n)
  <2>1. DOMAIN r = Fields
    BY <1>2, LedgerFields
  <2>. DEFINE act == [r.active EXCEPT !.capsule = ref]
              m == [r EXCEPT !.capsule = ref, !.active = act]
              refs == r.refs \cup {e}
              used == r.consumed \cup ({e} \ r.refs)
  <2>2. n = [m EXCEPT !.refs = refs, !.consumed = used]
    BY <2>1 DEF Fields
  <2>3. refs \in SUBSET Evidence /\ used \in SUBSET Evidence
    BY <1>2 DEF Ledger
  <2>4. act \in Reserving /\ act.phase = r.active.phase /\ act.session = r.active.session
    BY <1>5
  <2>. HIDE DEF act, refs, used, n
  <2>5. m \in Ledger
    BY <1>2, <1>3, <2>4, ZenonT(60) DEF Ledger, Reservation
  <2>6. /\ m.capsule = ref /\ m.active = act /\ m.suspended = r.suspended
        /\ m.profile = r.profile /\ m.ready = r.ready
        /\ m.designer = r.designer /\ m.designStarted = r.designStarted
        /\ m.challenge = r.challenge /\ m.challenger = r.challenger
        /\ SameRepairs(r, m) /\ SameResults(r, m) /\ SamePeople(r, m)
    BY <2>1 DEF Fields, SameRepairs, SameResults, SamePeople
  <2>7. DOMAIN m = Fields
    BY <2>1
  <2>. HIDE DEF m
  <2>8. n \in Ledger
    BY <2>2, <2>3, <2>5, ZenonT(60) DEF Ledger
  <2>9. /\ n.capsule = m.capsule /\ n.active = m.active /\ n.suspended = m.suspended
        /\ n.profile = m.profile /\ n.ready = m.ready
        /\ n.designer = m.designer /\ n.designStarted = m.designStarted
        /\ n.challenge = m.challenge /\ n.challenger = m.challenger
        /\ SameRepairs(m, n) /\ SameResults(m, n) /\ SamePeople(m, n)
    BY <2>2, <2>7 DEF Fields, SameRepairs, SameResults, SamePeople
  <2>. QED BY <2>4, <2>6, <2>8, <2>9 DEF SameRepairs, SameResults, SamePeople
<1>. HIDE DEF n
<1>7. r.active # NoPhase /\ n.active # NoPhase
  BY <1>1, <1>6 DEF NoPhase
<1>8. Earned(n, checks[t])
  BY <1>1, <1>2, <1>6, <1>7
  DEF Sound, Earned, SameResults, Idle, During, Consequential, Agreed
<1>9. Independent(n, checks[t])
  BY <1>2, <1>6 DEF Sound, Independent, SamePeople
<1>10. Repairs(n, debt[t])
  BY <1>1, <1>2, <1>6, <1>7 DEF Sound, Repairs, During, Idle,
      AsksForRepair, Unanswered, Blocked, SameRepairs, SameResults
<1>. QED BY <1>1, <1>6, <1>8, <1>9, <1>10, UnrecordedStep DEF Sound

LEMMA DesignReadyStep ==
    ASSUME TicketInv, NEW t \in DOMAIN state, DesignReady(t)
    PROVE  TicketInv'
<1>. DEFINE r == state[t]
            n == [r EXCEPT !.approved = r.capsule, !.ready = TRUE]
<1>1. /\ ~Terminal(r) /\ Idle(r) /\ AppendEvent(t, n) /\ Unrecorded
      /\ Consequential(r) \/ r.designStarted => r.designer # NoSession
      /\ Consequential(r) => ChallengeOk(r) /\ {r.design, r.challenge} = {r.capsule}
  BY DEF DesignReady
<1>2. Sound(r, checks[t], debt[t]) /\ r \in Ledger
  BY KnownTicket
<1>. HIDE DEF r
<1>3. /\ n \in Ledger /\ SamePhase(r, n)
      /\ SameRepairs(r, n) /\ SameResults(r, n) /\ SamePeople(r, n)
      /\ n.approved = r.capsule /\ n.profile = r.profile /\ n.capsule = r.capsule
      /\ n.design = r.design /\ n.challenge = r.challenge
      /\ n.designer = r.designer /\ n.designStarted = r.designStarted
      /\ n.challenger = r.challenger
  <2>1. DOMAIN r = Fields
    BY <1>2, LedgerFields
  <2>2. n \in Ledger
    BY <1>2, ZenonT(60) DEF Ledger
  <2>3. /\ SamePhase(r, n) /\ SameRepairs(r, n)
        /\ SameResults(r, n) /\ SamePeople(r, n)
    BY <2>1 DEF Fields, SamePhase, SameRepairs, SameResults, SamePeople
  <2>4. /\ n.approved = r.capsule /\ n.profile = r.profile /\ n.capsule = r.capsule
        /\ n.design = r.design /\ n.challenge = r.challenge
        /\ n.designer = r.designer /\ n.designStarted = r.designStarted
        /\ n.challenger = r.challenger
    BY <2>1 DEF Fields
  <2>. QED BY <2>2, <2>3, <2>4
<1>. HIDE DEF n
<1>4. Repairs(n, debt[t]) /\ Independent(n, checks[t])
  BY <1>2, <1>3, RepairsKept, IndependentKept DEF Sound, SameResults
<1>5. Consequential(r) => Agreed(n)
  BY <1>1, <1>3 DEF Agreed
<1>6. Earned(n, checks[t])
  BY <1>1, <1>2, <1>3, <1>5
  DEF Sound, Earned, SameResults, SamePhase, Idle, During, Consequential, NoPhase,
      ChallengeOk, Terminal
<1>. QED BY <1>1, <1>3, <1>4, <1>6, UnrecordedStep DEF Sound

LEMMA AcceptanceStep ==
    ASSUME TicketInv, NEW t \in DOMAIN state, Acceptance(t)
    PROVE  TicketInv'
<1>. DEFINE r == state[t]
            x == [kind |-> "accepted", content |-> tree[t], session |-> NoSession]
            c == checks[t] \cup {x}
            n == [r EXCEPT !.accepted = tree[t]]
<1>1. /\ ~Terminal(r) /\ AppendEvent(t, n) /\ checks' = [checks EXCEPT ![t] = c]
      /\ UNCHANGED <<debt, granted>>
  BY DEF Acceptance
<1>2. /\ t \in Tickets /\ Sound(r, checks[t], debt[t]) /\ r \in Ledger
      /\ checks[t] \in SUBSET Histories /\ granted[t] \in Vector
      /\ debt' = [debt EXCEPT ![t] = debt[t]] /\ granted' = [granted EXCEPT ![t] = granted[t]]
  BY <1>1, KnownTicket
<1>3. tree[t] \in Digest
  BY <1>2 DEF TicketInv, TypeOK, Digest
<1>4. /\ x \in Histories /\ x.kind = "accepted" /\ x.content = tree[t]
      /\ c \in SUBSET Histories /\ x \in c /\ \A y \in c : y \in checks[t] \/ y = x
  BY <1>2, <1>3 DEF Histories, Person
<1>. HIDE DEF r, x, c
<1>5. /\ n \in Ledger /\ n.accepted = tree[t] /\ n.verified = r.verified
      /\ n.reviewed = r.reviewed /\ n.delivered = r.delivered /\ n.binding = r.binding
      /\ SamePlan(r, n) /\ SamePhase(r, n) /\ SameRepairs(r, n) /\ SamePeople(r, n)
  <2>1. DOMAIN r = Fields
    BY <1>2, LedgerFields
  <2>2. n \in Ledger
    BY <1>2, <1>3, ZenonT(60) DEF Ledger
  <2>3. /\ SamePlan(r, n) /\ SamePhase(r, n) /\ SameRepairs(r, n) /\ SamePeople(r, n)
    BY <2>1 DEF Fields, SamePlan, SamePhase, SameRepairs, SamePeople
  <2>4. /\ n.accepted = tree[t] /\ n.verified = r.verified
        /\ n.reviewed = r.reviewed /\ n.delivered = r.delivered /\ n.binding = r.binding
    BY <2>1 DEF Fields
  <2>. QED BY <2>2, <2>3, <2>4
<1>. HIDE DEF n
<1>6. checks[t] \subseteq c
  BY DEF c
<1>7. Earned(n, c)
  BY <1>1, <1>2, <1>4, <1>5, <1>6
  DEF Sound, Earned, Shown, SamePlan, SamePhase, Idle, During, Consequential, Agreed, Terminal
<1>8. Independent(n, c)
  BY <1>2, <1>4, <1>5 DEF Sound, Independent, SamePeople, SamePhase
<1>9. Repairs(n, debt[t])
  BY <1>2, <1>5, RepairsKept DEF Sound
<1>. QED BY <1>1, <1>2, <1>4, <1>5, <1>7, <1>8, <1>9, AppendStep DEF Sound

LEMMA AmendStep ==
    ASSUME TicketInv, NEW t \in DOMAIN state, NEW e \in Evidence, Amend(t, e)
    PROVE  TicketInv'
<1>. DEFINE r == state[t]
            n == Amended(r, e)
<1>1. /\ ~Terminal(r) /\ Idle(r) /\ ~r.finalFailed /\ r.profile.review /\ r.amended < 3
      /\ AppendEvent(t, n) /\ checks' = [checks EXCEPT ![t] = {}]
      /\ UNCHANGED <<debt, granted>>
  BY DEF Amend, MayAmend
<1>2. /\ t \in Tickets /\ Sound(r, checks[t], debt[t]) /\ r \in Ledger /\ granted[t] \in Vector
      /\ debt' = [debt EXCEPT ![t] = debt[t]] /\ granted' = [granted EXCEPT ![t] = granted[t]]
  BY <1>1, KnownTicket
<1>. HIDE DEF r
<1>. DEFINE q == [r.capsule EXCEPT !.gen = r.capsule.gen + 1]
            p == [r.profile EXCEPT !.class = "consequential"]
            a == r.amended + 1
            u == r.consumed \cup {e}
            f == r.refs \cup {e}
            m1 == [r EXCEPT !.capsule = q, !.profile = p, !.amended = a,
                            !.consumed = u, !.refs = f, !.ready = FALSE]
            m2 == [m1 EXCEPT !.challenge = NoRef, !.design = NoRef, !.approved = NoRef,
                             !.designer = NoSession, !.challenger = NoSession,
                             !.author = NoSession]
            m == [m2 EXCEPT !.designStarted = TRUE, !.remediated = FALSE,
                            !.verified = NoContent, !.accepted = NoContent,
                            !.reviewed = NoContent]
<1>3. /\ q \in Ref /\ NoRef \in Ref /\ p \in Profile /\ a \in 0..3
      /\ u \in SUBSET Evidence /\ f \in SUBSET Evidence
      /\ NoContent \in Digest /\ NoSession \in Person
  <2>1. r.capsule \in Ref /\ r.profile \in Profile /\ r.amended \in 0..3
    BY <1>2 DEF Ledger
  <2>2. q \in Ref /\ NoRef \in Ref
    BY <2>1 DEF Ref, NoRef
  <2>3. p \in Profile
    BY <2>1 DEF Profile, Classes
  <2>4. u \in SUBSET Evidence /\ f \in SUBSET Evidence
    BY <1>2 DEF Ledger
  <2>. QED BY <1>1, <2>1, <2>2, <2>3, <2>4 DEF Digest, Person
<1>4. n = m
  BY DEF Amended
<1>. HIDE DEF q, p, a, u, f
<1>5. /\ m1 \in Ledger /\ m1.ready = FALSE
      /\ SamePhase(r, m1) /\ SamePeople(r, m1) /\ SameRepairs(r, m1)
      /\ m1.delivered = r.delivered
  <2>1. DOMAIN r = Fields
    BY <1>2, LedgerFields
  <2>2. m1 \in Ledger
    BY <1>2, <1>3, ZenonT(60) DEF Ledger
  <2>3. /\ m1.ready = FALSE /\ m1.delivered = r.delivered
        /\ SamePhase(r, m1) /\ SamePeople(r, m1) /\ SameRepairs(r, m1)
    BY <2>1 DEF Fields, SamePhase, SamePeople, SameRepairs
  <2>. QED BY <2>2, <2>3
<1>. HIDE DEF m1
<1>6. /\ m2 \in Ledger /\ m2.ready = FALSE /\ m2.designer = NoSession /\ m2.challenge = NoRef
      /\ SamePhase(r, m2) /\ SamePeople(r, m2) /\ SameRepairs(r, m2)
      /\ m2.delivered = r.delivered
  <2>1. DOMAIN m1 = Fields
    BY <1>5, LedgerFields
  <2>2. m2 \in Ledger
    BY <1>3, <1>5, ZenonT(60) DEF Ledger
  <2>3. /\ m2.ready = m1.ready /\ m2.designer = NoSession /\ m2.challenge = NoRef
        /\ m2.delivered = m1.delivered
        /\ SamePhase(m1, m2) /\ SamePeople(m1, m2) /\ SameRepairs(m1, m2)
    BY <2>1 DEF Fields, SamePhase, SamePeople, SameRepairs
  <2>. HIDE DEF m2
  <2>. QED BY <1>5, <2>2, <2>3 DEF SamePhase, SamePeople, SameRepairs
<1>. HIDE DEF m2
<1>7. /\ m \in Ledger /\ m.ready = FALSE /\ m.designer = NoSession /\ m.challenge = NoRef
      /\ m.remediated = FALSE
      /\ m.verified = NoContent /\ m.accepted = NoContent /\ m.reviewed = NoContent
      /\ SamePhase(r, m) /\ SamePeople(r, m) /\ m.delivered = r.delivered
      /\ m.finalFailed = r.finalFailed /\ m.pendingRepair = r.pendingRepair
      /\ m.repairCount = r.repairCount /\ m.local = r.local /\ m.blockers = r.blockers
  <2>1. DOMAIN m2 = Fields
    BY <1>6, LedgerFields
  <2>2. m \in Ledger
    BY <1>3, <1>6, ZenonT(60) DEF Ledger
  <2>3. /\ m.ready = m2.ready /\ m.designer = m2.designer /\ m.challenge = m2.challenge
        /\ m.remediated = FALSE
        /\ m.verified = NoContent /\ m.accepted = NoContent /\ m.reviewed = NoContent
        /\ m.delivered = m2.delivered
        /\ m.finalFailed = m2.finalFailed /\ m.pendingRepair = m2.pendingRepair
        /\ m.repairCount = m2.repairCount /\ m.local = m2.local
        /\ m.blockers = m2.blockers /\ SamePhase(m2, m) /\ SamePeople(m2, m)
    BY <2>1 DEF Fields, SamePhase, SamePeople
  <2>. HIDE DEF m
  <2>. QED BY <1>6, <2>2, <2>3 DEF SamePhase, SamePeople, SameRepairs
<1>. HIDE DEF m, n
<1>8. Earned(n, {})
  BY <1>1, <1>4, <1>7 DEF Earned, Terminal
<1>9. Independent(n, {})
  BY <1>2, <1>4, <1>7 DEF Sound, Independent, SamePhase, SamePeople
<1>10. Repairs(n, debt[t])
  BY <1>1, <1>2, <1>4, <1>7 DEF Sound, Repairs, SamePhase, Idle, During, NoPhase,
      AsksForRepair, Unanswered, Blocked
<1>. QED BY <1>1, <1>2, <1>4, <1>7, <1>8, <1>9, <1>10, AppendStep DEF Sound

LEMMA PlusIsVector ==
    ASSUME NEW a \in Vector, NEW b \in Vector
    PROVE  Plus(a, b) \in Vector /\ \A p \in Counted : Plus(a, b)[p] = a[p] + b[p]
  BY DEF Plus, Vector

LEMMA GrantSound ==
    ASSUME NEW r, NEW c, NEW d, Sound(r, c, d), NEW e \in Evidence, NEW delta \in Vector
    PROVE  LET n == GrantTo(r, e, delta) IN
           /\ Sound(n, c, d) /\ SamePhase(r, n) /\ n.delivered = r.delivered
           /\ n.finalFailed = r.finalFailed
<1>. DEFINE n == GrantTo(r, e, delta)
<1>1. r \in Ledger
  BY DEF Sound
<1>2. /\ r.limits \in Vector /\ Plus(r.limits, delta) \in Vector
      /\ r.consumed \cup {e} \in SUBSET Evidence
  BY <1>1, PlusIsVector DEF Ledger
<1>3. /\ n \in Ledger /\ SamePhase(r, n)
      /\ SamePlan(r, n) /\ SameRepairs(r, n) /\ SameResults(r, n) /\ SamePeople(r, n)
  <2>1. DOMAIN r = Fields
    BY <1>1, LedgerFields
  <2>2. n \in Ledger
    BY <1>1, <1>2, ZenonT(60) DEF GrantTo, Ledger
  <2>3. SamePhase(r, n) /\ SamePlan(r, n) /\ SameRepairs(r, n)
    BY <2>1 DEF GrantTo, Fields, SamePhase, SamePlan, SameRepairs
  <2>4. SameResults(r, n) /\ SamePeople(r, n)
    BY <2>1 DEF GrantTo, Fields, SameResults, SamePeople
  <2>. QED BY <2>2, <2>3, <2>4
<1>. HIDE DEF n
<1>4. Repairs(n, d) /\ Earned(n, c) /\ Independent(n, c)
  BY <1>3, RepairsKept, EarnedKept, IndependentKept DEF Sound, SameResults
<1>. QED BY <1>3, <1>4 DEF Sound, SameRepairs, SameResults, n

\* Whatever held of a ledger at rest, it asks for a repair once it is reopened.
LEMMA ReopenedSound ==
    ASSUME NEW r, NEW c, NEW d, Sound(r, c, d), Idle(r), NEW v \in BOOLEAN, v => ~r.delivered
    PROVE  LET n == IF v THEN Reopened(r) ELSE [Reopened(r) EXCEPT !.delivered = FALSE]
           IN  Sound(n, c, d)
<1>. DEFINE n == IF v THEN Reopened(r) ELSE [Reopened(r) EXCEPT !.delivered = FALSE]
<1>1. r \in Ledger /\ NoContent \in Digest
  BY DEF Sound, Digest
<1>2. /\ n \in Ledger /\ SamePhase(r, n) /\ SamePlan(r, n) /\ SamePeople(r, n)
      /\ n.finalFailed = FALSE /\ n.remediated = FALSE /\ n.pendingRepair = TRUE
      /\ n.verified = NoContent /\ n.accepted = NoContent /\ n.reviewed = NoContent
      /\ n.repairCount = r.repairCount /\ n.local = r.local /\ n.blockers = r.blockers
      /\ n.delivered = IF v THEN r.delivered ELSE FALSE
  <2>. DEFINE m == Reopened(r)
  <2>1. /\ m \in Ledger /\ SamePhase(r, m) /\ SamePlan(r, m) /\ SamePeople(r, m)
        /\ m.finalFailed = FALSE /\ m.remediated = FALSE /\ m.pendingRepair = TRUE
        /\ m.verified = NoContent /\ m.accepted = NoContent /\ m.reviewed = NoContent
        /\ m.repairCount = r.repairCount /\ m.local = r.local /\ m.blockers = r.blockers
        /\ m.delivered = r.delivered
    <3>1. DOMAIN r = Fields
      BY <1>1, LedgerFields
    <3>2. m \in Ledger
      BY <1>1, ZenonT(60) DEF Reopened, Ledger
    <3>3. SamePhase(r, m) /\ SamePlan(r, m) /\ SamePeople(r, m)
      BY <3>1 DEF Reopened, Fields, SamePhase, SamePlan, SamePeople
    <3>4. /\ m.finalFailed = FALSE /\ m.remediated = FALSE /\ m.pendingRepair = TRUE
          /\ m.verified = NoContent /\ m.accepted = NoContent /\ m.reviewed = NoContent
          /\ m.repairCount = r.repairCount /\ m.local = r.local
          /\ m.blockers = r.blockers /\ m.delivered = r.delivered
      BY <3>1 DEF Reopened, Fields
    <3>. HIDE DEF m
    <3>. QED BY <3>2, <3>3, <3>4
  <2>. HIDE DEF m
  <2>2. /\ [m EXCEPT !.delivered = FALSE] \in Ledger
        /\ [m EXCEPT !.delivered = FALSE].delivered = FALSE
    BY <2>1, ZenonT(60) DEF Ledger
  <2>3. CASE v
    <3>1. n = m
      BY <2>3 DEF m
    <3>. HIDE DEF n
    <3>. QED BY <2>1, <2>3, <3>1
  <2>4. CASE ~v
    <3>. DEFINE k == [m EXCEPT !.delivered = FALSE]
    <3>1. /\ SamePhase(m, k) /\ SamePlan(m, k) /\ SamePeople(m, k)
          /\ k.finalFailed = m.finalFailed /\ k.remediated = m.remediated
          /\ k.pendingRepair = m.pendingRepair
          /\ k.verified = m.verified /\ k.accepted = m.accepted /\ k.reviewed = m.reviewed
          /\ k.repairCount = m.repairCount /\ k.local = m.local /\ k.blockers = m.blockers
      BY <2>1 DEF Ledger, SamePhase, SamePlan, SamePeople
    <3>2. n = k
      BY <2>4 DEF m
    <3>. HIDE DEF k, n
    <3>3. n \in Ledger /\ n.delivered = FALSE
      BY <2>2, <3>2 DEF k
    <3>. QED BY <2>1, <2>4, <3>1, <3>2, <3>3 DEF SamePhase, SamePlan, SamePeople
  <2>. QED BY <2>3, <2>4
<1>3. ~n.delivered
  BY <1>2
<1>. HIDE DEF n
<1>4. Repairs(n, d)
  BY <1>2, <1>3 DEF Sound, Repairs, SamePhase, Idle, During, NoPhase,
     AsksForRepair, Unanswered, Blocked
<1>5. Earned(n, c)
  BY <1>2, <1>3 DEF Sound, Earned, SamePhase, SamePlan, Idle, During, Consequential, Agreed
<1>6. Independent(n, c)
  BY <1>2, IndependentKept DEF Sound
<1>. QED BY <1>2, <1>4, <1>5, <1>6 DEF Sound, n

LEMMA ContinuationStep ==
    ASSUME TicketInv, NEW t \in DOMAIN state, NEW e \in Evidence, NEW delta \in Grants,
           Continuation(t, e, delta)
    PROVE  TicketInv'
<1>. DEFINE r == state[t]
            more == GrantTo(r, e, delta)
            n == [Reopened(more) EXCEPT !.delivered = FALSE]
            g == Plus(granted[t], delta)
<1>1. /\ Idle(r) /\ AppendEvent(t, n) /\ granted' = [granted EXCEPT ![t] = g]
      /\ UNCHANGED <<checks, debt>>
  BY DEF Continuation
<1>2. /\ t \in Tickets /\ Sound(r, checks[t], debt[t]) /\ checks[t] \in SUBSET Histories
      /\ granted[t] \in Vector /\ delta \in Vector
      /\ debt' = [debt EXCEPT ![t] = debt[t]] /\ checks' = [checks EXCEPT ![t] = checks[t]]
  BY <1>1, KnownTicket, InputConstants DEF Vector
<1>3. g \in Vector
  BY <1>2, PlusIsVector
<1>. HIDE DEF r, g
<1>4. Sound(more, checks[t], debt[t]) /\ Idle(more)
  BY <1>1, <1>2, GrantSound DEF Idle, SamePhase
<1>. HIDE DEF more
<1>5. Sound(n, checks[t], debt[t])
  BY <1>4, ReopenedSound
<1>. QED BY <1>1, <1>2, <1>3, <1>5, AppendStep

LEMMA ExtensionStep ==
    ASSUME TicketInv, NEW t \in DOMAIN state, NEW e \in Evidence, NEW delta \in Grants,
           Extension(t, e, delta)
    PROVE  TicketInv'
<1>. DEFINE r == state[t]
            more == GrantTo(r, e, delta)
            n == IF r.finalFailed THEN Reopened(more) ELSE more
            g == Plus(granted[t], delta)
<1>1. /\ ~Terminal(r) /\ AppendEvent(t, n) /\ granted' = [granted EXCEPT ![t] = g]
      /\ UNCHANGED <<checks, debt>>
  BY DEF Extension
<1>2. /\ t \in Tickets /\ Sound(r, checks[t], debt[t]) /\ checks[t] \in SUBSET Histories
      /\ granted[t] \in Vector /\ delta \in Vector
      /\ debt' = [debt EXCEPT ![t] = debt[t]] /\ checks' = [checks EXCEPT ![t] = checks[t]]
  BY <1>1, KnownTicket, InputConstants DEF Vector
<1>3. g \in Vector
  BY <1>2, PlusIsVector
<1>. HIDE DEF r, g
<1>4. /\ Sound(more, checks[t], debt[t]) /\ SamePhase(r, more)
      /\ more.delivered = r.delivered /\ more.finalFailed = r.finalFailed
  BY <1>2, GrantSound
<1>. HIDE DEF more
<1>5. Sound(n, checks[t], debt[t])
  <2>1. CASE r.finalFailed
    <3>1. Idle(more) /\ ~more.delivered
      BY <1>1, <1>4, <2>1 DEF Sound, Repairs, Terminal
    <3>. QED BY <1>4, <2>1, <3>1, ReopenedSound
  <2>2. CASE ~r.finalFailed
    BY <1>4, <2>2
  <2>. QED BY <2>1, <2>2
<1>. HIDE DEF n
<1>. QED BY <1>1, <1>2, <1>3, <1>5, AppendStep

LEMMA DeliveryStep ==
    ASSUME TicketInv, NEW t \in DOMAIN state, NEW pr \in PullRequests, Delivery(t, pr)
    PROVE  TicketInv'
<1>. DEFINE r == state[t]
            n == [r EXCEPT !.delivered = TRUE, !.binding = r.verified, !.pr = pr,
                           !.clock = FALSE]
<1>1. GateDelivery(r) /\ AppendEvent(t, n) /\ Unrecorded
  BY DEF Delivery
<1>2. Sound(r, checks[t], debt[t]) /\ r \in Ledger
  BY KnownTicket
<1>. HIDE DEF r
<1>3. /\ n \in Ledger /\ SamePhase(r, n) /\ SamePlan(r, n) /\ SameRepairs(r, n)
      /\ SamePeople(r, n) /\ n.delivered = TRUE /\ n.binding = r.verified
      /\ n.verified = r.verified /\ n.accepted = r.accepted /\ n.reviewed = r.reviewed
  <2>1. DOMAIN r = Fields
    BY <1>2, LedgerFields
  <2>2. n \in Ledger
    BY <1>2, ZenonT(60) DEF Ledger
  <2>3. /\ SamePhase(r, n) /\ SamePlan(r, n) /\ SameRepairs(r, n) /\ SamePeople(r, n)
    BY <2>1 DEF Fields, SamePhase, SamePlan, SameRepairs, SamePeople
  <2>4. /\ n.delivered = TRUE /\ n.binding = r.verified
        /\ n.verified = r.verified /\ n.accepted = r.accepted /\ n.reviewed = r.reviewed
    BY <2>1 DEF Fields
  <2>. QED BY <2>2, <2>3, <2>4
<1>. HIDE DEF n
<1>4. debt[t] = "none"
  <2>1. /\ Idle(r) /\ ~r.finalFailed /\ ~r.pendingRepair /\ r.verified # NoContent
        /\ \A b \in Blockers : ~(r.blockers[b] > 0)
    BY <1>1 DEF GateDelivery, Blocked, Current
  <2>2. /\ r.local["remediation"] \in Nat /\ r.repairCount \in Nat
        /\ r.blockers \in [Blockers -> Nat]
    BY <1>2, LedgerNumbers
  <2>3. \A b \in Blockers : ~Unanswered(r, r.blockers[b])
    BY <2>1, <2>2 DEF Unanswered
  <2>4. ~Unanswered(r, r.repairCount)
    BY <1>2, <2>1, <2>2 DEF Sound, Repairs, Unanswered
  <2>. QED BY <1>2, <2>1, <2>3, <2>4 DEF Sound, Repairs, AsksForRepair, Idle, During, NoPhase
<1>5. Repairs(n, debt[t])
  BY <1>2, <1>3, <1>4 DEF Sound, Repairs, SamePhase, SameRepairs, Idle, During, Unanswered,
     AsksForRepair, Blocked
<1>6. Earned(n, checks[t])
  BY <1>1, <1>2, <1>3 DEF Sound, Earned, GateDelivery, Current, ReviewNeeded,
     SamePhase, SamePlan, Idle, During, Consequential, Agreed
<1>7. Independent(n, checks[t])
  BY <1>2, <1>3, IndependentKept DEF Sound
<1>. QED BY <1>1, <1>3, <1>5, <1>6, <1>7, UnrecordedStep DEF Sound

LEMMA SplitStep ==
    ASSUME TicketInv, NEW t \in DOMAIN state, NEW e \in Evidence,
           NEW kids \in SUBSET Tickets, NEW allocate \in [kids -> Allocations],
           NEW class \in {p.class : p \in Profiles}, NEW owner \in Sessions,
           Split(t, e, allocate, class, owner)
    PROVE  TicketInv'
<1>. DEFINE r == state[t]
            sp == [c \in DOMAIN allocate |->
                      [counts |-> r.counts, limits |-> ChildLimits(r, allocate[c]),
                       class |-> class, owner |-> owner, evidence |-> e]]
            n == [r EXCEPT !.splits = sp, !.retired = TRUE, !.clock = FALSE,
                           !.consumed = @ \cup {e}]
<1>1. AppendEvent(t, n) /\ Unrecorded
  BY DEF Split
<1>2. Sound(r, checks[t], debt[t]) /\ r \in Ledger
  BY KnownTicket
<1>. HIDE DEF r
<1>3. sp \in SplitMap
  <2>1. r.counts \in Vector
    BY <1>2 DEF Ledger
  <2>2. \A c \in kids : allocate[c] \in Vector
    BY InputConstants DEF Vector
  <2>3. \A c \in kids : ChildLimits(r, allocate[c]) \in Vector
    BY <2>1, <2>2, PlusIsVector DEF ChildLimits
  <2>4. class \in Classes
    BY InputConstants
  <2>5. \A c \in kids : [counts |-> r.counts, limits |-> ChildLimits(r, allocate[c]),
                         class |-> class, owner |-> owner, evidence |-> e] \in Share
    BY <2>1, <2>3, <2>4 DEF Share
  <2>6. sp \in [kids -> Share]
    BY <2>5
  <2>. QED BY <2>6 DEF SplitMap
<1>. HIDE DEF sp
<1>4. /\ n \in Ledger /\ SamePhase(r, n)
      /\ SamePlan(r, n) /\ SameRepairs(r, n) /\ SameResults(r, n) /\ SamePeople(r, n)
  <2>1. DOMAIN r = Fields
    BY <1>2, LedgerFields
  <2>2. n \in Ledger
    BY <1>2, <1>3, ZenonT(60) DEF Ledger
  <2>3. SamePhase(r, n) /\ SamePlan(r, n) /\ SameRepairs(r, n)
    BY <2>1 DEF Fields, SamePhase, SamePlan, SameRepairs
  <2>4. SameResults(r, n) /\ SamePeople(r, n)
    BY <2>1 DEF Fields, SameResults, SamePeople
  <2>. QED BY <2>2, <2>3, <2>4
<1>. HIDE DEF n
<1>5. Repairs(n, debt[t]) /\ Earned(n, checks[t]) /\ Independent(n, checks[t])
  BY <1>2, <1>4, RepairsKept, EarnedKept, IndependentKept DEF Sound, SameResults
<1>. QED BY <1>1, <1>4, <1>5, UnrecordedStep DEF Sound

-----------------------------------------------------------------------------
(* A new ledger.                                                             *)

LEMMA FirstStep ==
    ASSUME TicketInv, NEW t \in Tickets \ DOMAIN state, NEW n, AppendEvent(t, n), Unrecorded,
           n \in Ledger, n.active = NoPhase, n.suspended = NoPhase,
           ~n.finalFailed, ~n.delivered, n.repairCount = 0, ~n.ready,
           n.verified = NoContent, n.accepted = NoContent, n.reviewed = NoContent,
           n.designer = NoSession, n.challenge = NoRef, n.writers = {}
    PROVE  TicketInv'
<1>1. checks[t] = {} /\ debt[t] = "none" /\ granted[t] = NoCounts
  BY DEF TicketInv
<1>2. NoCounts \in Vector
  BY DEF NoCounts, Vector
<1>3. /\ checks' = [checks EXCEPT ![t] = {}] /\ debt' = [debt EXCEPT ![t] = "none"]
      /\ granted' = [granted EXCEPT ![t] = NoCounts]
  BY <1>1 DEF TicketInv, TypeOK, Unrecorded
<1>4. n.local["remediation"] \in Nat
  BY LedgerNumbers
<1>5. Repairs(n, "none")
  BY <1>4 DEF Repairs, During, NoPhase, Idle, Unanswered
<1>6. Earned(n, {})
  BY DEF Earned
<1>7. Independent(n, {})
  BY DEF Independent, NoPhase, Reviews
<1>. QED BY <1>2, <1>3, <1>5, <1>6, <1>7, AppendStep DEF Sound

LEMMA InitializeStep ==
    ASSUME TicketInv, NEW t \in Roots, NEW profile \in Profiles, NEW s \in Sessions,
           NEW e \in Evidence, Initialize(t, profile, s, e)
    PROVE  TicketInv'
<1>. DEFINE n == State(profile, s, e)
<1>1. t \in Tickets \ DOMAIN state /\ AppendEvent(t, n) /\ Unrecorded
  BY InputConstants DEF Initialize
<1>2. n \in Ledger
  BY InputConstants, NewLedger DEF Profile
<1>3. /\ n.active = NoPhase /\ n.suspended = NoPhase /\ n.writers = {}
      /\ n.finalFailed = FALSE /\ n.delivered = FALSE /\ n.repairCount = 0 /\ n.ready = FALSE
      /\ n.verified = NoContent /\ n.accepted = NoContent /\ n.reviewed = NoContent
      /\ n.designer = NoSession /\ n.challenge = NoRef
  BY DEF State
<1>. HIDE DEF n
<1>. QED BY <1>1, <1>2, <1>3, FirstStep

LEMMA InitializeChildStep ==
    ASSUME TicketInv, NEW t \in Tickets, NEW parent \in Tickets, NEW review \in BOOLEAN,
           InitializeChild(t, parent, review)
    PROVE  TicketInv'
<1>. DEFINE a == state[parent].splits[t]
            profile == [class |-> a.class, review |-> review]
            m == State(profile, a.owner, a.evidence)
            anc == Append(state[parent].ancestry, parent)
            n == [m EXCEPT !.consumed = {}, !.counts = a.counts, !.limits = a.limits,
                           !.ancestry = anc]
<1>1. /\ t \in Tickets \ DOMAIN state /\ AppendEvent(t, n) /\ Unrecorded
      /\ parent \in DOMAIN state /\ t \in DOMAIN state[parent].splits
  BY DEF InitializeChild
<1>2. state[parent] \in Ledger
  BY <1>1, KnownTicket
<1>3. a \in Share
  <2>1. state[parent].splits \in SplitMap
    BY <1>2 DEF Ledger
  <2>. QED BY <1>1, <2>1 DEF SplitMap
<1>4. anc \in Seq(Tickets)
  <2>1. state[parent].ancestry \in Seq(Tickets)
    BY <1>2 DEF Ledger
  <2>. QED BY <2>1
<1>5. /\ a.counts \in Vector /\ a.limits \in Vector /\ a.owner \in Sessions
      /\ a.evidence \in Evidence /\ profile \in Profile
  BY <1>3 DEF Share, Profile
<1>. HIDE DEF a, anc, profile
<1>6. /\ m \in Ledger /\ m.active = NoPhase /\ m.suspended = NoPhase /\ m.writers = {}
      /\ m.finalFailed = FALSE /\ m.delivered = FALSE /\ m.repairCount = 0 /\ m.ready = FALSE
      /\ m.verified = NoContent /\ m.accepted = NoContent /\ m.reviewed = NoContent
      /\ m.designer = NoSession /\ m.challenge = NoRef
  <2>1. m \in Ledger
    BY <1>5, NewLedger
  <2>. QED BY <2>1 DEF State
<1>. HIDE DEF m
<1>7. /\ n \in Ledger /\ n.active = NoPhase /\ n.suspended = NoPhase /\ n.writers = {}
      /\ n.finalFailed = FALSE /\ n.delivered = FALSE /\ n.repairCount = 0 /\ n.ready = FALSE
      /\ n.verified = NoContent /\ n.accepted = NoContent /\ n.reviewed = NoContent
      /\ n.designer = NoSession /\ n.challenge = NoRef
  <2>1. n \in Ledger
    <3>. DEFINE j == [m EXCEPT !.consumed = {}]
                k == [j EXCEPT !.counts = a.counts]
    <3>1. j \in Ledger
      BY <1>6, ZenonT(60) DEF Ledger
    <3>2. k \in Ledger
      <4>. HIDE DEF j
      <4>. QED BY <1>5, <3>1, ZenonT(60) DEF Ledger
    <3>3. n = [k EXCEPT !.limits = a.limits, !.ancestry = anc]
      OBVIOUS
    <3>. HIDE DEF k, n
    <3>. QED BY <1>4, <1>5, <3>2, <3>3, ZenonT(60) DEF Ledger
  <2>2. DOMAIN m = Fields
    BY <1>6, LedgerFields
  <2>3. SamePhase(m, n) /\ SamePlan(m, n) /\ SameRepairs(m, n)
    BY <2>2 DEF Fields, SamePhase, SamePlan, SameRepairs
  <2>4. SameResults(m, n) /\ SamePeople(m, n)
    BY <2>2 DEF Fields, SameResults, SamePeople
  <2>. HIDE DEF n
  <2>. QED BY <1>6, <2>1, <2>3, <2>4
    DEF SamePhase, SamePlan, SameRepairs, SameResults, SamePeople
<1>. HIDE DEF n
<1>. QED BY <1>1, <1>7, FirstStep

-----------------------------------------------------------------------------
(* The phases.                                                               *)

LEMMA BumpIsVector ==
    ASSUME NEW v \in Vector, NEW phase
    PROVE  /\ Bump(v, phase) \in Vector
           /\ Bump(v, phase)["remediation"] =
                 IF phase = "remediation" THEN v["remediation"] + 1 ELSE v["remediation"]
  BY DEF Bump, Vector, Counted

LEMMA RoleOfPhase ==
    ASSUME NEW phase \in Phases
    PROVE  /\ Role(phase) \in RoleName
           /\ phase \in Reviews => Role(phase) = "reviewer"
           /\ phase \in WritePhases => Role(phase) = "worker"
  BY DEF Phases, Counted, Role, RoleName, Reviews, ReadPhases, WritePhases

\* What the reservation of a phase makes of a ledger.
Starts(r, phase, s, content, n) ==
    LET reset == phase = "design_reset" IN
    /\ n \in Ledger
    /\ n.profile = r.profile /\ n.suspended = r.suspended
    /\ n.active.phase = phase /\ n.active.session = s
    /\ n.roles = [r.roles EXCEPT ![s] = Role(phase)]
    /\ n.writers = IF phase \in WritePhases THEN r.writers \cup {s} ELSE r.writers
    /\ n.local = Bump(r.local, phase)
    /\ reset => ~n.ready /\ n.designer = NoSession /\ n.challenge = NoRef
    /\ ~reset => /\ n.ready = r.ready /\ n.designer = r.designer
                 /\ n.challenger = r.challenger /\ n.design = r.design
                 /\ n.challenge = r.challenge /\ n.approved = r.approved
                 /\ n.capsule = r.capsule
    /\ n.designStarted <=> r.designStarted \/ phase = "design"
    /\ Voids(phase) => /\ n.verified = NoContent /\ n.accepted = NoContent
                       /\ n.reviewed = NoContent
    /\ ~Voids(phase) => /\ n.verified = r.verified /\ n.accepted = r.accepted
                        /\ n.reviewed = r.reviewed
    /\ n.remediated <=> r.remediated /\ phase # "remediation"
    /\ n.finalFailed = r.finalFailed /\ n.pendingRepair = r.pendingRepair
    /\ n.repairCount = r.repairCount /\ n.blockers = r.blockers
    /\ n.delivered = r.delivered /\ n.binding = r.binding

LEMMA ReservedStarts ==
    ASSUME NEW r \in Ledger, NEW phase \in Phases, NEW s \in Sessions, NEW content \in Digest
    PROVE  Starts(r, phase, s, content, Reserved(r, phase, s, content))
<1>. DEFINE reset == phase = "design_reset"
            ref == [r.capsule EXCEPT !.gen = IF reset THEN @ + 1 ELSE @]
            x == [phase |-> phase, session |-> s, capsule |-> ref, content |-> content]
            roles == [r.roles EXCEPT ![s] = Role(phase)]
            writers == IF phase \in WritePhases THEN r.writers \cup {s} ELSE r.writers
            counts == Bump(r.counts, phase)
            local == Bump(r.local, phase)
            ready == r.ready /\ ~reset
            started == r.designStarted \/ phase = "design"
            remediated == r.remediated /\ phase # "remediation"
            Kept(value, none) == IF reset THEN none ELSE value
            Fresh(value) == IF Voids(phase) THEN NoContent ELSE value
            designer == Kept(r.designer, NoSession)
            challenger == Kept(r.challenger, NoSession)
            design == Kept(r.design, NoRef)
            challenge == Kept(r.challenge, NoRef)
            approved == Kept(r.approved, NoRef)
            verified == Fresh(r.verified)
            accepted == Fresh(r.accepted)
            reviewed == Fresh(r.reviewed)
            n1 == [r EXCEPT !.roles = roles, !.writers = writers,
                            !.counts = counts, !.local = local,
                            !.capsule = ref, !.ready = ready]
            n2 == [n1 EXCEPT !.designer = designer, !.challenger = challenger,
                             !.design = design, !.challenge = challenge,
                             !.approved = approved]
            n3 == [n2 EXCEPT !.designStarted = started,
                             !.verified = verified, !.accepted = accepted,
                             !.reviewed = reviewed]
            n == [n3 EXCEPT !.remediated = remediated, !.active = x]
<1>1. Reserved(r, phase, s, content) = n
  BY DEF Reserved
<1>2. /\ r.capsule \in Ref /\ r.roles \in RoleMap /\ r.writers \in SUBSET Sessions
      /\ r.counts \in Vector /\ r.local \in Vector
      /\ r.designer \in Person /\ r.challenger \in Person
      /\ r.design \in Ref /\ r.challenge \in Ref /\ r.approved \in Ref
      /\ r.verified \in Digest /\ r.accepted \in Digest /\ r.reviewed \in Digest
  BY DEF Ledger
<1>3. NoSession \in Person /\ NoRef \in Ref /\ NoContent \in Digest
  BY DEF Person, NoRef, Ref, Digest
<1>4. ref \in Ref /\ (~reset => ref = r.capsule)
  BY <1>2 DEF Ref
<1>5. x \in Reservation /\ x.phase = phase /\ x.session = s
  <2>. HIDE DEF ref
  <2>. QED BY <1>4 DEF Reservation, Reserving
<1>6. roles \in RoleMap /\ writers \in SUBSET Sessions
  BY <1>2, RoleOfPhase DEF RoleMap
<1>7. counts \in Vector /\ local \in Vector
  BY <1>2, BumpIsVector
<1>8. ready \in BOOLEAN /\ started \in BOOLEAN /\ remediated \in BOOLEAN
  OBVIOUS
<1>9. /\ designer \in Person /\ challenger \in Person
      /\ design \in Ref /\ challenge \in Ref /\ approved \in Ref
      /\ verified \in Digest /\ accepted \in Digest /\ reviewed \in Digest
  BY <1>2, <1>3
<1>10. /\ reset => ~ready /\ designer = NoSession /\ challenge = NoRef
       /\ ~reset => /\ (ready <=> r.ready) /\ designer = r.designer
                    /\ challenger = r.challenger /\ design = r.design
                    /\ challenge = r.challenge /\ approved = r.approved
       /\ Voids(phase) => /\ verified = NoContent /\ accepted = NoContent
                          /\ reviewed = NoContent
       /\ ~Voids(phase) => /\ verified = r.verified /\ accepted = r.accepted
                           /\ reviewed = r.reviewed
       /\ started <=> r.designStarted \/ phase = "design"
       /\ remediated <=> r.remediated /\ phase # "remediation"
  OBVIOUS
<1>. DEFINE Alike(a, b) == /\ b.profile = a.profile /\ b.suspended = a.suspended
                           /\ b.finalFailed = a.finalFailed
                           /\ b.pendingRepair = a.pendingRepair
                           /\ b.repairCount = a.repairCount /\ b.blockers = a.blockers
                           /\ b.delivered = a.delivered /\ b.binding = a.binding
            First(b) == /\ b.roles = roles /\ b.writers = writers /\ b.local = local
                        /\ b.capsule = ref /\ b.ready = ready
            Second(b) == /\ b.designer = designer /\ b.challenger = challenger
                         /\ b.design = design /\ b.challenge = challenge
                         /\ b.approved = approved
            Third(b) == /\ b.designStarted = started
                        /\ b.verified = verified /\ b.accepted = accepted
                        /\ b.reviewed = reviewed
<1>11. /\ n \in Ledger /\ Alike(r, n) /\ First(n) /\ Second(n) /\ Third(n)
       /\ n.remediated = remediated /\ n.active = x
  <2>. HIDE DEF ref, x, roles, writers, counts, local, ready, started, remediated, designer,
            challenger, design, challenge, approved, verified, accepted, reviewed
  <2>1. n1 \in Ledger /\ Alike(r, n1) /\ First(n1)
    <3>1. DOMAIN r = Fields
      BY LedgerFields
    <3>2. n1 \in Ledger
      BY <1>4, <1>6, <1>7, <1>8, ZenonT(60) DEF Ledger
    <3>3. Alike(r, n1) /\ First(n1)
      BY <3>1 DEF Fields
    <3>. QED BY <3>2, <3>3
  <2>. HIDE DEF n1
  <2>2. n2 \in Ledger /\ Alike(r, n2) /\ First(n2) /\ Second(n2)
    <3>1. DOMAIN n1 = Fields
      BY <2>1, LedgerFields
    <3>2. n2 \in Ledger
      BY <1>9, <2>1, ZenonT(60) DEF Ledger
    <3>3. Alike(n1, n2) /\ Second(n2)
      BY <3>1 DEF Fields
    <3>4. /\ n2.roles = n1.roles /\ n2.writers = n1.writers /\ n2.local = n1.local
          /\ n2.capsule = n1.capsule /\ n2.ready = n1.ready
      BY <3>1 DEF Fields
    <3>. HIDE DEF n2
    <3>. QED BY <2>1, <3>2, <3>3, <3>4
  <2>. HIDE DEF n2
  <2>3. n3 \in Ledger /\ Alike(r, n3) /\ First(n3) /\ Second(n3) /\ Third(n3)
    <3>1. DOMAIN n2 = Fields
      BY <2>2, LedgerFields
    <3>2. n3 \in Ledger
      BY <1>8, <1>9, <2>2, ZenonT(60) DEF Ledger
    <3>3. Third(n3)
      BY <3>1 DEF Fields
    <3>4. Alike(n2, n3)
      BY <3>1 DEF Fields
    <3>5. /\ n3.roles = n2.roles /\ n3.writers = n2.writers /\ n3.local = n2.local
          /\ n3.capsule = n2.capsule /\ n3.ready = n2.ready
          /\ n3.designer = n2.designer /\ n3.challenger = n2.challenger
          /\ n3.design = n2.design /\ n3.challenge = n2.challenge
          /\ n3.approved = n2.approved
      BY <3>1 DEF Fields
    <3>. HIDE DEF n3
    <3>. QED BY <2>2, <3>2, <3>3, <3>4, <3>5
  <2>. HIDE DEF n3
  <2>4. DOMAIN n3 = Fields
    BY <2>3, LedgerFields
  <2>5. n \in Ledger
    BY <1>5, <1>8, <2>3, ZenonT(60) DEF Ledger
  <2>6. Alike(n3, n) /\ n.remediated = remediated /\ n.active = x
    BY <2>4 DEF Fields
  <2>7. /\ n.roles = n3.roles /\ n.writers = n3.writers /\ n.local = n3.local
        /\ n.capsule = n3.capsule /\ n.ready = n3.ready
        /\ n.designer = n3.designer /\ n.challenger = n3.challenger
        /\ n.design = n3.design /\ n.challenge = n3.challenge
        /\ n.approved = n3.approved /\ n.designStarted = n3.designStarted
        /\ n.verified = n3.verified /\ n.accepted = n3.accepted
        /\ n.reviewed = n3.reviewed
    BY <2>4 DEF Fields
  <2>. HIDE DEF n
  <2>. QED BY <2>3, <2>5, <2>6, <2>7
<1>. HIDE DEF n
<1>12. n.ready = r.ready \/ reset
  <2>. HIDE DEF n
  <2>1. n.ready \in BOOLEAN /\ r.ready \in BOOLEAN
    BY <1>11 DEF Ledger
  <2>2. ~reset => (n.ready <=> r.ready)
    BY <1>10, <1>11
  <2>. QED BY <2>1, <2>2
<1>. HIDE DEF ref, x, roles, writers, counts, local, ready, started, remediated, designer,
          challenger, design, challenge, approved, verified, accepted, reviewed
<1>13. Starts(r, phase, s, content, n)
  <2>1. n.roles = [r.roles EXCEPT ![s] = Role(phase)] /\ n.local = Bump(r.local, phase)
    BY <1>11 DEF roles, local
  <2>2. n.writers = IF phase \in WritePhases THEN r.writers \cup {s} ELSE r.writers
    BY <1>11 DEF writers
  <2>3. /\ n.designStarted <=> r.designStarted \/ phase = "design"
        /\ n.remediated <=> r.remediated /\ phase # "remediation"
        /\ reset => ~n.ready
    BY <1>10, <1>11
  <2>. QED BY <1>4, <1>5, <1>10, <1>11, <1>12, <2>1, <2>2, <2>3 DEF Starts
<1>. QED BY <1>1, <1>13

LEMMA StartStep ==
    ASSUME TicketInv, NEW t \in DOMAIN state, NEW phase \in Used, NEW s \in Sessions,
           PhaseStart(t, phase, s)
    PROVE  TicketInv'
<1>. DEFINE r == state[t]
            reads == phase \in Reviews \cup {"verification"}
            content == IF reads THEN tree[t] ELSE NoContent
            n == Reserved(r, phase, s, content)
            c == IF phase \in {"implementation", "remediation", "design_reset"} THEN {}
                 ELSE checks[t]
            d == IF phase = "remediation" /\ debt[t] # "none" THEN "repairing" ELSE debt[t]
<1>1. /\ Gate(r, phase) /\ MayStart(r, phase, s) /\ AppendEvent(t, n)
      /\ checks' = [checks EXCEPT ![t] = c] /\ debt' = [debt EXCEPT ![t] = d]
      /\ UNCHANGED granted
  BY DEF PhaseStart
<1>2. /\ t \in Tickets /\ Sound(r, checks[t], debt[t]) /\ r \in Ledger
      /\ checks[t] \in SUBSET Histories /\ granted[t] \in Vector
      /\ granted' = [granted EXCEPT ![t] = granted[t]]
  BY <1>1, KnownTicket
<1>3. phase \in Phases /\ content \in Digest /\ c \in SUBSET Histories
  BY <1>2, InputConstants DEF Digest, TicketInv, TypeOK
<1>. HIDE DEF r, content
<1>4. Starts(r, phase, s, content, n)
  BY <1>2, <1>3, ReservedStarts
<1>5. /\ ~Terminal(r) /\ r.active = NoPhase /\ r.suspended = NoPhase /\ ~r.finalFailed
      /\ phase = "verification" => GateVerification(r)
      /\ phase = "design" => ~r.designStarted
      /\ phase = "challenge" => r.challenger = NoSession
      /\ r.roles[s] \in {"none", Role(phase)}
  BY <1>1 DEF Gate, Idle, MayStart
<1>6. /\ n.active # NoPhase
      /\ phase # "none"
  BY <1>3, <1>4 DEF Starts, NoPhase, Phases, Counted
<1>. HIDE DEF n, c, d
<1>7. /\ r.local["remediation"] \in Nat /\ r.repairCount \in Nat
      /\ r.blockers \in [Blockers -> Nat]
      /\ n.local["remediation"] = IF phase = "remediation" THEN r.local["remediation"] + 1
                                  ELSE r.local["remediation"]
  <2>1. r.local \in Vector
    BY <1>2, LedgerNumbers
  <2>2. n.local = Bump(r.local, phase)
    BY <1>4 DEF Starts
  <2>. QED BY <1>2, <2>1, <2>2, LedgerNumbers, BumpIsVector
<1>8. Repairs(n, d)
  <2>1. /\ Repairs(r, debt[t]) /\ debt[t] # "repairing"
    BY <1>2, <1>5 DEF Sound, Repairs, During, NoPhase
  <2>2. /\ n.suspended = NoPhase /\ n.active.phase = phase /\ ~n.finalFailed
        /\ n.pendingRepair = r.pendingRepair /\ n.repairCount = r.repairCount
        /\ n.blockers = r.blockers /\ ~n.delivered
        /\ n.verified = NoContent \/ n.verified = r.verified
        /\ n.remediated <=> r.remediated /\ phase # "remediation"
    BY <1>4, <1>5 DEF Starts, Terminal
  <2>3. /\ n.repairCount > 0 => n.verified = NoContent
        /\ During(n, {"verification"}) => ~Unanswered(n, n.repairCount)
        /\ During(n, {"remediation"}) => ~n.remediated /\ n.local["remediation"] > 0
    BY <1>5, <1>7, <2>1, <2>2 DEF Repairs, During, NoPhase, Unanswered, GateVerification
  <2>4. CASE phase = "remediation"
    <3>1. debt[t] = "open" => r.pendingRepair \/ Blocked(n) \/ r.repairCount > 0
      BY <1>5, <1>7, <2>1, <2>2 DEF Repairs, AsksForRepair, Unanswered, Blocked
    <3>2. d = IF debt[t] = "open" THEN "repairing" ELSE "none"
      BY <2>1, <2>4 DEF d, Repairs
    <3>. QED BY <1>6, <2>2, <2>3, <2>4, <3>1, <3>2 DEF Repairs, During, Idle
  <2>5. CASE phase # "remediation"
    <3>1. d = debt[t]
      BY <2>5 DEF d
    <3>2. AsksForRepair(r) => AsksForRepair(n)
      BY <1>5, <1>7, <2>2, <2>5 DEF AsksForRepair, Unanswered
    <3>. QED BY <2>1, <2>2, <2>3, <2>5, <3>1, <3>2 DEF Repairs, During, NoPhase
  <2>. QED BY <2>4, <2>5
<1>9. Earned(n, c)
  <2>1. /\ n.verified # NoContent => Shown(c, "verified", n.verified)
        /\ n.accepted # NoContent => Shown(c, "accepted", n.accepted)
        /\ n.reviewed # NoContent => Shown(c, "reviewed", n.reviewed)
    BY <1>2, <1>4 DEF Starts, Sound, Earned, Voids, WritePhases, c
  <2>2. /\ n.designer # NoSession => n.designStarted
        /\ n.challenge # NoRef => n.challenger # NoSession
    BY <1>2, <1>4 DEF Starts, Sound, Earned
  <2>3. ASSUME n.ready, Consequential(n)
        PROVE  /\ Agreed(n) /\ n.designStarted /\ n.challenger # NoSession
               /\ ~During(n, {"design", "challenge", "design_reset"})
    <3>1. r.ready /\ Consequential(r) /\ phase # "design_reset"
      BY <1>4, <2>3 DEF Starts, Consequential
    <3>. QED BY <1>2, <1>4, <1>5, <3>1 DEF Starts, Sound, Earned, Agreed, During, NoPhase
  <2>4. ~n.delivered
    BY <1>4, <1>5 DEF Starts, Terminal
  <2>. QED BY <2>1, <2>2, <2>3, <2>4 DEF Earned
<1>10. Independent(n, c)
  <2>1. /\ Role(phase) \in RoleName
        /\ phase \in Reviews => Role(phase) = "reviewer"
        /\ phase \in WritePhases => Role(phase) = "worker"
    BY <1>3, RoleOfPhase
  <2>2. r.roles \in RoleMap
    BY <1>2 DEF Ledger
  <2>3. /\ n.roles[s] = Role(phase)
        /\ \A q \in Sessions : r.roles[q] # "none" => n.roles[q] = r.roles[q]
    BY <1>4, <1>5, <2>2 DEF Starts, RoleMap
  <2>4. n.suspended = NoPhase /\ n.active.phase = phase /\ n.active.session = s
    BY <1>4, <1>5 DEF Starts
  <2>5. r.writers \subseteq Sessions
    BY <1>2 DEF Ledger
  <2>6. \A q \in n.writers : n.roles[q] = "worker"
    BY <1>2, <1>4, <2>1, <2>3, <2>5 DEF Starts, Sound, Independent
  <2>7. c \subseteq checks[t]
    BY DEF c
  <2>8. \A x \in c : x.kind = "reviewed" =>
           x.session \in Sessions /\ n.roles[x.session] = "reviewer"
    BY <1>2, <2>3, <2>7 DEF Sound, Independent
  <2>. QED BY <2>1, <2>3, <2>4, <2>6, <2>8 DEF Independent, NoPhase, Reviews
<1>11. Sound(n, c, d)
  BY <1>4, <1>8, <1>9, <1>10 DEF Sound, Starts
<1>. QED BY <1>1, <1>2, <1>3, <1>11, AppendStep

\* The history of checks and the debt after the end of a phase.
ChecksAfter(r, c, passed) ==
    c \cup (IF ~passed THEN {}
            ELSE CASE r.active.phase = "verification" -> {Check("verified", r)}
                   [] r.active.phase \in Reviews -> {Check("reviewed", r)}
                   [] OTHER -> {})

DebtAfter(r, d, passed) ==
    CASE r.active.phase = "remediation" /\ d = "repairing" -> IF passed THEN "none" ELSE "open"
      [] r.active.phase \in {"verification", "final_review"} /\ ~passed -> "open"
      [] OTHER -> d

\* A phase that is over.
LEMMA DoneParts ==
    ASSUME NEW r \in Ledger
    PROVE  LET m == [r EXCEPT !.active = NoPhase] IN
           /\ m \in Ledger /\ m.active = NoPhase /\ m.suspended = r.suspended
           /\ SamePlan(r, m) /\ SameRepairs(r, m) /\ SameResults(r, m) /\ SamePeople(r, m)
           /\ m.author = r.author
<1>1. NoPhase \in Reservation
  BY DEF Reservation
<1>. QED BY <1>1 DEF Ledger, SamePlan, SameRepairs, SameResults, SamePeople

LEMMA DesignEndSound ==
    ASSUME NEW r, NEW c, NEW d, Sound(r, c, d), ~Terminal(r), NEW passed \in BOOLEAN,
           r.active.phase \in {"design", "design_reset"}, r.active \in Reserving
    PROVE  Sound(Completed(r, passed), ChecksAfter(r, c, passed), DebtAfter(r, d, passed))
<1>. DEFINE m == [r EXCEPT !.active = NoPhase]
            s == r.active.session
            ref == r.active.capsule
            n == IF ~passed THEN m
                 ELSE [m EXCEPT !.designer = s, !.designStarted = TRUE, !.design = ref]
<1>1. /\ r \in Ledger /\ s \in Person /\ ref \in Ref /\ r.suspended = NoPhase
      /\ r.active # NoPhase
  BY DEF Sound, Repairs, Reserving, Person, NoPhase
<1>2. Completed(r, passed) = n
  BY DEF Completed
<1>3. ChecksAfter(r, c, passed) = c /\ DebtAfter(r, d, passed) = d
  BY DEF ChecksAfter, DebtAfter, Reviews
<1>4. /\ m \in Ledger /\ m.active = NoPhase /\ m.suspended = r.suspended
      /\ SamePlan(r, m) /\ SameRepairs(r, m) /\ SameResults(r, m) /\ SamePeople(r, m)
  BY <1>1, DoneParts
<1>. HIDE DEF m, s, ref
<1>5. /\ n \in Ledger /\ SamePhase(m, n)
      /\ SameRepairs(m, n) /\ SameResults(m, n) /\ SamePeople(m, n)
      /\ n.profile = m.profile /\ n.ready = m.ready /\ n.capsule = m.capsule
      /\ n.challenge = m.challenge /\ n.challenger = m.challenger /\ n.approved = m.approved
      /\ \/ n.designStarted = TRUE
         \/ n.designer = m.designer /\ n.designStarted = m.designStarted
      /\ ~passed => n.design = m.design
  <2>1. CASE passed
    <3>1. DOMAIN m = Fields
      BY <1>4, LedgerFields
    <3>2. n = [m EXCEPT !.designer = s, !.designStarted = TRUE, !.design = ref]
      BY <2>1
    <3>. HIDE DEF n
    <3>3. n \in Ledger
      BY <1>1, <1>4, <3>2, ZenonT(60) DEF Ledger
    <3>4. SamePhase(m, n) /\ SameRepairs(m, n) /\ SameResults(m, n) /\ SamePeople(m, n)
      BY <3>1, <3>2 DEF Fields, SamePhase, SameRepairs, SameResults, SamePeople
    <3>5. /\ n.profile = m.profile /\ n.ready = m.ready /\ n.capsule = m.capsule
          /\ n.challenge = m.challenge /\ n.challenger = m.challenger
          /\ n.approved = m.approved /\ n.designStarted = TRUE
      BY <3>1, <3>2 DEF Fields
    <3>. QED BY <2>1, <3>3, <3>4, <3>5
  <2>2. CASE ~passed
    BY <1>4, <2>2 DEF SamePhase, SameRepairs, SameResults, SamePeople
  <2>. QED BY <2>1, <2>2
<1>. HIDE DEF n
<1>6. Repairs(n, d)
  BY <1>1, <1>4, <1>5 DEF Sound, Repairs, SamePhase, SameRepairs, SameResults, Idle, During, NoPhase,
     Unanswered, AsksForRepair, Blocked
<1>7. Independent(n, c)
  BY <1>1, <1>4, <1>5 DEF Sound, Independent, SamePhase, SamePeople, NoPhase, Reviews
<1>8. Earned(n, c)
  <2>1. ~(r.ready /\ Consequential(r))
    BY DEF Sound, Earned, During
  <2>. QED BY <1>4, <1>5, <2>1
    DEF Sound, Earned, SamePlan, SameResults, Consequential, Terminal
<1>. QED BY <1>2, <1>3, <1>5, <1>6, <1>7, <1>8 DEF Sound

LEMMA ChallengeEndSound ==
    ASSUME NEW r, NEW c, NEW d, Sound(r, c, d), ~Terminal(r), NEW passed \in BOOLEAN,
           r.active.phase = "challenge", r.active \in Reserving
    PROVE  Sound(Completed(r, passed), ChecksAfter(r, c, passed), DebtAfter(r, d, passed))
<1>. DEFINE m == [r EXCEPT !.active = NoPhase]
            s == r.active.session
            ref == IF passed THEN r.active.capsule ELSE NoRef
            n == [m EXCEPT !.challenger = s, !.challenge = ref]
<1>1. /\ r \in Ledger /\ s \in Person /\ s # NoSession /\ ref \in Ref /\ r.suspended = NoPhase
      /\ r.active # NoPhase
  BY WorkflowConstants DEF Sound, Repairs, Reserving, Person, NoPhase, NoRef, Ref
<1>2. Completed(r, passed) = n
  BY DEF Completed
<1>3. ChecksAfter(r, c, passed) = c /\ DebtAfter(r, d, passed) = d
  BY DEF ChecksAfter, DebtAfter, Reviews
<1>4. /\ m \in Ledger /\ m.active = NoPhase /\ m.suspended = r.suspended
      /\ SamePlan(r, m) /\ SameRepairs(r, m) /\ SameResults(r, m) /\ SamePeople(r, m)
  BY <1>1, DoneParts
<1>. HIDE DEF m, s, ref
<1>5. /\ n \in Ledger /\ SamePhase(m, n)
      /\ SameRepairs(m, n) /\ SameResults(m, n) /\ SamePeople(m, n)
      /\ n.profile = m.profile /\ n.ready = m.ready
      /\ n.designer = m.designer /\ n.designStarted = m.designStarted
      /\ n.challenger = s
  <2>1. DOMAIN m = Fields
    BY <1>4, LedgerFields
  <2>2. n \in Ledger
    BY <1>1, <1>4, ZenonT(60) DEF Ledger
  <2>3. SamePhase(m, n) /\ SameRepairs(m, n) /\ SameResults(m, n) /\ SamePeople(m, n)
    BY <2>1 DEF Fields, SamePhase, SameRepairs, SameResults, SamePeople
  <2>4. /\ n.profile = m.profile /\ n.ready = m.ready
        /\ n.designer = m.designer /\ n.designStarted = m.designStarted
        /\ n.challenger = s
    BY <2>1 DEF Fields
  <2>. QED BY <2>2, <2>3, <2>4
<1>. HIDE DEF n
<1>6. Repairs(n, d)
  BY <1>1, <1>4, <1>5 DEF Sound, Repairs, SamePhase, SameRepairs, SameResults, Idle, During, NoPhase,
     Unanswered, AsksForRepair, Blocked
<1>7. Independent(n, c)
  BY <1>1, <1>4, <1>5 DEF Sound, Independent, SamePhase, SamePeople, NoPhase, Reviews
<1>8. Earned(n, c)
  <2>1. ~(r.ready /\ Consequential(r))
    BY DEF Sound, Earned, During
  <2>. QED BY <1>1, <1>4, <1>5, <2>1
    DEF Sound, Earned, SamePlan, SameResults, Consequential, Terminal
<1>. QED BY <1>2, <1>3, <1>5, <1>6, <1>7, <1>8 DEF Sound

LEMMA WorkEndSound ==
    ASSUME NEW r, NEW c, NEW d, Sound(r, c, d), ~Terminal(r), NEW passed \in BOOLEAN,
           r.active.phase \in {"planning", "implementation"}, r.active \in Reserving
    PROVE  Sound(Completed(r, passed), ChecksAfter(r, c, passed), DebtAfter(r, d, passed))
<1>. DEFINE m == [r EXCEPT !.active = NoPhase]
            k == Completed(r, passed)
<1>1. r \in Ledger /\ r.suspended = NoPhase /\ r.active # NoPhase
  BY DEF Sound, Repairs, NoPhase
<1>2. ChecksAfter(r, c, passed) = c /\ DebtAfter(r, d, passed) = d
  BY DEF ChecksAfter, DebtAfter, Reviews
<1>3. /\ m \in Ledger /\ m.active = NoPhase /\ m.suspended = r.suspended
      /\ SamePlan(r, m) /\ SameRepairs(r, m) /\ SameResults(r, m) /\ SamePeople(r, m)
  BY <1>1, DoneParts
<1>4. r.active.session \in Person
  BY DEF Reserving, Person
<1>5. k = m \/ k = [m EXCEPT !.author = r.active.session]
      \/ k = [m EXCEPT !.author = m.author]
  BY DEF Completed
<1>. HIDE DEF m, k
<1>6. k \in Ledger /\ SamePhase(m, k) /\ SamePlan(m, k)
      /\ SameRepairs(m, k) /\ SameResults(m, k) /\ SamePeople(m, k)
  <2>1. m.author \in Person
    BY <1>3 DEF Ledger
  <2>2. \A x \in Person : LET v == [m EXCEPT !.author = x] IN
           /\ v \in Ledger /\ SamePhase(m, v) /\ SamePlan(m, v)
           /\ SameRepairs(m, v) /\ SameResults(m, v) /\ SamePeople(m, v)
    BY <1>3 DEF Ledger, SamePhase, SamePlan, SameRepairs, SameResults, SamePeople
  <2>3. CASE k = m
    BY <1>3, <2>3 DEF SamePhase, SamePlan, SameRepairs, SameResults, SamePeople
  <2>. QED BY <1>4, <1>5, <2>1, <2>2, <2>3
<1>7. Repairs(k, d)
  BY <1>1, <1>3, <1>6 DEF Sound, Repairs, SamePhase, SameRepairs, SameResults, Idle, During, NoPhase,
     Unanswered, AsksForRepair, Blocked
<1>8. Independent(k, c)
  BY <1>1, <1>3, <1>6 DEF Sound, Independent, SamePhase, SamePeople, NoPhase, Reviews
<1>9. Earned(k, c)
  BY <1>1, <1>3, <1>6
  DEF Sound, Earned, SamePhase, SamePlan, SameResults, Consequential, Agreed, Terminal, During, NoPhase
<1>. QED BY <1>2, <1>6, <1>7, <1>8, <1>9 DEF Sound, k

LEMMA VerificationEndSound ==
    ASSUME NEW r, NEW c, NEW d, Sound(r, c, d), ~Terminal(r), NEW passed \in BOOLEAN,
           r.active.phase = "verification", r.active \in Reserving
    PROVE  Sound(Completed(r, passed), ChecksAfter(r, c, passed), DebtAfter(r, d, passed))
<1>. DEFINE m == [r EXCEPT !.active = NoPhase]
            v == IF passed THEN r.active.content ELSE NoContent
            k == IF passed THEN 0 ELSE r.local["remediation"] + 1
            n == [m EXCEPT !.verified = v, !.repairCount = k]
            x == Check("verified", r)
            b == ChecksAfter(r, c, passed)
            e == DebtAfter(r, d, passed)
<1>1. /\ r \in Ledger /\ r.suspended = NoPhase /\ r.active # NoPhase /\ ~r.finalFailed
      /\ v \in Digest
  BY DEF Sound, Repairs, Idle, NoPhase, Reserving, Digest
<1>2. r.local["remediation"] \in Nat /\ k \in Nat
  BY <1>1, LedgerNumbers
<1>3. Completed(r, passed) = n
  BY DEF Completed
<1>4. /\ b = IF passed THEN c \cup {x} ELSE c
      /\ x.kind = "verified" /\ x.content = r.active.content
      /\ e = IF passed THEN d ELSE "open"
  BY DEF ChecksAfter, DebtAfter, Check, Reviews
<1>5. /\ m \in Ledger /\ m.active = NoPhase /\ m.suspended = r.suspended
      /\ SamePlan(r, m) /\ SameRepairs(r, m) /\ SameResults(r, m) /\ SamePeople(r, m)
  BY <1>1, DoneParts
<1>6. passed => v = r.active.content /\ k = 0
  OBVIOUS
<1>7. ~passed => v = NoContent /\ k = r.local["remediation"] + 1
  OBVIOUS
<1>. HIDE DEF m, v, k, x, b, e
<1>8. /\ n \in Ledger /\ SamePhase(m, n) /\ SamePlan(m, n) /\ SamePeople(m, n)
      /\ n.verified = v /\ n.accepted = m.accepted /\ n.reviewed = m.reviewed
      /\ n.delivered = m.delivered /\ n.repairCount = k
      /\ n.finalFailed = m.finalFailed /\ n.remediated = m.remediated
      /\ n.pendingRepair = m.pendingRepair /\ n.local = m.local /\ n.blockers = m.blockers
  <2>1. DOMAIN m = Fields
    BY <1>5, LedgerFields
  <2>2. n \in Ledger
    BY <1>1, <1>2, <1>5, ZenonT(60) DEF Ledger
  <2>3. SamePhase(m, n) /\ SamePlan(m, n) /\ SamePeople(m, n)
    BY <2>1 DEF Fields, SamePhase, SamePlan, SamePeople
  <2>4. /\ n.verified = v /\ n.accepted = m.accepted /\ n.reviewed = m.reviewed
        /\ n.delivered = m.delivered /\ n.repairCount = k
        /\ n.finalFailed = m.finalFailed /\ n.remediated = m.remediated
        /\ n.pendingRepair = m.pendingRepair /\ n.local = m.local
        /\ n.blockers = m.blockers
    BY <2>1 DEF Fields
  <2>. QED BY <2>2, <2>3, <2>4
<1>. HIDE DEF n
<1>9. Repairs(n, e)
  <2>1. /\ n.active = NoPhase /\ n.suspended = NoPhase /\ ~n.finalFailed /\ ~n.delivered
        /\ n.local = r.local /\ n.blockers = r.blockers /\ n.remediated = r.remediated
        /\ n.pendingRepair = r.pendingRepair
    BY <1>1, <1>5, <1>8 DEF SamePhase, SameRepairs, SameResults, Terminal
  <2>2. n.repairCount > 0 => n.verified = NoContent
    BY <1>6, <1>7, <1>8
  <2>3. CASE passed
    <3>1. d = "open" => AsksForRepair(n)
      BY <1>1, <2>1 DEF Sound, Repairs, AsksForRepair, During, Unanswered
    <3>2. d # "repairing"
      BY <1>1 DEF Sound, Repairs, During, NoPhase
    <3>. QED BY <1>4, <2>1, <2>2, <2>3, <3>1, <3>2 DEF Sound, Repairs, Idle, During, NoPhase
  <2>4. CASE ~passed
    <3>1. AsksForRepair(n)
      BY <1>2, <1>7, <1>8, <2>1, <2>4 DEF AsksForRepair, Unanswered
    <3>. QED BY <1>4, <2>1, <2>2, <2>4, <3>1 DEF Repairs, Idle, During, NoPhase
  <2>. QED BY <2>3, <2>4
<1>10. c \subseteq b /\ \A y \in b : y \in c \/ y.kind = "verified"
  BY <1>4
<1>11. Independent(n, b)
  BY <1>1, <1>5, <1>8, <1>10 DEF Sound, Independent, SamePhase, SamePeople, NoPhase, Reviews
<1>12. Earned(n, b)
  <2>1. n.verified # NoContent => Shown(b, "verified", n.verified)
    BY <1>4, <1>6, <1>7, <1>8 DEF Shown
  <2>2. /\ n.accepted = r.accepted /\ n.reviewed = r.reviewed /\ ~n.delivered
    BY <1>5, <1>8 DEF SameResults, Terminal
  <2>3. /\ n.accepted # NoContent => Shown(b, "accepted", n.accepted)
        /\ n.reviewed # NoContent => Shown(b, "reviewed", n.reviewed)
    BY <1>10, <2>2 DEF Sound, Earned, Shown
  <2>. QED BY <1>1, <1>5, <1>8, <2>1, <2>2, <2>3
    DEF Sound, Earned, SamePhase, SamePlan, Consequential, Agreed, During, NoPhase
<1>. QED BY <1>3, <1>8, <1>9, <1>11, <1>12 DEF Sound, b, e

LEMMA ReviewEndSound ==
    ASSUME NEW r, NEW c, NEW d, Sound(r, c, d), ~Terminal(r), NEW passed \in BOOLEAN,
           r.active.phase \in Reviews, r.active \in Reserving
    PROVE  Sound(Completed(r, passed), ChecksAfter(r, c, passed), DebtAfter(r, d, passed))
<1>. DEFINE m == [r EXCEPT !.active = NoPhase]
            v == IF passed THEN r.active.content ELSE NoContent
            failed == ~passed
            n == IF r.active.phase = "initial_review"
                 THEN [m EXCEPT !.reviewed = v, !.initialFailed = failed]
                 ELSE [m EXCEPT !.reviewed = v, !.finalFailed = failed]
            x == Check("reviewed", r)
            b == ChecksAfter(r, c, passed)
            e == DebtAfter(r, d, passed)
<1>1. /\ r \in Ledger /\ r.suspended = NoPhase /\ r.active # NoPhase /\ ~r.finalFailed
      /\ v \in Digest /\ failed \in BOOLEAN
  BY DEF Sound, Repairs, Idle, NoPhase, Reserving, Digest, Reviews
<1>2. Completed(r, passed) = n
  BY DEF Completed, Reviews
<1>3. /\ b = IF passed THEN c \cup {x} ELSE c
      /\ x.kind = "reviewed" /\ x.content = r.active.content /\ x.session = r.active.session
      /\ e = IF ~passed /\ r.active.phase = "final_review" THEN "open" ELSE d
  BY DEF ChecksAfter, DebtAfter, Check, Reviews
<1>4. /\ m \in Ledger /\ m.active = NoPhase /\ m.suspended = r.suspended
      /\ SamePlan(r, m) /\ SameRepairs(r, m) /\ SameResults(r, m) /\ SamePeople(r, m)
  BY <1>1, DoneParts
<1>5. /\ passed => v = r.active.content /\ ~failed
      /\ ~passed => v = NoContent /\ failed
  OBVIOUS
<1>. HIDE DEF m, v, failed, x, b, e
<1>6. /\ n \in Ledger /\ SamePhase(m, n) /\ SamePlan(m, n) /\ SamePeople(m, n)
      /\ n.verified = m.verified /\ n.accepted = m.accepted /\ n.reviewed = v
      /\ n.delivered = m.delivered
      /\ n.finalFailed = IF r.active.phase = "final_review" THEN failed ELSE m.finalFailed
      /\ n.remediated = m.remediated /\ n.repairCount = m.repairCount
      /\ n.pendingRepair = m.pendingRepair /\ n.local = m.local /\ n.blockers = m.blockers
  <2>1. CASE r.active.phase = "initial_review"
    <3>1. n = [m EXCEPT !.reviewed = v, !.initialFailed = failed]
      BY <2>1
    <3>2. r.active.phase # "final_review"
      BY <2>1
    <3>. HIDE DEF n
    <3>3. DOMAIN m = Fields
      BY <1>4, LedgerFields
    <3>4. n \in Ledger
      BY <1>1, <1>4, <3>1, ZenonT(60) DEF Ledger
    <3>5. SamePhase(m, n) /\ SamePlan(m, n) /\ SamePeople(m, n)
      BY <3>1, <3>3 DEF Fields, SamePhase, SamePlan, SamePeople
    <3>6. /\ n.verified = m.verified /\ n.accepted = m.accepted /\ n.reviewed = v
          /\ n.delivered = m.delivered /\ n.finalFailed = m.finalFailed
          /\ n.remediated = m.remediated /\ n.repairCount = m.repairCount
          /\ n.pendingRepair = m.pendingRepair /\ n.local = m.local
          /\ n.blockers = m.blockers
      BY <3>1, <3>3 DEF Fields
    <3>. QED BY <3>2, <3>4, <3>5, <3>6
  <2>2. CASE r.active.phase = "final_review"
    <3>1. n = [m EXCEPT !.reviewed = v, !.finalFailed = failed]
      BY <2>2
    <3>. HIDE DEF n
    <3>2. DOMAIN m = Fields
      BY <1>4, LedgerFields
    <3>3. n \in Ledger
      BY <1>1, <1>4, <3>1, ZenonT(60) DEF Ledger
    <3>4. SamePhase(m, n) /\ SamePlan(m, n) /\ SamePeople(m, n)
      BY <3>1, <3>2 DEF Fields, SamePhase, SamePlan, SamePeople
    <3>5. /\ n.verified = m.verified /\ n.accepted = m.accepted /\ n.reviewed = v
          /\ n.delivered = m.delivered /\ n.finalFailed = failed
          /\ n.remediated = m.remediated /\ n.repairCount = m.repairCount
          /\ n.pendingRepair = m.pendingRepair /\ n.local = m.local
          /\ n.blockers = m.blockers
      BY <3>1, <3>2 DEF Fields
    <3>. QED BY <2>2, <3>3, <3>4, <3>5
  <2>. QED BY <2>1, <2>2 DEF Reviews
<1>. HIDE DEF n
<1>7. Repairs(n, e)
  <2>1. /\ n.active = NoPhase /\ n.suspended = NoPhase /\ ~n.delivered
        /\ n.local = r.local /\ n.blockers = r.blockers /\ n.remediated = r.remediated
        /\ n.pendingRepair = r.pendingRepair /\ n.repairCount = r.repairCount
        /\ n.verified = r.verified
    BY <1>1, <1>4, <1>6 DEF SamePhase, SameRepairs, SameResults, Terminal
  <2>2. d # "repairing"
    BY <1>1 DEF Sound, Repairs, During, NoPhase, Reviews
  <2>3. AsksForRepair(r) => AsksForRepair(n)
    BY <1>1, <2>1 DEF AsksForRepair, Unanswered
  <2>4. e = "open" => AsksForRepair(n)
    BY <1>3, <1>5, <1>6, <2>3 DEF Sound, Repairs, AsksForRepair
  <2>. QED BY <1>3, <2>1, <2>2, <2>4 DEF Sound, Repairs, Idle, During, NoPhase
<1>8. c \subseteq b /\ \A y \in b : y \in c \/ y = x
  BY <1>3
<1>9. Independent(n, b)
  <2>1. r.active.session \in Sessions /\ r.roles[r.active.session] = "reviewer"
    BY DEF Sound, Independent, Reserving
  <2>. QED BY <1>1, <1>3, <1>4, <1>6, <1>8, <2>1
    DEF Sound, Independent, SamePhase, SamePeople, NoPhase, Reviews
<1>10. Earned(n, b)
  <2>1. n.reviewed # NoContent => Shown(b, "reviewed", n.reviewed)
    BY <1>3, <1>5, <1>6 DEF Shown
  <2>2. n.accepted = r.accepted /\ n.verified = r.verified /\ ~n.delivered
    BY <1>4, <1>6 DEF SameResults, Terminal
  <2>3. /\ n.accepted # NoContent => Shown(b, "accepted", n.accepted)
        /\ n.verified # NoContent => Shown(b, "verified", n.verified)
    BY <1>8, <2>2 DEF Sound, Earned, Shown
  <2>. QED BY <1>1, <1>4, <1>6, <2>1, <2>2, <2>3
    DEF Sound, Earned, SamePhase, SamePlan, Consequential, Agreed, During, NoPhase
<1>. QED BY <1>2, <1>6, <1>7, <1>9, <1>10 DEF Sound, b, e

LEMMA RemediationEndSound ==
    ASSUME NEW r, NEW c, NEW d, Sound(r, c, d), ~Terminal(r), NEW passed \in BOOLEAN,
           r.active.phase = "remediation", r.active \in Reserving
    PROVE  Sound(Completed(r, passed), ChecksAfter(r, c, passed), DebtAfter(r, d, passed))
<1>. DEFINE m == [r EXCEPT !.active = NoPhase]
            pending == m.pendingRepair /\ ~passed
            done == passed
            n == [m EXCEPT !.remediated = done, !.pendingRepair = pending]
            e == DebtAfter(r, d, passed)
<1>1. /\ r \in Ledger /\ r.suspended = NoPhase /\ r.active # NoPhase /\ ~r.finalFailed
      /\ pending \in BOOLEAN /\ done \in BOOLEAN
  BY DEF Sound, Repairs, Idle, NoPhase
<1>2. Completed(r, passed) = n
  BY DEF Completed
<1>3. /\ ChecksAfter(r, c, passed) = c
      /\ e = IF d = "repairing" THEN IF passed THEN "none" ELSE "open" ELSE d
  BY DEF ChecksAfter, DebtAfter, Reviews
<1>4. /\ m \in Ledger /\ m.active = NoPhase /\ m.suspended = r.suspended
      /\ SamePlan(r, m) /\ SameRepairs(r, m) /\ SameResults(r, m) /\ SamePeople(r, m)
  BY <1>1, DoneParts
<1>5. (pending <=> r.pendingRepair /\ ~passed) /\ (done <=> passed)
  BY <1>4 DEF SameRepairs
<1>. HIDE DEF m, pending, done, e
<1>6. /\ n \in Ledger /\ SamePhase(m, n) /\ SamePlan(m, n) /\ SamePeople(m, n)
      /\ SameResults(m, n)
      /\ n.finalFailed = m.finalFailed /\ n.repairCount = m.repairCount
      /\ n.local = m.local /\ n.blockers = m.blockers
      /\ n.remediated = done /\ n.pendingRepair = pending
  <2>1. n \in Ledger
    BY <1>1, <1>4, ZenonT(60) DEF Ledger
  <2>2. /\ SamePhase(m, n) /\ SamePlan(m, n) /\ SamePeople(m, n) /\ SameResults(m, n)
    <3>1. DOMAIN m = Fields
      BY <1>4, LedgerFields
    <3>. QED BY <3>1 DEF Fields, SamePhase, SamePlan, SamePeople, SameResults
  <2>3. /\ n.finalFailed = m.finalFailed /\ n.repairCount = m.repairCount
        /\ n.local = m.local /\ n.blockers = m.blockers
    BY <1>4 DEF Ledger
  <2>4. n.remediated = done /\ n.pendingRepair = pending
    BY <1>4 DEF Ledger
  <2>. QED BY <2>1, <2>2, <2>3, <2>4
<1>. HIDE DEF n
<1>7. Earned(n, c)
  BY <1>1, <1>4, <1>6
  DEF Sound, Earned, SamePhase, SamePlan, SameResults, Consequential, Agreed, Terminal,
      During, NoPhase
<1>8. Independent(n, c)
  BY <1>1, <1>4, <1>6 DEF Sound, Independent, SamePhase, SamePeople, NoPhase, Reviews
<1>9. Repairs(n, e)
  <2>1. /\ n.active = NoPhase /\ n.suspended = NoPhase /\ ~n.delivered /\ ~n.finalFailed
        /\ n.local = r.local /\ n.blockers = r.blockers /\ (n.remediated <=> passed)
        /\ (n.pendingRepair <=> r.pendingRepair /\ ~passed) /\ n.repairCount = r.repairCount
        /\ n.verified = r.verified
    BY <1>1, <1>4, <1>5, <1>6 DEF SamePhase, SameRepairs, SameResults, Terminal
  <2>2. /\ r.local["remediation"] \in Nat /\ r.repairCount \in Nat
        /\ r.blockers \in [Blockers -> Nat]
    BY <1>1, LedgerNumbers
  <2>3. d = "open" => AsksForRepair(n)
    BY <2>1 DEF Sound, Repairs, During, AsksForRepair, Unanswered
  <2>4. d = "repairing" /\ ~passed => AsksForRepair(n)
    BY <2>1 DEF Sound, Repairs, AsksForRepair, Unanswered, Blocked
  <2>. QED BY <1>3, <2>1, <2>3, <2>4 DEF Sound, Repairs, Idle, During, NoPhase
<1>. QED BY <1>2, <1>3, <1>6, <1>7, <1>8, <1>9 DEF Sound, e

LEMMA EndStep ==
    ASSUME TicketInv, NEW t \in DOMAIN state, NEW passed \in BOOLEAN, PhaseEnd(t, passed)
    PROVE  TicketInv'
<1>. DEFINE r == state[t]
            n == Completed(r, passed)
            c == ChecksAfter(r, checks[t], passed)
            d == DebtAfter(r, debt[t], passed)
<1>1. /\ ~Terminal(r) /\ r.active # NoPhase /\ AppendEvent(t, n)
      /\ UNCHANGED granted
  BY DEF PhaseEnd
<1>2. checks' = [checks EXCEPT ![t] = c] /\ debt' = [debt EXCEPT ![t] = d]
  BY DEF PhaseEnd, ChecksAfter, DebtAfter
<1>3. /\ t \in Tickets /\ Sound(r, checks[t], debt[t]) /\ r \in Ledger
      /\ checks[t] \in SUBSET Histories /\ granted[t] \in Vector
      /\ granted' = [granted EXCEPT ![t] = granted[t]]
  BY <1>1, KnownTicket
<1>4. r.active \in Reserving
  BY <1>1, <1>3 DEF Ledger, Reservation
<1>5. c \in SUBSET Histories
  <2>1. \A kind \in {"verified", "reviewed"} : Check(kind, r) \in Histories
    BY <1>4 DEF Check, Histories, Reserving, Person
  <2>. QED BY <1>3, <2>1 DEF ChecksAfter
<1>. HIDE DEF r
<1>6. r.active.phase \in Phases
  BY <1>4 DEF Reserving
<1>7. Sound(n, c, d)
  BY <1>1, <1>3, <1>4, <1>6, DesignEndSound, ChallengeEndSound, WorkEndSound,
     VerificationEndSound, ReviewEndSound, RemediationEndSound
  DEF Phases, Counted, Reviews
<1>. HIDE DEF n, c, d
<1>. QED BY <1>1, <1>2, <1>3, <1>5, <1>7, AppendStep

-----------------------------------------------------------------------------
(* The invariant is inductive.                                               *)

\* Edits of the repository and the lock of append() touch no ledger.
LEMMA OutsideStep ==
    ASSUME TicketInv, UNCHANGED <<state, checks, debt, granted>>,
           tree' \in [Tickets -> Contents], lock' \in BOOLEAN
    PROVE  TicketInv'
  BY DEF TicketInv, TypeOK, LineageAgrees, AllocationsAgree, Lineage, Root, AwaitedOwners

LEMMA EventStep ==
    ASSUME TicketInv, NEW t \in DOMAIN state, Event(t)
    PROVE  TicketInv'
<1>1. CASE \E s \in Sessions : OfSession(t, s)
  <2>1. PICK s \in Sessions : OfSession(t, s)
    BY <1>1
  <2>. QED BY <2>1, StartStep, HandoffStep DEF OfSession
<1>2. CASE \E e \in Evidence : OfUser(t, e)
  <2>1. PICK e \in Evidence : OfUser(t, e)
    BY <1>2
  <2>2. ASSUME NEW kids \in SUBSET (Tickets \ {t}) \ {{}}, NEW allocate \in [kids -> Allocations],
               NEW class \in {p.class : p \in Profiles}, NEW owner \in Sessions,
               Split(t, e, allocate, class, owner)
        PROVE  TicketInv'
    <3>1. kids \in SUBSET Tickets
      OBVIOUS
    <3>. QED BY <2>2, <3>1, SplitStep
  <2>. QED BY <2>1, <2>2, CapsuleStep, AmendStep, ContinuationStep, ExtensionStep DEF OfUser
<1>3. CASE \E passed \in BOOLEAN : PhaseEnd(t, passed)
  BY <1>3, EndStep
<1>4. CASE PhaseInterrupt(t) \/ PhaseResume(t) \/ Coordination(t)
  BY <1>4, InterruptStep, ResumeStep, CoordinationStep
<1>5. CASE DesignReady(t) \/ Acceptance(t)
  BY <1>5, DesignReadyStep, AcceptanceStep
<1>6. CASE \E b \in Blockers : Blocker(t, b) \/ Resolve(t, b)
  BY <1>6, BlockerStep, ResolveStep
<1>7. CASE \E pr \in PullRequests : Delivery(t, pr)
  BY <1>7, DeliveryStep
<1>. QED BY <1>1, <1>2, <1>3, <1>4, <1>5, <1>6, <1>7 DEF Event

LEMMA InitTicketInv == Init => TicketInv
<1>. SUFFICES ASSUME Init PROVE TicketInv
  OBVIOUS
<1>1. DOMAIN state = {} /\ state = [t \in {} |-> NoSplit]
  BY DEF Init
<1>2. NoCounts \in Vector
  BY DEF NoCounts, Vector
<1>3. TypeOK
  <2>1. state \in [DOMAIN state -> Ledger]
    BY <1>1
  <2>. QED BY <1>1, <1>2, <2>1 DEF Init, TypeOK
<1>4. LineageAgrees(state) /\ AllocationsAgree(state)
  BY <1>1 DEF LineageAgrees, AllocationsAgree
<1>. QED BY <1>1, <1>3, <1>4 DEF Init, TicketInv

LEMMA NextTicketInv == TicketInv /\ [Next]_vars => TicketInv'
<1>. SUFFICES ASSUME TicketInv, [Next]_vars PROVE TicketInv'
  OBVIOUS
<1>1. ASSUME NEW t \in Roots, NEW profile \in Profiles, NEW s \in Sessions, NEW e \in Evidence,
             Initialize(t, profile, s, e)
      PROVE  TicketInv'
  BY <1>1, InitializeStep
<1>2. ASSUME NEW t \in Tickets, NEW parent \in Tickets, NEW review \in BOOLEAN,
             InitializeChild(t, parent, review)
      PROVE  TicketInv'
  BY <1>2, InitializeChildStep
<1>3. ASSUME NEW t \in DOMAIN state, Event(t)
      PROVE  TicketInv'
  BY <1>3, EventStep
<1>4. tree \in [Tickets -> Contents] /\ lock \in BOOLEAN
  BY DEF TicketInv, TypeOK
<1>5. CASE Edit
  BY <1>4, <1>5, OutsideStep DEF Edit
<1>6. CASE Die \/ ClearLock
  BY <1>4, <1>6, OutsideStep DEF Die, ClearLock
<1>7. CASE UNCHANGED vars
  BY <1>4, <1>7, OutsideStep DEF vars
<1>. QED BY <1>1, <1>2, <1>3, <1>5, <1>6, <1>7 DEF Next

\* Whatever sessions and users append in whatever order, the ledgers stay as TicketInv
\* says: what a ledger still holds as verified, accepted and reviewed was earned since the
\* last phase that may have written, each failure still asks for its remediation, and
\* nobody both reads and writes.
THEOREM LedgersAreSound == Spec => []TicketInv
  BY InitTicketInv, NextTicketInv, PTL DEF Spec

-----------------------------------------------------------------------------
(* The properties.                                                           *)

\* replay() folds every ledger into a State of its declared type.
THEOREM LedgersAreTyped == Spec => []TypeOK
<1>1. TicketInv => TypeOK
  BY DEF TicketInv
<1>. QED BY <1>1, LedgersAreSound, PTL

\* check_pr() lets a pull request through only with the content that its ticket has
\* verified, had accepted and, where required, reviewed since the last phase that may have
\* written, and only with the challenged design the capsule still refers to.
THEOREM TheGateIsEarned == Spec => []GateIsEarned
<1>1. TicketInv => GateIsEarned
  <2>. SUFFICES ASSUME TicketInv, NEW t \in Tickets, NEW pr \in PullRequests, NEW c \in Contents,
                       CheckPr(t, pr, c)
                PROVE  /\ Passing(t, "verified", c) # {} /\ Passing(t, "accepted", c) # {}
                       /\ state[t].profile.review => Passing(t, "reviewed", c) # {}
                       /\ Consequential(state[t]) =>
                             {state[t].design, state[t].challenge, state[t].approved}
                                = {state[t].capsule}
    BY DEF GateIsEarned
  <2>1. t \in DOMAIN state /\ state[t].delivered /\ state[t].binding = c /\ c # NoContent
    BY WorkflowConstants DEF CheckPr
  <2>2. Earned(state[t], checks[t])
    BY <2>1, KnownTicket DEF Sound
  <2>3. \A kind \in {"verified", "accepted", "reviewed"} :
           Shown(checks[t], kind, c) => Passing(t, kind, c) # {}
    BY DEF Shown, Passing
  <2>. QED BY <2>1, <2>2, <2>3 DEF Earned, Agreed
<1>. QED BY <1>1, LedgersAreSound, PTL

\* A failed verification, a failed final review and a blocker each keep the ledger from
\* delivery() until a remediation that starts after them has passed.
THEOREM AllFailuresAreRepaired == Spec => []FailuresAreRepaired
<1>1. TicketInv => FailuresAreRepaired
  BY KnownTicket DEF FailuresAreRepaired, Sound, Repairs
<1>. QED BY <1>1, LedgersAreSound, PTL

\* The session whose review a delivery rests on wrote nothing in the ticket, by the roles
\* of its own ledger, and by validate_map() has no part in any other ticket of the lineage.
THEOREM ReviewersAreIndependent == Spec => []ReviewIsIndependent
<1>1. TicketInv => ReviewIsIndependent
  <2>. SUFFICES ASSUME TicketInv, NEW t \in DOMAIN state, NEW check \in checks[t],
                       check.kind = "reviewed"
                PROVE  /\ check.session \notin state[t].writers
                       /\ \A u \in Lineage(state, t) \ {t} :
                             check.session \notin People(state[u])
    BY DEF ReviewIsIndependent
  <2>1. Independent(state[t], checks[t])
    BY KnownTicket DEF Sound
  <2>2. check.session \in Readers(state[t]) /\ check.session \notin state[t].writers
    BY <2>1 DEF Independent, Readers
  <2>3. LineageAgrees(state)
    BY DEF TicketInv
  <2>4. \A u \in Lineage(state, t) \ {t} : Readers(state[t]) \cap People(state[u]) = {}
    BY <2>3 DEF LineageAgrees
  <2>. QED BY <2>2, <2>4
<1>. QED BY <1>1, LedgersAreSound, PTL
-----------------------------------------------------------------------------
(* Sums over finite sets of tickets: Sum is a fold, so its value is known only from the *)
(* function that the fold is defined by, which has to be shown to exist.               *)

LEMMA LeastMember ==
    ASSUME NEW S \in SUBSET Nat, S # {}
    PROVE  \E l \in S : \A k \in S : l <= k
<1>1. PICK l \in S : \A k \in S : ~(<<k, l>> \in OpToRel(<, Nat))
  BY NatLessThanWellFounded, WFMin
<1>2. \A k \in S : ~(k < l)
  BY <1>1 DEF OpToRel
<1>3. \A k \in S : k \in Nat
  OBVIOUS
<1>4. \A k \in S : l <= k
  BY <1>2, <1>3, SMT
<1>. QED BY <1>4

LEMMA SubsetInduction ==
    ASSUME NEW E, IsFiniteSet(E), NEW Good, {} \in Good,
           \A s \in SUBSET E : s # {} /\ (\A x \in s : s \ {x} \in Good) => s \in Good
    PROVE  SUBSET E \subseteq Good
<1>. SUFFICES ASSUME NEW bad \in SUBSET E, bad \notin Good PROVE FALSE
  OBVIOUS
<1>. DEFINE Sizes == {n \in Nat : \E s \in SUBSET E : s \notin Good /\ Cardinality(s) = n}
<1>1. \A s \in SUBSET E : IsFiniteSet(s) /\ Cardinality(s) \in Nat
  BY FS_Subset, FS_CardinalityType
<1>2. Sizes # {}
  BY <1>1
<1>3. PICK n \in Sizes : \A m \in Sizes : n <= m
  <2>1. Sizes \in SUBSET Nat
    OBVIOUS
  <2>. HIDE DEF Sizes
  <2>. QED BY <1>2, <2>1, LeastMember
<1>4. PICK s \in SUBSET E : s \notin Good /\ Cardinality(s) = n
  OBVIOUS
<1>5. \A x \in s : s \ {x} \in Good
  <2>. SUFFICES ASSUME NEW x \in s, s \ {x} \notin Good PROVE FALSE
    OBVIOUS
  <2>1. Cardinality(s \ {x}) = n - 1 /\ Cardinality(s \ {x}) \in Nat
    BY <1>1, <1>4, FS_RemoveElement
  <2>2. n - 1 \in Sizes
    BY <2>1
  <2>. QED BY <1>3, <2>2
<1>. QED BY <1>4, <1>5

Chosen(s) == CHOOSE x \in s : TRUE
Totals(f, p, F, h) ==
    h = [s \in F |-> IF s = {} THEN 0 ELSE f[Chosen(s)][p] + h[s \ {Chosen(s)}]]

LEMMA SumIsTotal ==
    ASSUME NEW f, NEW p \in Counted, NEW k, Totals(f, p, SUBSET DOMAIN f, k)
    PROVE  \E h : Totals(f, p, SUBSET DOMAIN f, h) /\ Sum(f)[p] = h[DOMAIN f]
<1>. DEFINE h == CHOOSE h : Totals(f, p, SUBSET DOMAIN f, h)
<1>1. Totals(f, p, SUBSET DOMAIN f, h)
  OBVIOUS
<1>2. Sum(f)[p] = h[DOMAIN f]
  BY Zenon DEF Sum, FoldFunction, FoldFunctionOnSet, MapThenFoldSet, Totals, Chosen
<1>. QED BY <1>1, <1>2

LEMMA TotalsExist ==
    ASSUME NEW f, NEW p, IsFiniteSet(DOMAIN f)
    PROVE  \E h : Totals(f, p, SUBSET DOMAIN f, h)
<1>. DEFINE Level(n) == {s \in SUBSET DOMAIN f : Cardinality(s) <= n}
            Missing == {n \in Nat : ~\E h : Totals(f, p, Level(n), h)}
<1>1. \A s \in SUBSET DOMAIN f : IsFiniteSet(s) /\ Cardinality(s) \in Nat
                                 /\ Cardinality(s) <= Cardinality(DOMAIN f)
  BY FS_Subset, FS_CardinalityType
<1>2. Level(0) = {{}}
  BY <1>1, FS_EmptySet
<1>3. 0 \notin Missing
  <2>. DEFINE h == [s \in {{}} |-> 0]
  <2>1. Totals(f, p, {{}}, h)
    BY DEF Totals
  <2>. QED BY <1>2, <2>1
<1>4. ASSUME NEW n \in Nat, NEW h, Totals(f, p, Level(n), h)
      PROVE  \E k : Totals(f, p, Level(n + 1), k)
  <2>. DEFINE k == [s \in Level(n + 1) |->
                      IF s = {} THEN 0 ELSE f[Chosen(s)][p] + h[s \ {Chosen(s)}]]
  <2>1. \A s \in Level(n + 1) : s # {} => s \ {Chosen(s)} \in Level(n)
    <3>. SUFFICES ASSUME NEW s \in Level(n + 1), s # {} PROVE s \ {Chosen(s)} \in Level(n)
      OBVIOUS
    <3>1. Chosen(s) \in s
      BY DEF Chosen
    <3>2. Cardinality(s \ {Chosen(s)}) = Cardinality(s) - 1
      BY <1>1, <3>1, FS_RemoveElement
    <3>. QED BY <1>1, <3>2
  <2>2. \A s \in Level(n) : s \in Level(n + 1)
    BY <1>1
  <2>. HIDE DEF Level
  <2>3. \A s \in Level(n) : k[s] = h[s]
    BY <1>4, <2>2 DEF Totals
  <2>4. Totals(f, p, Level(n + 1), k)
    BY <2>1, <2>3 DEF Totals
  <2>. QED BY <2>4
<1>5. Missing = {}
  <2>. SUFFICES ASSUME Missing # {} PROVE FALSE
    OBVIOUS
  <2>0. Missing \in SUBSET Nat
    OBVIOUS
  <2>1. PICK n \in Missing : \A m \in Missing : n <= m
    <3>. HIDE DEF Missing
    <3>. QED BY <2>0, LeastMember
  <2>2. n - 1 \in Nat /\ n - 1 \notin Missing
    <3>. HIDE DEF Missing
    <3>. QED BY <1>3, <2>0, <2>1
  <2>3. \E h : Totals(f, p, Level(n - 1), h)
    BY <2>2
  <2>4. \E h : Totals(f, p, Level((n - 1) + 1), h)
    BY <1>4, <2>2, <2>3
  <2>5. (n - 1) + 1 = n
    OBVIOUS
  <2>. QED BY <2>1, <2>4, <2>5
<1>6. Cardinality(DOMAIN f) \in Nat /\ Level(Cardinality(DOMAIN f)) = SUBSET DOMAIN f
  BY <1>1, FS_CardinalityType
<1>. HIDE DEF Level
<1>7. \E h : Totals(f, p, Level(Cardinality(DOMAIN f)), h)
  BY <1>5, <1>6
<1>. QED BY <1>6, <1>7

Adds(f, p, h) ==
    /\ h \in [SUBSET DOMAIN f -> Nat] /\ h[{}] = 0
    /\ \A s \in SUBSET DOMAIN f : \A x \in s : h[s] = f[x][p] + h[s \ {x}]

LEMMA SumAdds ==
    ASSUME NEW D, IsFiniteSet(D), NEW f \in [D -> Vector], NEW p \in Counted
    PROVE  \E h : Adds(f, p, h) /\ Sum(f)[p] = h[D]
<1>0. DOMAIN f = D
  OBVIOUS
<1>1. PICK h : Totals(f, p, SUBSET D, h) /\ Sum(f)[p] = h[D]
  BY <1>0, TotalsExist, SumIsTotal
<1>2. \A x \in D : f[x][p] \in Nat
  BY DEF Vector
<1>3. /\ h = [s \in SUBSET D |-> h[s]] /\ h[{}] = 0
      /\ \A s \in SUBSET D : s # {} => /\ Chosen(s) \in s
                                       /\ h[s] = f[Chosen(s)][p] + h[s \ {Chosen(s)}]
  BY <1>1 DEF Totals, Chosen
<1>4. \A s \in SUBSET D : h[s] \in Nat
  <2>. DEFINE Good == {s \in SUBSET D : h[s] \in Nat}
  <2>1. ASSUME NEW s \in SUBSET D, s # {}, \A x \in s : s \ {x} \in Good
        PROVE  s \in Good
    <3>1. Chosen(s) \in s /\ h[s] = f[Chosen(s)][p] + h[s \ {Chosen(s)}]
      BY <1>3, <2>1
    <3>2. h[s \ {Chosen(s)}] \in Nat /\ f[Chosen(s)][p] \in Nat
      BY <1>2, <2>1, <3>1
    <3>3. h[s] \in Nat
      BY <3>1, <3>2
    <3>. QED BY <3>3
  <2>2. {} \in Good
    BY <1>3
  <2>3. SUBSET D \subseteq Good
    <3>. HIDE DEF Good
    <3>. QED BY <2>1, <2>2, SubsetInduction
  <2>. QED BY <2>3
<1>5. \A s \in SUBSET D : \A x \in s : h[s] = f[x][p] + h[s \ {x}]
  <2>. DEFINE Good == {s \in SUBSET D : \A x \in s : h[s] = f[x][p] + h[s \ {x}]}
  <2>1. ASSUME NEW s \in SUBSET D, s # {}, \A x \in s : s \ {x} \in Good
        PROVE  s \in Good
    <3>. SUFFICES ASSUME NEW x \in s PROVE h[s] = f[x][p] + h[s \ {x}]
      OBVIOUS
    <3>. DEFINE c == Chosen(s)
    <3>1. c \in s /\ h[s] = f[c][p] + h[s \ {c}]
      BY <1>3, <2>1
    <3>. HIDE DEF c
    <3>2. CASE x = c
      BY <3>1, <3>2
    <3>3. CASE x # c
      <4>1. h[s \ {c}] = f[x][p] + h[(s \ {c}) \ {x}]
        BY <2>1, <3>1, <3>3
      <4>2. h[s \ {x}] = f[c][p] + h[(s \ {x}) \ {c}]
        BY <2>1, <3>1, <3>3
      <4>3. (s \ {c}) \ {x} = (s \ {x}) \ {c}
        OBVIOUS
      <4>4. f[x][p] \in Nat /\ f[c][p] \in Nat /\ h[(s \ {x}) \ {c}] \in Nat
        BY <1>2, <1>4, <3>1
      <4>. DEFINE u == h[(s \ {x}) \ {c}]
                  b == f[x][p]
                  d == f[c][p]
                  y == h[s \ {c}]
                  z == h[s \ {x}]
                  w == h[s]
      <4>5. w = d + y /\ y = b + u /\ z = d + u /\ u \in Nat /\ b \in Nat /\ d \in Nat
        BY <3>1, <4>1, <4>2, <4>3, <4>4
      <4>6. w = b + z
        <5>. HIDE DEF u, b, d, y, z, w
        <5>. QED BY <4>5
      <4>. QED BY <4>6
    <3>. QED BY <3>2, <3>3
  <2>2. {} \in Good
    OBVIOUS
  <2>3. SUBSET D \subseteq Good
    <3>. HIDE DEF Good
    <3>. QED BY <2>1, <2>2, SubsetInduction
  <2>. QED BY <2>3
<1>6. h \in [SUBSET D -> Nat]
  BY <1>3, <1>4
<1>. QED BY <1>0, <1>1, <1>3, <1>5, <1>6 DEF Adds

LEMMA SumIsVector ==
    ASSUME NEW D, IsFiniteSet(D), NEW f \in [D -> Vector]
    PROVE  Sum(f) \in Vector
<1>1. \A p \in Counted : Sum(f)[p] \in Nat
  <2>. SUFFICES ASSUME NEW p \in Counted PROVE Sum(f)[p] \in Nat
    OBVIOUS
  <2>1. PICK h : Adds(f, p, h) /\ Sum(f)[p] = h[D]
    BY SumAdds
  <2>. QED BY <2>1 DEF Adds
<1>2. Sum(f) = [p \in Counted |-> Sum(f)[p]]
  BY DEF Sum
<1>. QED BY <1>1, <1>2 DEF Vector

LEMMA SumBelow ==
    ASSUME NEW E, IsFiniteSet(E), NEW D \in SUBSET E, NEW p \in Counted,
           NEW f \in [D -> Vector], NEW g \in [E -> Vector],
           \A x \in D : f[x][p] <= g[x][p]
    PROVE  Sum(f)[p] <= Sum(g)[p]
<1>1. IsFiniteSet(D)
  BY FS_Subset
<1>2. PICK h : Adds(f, p, h) /\ Sum(f)[p] = h[D]
  BY <1>1, SumAdds
<1>3. PICK k : Adds(g, p, k) /\ Sum(g)[p] = k[E]
  BY SumAdds
<1>4. (\A x \in D : f[x][p] \in Nat) /\ (\A x \in E : g[x][p] \in Nat)
  BY DEF Vector
<1>5. /\ h \in [SUBSET D -> Nat] /\ h[{}] = 0
      /\ \A s \in SUBSET D : \A x \in s : h[s] = f[x][p] + h[s \ {x}]
  BY <1>2 DEF Adds
<1>6. /\ k \in [SUBSET E -> Nat] /\ k[{}] = 0
      /\ \A s \in SUBSET E : \A x \in s : k[s] = g[x][p] + k[s \ {x}]
  BY <1>3 DEF Adds
<1>. DEFINE Good == {s \in SUBSET E : h[s \cap D] <= k[s]}
<1>7. ASSUME NEW s \in SUBSET E, s # {}, \A x \in s : s \ {x} \in Good
      PROVE  s \in Good
  <2>1. PICK x \in s : TRUE
    BY <1>7
  <2>2. h[(s \ {x}) \cap D] <= k[s \ {x}] /\ k[s] = g[x][p] + k[s \ {x}]
    BY <1>6, <1>7
  <2>3. k[s \ {x}] \in Nat /\ h[(s \ {x}) \cap D] \in Nat /\ g[x][p] \in Nat
    BY <1>4, <1>5, <1>6
  <2>. DEFINE b == g[x][p]
              c == f[x][p]
              u == k[s \ {x}]
              v == h[(s \ {x}) \cap D]
              y == k[s]
              z == h[s \cap D]
  <2>4. v <= u /\ y = b + u /\ u \in Nat /\ v \in Nat /\ b \in Nat
    BY <2>2, <2>3
  <2>5. x \in D => z = c + v /\ c \in Nat /\ c <= b
    <3>. SUFFICES ASSUME x \in D PROVE z = c + v /\ c \in Nat /\ c <= b
      OBVIOUS
    <3>1. h[s \cap D] = f[x][p] + h[(s \cap D) \ {x}]
      BY <1>5
    <3>2. (s \cap D) \ {x} = (s \ {x}) \cap D
      OBVIOUS
    <3>. QED BY <1>4, <3>1, <3>2
  <2>6. x \notin D => z = v
    <3>. SUFFICES ASSUME x \notin D PROVE z = v
      OBVIOUS
    <3>1. s \cap D = (s \ {x}) \cap D
      OBVIOUS
    <3>. QED BY <3>1
  <2>7. z <= y
    <3>. HIDE DEF b, c, u, v, y, z
    <3>. QED BY <2>4, <2>5, <2>6
  <2>. QED BY <2>7
<1>8. {} \in Good
  <2>1. {} \cap D = {}
    OBVIOUS
  <2>. QED BY <1>5, <1>6, <2>1
<1>9. SUBSET E \subseteq Good
  <2>. HIDE DEF Good
  <2>. QED BY <1>7, <1>8, SubsetInduction
<1>10. E \cap D = D /\ E \in Good
  BY <1>9
<1>. QED BY <1>2, <1>3, <1>10

LEMMA SumAbove ==
    ASSUME NEW E, IsFiniteSet(E), NEW D \in SUBSET E, NEW p \in Counted,
           NEW f \in [D -> Vector], NEW g \in [E -> Vector],
           \A x \in D : g[x][p] <= f[x][p], \A x \in E \ D : g[x][p] = 0
    PROVE  Sum(g)[p] <= Sum(f)[p]
<1>1. IsFiniteSet(D)
  BY FS_Subset
<1>2. PICK h : Adds(f, p, h) /\ Sum(f)[p] = h[D]
  BY <1>1, SumAdds
<1>3. PICK k : Adds(g, p, k) /\ Sum(g)[p] = k[E]
  BY SumAdds
<1>4. (\A x \in D : f[x][p] \in Nat) /\ (\A x \in E : g[x][p] \in Nat)
  BY DEF Vector
<1>5. /\ h \in [SUBSET D -> Nat] /\ h[{}] = 0
      /\ \A s \in SUBSET D : \A x \in s : h[s] = f[x][p] + h[s \ {x}]
  BY <1>2 DEF Adds
<1>6. /\ k \in [SUBSET E -> Nat] /\ k[{}] = 0
      /\ \A s \in SUBSET E : \A x \in s : k[s] = g[x][p] + k[s \ {x}]
  BY <1>3 DEF Adds
<1>. DEFINE Good == {s \in SUBSET E : k[s] <= h[s \cap D]}
<1>7. ASSUME NEW s \in SUBSET E, s # {}, \A x \in s : s \ {x} \in Good
      PROVE  s \in Good
  <2>1. PICK x \in s : TRUE
    BY <1>7
  <2>2. k[s \ {x}] <= h[(s \ {x}) \cap D] /\ k[s] = g[x][p] + k[s \ {x}]
    BY <1>6, <1>7
  <2>3. k[s \ {x}] \in Nat /\ h[(s \ {x}) \cap D] \in Nat /\ g[x][p] \in Nat
    BY <1>4, <1>5, <1>6
  <2>. DEFINE b == g[x][p]
              c == f[x][p]
              u == k[s \ {x}]
              v == h[(s \ {x}) \cap D]
              y == k[s]
              z == h[s \cap D]
  <2>4. u <= v /\ y = b + u /\ u \in Nat /\ v \in Nat /\ b \in Nat
    BY <2>2, <2>3
  <2>5. x \in D => z = c + v /\ c \in Nat /\ b <= c
    <3>. SUFFICES ASSUME x \in D PROVE z = c + v /\ c \in Nat /\ b <= c
      OBVIOUS
    <3>1. h[s \cap D] = f[x][p] + h[(s \cap D) \ {x}]
      BY <1>5
    <3>2. (s \cap D) \ {x} = (s \ {x}) \cap D
      OBVIOUS
    <3>. QED BY <1>4, <3>1, <3>2
  <2>6. x \notin D => z = v /\ b = 0
    <3>. SUFFICES ASSUME x \notin D PROVE z = v /\ b = 0
      OBVIOUS
    <3>1. s \cap D = (s \ {x}) \cap D
      OBVIOUS
    <3>. QED BY <3>1
  <2>7. y <= z
    <3>. HIDE DEF b, c, u, v, y, z
    <3>. QED BY <2>4, <2>5, <2>6
  <2>. QED BY <2>7
<1>8. {} \in Good
  <2>1. {} \cap D = {}
    OBVIOUS
  <2>. QED BY <1>5, <1>6, <2>1
<1>9. SUBSET E \subseteq Good
  <2>. HIDE DEF Good
  <2>. QED BY <1>7, <1>8, SubsetInduction
<1>10. E \cap D = D /\ E \in Good
  BY <1>9
<1>. QED BY <1>2, <1>3, <1>10

\* From f to g the entries of D grow by those of a, and that of t changes.
Spreads(E, t, D, p, a, f, g) ==
    /\ IsFiniteSet(E) /\ t \in E /\ D \in SUBSET (E \ {t}) /\ p \in Counted
    /\ a \in [D -> Vector] /\ f \in [E -> Vector] /\ g \in [E -> Vector]
    /\ \A x \in D : g[x][p] = f[x][p] + a[x][p]
    /\ \A x \in E \ D : x # t => g[x][p] = f[x][p]

LEMMA SumSpread ==
    ASSUME NEW E, NEW t, NEW D, NEW p, NEW a, NEW f, NEW g, Spreads(E, t, D, p, a, f, g)
    PROVE  Sum(g)[p] + f[t][p] = Sum(f)[p] + Sum(a)[p] + g[t][p]
<1>0. /\ IsFiniteSet(E) /\ t \in E /\ D \in SUBSET (E \ {t}) /\ p \in Counted
      /\ a \in [D -> Vector] /\ f \in [E -> Vector] /\ g \in [E -> Vector]
      /\ \A x \in D : g[x][p] = f[x][p] + a[x][p]
      /\ \A x \in E \ D : x # t => g[x][p] = f[x][p]
  BY DEF Spreads
<1>1. IsFiniteSet(D)
  BY <1>0, FS_Subset
<1>2. PICK h : Adds(f, p, h) /\ Sum(f)[p] = h[E]
  BY <1>0, SumAdds
<1>3. PICK k : Adds(g, p, k) /\ Sum(g)[p] = k[E]
  BY <1>0, SumAdds
<1>4. PICK l : Adds(a, p, l) /\ Sum(a)[p] = l[D]
  BY <1>0, <1>1, SumAdds
<1>5. (\A x \in E : f[x][p] \in Nat /\ g[x][p] \in Nat) /\ (\A x \in D : a[x][p] \in Nat)
  BY <1>0 DEF Vector
<1>6. /\ h \in [SUBSET E -> Nat] /\ h[{}] = 0
      /\ \A s \in SUBSET E : \A x \in s : h[s] = f[x][p] + h[s \ {x}]
  BY <1>0, <1>2 DEF Adds
<1>7. /\ k \in [SUBSET E -> Nat] /\ k[{}] = 0
      /\ \A s \in SUBSET E : \A x \in s : k[s] = g[x][p] + k[s \ {x}]
  BY <1>0, <1>3 DEF Adds
<1>8. /\ l \in [SUBSET D -> Nat] /\ l[{}] = 0
      /\ \A s \in SUBSET D : \A x \in s : l[s] = a[x][p] + l[s \ {x}]
  BY <1>0, <1>4 DEF Adds
<1>. DEFINE B == E \ {t}
            Good == {s \in SUBSET B : k[s] = h[s] + l[s \cap D]}
<1>9. ASSUME NEW s \in SUBSET B, s # {}, \A x \in s : s \ {x} \in Good
      PROVE  s \in Good
  <2>1. PICK x \in s : TRUE
    BY <1>9
  <2>2. /\ k[s \ {x}] = h[s \ {x}] + l[(s \ {x}) \cap D]
        /\ k[s] = g[x][p] + k[s \ {x}] /\ h[s] = f[x][p] + h[s \ {x}]
    BY <1>0, <1>6, <1>7, <1>9
  <2>3. /\ k[s \ {x}] \in Nat /\ h[s \ {x}] \in Nat /\ l[(s \ {x}) \cap D] \in Nat
        /\ g[x][p] \in Nat /\ f[x][p] \in Nat
    BY <1>0, <1>5, <1>6, <1>7, <1>8
  <2>. DEFINE b == g[x][p]
              c == f[x][p]
              d == a[x][p]
              u == k[s \ {x}]
              v == h[s \ {x}]
              w == l[(s \ {x}) \cap D]
              y == k[s]
              z == h[s]
              q == l[s \cap D]
  <2>4. /\ u = v + w /\ y = b + u /\ z = c + v /\ u \in Nat /\ v \in Nat /\ w \in Nat
        /\ b \in Nat /\ c \in Nat
    BY <2>2, <2>3
  <2>5. x \in D => q = d + w /\ d \in Nat /\ b = c + d
    <3>. SUFFICES ASSUME x \in D PROVE q = d + w /\ d \in Nat /\ b = c + d
      OBVIOUS
    <3>1. l[s \cap D] = a[x][p] + l[(s \cap D) \ {x}]
      BY <1>0, <1>8
    <3>2. (s \cap D) \ {x} = (s \ {x}) \cap D
      OBVIOUS
    <3>. QED BY <1>0, <1>5, <3>1, <3>2
  <2>6. x \notin D => q = w /\ b = c
    <3>. SUFFICES ASSUME x \notin D PROVE q = w /\ b = c
      OBVIOUS
    <3>1. s \cap D = (s \ {x}) \cap D
      OBVIOUS
    <3>. QED BY <1>0, <3>1
  <2>7. y = z + q
    <3>. HIDE DEF b, c, d, u, v, w, y, z, q, Good, B
    <3>1. CASE x \in D
      <4>1. q = d + w /\ d \in Nat /\ b = c + d
        BY <2>5, <3>1
      <4>. QED BY <2>4, <4>1
    <3>2. CASE x \notin D
      <4>1. q = w /\ b = c
        BY <2>6, <3>2
      <4>. QED BY <2>4, <4>1
    <3>. QED BY <3>1, <3>2
  <2>. QED BY <2>7
<1>10. {} \in Good
  <2>1. {} \cap D = {}
    OBVIOUS
  <2>. QED BY <1>6, <1>7, <1>8, <2>1
<1>11. SUBSET B \subseteq Good
  <2>1. IsFiniteSet(B)
    BY <1>0, FS_Subset
  <2>. HIDE DEF Good, B
  <2>. QED BY <1>9, <1>10, <2>1, SubsetInduction
<1>12. B \cap D = D /\ k[B] = h[B] + l[B \cap D]
  BY <1>0, <1>11
<1>13. k[E] = g[t][p] + k[B] /\ h[E] = f[t][p] + h[B]
  BY <1>0, <1>6, <1>7
<1>14. k[B] \in Nat /\ h[B] \in Nat /\ l[D] \in Nat /\ g[t][p] \in Nat /\ f[t][p] \in Nat
  BY <1>0, <1>5, <1>6, <1>7, <1>8
<1>. DEFINE u == k[B]
            v == h[B]
            w == l[D]
            b == g[t][p]
            c == f[t][p]
            y == k[E]
            z == h[E]
<1>15. /\ u = v + w /\ y = b + u /\ z = c + v
       /\ u \in Nat /\ v \in Nat /\ w \in Nat /\ b \in Nat /\ c \in Nat
  BY <1>12, <1>13, <1>14
<1>16. y + c = z + w + b
  <2>. HIDE DEF u, v, w, b, c, y, z, Good, B
  <2>1. y = b + (v + w)
    BY <1>15
  <2>2. z = c + v
    BY <1>15
  <2>. QED BY <1>15, <2>1, <2>2
<1>. QED BY <1>2, <1>3, <1>4, <1>16

\* Only the entry of t changes.
Changes(E, t, p, f, g) ==
    /\ IsFiniteSet(E) /\ t \in E /\ p \in Counted
    /\ f \in [E -> Vector] /\ g \in [E -> Vector]
    /\ \A x \in E \ {t} : g[x][p] = f[x][p]

LEMMA SumChange ==
    ASSUME NEW E, NEW t, NEW p, NEW f, NEW g, Changes(E, t, p, f, g)
    PROVE  Sum(g)[p] + f[t][p] = Sum(f)[p] + g[t][p]
<1>. DEFINE a == [x \in {} |-> NoCounts]
<1>1. a \in [{} -> Vector] /\ IsFiniteSet({})
  BY FS_EmptySet
<1>. HIDE DEF a
<1>2. Sum(a)[p] = 0
  <2>1. PICK h : Adds(a, p, h) /\ Sum(a)[p] = h[{}]
    BY <1>1, SumAdds DEF Changes
  <2>. QED BY <2>1 DEF Adds
<1>3. Spreads(E, t, {}, p, a, f, g)
  BY <1>1 DEF Spreads, Changes
<1>4. Sum(g)[p] + f[t][p] = Sum(f)[p] + Sum(a)[p] + g[t][p]
  BY <1>3, SumSpread
<1>5. Sum(f)[p] \in Nat /\ g[t][p] \in Nat
  BY SumIsVector DEF Vector, Changes
<1>. QED BY <1>2, <1>4, <1>5

LEMMA SumZero ==
    ASSUME NEW E, IsFiniteSet(E), NEW p \in Counted
    PROVE  Sum([x \in E |-> NoCounts])[p] = 0
<1>. DEFINE a == [x \in {} |-> NoCounts]
            f == [x \in E |-> NoCounts]
<1>1. a \in [{} -> Vector] /\ f \in [E -> Vector] /\ {} \in SUBSET E
  BY DEF NoCounts, Vector
<1>2. \A x \in E : f[x][p] = 0
  BY DEF NoCounts
<1>. HIDE DEF a, f
<1>3. Sum(f)[p] <= Sum(a)[p]
  <2>1. \A x \in {} : f[x][p] <= a[x][p]
    OBVIOUS
  <2>2. \A x \in E \ {} : f[x][p] = 0
    BY <1>2
  <2>. QED BY <1>1, <2>1, <2>2, SumAbove
<1>4. Sum(a)[p] = 0
  <2>1. PICK h : Adds(a, p, h) /\ Sum(a)[p] = h[{}]
    BY <1>1, FS_EmptySet, SumAdds
  <2>. QED BY <2>1 DEF Adds
<1>5. Sum(f)[p] \in Nat
  BY <1>1, SumIsVector DEF Vector
<1>6. Sum(f)[p] = 0
  BY <1>3, <1>4, <1>5
<1>. QED BY <1>6 DEF f

-----------------------------------------------------------------------------
(* The accounts of a lineage.                                                *)

\* What a ticket has spent and may still spend; a retired one has given the rest away.
Entry(r) == [p \in Counted |-> r.local[p] + IF r.retired THEN 0 ELSE r.limits[p] - r.counts[p]]

\* Tickets of the lineage of t that allocated something to x.
Donors(m, t, x) == {u \in DOMAIN m : Root(m, u) = t /\ x \in DOMAIN m[u].splits}

\* What x holds of the allowance of the lineage of t; a child that has no ledger yet holds
\* its allocation.
Held(m, t, x) ==
    IF x \in DOMAIN m THEN IF Root(m, x) = t THEN Entry(m[x]) ELSE NoCounts
    ELSE IF Donors(m, t, x) = {} THEN NoCounts
    ELSE LET a == m[CHOOSE u \in Donors(m, t, x) : TRUE].splits[x]
         IN  Minus(a.limits, a.counts)

Holdings(m, t) == [x \in Tickets |-> Held(m, t, x)]
Grant(m, g, t) ==
    [x \in Tickets |-> IF x \in DOMAIN m /\ Root(m, x) = t THEN g[x] ELSE NoCounts]

\* No ledger overdraws, only a retired one has children, and a child has its ancestors.
Books(m) ==
    \A x \in DOMAIN m :
        /\ \A p \in Counted : m[x].counts[p] <= m[x].limits[p]
        /\ \A c \in DOMAIN m[x].splits : \A p \in Counted :
              m[x].splits[c].counts[p] <= m[x].splits[c].limits[p]
        /\ ~m[x].retired => DOMAIN m[x].splits = {}
        /\ m[x].ancestry # <<>> =>
              Head(m[x].ancestry) \in DOMAIN m /\ Last(m[x].ancestry) \in DOMAIN m

\* What the tickets of a lineage hold was given to them.
Balanced(m, g) ==
    \A t \in DOMAIN m : m[t].ancestry = <<>> =>
        \A p \in Counted : Sum(Holdings(m, t))[p] <= COUNTS[p] + Sum(Grant(m, g, t))[p]

Accounts == Books(state) /\ Balanced(state, granted)

\* A map of ledgers as replay() and validate_map() leave it.
Kept(m) ==
    /\ DOMAIN m \subseteq Tickets /\ m \in [DOMAIN m -> Ledger]
    /\ AllocationsAgree(m) /\ Books(m)

LEMMA RootKnown ==
    ASSUME NEW m, Kept(m), NEW x \in DOMAIN m
    PROVE  Root(m, x) \in DOMAIN m
  BY DEF Kept, Books, Root

LEMMA DifferenceIsVector ==
    ASSUME NEW a \in Vector, NEW b \in Vector, \A p \in Counted : b[p] <= a[p]
    PROVE  Minus(a, b) \in Vector
  BY DEF Minus, Vector

LEMMA EntryIsVector ==
    ASSUME NEW r \in Ledger, \A p \in Counted : r.counts[p] <= r.limits[p]
    PROVE  Entry(r) \in Vector /\ \A p \in Counted : r.local[p] <= Entry(r)[p]
<1>1. r.local \in Vector /\ r.limits \in Vector /\ r.counts \in Vector
  BY DEF Ledger
<1>2. \A p \in Counted : /\ r.local[p] \in Nat /\ r.limits[p] \in Nat /\ r.counts[p] \in Nat
                         /\ r.counts[p] <= r.limits[p]
  BY <1>1 DEF Vector
<1>3. ASSUME NEW p \in Counted
      PROVE  Entry(r)[p] \in Nat /\ r.local[p] <= Entry(r)[p]
  <2>1. Entry(r)[p] = r.local[p] + IF r.retired THEN 0 ELSE r.limits[p] - r.counts[p]
    BY DEF Entry
  <2>. QED BY <1>2, <2>1
<1>. QED BY <1>3 DEF Entry, Vector

LEMMA HeldIsVector ==
    ASSUME NEW m, Kept(m), NEW t, NEW x
    PROVE  Held(m, t, x) \in Vector
<1>1. NoCounts \in Vector
  BY DEF NoCounts, Vector
<1>2. CASE x \in DOMAIN m
  <2>1. Entry(m[x]) \in Vector
    BY <1>2, EntryIsVector DEF Kept, Books
  <2>. QED BY <1>1, <1>2, <2>1 DEF Held
<1>3. CASE x \notin DOMAIN m /\ Donors(m, t, x) # {}
  <2>. DEFINE u == CHOOSE u \in Donors(m, t, x) : TRUE
              a == m[u].splits[x]
  <2>1. u \in DOMAIN m /\ x \in DOMAIN m[u].splits
    BY <1>3 DEF Donors
  <2>2. m[u].splits \in SplitMap
    BY <2>1 DEF Kept, Ledger
  <2>3. a \in Share
    BY <2>1, <2>2 DEF SplitMap
  <2>4. \A p \in Counted : a.counts[p] <= a.limits[p]
    BY <2>1 DEF Kept, Books
  <2>5. Held(m, t, x) = Minus(a.limits, a.counts)
    BY <1>3 DEF Held
  <2>6. a.limits \in Vector /\ a.counts \in Vector
    BY <2>3 DEF Share
  <2>. HIDE DEF a
  <2>. QED BY <2>4, <2>5, <2>6, DifferenceIsVector
<1>. QED BY <1>1, <1>2, <1>3 DEF Held

LEMMA HoldingsAreVectors ==
    ASSUME NEW m, Kept(m), NEW g \in [Tickets -> Vector], NEW t
    PROVE  /\ Holdings(m, t) \in [Tickets -> Vector] /\ Grant(m, g, t) \in [Tickets -> Vector]
           /\ \A p \in Counted : /\ Sum(Holdings(m, t))[p] \in Nat
                                 /\ Sum(Grant(m, g, t))[p] \in Nat
<1>1. NoCounts \in Vector
  BY DEF NoCounts, Vector
<1>2. Holdings(m, t) \in [Tickets -> Vector]
  BY HeldIsVector DEF Holdings
<1>3. Grant(m, g, t) \in [Tickets -> Vector]
  BY <1>1 DEF Grant
<1>. QED BY <1>2, <1>3, InputConstants, SumIsVector DEF Vector

\* An event that leaves ancestry and splits alone keeps the balance when the entry of its
\* ticket changes by what is granted.
LEMMA KeepBalance ==
    ASSUME NEW m, Kept(m), NEW g \in [Tickets -> Vector], Balanced(m, g),
           NEW t \in DOMAIN m, NEW n \in Ledger, NEW e \in Vector,
           n.ancestry = m[t].ancestry, n.splits = m[t].splits, n.retired = m[t].retired,
           \A p \in Counted : n.counts[p] <= n.limits[p],
           \A p \in Counted : Entry(n)[p] + g[t][p] = Entry(m[t])[p] + e[p],
           NEW k, k = [u \in DOMAIN m |-> IF u = t THEN n ELSE m[u]], AllocationsAgree(k)
    PROVE  Books(k) /\ Balanced(k, [g EXCEPT ![t] = e])
<1>. DEFINE h == [g EXCEPT ![t] = e]
<1>1. /\ DOMAIN k = DOMAIN m /\ k[t] = n /\ \A u \in DOMAIN m : u # t => k[u] = m[u]
      /\ \A u \in DOMAIN m : k[u].ancestry = m[u].ancestry /\ k[u].splits = m[u].splits
                             /\ k[u].retired = m[u].retired
  OBVIOUS
<1>2. \A u \in DOMAIN m : Root(k, u) = Root(m, u)
  BY <1>1 DEF Root
<1>3. Books(k)
  BY <1>1 DEF Kept, Books
<1>4. Kept(k)
  <2>1. DOMAIN k \subseteq Tickets /\ k \in [DOMAIN k -> Ledger]
    BY DEF Kept
  <2>. QED BY <1>3, <2>1 DEF Kept
<1>5. t \in Tickets /\ h \in [Tickets -> Vector] /\ h[t] = e /\ IsFiniteSet(Tickets)
      /\ \A x \in Tickets : x # t => h[x] = g[x]
  BY InputConstants DEF Kept
<1>. HIDE DEF h
<1>6. ASSUME NEW q, NEW x, x # t
      PROVE  Held(k, q, x) = Held(m, q, x)
  <2>1. Donors(k, q, x) = Donors(m, q, x)
    BY <1>1, <1>2 DEF Donors
  <2>2. CASE x \in DOMAIN m
    BY <1>1, <1>2, <1>6, <2>2 DEF Held
  <2>3. CASE x \notin DOMAIN m /\ Donors(m, q, x) = {}
    BY <1>1, <2>1, <2>3 DEF Held
  <2>4. CASE x \notin DOMAIN m /\ Donors(m, q, x) # {}
    <3>. DEFINE u == CHOOSE u \in Donors(m, q, x) : TRUE
    <3>1. u \in DOMAIN m
      BY <2>4 DEF Donors
    <3>2. k[u].splits = m[u].splits
      BY <1>1, <3>1
    <3>3. Held(k, q, x) = Minus(k[u].splits[x].limits, k[u].splits[x].counts)
      BY <1>1, <2>1, <2>4 DEF Held
    <3>4. Held(m, q, x) = Minus(m[u].splits[x].limits, m[u].splits[x].counts)
      BY <2>4 DEF Held
    <3>. HIDE DEF u
    <3>. QED BY <3>2, <3>3, <3>4
  <2>. QED BY <2>2, <2>3, <2>4
<1>7. ASSUME NEW q \in DOMAIN k, k[q].ancestry = <<>>, NEW p \in Counted
      PROVE  Sum(Holdings(k, q))[p] <= COUNTS[p] + Sum(Grant(k, h, q))[p]
  <2>1. Sum(Holdings(m, q))[p] <= COUNTS[p] + Sum(Grant(m, g, q))[p]
    BY <1>1, <1>7 DEF Balanced
  <2>2. /\ Holdings(m, q) \in [Tickets -> Vector] /\ Grant(m, g, q) \in [Tickets -> Vector]
        /\ Sum(Holdings(m, q))[p] \in Nat /\ Sum(Grant(m, g, q))[p] \in Nat
    BY HoldingsAreVectors
  <2>3. /\ Holdings(k, q) \in [Tickets -> Vector] /\ Grant(k, h, q) \in [Tickets -> Vector]
        /\ Sum(Holdings(k, q))[p] \in Nat /\ Sum(Grant(k, h, q))[p] \in Nat
    BY <1>4, <1>5, HoldingsAreVectors
  <2>4. \A x \in Tickets \ {t} : /\ Holdings(k, q)[x] = Holdings(m, q)[x]
                                 /\ Grant(k, h, q)[x] = Grant(m, g, q)[x]
    BY <1>1, <1>2, <1>5, <1>6 DEF Holdings, Grant
  <2>5. /\ Sum(Holdings(k, q))[p] + Holdings(m, q)[t][p]
              = Sum(Holdings(m, q))[p] + Holdings(k, q)[t][p]
        /\ Sum(Grant(k, h, q))[p] + Grant(m, g, q)[t][p]
              = Sum(Grant(m, g, q))[p] + Grant(k, h, q)[t][p]
    <3>1. /\ Changes(Tickets, t, p, Holdings(m, q), Holdings(k, q))
          /\ Changes(Tickets, t, p, Grant(m, g, q), Grant(k, h, q))
      BY <1>5, <2>2, <2>3, <2>4 DEF Changes
    <3>. QED BY <3>1, SumChange
  <2>6. Holdings(k, q)[t][p] + Grant(m, g, q)[t][p] = Holdings(m, q)[t][p] + Grant(k, h, q)[t][p]
    <3>1. CASE Root(m, t) = q
      <4>1. Holdings(k, q)[t] = Entry(n) /\ Holdings(m, q)[t] = Entry(m[t])
        BY <1>1, <1>2, <1>5, <3>1 DEF Holdings, Held
      <4>2. Grant(m, g, q)[t] = g[t] /\ Grant(k, h, q)[t] = e
        BY <1>1, <1>2, <1>5, <3>1 DEF Grant
      <4>. QED BY <4>1, <4>2
    <3>2. CASE Root(m, t) # q
      <4>1. Holdings(k, q)[t] = NoCounts /\ Holdings(m, q)[t] = NoCounts
        BY <1>1, <1>2, <1>5, <3>2 DEF Holdings, Held
      <4>2. Grant(m, g, q)[t] = NoCounts /\ Grant(k, h, q)[t] = NoCounts
        BY <1>1, <1>2, <1>5, <3>2 DEF Grant
      <4>. QED BY <4>1, <4>2
    <3>. QED BY <3>1, <3>2
  <2>7. /\ Holdings(m, q)[t][p] \in Nat /\ Holdings(k, q)[t][p] \in Nat
        /\ Grant(m, g, q)[t][p] \in Nat /\ Grant(k, h, q)[t][p] \in Nat
    BY <1>5, <2>2, <2>3 DEF Vector
  <2>8. COUNTS[p] \in Nat
    BY DEF COUNTS
  <2>. DEFINE a == Sum(Holdings(m, q))[p]
              b == Sum(Holdings(k, q))[p]
              c == Sum(Grant(m, g, q))[p]
              d == Sum(Grant(k, h, q))[p]
              i == Holdings(m, q)[t][p]
              j == Holdings(k, q)[t][p]
              v == Grant(m, g, q)[t][p]
              w == Grant(k, h, q)[t][p]
              z == COUNTS[p]
  <2>9. /\ a \in Nat /\ b \in Nat /\ c \in Nat /\ d \in Nat /\ i \in Nat /\ j \in Nat
        /\ v \in Nat /\ w \in Nat /\ z \in Nat
        /\ a <= z + c /\ b + i = a + j /\ d + v = c + w /\ j + v = i + w
    BY <2>1, <2>2, <2>3, <2>5, <2>6, <2>7, <2>8
  <2>10. b <= z + d
    <3>. HIDE DEF a, b, c, d, i, j, v, w, z
    <3>. QED BY <2>9
  <2>. QED BY <2>10
<1>. QED BY <1>3, <1>7 DEF Balanced, h

\* From m to k the ledger n of t starts, with no allocation of its own.
StartsAt(m, t, n, k) ==
    /\ Kept(m) /\ t \in Tickets \ DOMAIN m /\ n \in Ledger /\ DOMAIN n.splits = {}
    /\ k = [u \in DOMAIN m \cup {t} |-> IF u = t THEN n ELSE m[u]]

\* From m to k only the ledger n of t is added.
AddsLedger(m, t, n, k) ==
    /\ DOMAIN k = DOMAIN m \cup {t} /\ k[t] = n
    /\ \A u \in DOMAIN m : u # t /\ k[u] = m[u] /\ Root(k, u) = Root(m, u)
    /\ \A q, x : x # t => Held(k, q, x) = Held(m, q, x)

LEMMA StartedLedger ==
    ASSUME NEW m, NEW t, NEW n, NEW k, StartsAt(m, t, n, k)
    PROVE  AddsLedger(m, t, n, k)
<1>1. /\ DOMAIN k = DOMAIN m \cup {t} /\ k[t] = n /\ DOMAIN n.splits = {}
      /\ \A u \in DOMAIN m : u # t /\ k[u] = m[u]
  BY DEF StartsAt
<1>2. \A u \in DOMAIN m : Root(k, u) = Root(m, u)
  BY <1>1 DEF Root
<1>3. ASSUME NEW q, NEW x, x # t
      PROVE  Held(k, q, x) = Held(m, q, x)
  <2>1. Donors(k, q, x) = Donors(m, q, x)
    BY <1>1, <1>2 DEF Donors
  <2>2. CASE x \in DOMAIN m
    BY <1>1, <1>2, <1>3, <2>2 DEF Held
  <2>3. CASE x \notin DOMAIN m /\ Donors(m, q, x) = {}
    BY <1>1, <1>3, <2>1, <2>3 DEF Held
  <2>4. CASE x \notin DOMAIN m /\ Donors(m, q, x) # {}
    <3>. DEFINE u == CHOOSE u \in Donors(m, q, x) : TRUE
    <3>1. u \in DOMAIN m
      BY <2>4 DEF Donors
    <3>2. k[u] = m[u]
      BY <1>1, <3>1
    <3>3. Held(k, q, x) = Minus(k[u].splits[x].limits, k[u].splits[x].counts)
      BY <1>1, <1>3, <2>1, <2>4 DEF Held
    <3>4. Held(m, q, x) = Minus(m[u].splits[x].limits, m[u].splits[x].counts)
      BY <2>4 DEF Held
    <3>. HIDE DEF u
    <3>. QED BY <3>2, <3>3, <3>4
  <2>. QED BY <2>2, <2>3, <2>4
<1>. QED BY <1>1, <1>2, <1>3 DEF AddsLedger

LEMMA FirstBalance ==
    ASSUME NEW m, Kept(m), NEW g \in [Tickets -> Vector], Balanced(m, g),
           NEW t \in Tickets \ DOMAIN m, NEW n \in Ledger,
           n.ancestry = <<>>, DOMAIN n.splits = {}, n.local = NoCounts, n.counts = NoCounts,
           n.limits = COUNTS,
           NEW k, k = [u \in DOMAIN m \cup {t} |-> IF u = t THEN n ELSE m[u]],
           AllocationsAgree(k)
    PROVE  Books(k) /\ Balanced(k, g)
<1>1. /\ DOMAIN k = DOMAIN m \cup {t} /\ k[t] = n
      /\ \A u \in DOMAIN m : u # t /\ k[u] = m[u] /\ Root(k, u) = Root(m, u)
      /\ \A q, x : x # t => Held(k, q, x) = Held(m, q, x)
  <2>1. StartsAt(m, t, n, k)
    BY DEF StartsAt
  <2>2. AddsLedger(m, t, n, k)
    BY <2>1, StartedLedger
  <2>. QED BY <2>2 DEF AddsLedger
<1>2. \A p \in Counted : COUNTS[p] = 1 /\ NoCounts[p] = 0
  BY DEF COUNTS, NoCounts
<1>3. Books(k)
  <2>1. \A p \in Counted : n.counts[p] <= n.limits[p]
    BY <1>2
  <2>2. \A u \in DOMAIN m : m[u].ancestry # <<>> =>
           Head(m[u].ancestry) \in DOMAIN k /\ Last(m[u].ancestry) \in DOMAIN k
    BY <1>1 DEF Kept, Books
  <2>. QED BY <1>1, <2>1, <2>2 DEF Kept, Books
<1>4. Kept(k)
  <2>1. DOMAIN k \subseteq Tickets /\ k \in [DOMAIN k -> Ledger]
    BY DEF Kept
  <2>. QED BY <1>3, <2>1 DEF Kept
<1>5. Root(k, t) = t
  BY <1>1 DEF Root
<1>6. ASSUME NEW q \in DOMAIN k, k[q].ancestry = <<>>, NEW p \in Counted
      PROVE  Sum(Holdings(k, q))[p] <= COUNTS[p] + Sum(Grant(k, g, q))[p]
  <2>1. CASE q # t
    <3>1. Donors(m, q, t) = {}
      <4>1. \A u \in DOMAIN m : t \notin DOMAIN k[u].splits
        BY <1>1 DEF AllocationsAgree
      <4>. QED BY <1>1, <4>1 DEF Donors
    <3>2. Held(k, q, t) = NoCounts /\ Held(m, q, t) = NoCounts
      BY <1>1, <1>5, <2>1, <3>1 DEF Held
    <3>3. \A x : Held(k, q, x) = Held(m, q, x)
      BY <1>1, <3>2
    <3>4. Holdings(k, q) = Holdings(m, q)
      BY <3>3 DEF Holdings
    <3>5. \A x : x \in DOMAIN k /\ Root(k, x) = q <=> x \in DOMAIN m /\ Root(m, x) = q
      BY <1>1, <1>5, <2>1
    <3>6. Grant(k, g, q) = Grant(m, g, q)
      BY <3>5 DEF Grant
    <3>. QED BY <1>1, <1>6, <2>1, <3>4, <3>6 DEF Balanced
  <2>2. CASE q = t
    <3>. DEFINE none == [x \in Tickets |-> NoCounts]
    <3>1. \A x \in Tickets : x # t => Held(m, q, x) = NoCounts
      <4>1. \A u \in DOMAIN m : Root(m, u) # q
        BY <1>1, <2>2, RootKnown
      <4>2. \A x : Donors(m, q, x) = {}
        BY <4>1 DEF Donors
      <4>. QED BY <4>1, <4>2 DEF Held
    <3>2. none \in [Tickets -> Vector] /\ Holdings(k, q) \in [Tickets -> Vector]
          /\ Sum(Holdings(k, q))[p] \in Nat /\ Sum(Grant(k, g, q))[p] \in Nat
      BY <1>4, HoldingsAreVectors DEF NoCounts, Vector
    <3>3. \A x \in Tickets \ {t} : Holdings(k, q)[x][p] = none[x][p]
      BY <1>1, <3>1 DEF Holdings
    <3>4. Sum(none)[p] = 0 /\ IsFiniteSet(Tickets)
      BY InputConstants, SumZero
    <3>5. none[t][p] = 0
      BY <1>2
    <3>. HIDE DEF none
    <3>6. Sum(Holdings(k, q))[p] + none[t][p] = Sum(none)[p] + Holdings(k, q)[t][p]
      <4>1. Changes(Tickets, t, p, none, Holdings(k, q))
        BY <3>2, <3>3, <3>4 DEF Changes
      <4>. QED BY <4>1, SumChange
    <3>7. Holdings(k, q)[t] = Entry(n)
      BY <1>1, <1>5, <2>2 DEF Holdings, Held
    <3>8. Entry(n)[p] \in Nat /\ Entry(n)[p] <= COUNTS[p]
      BY <1>2 DEF Entry
    <3>. QED BY <1>2, <3>2, <3>4, <3>5, <3>6, <3>7, <3>8
  <2>. QED BY <2>1, <2>2
<1>. QED BY <1>3, <1>6 DEF Balanced

\* The ledger n of t starts, under parent in m, with what parent allocates to it.
Inherits(m, t, n, parent) ==
    /\ Kept(m) /\ t \in Tickets \ DOMAIN m /\ n \in Ledger
    /\ parent \in DOMAIN m /\ t \in DOMAIN m[parent].splits
    /\ n.ancestry = Append(m[parent].ancestry, parent) /\ DOMAIN n.splits = {}
    /\ n.local = NoCounts /\ n.counts = m[parent].splits[t].counts
    /\ n.limits = m[parent].splits[t].limits /\ ~n.retired

LEMMA ChildBalance ==
    ASSUME NEW m, NEW t, NEW n, NEW parent, Inherits(m, t, n, parent),
           NEW g \in [Tickets -> Vector], Balanced(m, g), g[t] = NoCounts,
           NEW k, k = [u \in DOMAIN m \cup {t} |-> IF u = t THEN n ELSE m[u]],
           AllocationsAgree(k)
    PROVE  Books(k) /\ Balanced(k, g)
<1>. USE DEF Inherits
<1>1. /\ DOMAIN k = DOMAIN m \cup {t} /\ k[t] = n
      /\ \A u \in DOMAIN m : u # t /\ k[u] = m[u] /\ Root(k, u) = Root(m, u)
      /\ \A q, x : x # t => Held(k, q, x) = Held(m, q, x)
  <2>1. StartsAt(m, t, n, k)
    BY DEF StartsAt
  <2>2. AddsLedger(m, t, n, k)
    BY <2>1, StartedLedger
  <2>. QED BY <2>2 DEF AddsLedger
<1>2. /\ n.ancestry # <<>> /\ Last(n.ancestry) = parent /\ Head(n.ancestry) = Root(m, parent)
      /\ Head(n.ancestry) \in DOMAIN m
  <2>1. m[parent].ancestry \in Seq(Tickets) /\ parent \in Tickets
    BY DEF Kept, Ledger
  <2>2. n.ancestry # <<>> /\ Last(n.ancestry) = parent
    BY <2>1 DEF Last
  <2>3. Head(n.ancestry) = Root(m, parent)
    BY <2>1 DEF Root
  <2>. QED BY <2>2, <2>3, RootKnown
<1>3. Books(k)
  <2>1. \A p \in Counted : n.counts[p] <= n.limits[p]
    BY DEF Kept, Books
  <2>2. \A u \in DOMAIN m : m[u].ancestry # <<>> =>
           Head(m[u].ancestry) \in DOMAIN k /\ Last(m[u].ancestry) \in DOMAIN k
    BY <1>1 DEF Kept, Books
  <2>. QED BY <1>1, <1>2, <2>1, <2>2 DEF Kept, Books
<1>4. Root(k, t) = Root(m, parent)
  BY <1>1, <1>2 DEF Root
<1>5. Entry(n) = Minus(n.limits, n.counts)
  <2>1. n.limits \in Vector /\ n.counts \in Vector
    BY DEF Ledger
  <2>2. \A p \in Counted : n.limits[p] \in Nat /\ n.counts[p] \in Nat /\ n.local[p] = 0
    BY <2>1 DEF Vector, NoCounts
  <2>. QED BY <2>2 DEF Entry, Minus
<1>6. ASSUME NEW q \in DOMAIN k, k[q].ancestry = <<>>, NEW p \in Counted
      PROVE  Sum(Holdings(k, q))[p] <= COUNTS[p] + Sum(Grant(k, g, q))[p]
  <2>1. q # t /\ q \in DOMAIN m /\ m[q].ancestry = <<>>
    BY <1>1, <1>2, <1>6
  <2>2. \A u \in Donors(m, q, t) : u = parent
    BY DEF Donors, Kept, AllocationsAgree
  <2>3. Held(k, q, t) = Held(m, q, t)
    <3>1. CASE Root(m, parent) = q
      <4>1. Donors(m, q, t) = {parent}
        BY <2>2, <3>1 DEF Donors
      <4>2. Held(m, q, t) = Minus(m[parent].splits[t].limits, m[parent].splits[t].counts)
        BY <4>1 DEF Held
      <4>3. Held(k, q, t) = Entry(n)
        BY <1>1, <1>4, <3>1 DEF Held
      <4>. QED BY <1>5, <4>2, <4>3
    <3>2. CASE Root(m, parent) # q
      <4>1. Donors(m, q, t) = {}
        BY <2>2, <3>2 DEF Donors
      <4>. QED BY <1>1, <1>4, <3>2, <4>1 DEF Held
    <3>. QED BY <3>1, <3>2
  <2>4. Holdings(k, q) = Holdings(m, q)
    <3>1. \A x : Held(k, q, x) = Held(m, q, x)
      BY <1>1, <2>3
    <3>. QED BY <3>1 DEF Holdings
  <2>5. Grant(k, g, q) = Grant(m, g, q)
    BY <1>1 DEF Grant
  <2>. QED BY <2>1, <2>4, <2>5 DEF Balanced
<1>. QED BY <1>3, <1>6 DEF Balanced

\* From m to k the ticket t retires and leaves allocate to its kids.
SplitsInto(m, t, n, kids, allocate, k) ==
    LET r == m[t] IN
    /\ Kept(m) /\ t \in DOMAIN m /\ n \in Ledger
    /\ kids \in SUBSET (Tickets \ {t}) /\ allocate \in [kids -> Vector]
    /\ ~r.retired /\ n.retired /\ n.ancestry = r.ancestry
    /\ n.local = r.local /\ n.counts = r.counts /\ n.limits = r.limits
    /\ DOMAIN n.splits = kids
    /\ \A c \in kids : /\ n.splits[c].counts = r.counts
                       /\ n.splits[c].limits = Plus(r.counts, allocate[c])
    /\ \A p \in Counted : Sum(allocate)[p] <= r.limits[p] - r.counts[p]
    /\ k = [u \in DOMAIN m |-> IF u = t THEN n ELSE m[u]]
    /\ AllocationsAgree(k)

LEMMA SplitParts ==
    ASSUME NEW m, NEW t, NEW n, NEW kids, NEW allocate, NEW k,
           SplitsInto(m, t, n, kids, allocate, k)
    PROVE  /\ DOMAIN k = DOMAIN m /\ k[t] = n /\ \A u \in DOMAIN m : u # t => k[u] = m[u]
           /\ \A u \in DOMAIN m : Root(k, u) = Root(m, u) /\ k[u].ancestry = m[u].ancestry
           /\ DOMAIN m[t].splits = {} /\ kids \cap DOMAIN m = {}
           /\ \A q : \A c \in kids : /\ Donors(m, q, c) = {}
                                     /\ Donors(k, q, c) = IF Root(m, t) = q THEN {t} ELSE {}
           /\ \A q, x : x \notin kids /\ x # t => Held(k, q, x) = Held(m, q, x)
<1>1. /\ DOMAIN k = DOMAIN m /\ k[t] = n /\ \A u \in DOMAIN m : u # t => k[u] = m[u]
      /\ \A u \in DOMAIN m : k[u].ancestry = m[u].ancestry
  BY DEF SplitsInto
<1>2. \A u \in DOMAIN m : Root(k, u) = Root(m, u)
  BY <1>1 DEF Root
<1>3. /\ DOMAIN m[t].splits = {} /\ DOMAIN n.splits = kids /\ t \in DOMAIN m /\ t \notin kids
  BY DEF SplitsInto, Kept, Books
<1>4. \A u \in DOMAIN m : u # t => DOMAIN m[u].splits \cap kids = {}
  <2>1. AllocationsAgree(k)
    BY DEF SplitsInto
  <2>. QED BY <1>1, <1>3, <2>1 DEF AllocationsAgree
<1>5. kids \cap DOMAIN m = {}
  <2>. SUFFICES ASSUME NEW c \in kids, c \in DOMAIN m PROVE FALSE
    OBVIOUS
  <2>1. AllocationsAgree(k) /\ AllocationsAgree(m) /\ Books(m)
    BY DEF SplitsInto, Kept
  <2>2. m[c].ancestry # <<>>
    <3>1. c \in DOMAIN k[t].splits \cap DOMAIN k
      BY <1>1, <1>3
    <3>2. k[c].ancestry # <<>>
      BY <1>1, <1>3, <2>1, <3>1 DEF AllocationsAgree
    <3>. QED BY <1>1, <3>2
  <2>3. Last(m[c].ancestry) \in DOMAIN m /\ c \in DOMAIN m[Last(m[c].ancestry)].splits
    BY <2>1, <2>2 DEF AllocationsAgree, Books
  <2>. QED BY <1>3, <1>4, <2>3
<1>6. \A q : \A c \in kids : Donors(m, q, c) = {}
  BY <1>3, <1>4 DEF Donors
<1>7. \A q : \A c \in kids : Donors(k, q, c) = IF Root(m, t) = q THEN {t} ELSE {}
  <2>. SUFFICES ASSUME NEW q, NEW c \in kids
                PROVE  Donors(k, q, c) = IF Root(m, t) = q THEN {t} ELSE {}
    OBVIOUS
  <2>1. \A u \in Donors(k, q, c) : u = t /\ Root(m, t) = q
    BY <1>1, <1>2, <1>4 DEF Donors
  <2>2. Root(m, t) = q => t \in Donors(k, q, c)
    BY <1>1, <1>2, <1>3 DEF Donors
  <2>. QED BY <2>1, <2>2
<1>8. ASSUME NEW q, NEW x, x \notin kids, x # t
      PROVE  Held(k, q, x) = Held(m, q, x)
  <2>1. Donors(k, q, x) = Donors(m, q, x)
    BY <1>1, <1>2, <1>3, <1>8 DEF Donors
  <2>2. CASE x \in DOMAIN m
    BY <1>1, <1>2, <1>8, <2>2 DEF Held
  <2>3. CASE x \notin DOMAIN m /\ Donors(m, q, x) = {}
    BY <1>1, <2>1, <2>3 DEF Held
  <2>4. CASE x \notin DOMAIN m /\ Donors(m, q, x) # {}
    <3>. DEFINE u == CHOOSE u \in Donors(m, q, x) : TRUE
    <3>1. u \in DOMAIN m /\ u # t
      BY <1>3, <2>4 DEF Donors
    <3>2. k[u] = m[u]
      BY <1>1, <3>1
    <3>3. Held(k, q, x) = Minus(k[u].splits[x].limits, k[u].splits[x].counts)
      BY <1>1, <2>1, <2>4 DEF Held
    <3>4. Held(m, q, x) = Minus(m[u].splits[x].limits, m[u].splits[x].counts)
      BY <2>4 DEF Held
    <3>. HIDE DEF u
    <3>. QED BY <3>2, <3>3, <3>4
  <2>. QED BY <2>2, <2>3, <2>4
<1>. QED BY <1>1, <1>2, <1>3, <1>5, <1>6, <1>7, <1>8

LEMMA SplitBalance ==
    ASSUME NEW m, NEW g \in [Tickets -> Vector], Balanced(m, g),
           NEW t, NEW n, NEW kids, NEW allocate, NEW k, SplitsInto(m, t, n, kids, allocate, k)
    PROVE  Books(k) /\ Balanced(k, g)
<1>1. /\ DOMAIN k = DOMAIN m /\ k[t] = n /\ \A u \in DOMAIN m : u # t => k[u] = m[u]
      /\ \A u \in DOMAIN m : Root(k, u) = Root(m, u) /\ k[u].ancestry = m[u].ancestry
      /\ DOMAIN m[t].splits = {} /\ kids \cap DOMAIN m = {}
  BY SplitParts
<1>2. /\ \A q : \A c \in kids : /\ Donors(m, q, c) = {}
                                /\ Donors(k, q, c) = IF Root(m, t) = q THEN {t} ELSE {}
      /\ \A q, x : x \notin kids /\ x # t => Held(k, q, x) = Held(m, q, x)
  BY SplitParts
<1>3. /\ Kept(m) /\ t \in DOMAIN m /\ n \in Ledger /\ t \in Tickets /\ IsFiniteSet(Tickets)
      /\ kids \in SUBSET (Tickets \ {t}) /\ allocate \in [kids -> Vector]
      /\ ~m[t].retired /\ n.retired /\ n.ancestry = m[t].ancestry /\ n.local = m[t].local
      /\ n.counts = m[t].counts /\ n.limits = m[t].limits /\ DOMAIN n.splits = kids
      /\ \A c \in kids : /\ n.splits[c].counts = n.counts
                         /\ n.splits[c].limits = Plus(n.counts, allocate[c])
      /\ \A p \in Counted : Sum(allocate)[p] <= n.limits[p] - n.counts[p]
      /\ AllocationsAgree(k) /\ k \in [DOMAIN m -> Ledger] /\ DOMAIN m \subseteq Tickets
  BY InputConstants DEF SplitsInto, Kept
<1>4. n.counts \in Vector /\ n.limits \in Vector /\ n.local \in Vector
  BY <1>3 DEF Ledger
<1>5. \A c \in kids : \A p \in Counted :
         /\ allocate[c][p] \in Nat
         /\ Plus(n.counts, allocate[c])[p] = n.counts[p] + allocate[c][p]
  BY <1>3 DEF Vector, Plus
<1>6. \A p \in Counted : n.counts[p] \in Nat /\ n.limits[p] \in Nat /\ n.local[p] \in Nat
  BY <1>4 DEF Vector
<1>7. Books(k)
  <2>1. \A p \in Counted : n.counts[p] <= n.limits[p]
    BY <1>3 DEF Kept, Books
  <2>2. \A c \in kids : \A p \in Counted : n.splits[c].counts[p] <= n.splits[c].limits[p]
    <3>. SUFFICES ASSUME NEW c \in kids, NEW p \in Counted
                  PROVE  n.splits[c].counts[p] <= n.splits[c].limits[p]
      OBVIOUS
    <3>1. n.splits[c].counts[p] = n.counts[p]
      BY <1>3
    <3>2. n.splits[c].limits[p] = n.counts[p] + allocate[c][p]
      BY <1>3, <1>5
    <3>. QED BY <1>5, <1>6, <3>1, <3>2
  <2>3. ASSUME NEW x \in DOMAIN k
        PROVE  /\ \A p \in Counted : k[x].counts[p] <= k[x].limits[p]
               /\ \A c \in DOMAIN k[x].splits : \A p \in Counted :
                     k[x].splits[c].counts[p] <= k[x].splits[c].limits[p]
               /\ ~k[x].retired => DOMAIN k[x].splits = {}
               /\ k[x].ancestry # <<>> =>
                     Head(k[x].ancestry) \in DOMAIN k /\ Last(k[x].ancestry) \in DOMAIN k
    <3>1. CASE x = t
      <4>1. m[t].ancestry # <<>> =>
               Head(m[t].ancestry) \in DOMAIN m /\ Last(m[t].ancestry) \in DOMAIN m
        BY <1>3 DEF Kept, Books
      <4>. QED BY <1>1, <1>3, <2>1, <2>2, <3>1, <4>1
    <3>2. CASE x # t
      BY <1>1, <1>3, <3>2 DEF Kept, Books
    <3>. QED BY <3>1, <3>2
  <2>. QED BY <2>3 DEF Books
<1>8. Kept(k)
  BY <1>1, <1>3, <1>7 DEF Kept
<1>9. ASSUME NEW q \in DOMAIN k, k[q].ancestry = <<>>, NEW p \in Counted
      PROVE  Sum(Holdings(k, q))[p] <= COUNTS[p] + Sum(Grant(k, g, q))[p]
  <2>1. Sum(Holdings(m, q))[p] <= COUNTS[p] + Sum(Grant(m, g, q))[p]
    BY <1>1, <1>9 DEF Balanced
  <2>2. Grant(k, g, q) = Grant(m, g, q)
    BY <1>1 DEF Grant
  <2>3. /\ Holdings(m, q) \in [Tickets -> Vector] /\ Holdings(k, q) \in [Tickets -> Vector]
        /\ Sum(Holdings(m, q))[p] \in Nat /\ Sum(Holdings(k, q))[p] \in Nat
        /\ Sum(Grant(m, g, q))[p] \in Nat
    BY <1>3, <1>8, HoldingsAreVectors
  <2>4. CASE Root(m, t) # q
    <3>1. ASSUME NEW x
          PROVE  Held(k, q, x) = Held(m, q, x)
      <4>1. CASE x = t
        BY <1>1, <1>3, <2>4, <4>1 DEF Held
      <4>2. CASE x \in kids
        BY <1>1, <1>2, <2>4, <4>2 DEF Held
      <4>. QED BY <1>2, <4>1, <4>2
    <3>2. Holdings(k, q) = Holdings(m, q)
      BY <3>1 DEF Holdings
    <3>. QED BY <2>1, <2>2, <3>2
  <2>5. CASE Root(m, t) = q
    <3>1. ASSUME NEW c \in kids
          PROVE  Holdings(k, q)[c][p] = Holdings(m, q)[c][p] + allocate[c][p]
      <4>1. c \notin DOMAIN m /\ c \in Tickets
        BY <1>1, <1>3
      <4>2. Holdings(m, q)[c] = NoCounts
        BY <1>2, <4>1 DEF Holdings, Held
      <4>3. Holdings(k, q)[c] = Minus(n.splits[c].limits, n.splits[c].counts)
        <5>1. Donors(k, q, c) = {t}
          BY <1>2, <2>5
        <5>2. (CHOOSE u \in Donors(k, q, c) : TRUE) = t
          BY <5>1
        <5>. QED BY <1>1, <4>1, <5>1, <5>2 DEF Holdings, Held
      <4>4. Holdings(k, q)[c][p] = n.splits[c].limits[p] - n.splits[c].counts[p]
        BY <4>3 DEF Minus
      <4>5. n.splits[c].limits[p] = n.counts[p] + allocate[c][p]
            /\ n.splits[c].counts[p] = n.counts[p]
        BY <1>3, <1>5
      <4>6. Holdings(m, q)[c][p] = 0
        BY <4>2 DEF NoCounts
      <4>7. allocate[c][p] \in Nat /\ n.counts[p] \in Nat
        BY <1>5, <1>6
      <4>. QED BY <4>4, <4>5, <4>6, <4>7
    <3>2. \A x \in Tickets \ kids : x # t => Holdings(k, q)[x][p] = Holdings(m, q)[x][p]
      BY <1>2 DEF Holdings
    <3>3. Spreads(Tickets, t, kids, p, allocate, Holdings(m, q), Holdings(k, q))
      BY <1>3, <2>3, <3>1, <3>2 DEF Spreads
    <3>4. Sum(Holdings(k, q))[p] + Holdings(m, q)[t][p]
             = Sum(Holdings(m, q))[p] + Sum(allocate)[p] + Holdings(k, q)[t][p]
      BY <3>3, SumSpread
    <3>5. Holdings(m, q)[t][p] = n.local[p] + (n.limits[p] - n.counts[p])
      <4>1. Holdings(m, q)[t] = Entry(m[t])
        BY <1>3, <2>5 DEF Holdings, Held
      <4>. QED BY <1>3, <4>1 DEF Entry
    <3>6. Holdings(k, q)[t][p] = n.local[p]
      <4>1. Holdings(k, q)[t] = Entry(n)
        BY <1>1, <1>3, <2>5 DEF Holdings, Held
      <4>2. Entry(n)[p] = n.local[p] + 0
        BY <1>3 DEF Entry
      <4>. QED BY <1>6, <4>1, <4>2
    <3>7. Sum(allocate)[p] \in Nat /\ Sum(allocate)[p] <= n.limits[p] - n.counts[p]
      <4>1. IsFiniteSet(kids)
        BY <1>3, FS_Subset
      <4>. QED BY <1>3, <4>1, SumIsVector DEF Vector
    <3>. DEFINE a == Sum(Holdings(m, q))[p]
                b == Sum(Holdings(k, q))[p]
                s == Sum(allocate)[p]
                i == Holdings(m, q)[t][p]
                j == Holdings(k, q)[t][p]
                v == n.local[p]
                w == n.limits[p]
                z == n.counts[p]
    <3>8. /\ a \in Nat /\ b \in Nat /\ s \in Nat /\ v \in Nat /\ w \in Nat /\ z \in Nat
          /\ b + i = a + s + j /\ i = v + (w - z) /\ j = v /\ s <= w - z
      BY <1>6, <2>3, <3>4, <3>5, <3>6, <3>7
    <3>9. b <= a
      <4>. HIDE DEF a, b, s, i, j, v, w, z
      <4>. QED BY <3>8
    <3>10. COUNTS[p] \in Nat
      BY DEF COUNTS
    <3>. DEFINE e == COUNTS[p]
                d == Sum(Grant(m, g, q))[p]
    <3>11. a \in Nat /\ b \in Nat /\ d \in Nat /\ e \in Nat /\ a <= e + d /\ b <= a
      BY <2>1, <2>3, <3>9, <3>10
    <3>12. b <= e + d
      <4>. HIDE DEF a, b, s, i, j, v, w, z, d, e
      <4>. QED BY <3>11
    <3>. QED BY <2>2, <3>12
  <2>. QED BY <2>4, <2>5
<1>. QED BY <1>7, <1>9 DEF Balanced

LEMMA AccountsKept ==
    ASSUME TicketInv, Accounts
    PROVE  /\ Kept(state) /\ granted \in [Tickets -> Vector] /\ Balanced(state, granted)
  BY DEF TicketInv, TypeOK, Accounts, Kept

LEMMA Appended ==
    ASSUME TicketInv, TicketInv', NEW t \in DOMAIN state, NEW n, AppendEvent(t, n)
    PROVE  /\ state' = [u \in DOMAIN state |-> IF u = t THEN n ELSE state[u]]
           /\ AllocationsAgree(state') /\ n \in Ledger /\ state[t] \in Ledger /\ t \in Tickets
<1>1. state' = [u \in DOMAIN state \cup {t} |-> IF u = t THEN n ELSE state[u]]
  BY DEF AppendEvent
<1>2. DOMAIN state \cup {t} = DOMAIN state
  OBVIOUS
<1>3. state'[t] = n /\ t \in DOMAIN state'
  BY <1>1
<1>4. n \in Ledger
  BY <1>3 DEF TicketInv, TypeOK
<1>. QED BY <1>1, <1>2, <1>4 DEF TicketInv, TypeOK

\* The event n of t changes its entry by what is granted.
Enters(t, n, e) ==
    LET r == state[t] IN
    /\ t \in DOMAIN state /\ AppendEvent(t, n)
    /\ n.ancestry = r.ancestry /\ n.splits = r.splits /\ n.retired = r.retired
    /\ \A p \in Counted : n.counts[p] <= n.limits[p]
    /\ e \in Vector /\ granted' = [granted EXCEPT ![t] = e]
    /\ \A p \in Counted : Entry(n)[p] + granted[t][p] = Entry(r)[p] + e[p]

LEMMA EntryStep ==
    ASSUME TicketInv, TicketInv', Accounts, NEW t, NEW n, NEW e, Enters(t, n, e)
    PROVE  Accounts'
<1>1. t \in DOMAIN state /\ AppendEvent(t, n)
  BY DEF Enters
<1>2. /\ state' = [u \in DOMAIN state |-> IF u = t THEN n ELSE state[u]]
      /\ AllocationsAgree(state') /\ n \in Ledger
  BY <1>1, Appended
<1>3. Kept(state) /\ granted \in [Tickets -> Vector] /\ Balanced(state, granted)
  BY AccountsKept
<1>4. Books(state') /\ Balanced(state', [granted EXCEPT ![t] = e])
  <2>1. /\ t \in DOMAIN state /\ e \in Vector
        /\ n.ancestry = state[t].ancestry /\ n.splits = state[t].splits
        /\ n.retired = state[t].retired
        /\ \A p \in Counted : n.counts[p] <= n.limits[p]
        /\ \A p \in Counted : Entry(n)[p] + granted[t][p] = Entry(state[t])[p] + e[p]
    BY DEF Enters
  <2>. QED BY <1>2, <1>3, <2>1, KeepBalance, ZenonT(60)
<1>. QED BY <1>4 DEF Accounts, Enters

\* What the accounts are about.
SameAccount(r, n) ==
    /\ n.ancestry = r.ancestry /\ n.splits = r.splits /\ n.retired = r.retired
    /\ n.local = r.local /\ n.counts = r.counts /\ n.limits = r.limits

LEMMA QuietStep ==
    ASSUME TicketInv, TicketInv', Accounts, NEW t \in DOMAIN state, NEW n, AppendEvent(t, n),
           SameAccount(state[t], n), UNCHANGED granted
    PROVE  Accounts'
<1>1. t \in Tickets /\ granted' = [granted EXCEPT ![t] = granted[t]] /\ granted[t] \in Vector
  BY KnownTicket
<1>2. \A p \in Counted : n.counts[p] <= n.limits[p]
  BY DEF SameAccount, Accounts, Books
<1>3. Entry(n) = Entry(state[t])
  BY DEF Entry, SameAccount
<1>4. Enters(t, n, granted[t])
  BY <1>1, <1>2, <1>3 DEF Enters, SameAccount
<1>. QED BY <1>4, EntryStep

LEMMA CompletedAccount ==
    ASSUME NEW r \in Ledger, NEW passed \in BOOLEAN, r.active \in Reserving
    PROVE  SameAccount(r, Completed(r, passed))
<1>. DEFINE m == [r EXCEPT !.active = NoPhase]
            v == IF passed THEN r.active.content ELSE NoContent
            ok == passed
            failed == ~passed
            pending == m.pendingRepair /\ ~passed
            k == IF passed THEN 0 ELSE r.local["remediation"] + 1
            ref == IF passed THEN r.active.capsule ELSE NoRef
            s == r.active.session
            a == IF passed THEN s ELSE m.author
            n == Completed(r, passed)
<1>1. DOMAIN m = Fields /\ SameAccount(r, m)
  <2>1. DOMAIN r = Fields
    BY LedgerFields
  <2>. QED BY <2>1 DEF Fields, SameAccount
<1>2. \/ n = m
      \/ n = [m EXCEPT !.designer = s, !.designStarted = TRUE, !.design = r.active.capsule]
      \/ n = [m EXCEPT !.challenger = s, !.challenge = ref]
      \/ n = [m EXCEPT !.author = a]
      \/ n = [m EXCEPT !.verified = v, !.repairCount = k]
      \/ n = [m EXCEPT !.reviewed = v, !.initialFailed = failed]
      \/ n = [m EXCEPT !.remediated = ok, !.pendingRepair = pending]
      \/ n = [m EXCEPT !.reviewed = v, !.finalFailed = failed]
  <2>1. r.active.phase \in Phases
    BY DEF Reserving
  <2>. QED BY <2>1 DEF Completed, Phases, Counted
<1>. HIDE DEF m, v, ok, failed, pending, k, ref, s, a, n
<1>3. SameAccount(m, n)
  <2>1. CASE n = m
    BY <2>1 DEF SameAccount
  <2>2. CASE n = [m EXCEPT !.designer = s, !.designStarted = TRUE,
                        !.design = r.active.capsule]
    BY <1>1, <2>2 DEF Fields, SameAccount
  <2>3. CASE n = [m EXCEPT !.challenger = s, !.challenge = ref]
    BY <1>1, <2>3 DEF Fields, SameAccount
  <2>4. CASE n = [m EXCEPT !.author = a]
    BY <1>1, <2>4 DEF Fields, SameAccount
  <2>5. CASE n = [m EXCEPT !.verified = v, !.repairCount = k]
    BY <1>1, <2>5 DEF Fields, SameAccount
  <2>6. CASE n = [m EXCEPT !.reviewed = v, !.initialFailed = failed]
    BY <1>1, <2>6 DEF Fields, SameAccount
  <2>7. CASE n = [m EXCEPT !.remediated = ok, !.pendingRepair = pending]
    BY <1>1, <2>7 DEF Fields, SameAccount
  <2>8. CASE n = [m EXCEPT !.reviewed = v, !.finalFailed = failed]
    BY <1>1, <2>8 DEF Fields, SameAccount
  <2>. QED BY <1>2, <2>1, <2>2, <2>3, <2>4, <2>5, <2>6, <2>7, <2>8
<1>. QED BY <1>1, <1>3 DEF SameAccount, n

LEMMA AmendedAccount ==
    ASSUME NEW r \in Ledger, NEW e
    PROVE  SameAccount(r, Amended(r, e))
<1>. DEFINE q == [r.capsule EXCEPT !.gen = r.capsule.gen + 1]
            p == [r.profile EXCEPT !.class = "consequential"]
            a == r.amended + 1
            u == r.consumed \cup {e}
            f == r.refs \cup {e}
            m1 == [r EXCEPT !.capsule = q, !.profile = p, !.amended = a,
                            !.consumed = u, !.refs = f, !.ready = FALSE]
            m2 == [m1 EXCEPT !.challenge = NoRef, !.design = NoRef, !.approved = NoRef,
                             !.designer = NoSession, !.challenger = NoSession,
                             !.author = NoSession]
            m == [m2 EXCEPT !.designStarted = TRUE, !.remediated = FALSE,
                            !.verified = NoContent, !.accepted = NoContent,
                            !.reviewed = NoContent]
<1>1. Amended(r, e) = m
  BY DEF Amended
<1>. HIDE DEF q, p, a, u, f
<1>2. SameAccount(r, m1) /\ DOMAIN m1 = DOMAIN r
  BY DEF Ledger, SameAccount
<1>. HIDE DEF m1
<1>3. SameAccount(r, m2) /\ DOMAIN m2 = DOMAIN r
  BY <1>2 DEF Ledger, SameAccount
<1>. HIDE DEF m2
<1>4. SameAccount(r, m)
  BY <1>3 DEF Ledger, SameAccount
<1>. QED BY <1>1, <1>4

\* Events that spend, grant and allocate nothing.
LEMMA QuietEvents ==
    ASSUME TicketInv, TicketInv', Accounts, NEW t \in DOMAIN state,
           \/ \E s \in Sessions : OwnerHandoff(t, s)
           \/ \E e \in Evidence : CapsuleUpdate(t, e) \/ Amend(t, e)
           \/ \E passed \in BOOLEAN : PhaseEnd(t, passed)
           \/ PhaseInterrupt(t) \/ PhaseResume(t) \/ Coordination(t)
           \/ DesignReady(t) \/ Acceptance(t)
           \/ \E b \in Blockers : Blocker(t, b) \/ Resolve(t, b)
           \/ \E pr \in PullRequests : Delivery(t, pr)
    PROVE  Accounts'
<1>. DEFINE r == state[t]
<1>. SUFFICES \E n : AppendEvent(t, n) /\ SameAccount(r, n) /\ UNCHANGED granted
  BY QuietStep
<1>1. r \in Ledger
  BY KnownTicket
<1>2. ASSUME NEW s \in Sessions, OwnerHandoff(t, s)
      PROVE  \E n : AppendEvent(t, n) /\ SameAccount(r, n) /\ UNCHANGED granted
  <2>. DEFINE n == [r EXCEPT !.owner = s, !.owners = @ \cup {s}]
  <2>1. AppendEvent(t, n) /\ UNCHANGED granted
    BY <1>2 DEF OwnerHandoff, Unrecorded
  <2>. HIDE DEF r
  <2>2. SameAccount(r, n)
    BY <1>1 DEF Ledger, SameAccount
  <2>. HIDE DEF n
  <2>. QED BY <2>1, <2>2
<1>3. ASSUME NEW e \in Evidence, CapsuleUpdate(t, e)
      PROVE  \E n : AppendEvent(t, n) /\ SameAccount(r, n) /\ UNCHANGED granted
  <2>. DEFINE ref == [r.capsule EXCEPT !.rev = @ + 1]
              x == [r.active EXCEPT !.capsule = ref]
              f == r.refs \cup {e}
              u == r.consumed \cup ({e} \ r.refs)
              n == [r EXCEPT !.capsule = ref, !.active = x, !.refs = f, !.consumed = u]
  <2>1. AppendEvent(t, n) /\ UNCHANGED granted
    <3>1. [r EXCEPT !.capsule = ref, !.active.capsule = ref, !.refs = @ \cup {e},
                    !.consumed = @ \cup ({e} \ r.refs)] = n
      OBVIOUS
    <3>. QED BY <1>3, <3>1 DEF CapsuleUpdate, Unrecorded
  <2>. HIDE DEF r, ref, x, f, u
  <2>2. SameAccount(r, n)
    BY <1>1 DEF Ledger, SameAccount
  <2>. HIDE DEF n
  <2>. QED BY <2>1, <2>2
<1>4. ASSUME NEW e \in Evidence, Amend(t, e)
      PROVE  \E n : AppendEvent(t, n) /\ SameAccount(r, n) /\ UNCHANGED granted
  BY <1>1, <1>4, AmendedAccount DEF Amend
<1>5. ASSUME NEW passed \in BOOLEAN, PhaseEnd(t, passed)
      PROVE  \E n : AppendEvent(t, n) /\ SameAccount(r, n) /\ UNCHANGED granted
  <2>1. AppendEvent(t, Completed(r, passed)) /\ UNCHANGED granted /\ r.active # NoPhase
    BY <1>5 DEF PhaseEnd
  <2>2. r.active \in Reserving
    BY <1>1, <2>1 DEF Ledger, Reservation
  <2>. QED BY <1>1, <2>1, <2>2, CompletedAccount
<1>6. ASSUME PhaseInterrupt(t)
      PROVE  \E n : AppendEvent(t, n) /\ SameAccount(r, n) /\ UNCHANGED granted
  <2>. DEFINE n == [r EXCEPT !.suspended = r.active, !.active = NoPhase, !.clock = FALSE]
  <2>1. AppendEvent(t, n) /\ UNCHANGED granted
    BY <1>6 DEF PhaseInterrupt, Unrecorded
  <2>. HIDE DEF r
  <2>2. SameAccount(r, n)
    BY <1>1 DEF Ledger, SameAccount
  <2>. HIDE DEF n
  <2>. QED BY <2>1, <2>2
<1>7. ASSUME PhaseResume(t)
      PROVE  \E n : AppendEvent(t, n) /\ SameAccount(r, n) /\ UNCHANGED granted
  <2>. DEFINE n == [r EXCEPT !.active = r.suspended, !.suspended = NoPhase, !.clock = TRUE]
  <2>1. AppendEvent(t, n) /\ UNCHANGED granted
    BY <1>7 DEF PhaseResume, Unrecorded
  <2>. HIDE DEF r
  <2>2. SameAccount(r, n)
    BY <1>1 DEF Ledger, SameAccount
  <2>. HIDE DEF n
  <2>. QED BY <2>1, <2>2
<1>8. ASSUME Coordination(t)
      PROVE  \E n : AppendEvent(t, n) /\ SameAccount(r, n) /\ UNCHANGED granted
  <2>. DEFINE turned == ~r.clock
              n == [r EXCEPT !.clock = turned]
  <2>1. AppendEvent(t, n) /\ UNCHANGED granted
    BY <1>8 DEF Coordination, Unrecorded
  <2>. HIDE DEF r, turned
  <2>2. SameAccount(r, n)
    BY <1>1 DEF Ledger, SameAccount
  <2>. HIDE DEF n
  <2>. QED BY <2>1, <2>2
<1>9. ASSUME DesignReady(t)
      PROVE  \E n : AppendEvent(t, n) /\ SameAccount(r, n) /\ UNCHANGED granted
  <2>. DEFINE n == [r EXCEPT !.approved = r.capsule, !.ready = TRUE]
  <2>1. AppendEvent(t, n) /\ UNCHANGED granted
    BY <1>9 DEF DesignReady, Unrecorded
  <2>. HIDE DEF r
  <2>2. SameAccount(r, n)
    BY <1>1 DEF Ledger, SameAccount
  <2>. HIDE DEF n
  <2>. QED BY <2>1, <2>2
<1>10. ASSUME Acceptance(t)
       PROVE  \E n : AppendEvent(t, n) /\ SameAccount(r, n) /\ UNCHANGED granted
  <2>. DEFINE n == [r EXCEPT !.accepted = tree[t]]
  <2>1. AppendEvent(t, n) /\ UNCHANGED granted
    BY <1>10 DEF Acceptance
  <2>. HIDE DEF r
  <2>2. SameAccount(r, n)
    BY <1>1 DEF Ledger, SameAccount
  <2>. HIDE DEF n
  <2>. QED BY <2>1, <2>2
<1>11. ASSUME NEW b \in Blockers, Blocker(t, b) \/ Resolve(t, b)
       PROVE  \E n : AppendEvent(t, n) /\ SameAccount(r, n) /\ UNCHANGED granted
  <2>1. ASSUME NEW k
        PROVE  SameAccount(r, [r EXCEPT !.blockers[b] = k])
    <3>. DEFINE m == [r.blockers EXCEPT ![b] = k]
                n == [r EXCEPT !.blockers = m]
    <3>1. [r EXCEPT !.blockers[b] = k] = n
      OBVIOUS
    <3>. HIDE DEF r, m
    <3>2. SameAccount(r, n)
      BY <1>1 DEF Ledger, SameAccount
    <3>. HIDE DEF n
    <3>. QED BY <3>1, <3>2 DEF r
  <2>2. CASE Blocker(t, b)
    <3>. DEFINE k == IF r.active.phase = "remediation" THEN r.local["remediation"]
                     ELSE r.local["remediation"] + 1
    <3>1. AppendEvent(t, [r EXCEPT !.blockers[b] = k]) /\ UNCHANGED granted
      BY <2>2 DEF Blocker
    <3>. HIDE DEF k, r
    <3>. QED BY <2>1, <3>1
  <2>3. CASE Resolve(t, b)
    <3>1. AppendEvent(t, [r EXCEPT !.blockers[b] = 0]) /\ UNCHANGED granted
      BY <2>3 DEF Resolve, Unrecorded
    <3>. HIDE DEF r
    <3>. QED BY <2>1, <3>1
  <2>. QED BY <1>11, <2>2, <2>3
<1>12. ASSUME NEW pr \in PullRequests, Delivery(t, pr)
       PROVE  \E n : AppendEvent(t, n) /\ SameAccount(r, n) /\ UNCHANGED granted
  <2>. DEFINE n == [r EXCEPT !.delivered = TRUE, !.binding = r.verified, !.pr = pr,
                             !.clock = FALSE]
  <2>1. AppendEvent(t, n) /\ UNCHANGED granted
    BY <1>12 DEF Delivery, Unrecorded
  <2>. HIDE DEF r
  <2>2. SameAccount(r, n)
    BY <1>1 DEF Ledger, SameAccount
  <2>. HIDE DEF n
  <2>. QED BY <2>1, <2>2
<1>. HIDE DEF r
<1>. QED BY <1>2, <1>3, <1>4, <1>5, <1>6, <1>7, <1>8, <1>9, <1>10, <1>11, <1>12

LEMMA ReservedAccount ==
    ASSUME NEW r \in Ledger, NEW phase, NEW s, NEW content
    PROVE  LET n == Reserved(r, phase, s, content) IN
           /\ n.ancestry = r.ancestry /\ n.splits = r.splits /\ n.retired = r.retired
           /\ n.limits = r.limits
           /\ n.local = Bump(r.local, phase) /\ n.counts = Bump(r.counts, phase)
<1>. DEFINE reset == phase = "design_reset"
            ref == [r.capsule EXCEPT !.gen = IF reset THEN @ + 1 ELSE @]
            x == [phase |-> phase, session |-> s, capsule |-> ref, content |-> content]
            roles == [r.roles EXCEPT ![s] = Role(phase)]
            writers == IF phase \in WritePhases THEN r.writers \cup {s} ELSE r.writers
            counts == Bump(r.counts, phase)
            local == Bump(r.local, phase)
            ready == r.ready /\ ~reset
            started == r.designStarted \/ phase = "design"
            remediated == r.remediated /\ phase # "remediation"
            Stays(value, none) == IF reset THEN none ELSE value
            Fresh(value) == IF Voids(phase) THEN NoContent ELSE value
            designer == Stays(r.designer, NoSession)
            challenger == Stays(r.challenger, NoSession)
            design == Stays(r.design, NoRef)
            challenge == Stays(r.challenge, NoRef)
            approved == Stays(r.approved, NoRef)
            verified == Fresh(r.verified)
            accepted == Fresh(r.accepted)
            reviewed == Fresh(r.reviewed)
            n1 == [r EXCEPT !.roles = roles, !.writers = writers,
                            !.counts = counts, !.local = local,
                            !.capsule = ref, !.ready = ready]
            n2 == [n1 EXCEPT !.designer = designer, !.challenger = challenger,
                             !.design = design, !.challenge = challenge,
                             !.approved = approved]
            n3 == [n2 EXCEPT !.designStarted = started,
                             !.verified = verified, !.accepted = accepted,
                             !.reviewed = reviewed]
            n == [n3 EXCEPT !.remediated = remediated, !.active = x]
<1>1. Reserved(r, phase, s, content) = n
  BY DEF Reserved
<1>. HIDE DEF ref, x, roles, writers, counts, local, ready, started, remediated, designer,
          challenger, design, challenge, approved, verified, accepted, reviewed
<1>2. /\ n1.ancestry = r.ancestry /\ n1.splits = r.splits /\ n1.retired = r.retired
      /\ n1.limits = r.limits /\ n1.local = local /\ n1.counts = counts
      /\ DOMAIN n1 = DOMAIN r
  BY DEF Ledger
<1>. HIDE DEF n1
<1>3. SameAccount(n1, n2) /\ DOMAIN n2 = DOMAIN r
  BY <1>2 DEF Ledger, SameAccount
<1>. HIDE DEF n2
<1>4. SameAccount(n2, n3) /\ DOMAIN n3 = DOMAIN r
  BY <1>3 DEF Ledger, SameAccount
<1>. HIDE DEF n3
<1>5. SameAccount(n3, n)
  BY <1>4 DEF Ledger, SameAccount
<1>. HIDE DEF n
<1>. QED BY <1>1, <1>2, <1>3, <1>4, <1>5 DEF SameAccount, local, counts

\* A start spends one of the slots that are left.
LEMMA StartAccount ==
    ASSUME TicketInv, TicketInv', Accounts, NEW t \in DOMAIN state, NEW phase \in Used,
           NEW s \in Sessions, PhaseStart(t, phase, s)
    PROVE  Accounts'
<1>. DEFINE r == state[t]
            reads == phase \in Reviews \cup {"verification"}
            content == IF reads THEN tree[t] ELSE NoContent
            n == Reserved(r, phase, s, content)
<1>1. Gate(r, phase) /\ AppendEvent(t, n) /\ UNCHANGED granted
  BY DEF PhaseStart
<1>2. /\ r \in Ledger /\ granted[t] \in Vector
      /\ granted' = [granted EXCEPT ![t] = granted[t]]
  BY <1>1, KnownTicket
<1>3. /\ ~r.retired
      /\ phase \in Counted => r.counts[phase] < r.limits[phase]
  BY <1>1 DEF Gate, Terminal
<1>4. \A p \in Counted : r.counts[p] <= r.limits[p]
  BY DEF Accounts, Books
<1>5. /\ n.ancestry = r.ancestry /\ n.splits = r.splits /\ n.retired = r.retired
      /\ n.limits = r.limits
      /\ n.local = Bump(r.local, phase) /\ n.counts = Bump(r.counts, phase)
  BY <1>2, ReservedAccount
<1>6. /\ r.counts \in Vector /\ r.limits \in Vector /\ r.local \in Vector
  BY <1>2 DEF Ledger
<1>. HIDE DEF r, n, content
<1>7. ASSUME NEW p \in Counted
      PROVE  n.counts[p] <= n.limits[p] /\ Entry(n)[p] = Entry(r)[p]
  <2>1. r.counts[p] \in Nat /\ r.limits[p] \in Nat /\ r.local[p] \in Nat
    BY <1>6 DEF Vector
  <2>2. /\ n.counts[p] = IF p = phase THEN r.counts[p] + 1 ELSE r.counts[p]
        /\ n.local[p] = IF p = phase THEN r.local[p] + 1 ELSE r.local[p]
        /\ n.limits[p] = r.limits[p]
    BY <1>5 DEF Bump
  <2>3. /\ Entry(n)[p] = n.local[p] + (n.limits[p] - n.counts[p])
        /\ Entry(r)[p] = r.local[p] + (r.limits[p] - r.counts[p])
    BY <1>3, <1>5 DEF Entry
  <2>4. p = phase => r.counts[p] < r.limits[p]
    BY <1>3
  <2>. DEFINE a == r.counts[p]
              b == r.limits[p]
              c == r.local[p]
              x == n.counts[p]
              y == n.limits[p]
              z == n.local[p]
              v == Entry(r)[p]
              w == Entry(n)[p]
  <2>5. /\ a \in Nat /\ b \in Nat /\ c \in Nat /\ a <= b /\ y = b
        /\ v = c + (b - a) /\ w = z + (y - x)
        /\ (x = a + 1 /\ z = c + 1 /\ a < b) \/ (x = a /\ z = c)
    BY <1>4, <2>1, <2>2, <2>3, <2>4
  <2>6. x <= y /\ w = v
    <3>. HIDE DEF a, b, c, x, y, z, v, w
    <3>. QED BY <2>5
  <2>. QED BY <2>6
<1>8. Enters(t, n, granted[t])
  BY <1>1, <1>2, <1>5, <1>7 DEF Enters, r
<1>. QED BY <1>8, EntryStep

\* Nothing but the limits changes with a grant.
Granting(r, n, delta) ==
    /\ n.ancestry = r.ancestry /\ n.splits = r.splits /\ n.retired = r.retired
    /\ n.local = r.local /\ n.counts = r.counts /\ n.limits = Plus(r.limits, delta)

LEMMA GrantAccount ==
    ASSUME TicketInv, TicketInv', Accounts, NEW t \in DOMAIN state, NEW delta \in Vector,
           NEW n, AppendEvent(t, n), Granting(state[t], n, delta), ~state[t].retired,
           granted' = [granted EXCEPT ![t] = Plus(granted[t], delta)]
    PROVE  Accounts'
<1>. DEFINE r == state[t]
            e == Plus(granted[t], delta)
<1>1. r \in Ledger /\ granted[t] \in Vector
  BY KnownTicket
<1>2. e \in Vector /\ \A p \in Counted : e[p] = granted[t][p] + delta[p]
  BY <1>1, PlusIsVector
<1>3. \A p \in Counted : r.counts[p] <= r.limits[p]
  BY DEF Accounts, Books
<1>4. /\ r.counts \in Vector /\ r.limits \in Vector /\ r.local \in Vector
  BY <1>1 DEF Ledger
<1>. HIDE DEF r, e
<1>5. ASSUME NEW p \in Counted
      PROVE  n.counts[p] <= n.limits[p] /\ Entry(n)[p] + granted[t][p] = Entry(r)[p] + e[p]
  <2>1. /\ r.counts[p] \in Nat /\ r.limits[p] \in Nat /\ r.local[p] \in Nat
        /\ delta[p] \in Nat /\ granted[t][p] \in Nat
    BY <1>1, <1>4 DEF Vector
  <2>2. /\ n.counts[p] = r.counts[p] /\ n.limits[p] = r.limits[p] + delta[p]
        /\ n.local[p] = r.local[p]
    BY DEF Granting, Plus, r
  <2>3. /\ Entry(n)[p] = n.local[p] + (n.limits[p] - n.counts[p])
        /\ Entry(r)[p] = r.local[p] + (r.limits[p] - r.counts[p])
    BY DEF Entry, Granting, r
  <2>4. e[p] = granted[t][p] + delta[p] /\ r.counts[p] <= r.limits[p]
    BY <1>2, <1>3
  <2>. DEFINE a == r.counts[p]
              b == r.limits[p]
              c == r.local[p]
              d == delta[p]
              g == granted[t][p]
              h == e[p]
              x == n.counts[p]
              y == n.limits[p]
              z == n.local[p]
              v == Entry(r)[p]
              w == Entry(n)[p]
  <2>5. /\ a \in Nat /\ b \in Nat /\ c \in Nat /\ d \in Nat /\ g \in Nat /\ a <= b
        /\ h = g + d /\ x = a /\ y = b + d /\ z = c /\ v = c + (b - a) /\ w = z + (y - x)
    BY <2>1, <2>2, <2>3, <2>4
  <2>6. x <= y /\ w + g = v + h
    <3>. HIDE DEF a, b, c, d, g, h, x, y, z, v, w
    <3>. QED BY <2>5
  <2>. QED BY <2>6
<1>6. Enters(t, n, e)
  BY <1>2, <1>5 DEF Enters, Granting, e, r
<1>. QED BY <1>6, EntryStep

LEMMA ReopenedAccount ==
    ASSUME NEW r \in Ledger, NEW e, NEW delta
    PROVE  LET m == GrantTo(r, e, delta) IN
           /\ Granting(r, m, delta) /\ Granting(r, Reopened(m), delta)
           /\ Granting(r, [Reopened(m) EXCEPT !.delivered = FALSE], delta)
<1>. DEFINE v == Plus(r.limits, delta)
            u == r.consumed \cup {e}
            m == [r EXCEPT !.limits = v, !.consumed = u]
            n == [m EXCEPT !.finalFailed = FALSE, !.remediated = FALSE, !.pendingRepair = TRUE,
                           !.verified = NoContent, !.accepted = NoContent, !.reviewed = NoContent]
            k == [n EXCEPT !.delivered = FALSE]
<1>1. GrantTo(r, e, delta) = m
  BY DEF GrantTo
<1>2. Reopened(m) = n
  BY DEF Reopened
<1>. HIDE DEF v, u
<1>3. /\ m.ancestry = r.ancestry /\ m.splits = r.splits /\ m.retired = r.retired
      /\ m.local = r.local /\ m.counts = r.counts /\ m.limits = v /\ DOMAIN m = DOMAIN r
  BY DEF Ledger
<1>. HIDE DEF m
<1>4. SameAccount(m, n) /\ DOMAIN n = DOMAIN r
  BY <1>3 DEF Ledger, SameAccount
<1>. HIDE DEF n
<1>5. SameAccount(n, k)
  BY <1>4 DEF Ledger, SameAccount
<1>6. Granting(r, m, delta) /\ Granting(r, n, delta) /\ Granting(r, k, delta)
  <2>. HIDE DEF k
  <2>. QED BY <1>3, <1>4, <1>5 DEF Granting, SameAccount, v
<1>. QED BY <1>1, <1>2, <1>6

LEMMA GrantEvents ==
    ASSUME TicketInv, TicketInv', Accounts, NEW t \in DOMAIN state, NEW e \in Evidence,
           NEW delta \in Grants, Continuation(t, e, delta) \/ Extension(t, e, delta)
    PROVE  Accounts'
<1>. DEFINE r == state[t]
<1>1. r \in Ledger /\ delta \in Vector
  BY KnownTicket, InputConstants DEF Vector
<1>2. granted' = [granted EXCEPT ![t] = Plus(granted[t], delta)] /\ ~r.retired
  BY DEF Continuation, Extension, Terminal
<1>. DEFINE m == GrantTo(r, e, delta)
<1>3. \E n : AppendEvent(t, n) /\ Granting(r, n, delta)
  <2>1. CASE Continuation(t, e, delta)
    <3>1. AppendEvent(t, [Reopened(m) EXCEPT !.delivered = FALSE])
      BY <2>1 DEF Continuation
    <3>. HIDE DEF r
    <3>. QED BY <1>1, <3>1, ReopenedAccount
  <2>2. CASE Extension(t, e, delta)
    <3>1. AppendEvent(t, Reopened(m)) \/ AppendEvent(t, m)
      BY <2>2 DEF Extension
    <3>. HIDE DEF r
    <3>. QED BY <1>1, <3>1, ReopenedAccount
  <2>. QED BY <2>1, <2>2
<1>. HIDE DEF m
<1>. QED BY <1>1, <1>2, <1>3, GrantAccount

\* A split shares out what the ticket has left, and the ticket retires.
LEMMA SplitAccount ==
    ASSUME TicketInv, TicketInv', Accounts, NEW t \in DOMAIN state, NEW e \in Evidence,
           NEW kids \in SUBSET (Tickets \ {t}), NEW allocate \in [kids -> Allocations],
           NEW class, NEW owner, Split(t, e, allocate, class, owner)
    PROVE  Accounts'
<1>. DEFINE r == state[t]
            sp == [c \in DOMAIN allocate |->
                      [counts |-> r.counts, limits |-> ChildLimits(r, allocate[c]),
                       class |-> class, owner |-> owner, evidence |-> e]]
            n == [r EXCEPT !.splits = sp, !.retired = TRUE, !.clock = FALSE,
                           !.consumed = @ \cup {e}]
<1>1. AppendEvent(t, n) /\ UNCHANGED granted /\ ~r.retired
  BY DEF Split, Unrecorded, Terminal
<1>2. \A p \in Counted : Sum(allocate)[p] <= r.limits[p] - r.counts[p]
  BY DEF Split, Minus
<1>3. r \in Ledger
  BY KnownTicket
<1>4. DOMAIN sp = kids /\ \A c \in kids : /\ sp[c].counts = r.counts
                                          /\ sp[c].limits = Plus(r.counts, allocate[c])
  BY DEF ChildLimits
<1>5. allocate \in [kids -> Vector]
  BY InputConstants DEF Vector
<1>. HIDE DEF r, sp
<1>6. /\ n.ancestry = r.ancestry /\ n.splits = sp /\ n.retired = TRUE
      /\ n.local = r.local /\ n.counts = r.counts /\ n.limits = r.limits
  BY <1>3 DEF Ledger
<1>. HIDE DEF n
<1>7. /\ state' = [u \in DOMAIN state |-> IF u = t THEN n ELSE state[u]]
      /\ AllocationsAgree(state') /\ n \in Ledger
  BY <1>1, Appended
<1>8. Kept(state) /\ granted \in [Tickets -> Vector] /\ Balanced(state, granted)
  BY AccountsKept
<1>9. SplitsInto(state, t, n, kids, allocate, state')
  BY <1>1, <1>2, <1>4, <1>5, <1>6, <1>7, <1>8 DEF SplitsInto, r
<1>10. Books(state') /\ Balanced(state', granted)
  BY <1>8, <1>9, SplitBalance
<1>. QED BY <1>1, <1>10 DEF Accounts

\* A new ledger starts with the allowance of a root.
LEMMA InitializeAccount ==
    ASSUME TicketInv, TicketInv', Accounts, NEW t \in Roots, NEW profile, NEW s, NEW e,
           Initialize(t, profile, s, e)
    PROVE  Accounts'
<1>. DEFINE n == State(profile, s, e)
<1>1. t \in Tickets \ DOMAIN state /\ AppendEvent(t, n) /\ UNCHANGED granted
  BY InputConstants DEF Initialize, Unrecorded
<1>2. /\ n.ancestry = <<>> /\ n.splits = NoSplit /\ n.local = NoCounts
      /\ n.counts = NoCounts /\ n.limits = COUNTS
  BY DEF State
<1>3. DOMAIN NoSplit = {}
  BY DEF NoSplit
<1>. HIDE DEF n
<1>4. /\ state' = [u \in DOMAIN state \cup {t} |-> IF u = t THEN n ELSE state[u]]
      /\ AllocationsAgree(state')
  BY <1>1 DEF AppendEvent
<1>5. n \in Ledger
  <2>1. state'[t] = n /\ t \in DOMAIN state'
    BY <1>4
  <2>. QED BY <2>1 DEF TicketInv, TypeOK
<1>6. Kept(state) /\ granted \in [Tickets -> Vector] /\ Balanced(state, granted)
  BY AccountsKept
<1>7. Books(state') /\ Balanced(state', granted)
  <2>1. DOMAIN n.splits = {}
    BY <1>2, <1>3
  <2>2. t \in Tickets \ DOMAIN state
    BY <1>1
  <2>. QED BY <1>2, <1>4, <1>5, <1>6, <2>1, <2>2, FirstBalance
<1>. QED BY <1>1, <1>7 DEF Accounts

\* A child's ledger starts with what its parent allocated to it.
LEMMA InitializeChildAccount ==
    ASSUME TicketInv, TicketInv', Accounts, NEW t \in Tickets, NEW parent, NEW review,
           InitializeChild(t, parent, review)
    PROVE  Accounts'
<1>. DEFINE a == state[parent].splits[t]
            profile == [class |-> a.class, review |-> review]
            m == State(profile, a.owner, a.evidence)
            anc == Append(state[parent].ancestry, parent)
            n == [m EXCEPT !.consumed = {}, !.counts = a.counts, !.limits = a.limits,
                           !.ancestry = anc]
<1>1. /\ t \in Tickets \ DOMAIN state /\ AppendEvent(t, n) /\ UNCHANGED granted
      /\ parent \in DOMAIN state /\ t \in DOMAIN state[parent].splits
  BY DEF InitializeChild, Unrecorded
<1>. DEFINE counts == a.counts
            limits == a.limits
            owner == a.owner
            evidence == a.evidence
            h == [m EXCEPT !.consumed = {}, !.counts = counts, !.limits = limits,
                           !.ancestry = anc]
<1>2. n = h
  OBVIOUS
<1>. HIDE DEF anc, profile, counts, limits
<1>3. /\ m.splits = NoSplit /\ m.local = NoCounts /\ m.retired = FALSE
      /\ {"consumed", "counts", "limits", "ancestry"} \subseteq DOMAIN m
  BY DEF State
<1>. HIDE DEF m
<1>4. /\ h.ancestry = anc /\ h.splits = NoSplit /\ h.local = NoCounts
      /\ h.counts = counts /\ h.limits = limits /\ h.retired = FALSE
  BY <1>3
<1>. HIDE DEF n, h
<1>5. DOMAIN NoSplit = {}
  BY DEF NoSplit
<1>6. /\ state' = [u \in DOMAIN state \cup {t} |-> IF u = t THEN n ELSE state[u]]
      /\ AllocationsAgree(state')
  BY <1>1 DEF AppendEvent
<1>7. n \in Ledger
  <2>1. state'[t] = n /\ t \in DOMAIN state'
    BY <1>6
  <2>. QED BY <2>1 DEF TicketInv, TypeOK
<1>8. Kept(state) /\ granted \in [Tickets -> Vector] /\ Balanced(state, granted)
  BY AccountsKept
<1>9. granted[t] = NoCounts
  BY <1>1 DEF TicketInv
<1>10. Books(state') /\ Balanced(state', granted)
  <2>1. /\ n.ancestry = Append(state[parent].ancestry, parent) /\ DOMAIN n.splits = {}
        /\ n.local = NoCounts /\ n.counts = state[parent].splits[t].counts
        /\ n.limits = state[parent].splits[t].limits /\ ~n.retired
    BY <1>2, <1>4, <1>5 DEF anc, counts, limits
  <2>2. Inherits(state, t, n, parent)
    BY <1>1, <1>7, <1>8, <2>1 DEF Inherits
  <2>. QED BY <1>6, <1>8, <1>9, <2>2, ChildBalance
<1>. QED BY <1>1, <1>10 DEF Accounts

LEMMA EventAccounts ==
    ASSUME TicketInv, TicketInv', Accounts, NEW t \in DOMAIN state, Event(t)
    PROVE  Accounts'
<1>1. CASE \E s \in Sessions : OfSession(t, s)
  <2>1. PICK s \in Sessions : OfSession(t, s)
    BY <1>1
  <2>2. CASE OwnerHandoff(t, s)
    BY <2>2, QuietEvents
  <2>. QED BY <2>1, <2>2, StartAccount DEF OfSession
<1>2. CASE \E e \in Evidence : OfUser(t, e)
  <2>1. PICK e \in Evidence : OfUser(t, e)
    BY <1>2
  <2>2. CASE CapsuleUpdate(t, e) \/ Amend(t, e)
    BY <2>2, QuietEvents
  <2>3. ASSUME NEW kids \in SUBSET (Tickets \ {t}) \ {{}}, NEW allocate \in [kids -> Allocations],
               NEW class \in {p.class : p \in Profiles}, NEW owner \in Sessions,
               Split(t, e, allocate, class, owner)
        PROVE  Accounts'
    <3>1. kids \in SUBSET (Tickets \ {t})
      OBVIOUS
    <3>. QED BY <2>3, <3>1, SplitAccount
  <2>. QED BY <2>1, <2>2, <2>3, GrantEvents DEF OfUser
<1>3. CASE \/ \E passed \in BOOLEAN : PhaseEnd(t, passed)
           \/ PhaseInterrupt(t) \/ PhaseResume(t) \/ Coordination(t)
           \/ DesignReady(t) \/ Acceptance(t)
           \/ \E b \in Blockers : Blocker(t, b) \/ Resolve(t, b)
           \/ \E pr \in PullRequests : Delivery(t, pr)
  BY <1>3, QuietEvents
<1>. QED BY <1>1, <1>2, <1>3 DEF Event

LEMMA InitAccounts == Init => Accounts
  BY DEF Init, Accounts, Books, Balanced

LEMMA NextAccounts == TicketInv /\ TicketInv' /\ Accounts /\ [Next]_vars => Accounts'
<1>. SUFFICES ASSUME TicketInv, TicketInv', Accounts, [Next]_vars PROVE Accounts'
  OBVIOUS
<1>1. ASSUME NEW t \in Roots, NEW profile \in Profiles, NEW s \in Sessions, NEW e \in Evidence,
             Initialize(t, profile, s, e)
      PROVE  Accounts'
  BY <1>1, InitializeAccount
<1>2. ASSUME NEW t \in Tickets, NEW parent \in Tickets, NEW review \in BOOLEAN,
             InitializeChild(t, parent, review)
      PROVE  Accounts'
  BY <1>2, InitializeChildAccount
<1>3. ASSUME NEW t \in DOMAIN state, Event(t)
      PROVE  Accounts'
  BY <1>3, EventAccounts
<1>4. CASE Edit \/ Die \/ ClearLock \/ UNCHANGED vars
  <2>1. state' = state /\ granted' = granted
    BY <1>4 DEF Edit, Die, ClearLock, vars
  <2>. QED BY <2>1 DEF Accounts
<1>. QED BY <1>1, <1>2, <1>3, <1>4 DEF Next

\* Books balance in every lineage: what its tickets have spent, may still spend and have
\* allocated to children without a ledger was allowed to the root or granted by users.
THEOREM BooksBalance == Spec => []Accounts
<1>1. Init => Accounts
  BY InitAccounts
<1>2. TicketInv /\ TicketInv' /\ Accounts /\ [Next]_vars => Accounts'
  BY NextAccounts
<1>. QED BY <1>1, <1>2, LedgersAreSound, PTL DEF Spec

\* split() hands the remaining slots of a ticket to its children once, and phase_start()
\* spends one slot a time: no sequence of splits and grants lets a lineage start a counted
\* phase more often than its root was allowed and users granted.
THEOREM AllowanceIsConserved == Spec => []AllowanceConserved
<1>1. TicketInv /\ Accounts => AllowanceConserved
  <2>. SUFFICES ASSUME TicketInv, Accounts, NEW t \in DOMAIN state, state[t].ancestry = <<>>,
                       NEW p \in Counted
                PROVE  Sum([u \in Lineage(state, t) |-> state[u].local])[p]
                          <= COUNTS[p] + Sum([u \in Lineage(state, t) |-> granted[u]])[p]
    BY DEF AllowanceConserved
  <2>. DEFINE D == Lineage(state, t)
              f == [u \in D |-> state[u].local]
              g == [u \in D |-> granted[u]]
              h == Holdings(state, t)
              j == Grant(state, granted, t)
  <2>1. Kept(state) /\ granted \in [Tickets -> Vector] /\ Balanced(state, granted)
    BY AccountsKept
  <2>2. /\ DOMAIN state \subseteq Tickets /\ IsFiniteSet(Tickets)
        /\ D = {u \in DOMAIN state : Root(state, u) = t}
    BY <2>1, InputConstants DEF Kept, Lineage, Root
  <2>3. D \in SUBSET Tickets /\ IsFiniteSet(D)
    BY <2>2, FS_Subset
  <2>4. \A u \in D : /\ state[u].local \in Vector /\ state[u] \in Ledger
                     /\ \A q \in Counted : state[u].counts[q] <= state[u].limits[q]
    BY <2>2 DEF TicketInv, TypeOK, Ledger, Accounts, Books
  <2>5. f \in [D -> Vector] /\ g \in [D -> Vector]
    BY <2>1, <2>3, <2>4
  <2>6. /\ h \in [Tickets -> Vector] /\ j \in [Tickets -> Vector]
        /\ Sum(h)[p] \in Nat /\ Sum(j)[p] \in Nat
    BY <2>1, HoldingsAreVectors
  <2>7. Sum(h)[p] <= COUNTS[p] + Sum(j)[p]
    BY <2>1 DEF Balanced
  <2>8. \A u \in D : f[u][p] <= h[u][p]
    <3>1. \A u \in D : h[u] = Entry(state[u])
      BY <2>2, <2>3 DEF Holdings, Held
    <3>. QED BY <2>4, <3>1, EntryIsVector
  <2>9. (\A u \in D : j[u][p] <= g[u][p]) /\ \A u \in Tickets \ D : j[u][p] = 0
    <3>1. \A u \in D : j[u] = granted[u]
      BY <2>2, <2>3 DEF Grant
    <3>2. \A u \in D : j[u][p] \in Nat
      BY <2>3, <2>6 DEF Vector
    <3>3. \A u \in Tickets \ D : j[u] = NoCounts
      BY <2>2 DEF Grant
    <3>. QED BY <3>1, <3>2, <3>3 DEF NoCounts
  <2>. HIDE DEF D, f, g, h, j
  <2>10. Sum(f)[p] <= Sum(h)[p]
    BY <2>2, <2>3, <2>5, <2>6, <2>8, SumBelow
  <2>11. Sum(j)[p] <= Sum(g)[p]
    BY <2>2, <2>3, <2>5, <2>6, <2>9, SumAbove
  <2>12. Sum(f)[p] \in Nat /\ Sum(g)[p] \in Nat /\ COUNTS[p] \in Nat
    BY <2>3, <2>5, SumIsVector DEF Vector, COUNTS
  <2>13. Sum(f)[p] <= COUNTS[p] + Sum(g)[p]
    <3>. DEFINE a == Sum(f)[p]
                b == Sum(h)[p]
                c == Sum(j)[p]
                d == Sum(g)[p]
                z == COUNTS[p]
    <3>1. /\ a \in Nat /\ b \in Nat /\ c \in Nat /\ d \in Nat /\ z \in Nat
          /\ a <= b /\ c <= d /\ b <= z + c
      BY <2>6, <2>7, <2>10, <2>11, <2>12
    <3>2. a <= z + d
      <4>. HIDE DEF a, b, c, d, z
      <4>. QED BY <3>1
    <3>. QED BY <3>2
  <2>. QED BY <2>13 DEF D, f, g
<1>. QED BY <1>1, LedgersAreSound, BooksBalance, PTL
=============================================================================
