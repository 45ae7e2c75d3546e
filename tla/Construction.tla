---------------------------- MODULE Construction ----------------------------
(***************************************************************************)
(* Portfolio construction (domain/construction.py) and the policy split it *)
(* starts from (domain/policy.py).  Names that the code only compares and  *)
(* sorts (symbols, listings, groups, share classes, categories) are their  *)
(* rank in that order.  Weights are basis points and cash is minor units,  *)
(* with the code's own integer arithmetic.                                 *)
(***************************************************************************)
EXTENDS Screening

CONSTANTS
    TotalWeight,                 \* 10000 basis points
    MinPositions, MaxPositions, PoolLimit,
    MinWeight, MaxWeight, MaxCategory,
    GrowthCategories, DefensiveCategories,
    RateNum, RateDen             \* dollars for one euro, as a fraction

ASSUME PolicyAssumption ==
    /\ MinPositions \in 1..MaxPositions /\ MaxPositions \in 1..PoolLimit /\ PoolLimit \in 1..10
    /\ 0 <= MinWeight /\ MinWeight <= MaxWeight /\ MaxWeight <= TotalWeight
    /\ GrowthCategories \cap DefensiveCategories = {}

-----------------------------------------------------------------------------
(* The policy: target weights and the split of each cash flow.               *)
Sleeves == {"growth", "defensive"}
GrowthBand == [conservative |-> <<20, 45>>, moderate |-> <<45, 70>>, aggressive |-> <<70, 95>>]

\* Twice the growth percentage, which is a whole number.
GrowthTwice(p) ==
    LET band == GrowthBand[p.risk]
    IN  CASE p.objective = "income" -> 2 * band[1]
          [] p.objective = "growth" -> 2 * band[2]
          [] OTHER -> band[1] + band[2]

\* Mutant: the percentage is cut to a whole number before the cash is split.
SplitWholePercent(total, twice) ==
    LET growth == (total * (twice \div 2) + 50) \div 100
    IN  [growth |-> growth, defensive |-> total - growth]
\* Growth is rounded half up to a minor unit; the defensive sleeve gets the rest.
SplitCash(total, twice) ==
    LET growth == (total * twice + 100) \div 200
    IN  [growth |-> growth, defensive |-> total - growth]

PolicyFor(p) ==
    [contract |-> p.contract, risk |-> p.risk, objective |-> p.objective, exclusions |-> p.exclusions,
     twice |-> GrowthTwice(p), total |-> [initial |-> p.initial, recurring |-> p.recurring],
     initial |-> SplitCash(p.initial, GrowthTwice(p)),
     recurring |-> SplitCash(p.recurring, GrowthTwice(p))]

TargetOf(policy) ==
    LET growth == (policy.twice * TotalWeight) \div 200
    IN  [growth |-> growth, defensive |-> TotalWeight - growth]
TargetReason(policy) ==
    LET band == GrowthBand[policy.risk]
    IN  IF (policy.twice * TotalWeight) % 200 # 0 THEN "allocation_precision_unsupported"
        ELSE IF policy.twice \notin 2 * band[1] .. 2 * band[2] THEN "allocation_band_mismatch"
        ELSE "none"

-----------------------------------------------------------------------------
(* Agreement of the upstream results, in the order of the code.              *)
\* Mutant: only the number of verdicts is compared.
CountsAgree(again, screening) == Len(again.verdicts) = Len(screening.verdicts)
Recomputed(again, screening) == again = screening

Available(c, name) == Field(c, name).state = "available"
Timely(c, name) == Assessed(Field(c, name).age, MaxAge, Tolerance) = "current"
CategoryStale(c) == Available(c, "category") /\ ~Timely(c, "category")

Upstream(in) ==
    LET p == in.profile   e == in.evidence   policy == in.policy   screening == in.screening
        others == {policy.contract, e.contract, screening.contract}
        again == Screening(e)
    IN  IF \E other \in others : New(other) # New(p.contract) THEN "advisory_contract_mismatch"
        ELSE IF \E other \in others : other # p.contract THEN "upstream_contract_mismatch"
        ELSE IF e.status # "ready" THEN "evidence_not_ready"
        ELSE IF Len(e.candidates) > PoolLimit /\ ~p.catalogue THEN "candidate_pool_limit_exceeded"
        ELSE IF e.request # (IF p.catalogue THEN in.request ELSE <<>>) THEN "upstream_contract_mismatch"
        ELSE IF \E c \in ToSet(e.candidates) : ~c.coherent THEN "category_provenance_conflict"
        ELSE IF \E c \in ToSet(e.candidates) : CategoryStale(c) THEN "evidence_not_ready"
        ELSE IF policy # PolicyFor(p) THEN "upstream_contract_mismatch"
        ELSE IF \/ e.objective # p.objective \/ e.risk # p.risk \/ e.exclusions # p.exclusions
                \/ screening.exclusions # e.exclusions THEN "upstream_contract_mismatch"
        ELSE IF again.status = "refused"
             THEN IF again.code = "freshness" THEN "evidence_not_ready"
                  ELSE "upstream_contract_mismatch"
        ELSE IF ~Recomputed(again, screening) THEN "screening_recomputation_mismatch"
        ELSE "none"

-----------------------------------------------------------------------------
(* Classification of the candidates.                                         *)
IdentityFields == {"share_class_id", "economic_group_id"}
Identified(c) == \A name \in IdentityFields : Available(c, name)
Class(c) == IF New(c.contract) THEN Field(c, "share_class_id").value ELSE 0
Group(c) == IF New(c.contract) THEN Field(c, "economic_group_id").value ELSE 0

\* One share class under two groups, or an identity that is not current, stops everything.
IdentityStale(c) == \E name \in IdentityFields : Available(c, name) /\ ~Timely(c, name)
IdentityReason(candidates) ==
    LET stale == {i \in DOMAIN candidates : IdentityStale(candidates[i])}
        clash == {i \in DOMAIN candidates : \E j \in 1..(i - 1) :
                     /\ Identified(candidates[i]) /\ Identified(candidates[j])
                     /\ Class(candidates[i]) = Class(candidates[j])
                     /\ Group(candidates[i]) # Group(candidates[j])}
    IN  IF stale \cup clash = {} THEN "none"
        ELSE IF Min(stale \cup clash) \in stale THEN "evidence_not_ready"
        ELSE "economic_identity_conflict"

Fate(c, verdict) ==
    IF verdict = "fail" THEN "candidate_screening_failed"
    ELSE IF verdict = "unknown" THEN "candidate_screening_unknown"
    ELSE IF ~Available(c, "category") THEN "category_missing"
    ELSE IF Field(c, "category").value \notin GrowthCategories \cup DefensiveCategories
         THEN "category_unsupported"
    ELSE IF New(c.contract) /\ ~Identified(c) THEN "economic_identity_unknown"
    ELSE "eligible"

Item(c) ==
    [symbol |-> c.symbol, category |-> Field(c, "category").value,
     sleeve |-> IF Field(c, "category").value \in GrowthCategories THEN "growth" ELSE "defensive",
     class |-> Class(c), group |-> Group(c),
     currency |-> IF New(c.contract) THEN Field(c, "trading_currency").value ELSE "USD"]

Fates(in) ==
    [i \in DOMAIN in.evidence.candidates |-> Fate(in.evidence.candidates[i], in.screening.verdicts[i])]
ClassifyReason(in) ==
    IF New(in.profile.contract) THEN IdentityReason(in.evidence.candidates) ELSE "none"
Eligible(in) ==
    LET at == SetToSortSeq({i \in DOMAIN Fates(in) : Fates(in)[i] = "eligible"}, <)
    IN  [k \in DOMAIN at |-> Item(in.evidence.candidates[at[k]])]
Excluded(in) ==
    {<<in.evidence.candidates[i].symbol, Fates(in)[i]>> :
        i \in {i \in DOMAIN Fates(in) : Fates(in)[i] # "eligible"}}

-----------------------------------------------------------------------------
(* The bounded shortlist of a catalogue review.                              *)
Capacity == Min({Limit, PoolLimit})
CountOf(items, sleeve) == Cardinality({i \in DOMAIN items : items[i].sleeve = sleeve})
Groups(items) == {items[i].group : i \in DOMAIN items}

Earlier(a, b) ==
    \/ a.group < b.group
    \/ a.group = b.group /\ a.class < b.class
    \/ a.group = b.group /\ a.class = b.class /\ a.symbol < b.symbol

\* The sleeve furthest below its share of the slots so far; growth wins a tie.
Share(chosen, targets, sleeve) ==
    (Len(chosen) + 1) * targets[sleeve] - TotalWeight * CountOf(chosen, sleeve)
NextSleeve(chosen, targets, choices) ==
    LET open == {a.sleeve : a \in choices}
    IN  IF open = Sleeves
        THEN IF Share(chosen, targets, "growth") >= Share(chosen, targets, "defensive")
             THEN "growth" ELSE "defensive"
        ELSE CHOOSE sleeve \in open : TRUE

\* Funds not represented yet come first; then the category with the fewest members.
Open(chosen, pool) ==
    LET left == pool \ ToSet(chosen)
        fresh == {a \in left : a.group \notin Groups(chosen)}
    IN  IF fresh # {} THEN fresh ELSE left
Slot(chosen, targets, pool) ==
    LET choices == Open(chosen, pool)
        inSleeve == {a \in choices : a.sleeve = NextSleeve(chosen, targets, choices)}
        members(k) == Cardinality({i \in DOMAIN chosen : chosen[i].category = k})
        category == CHOOSE k \in {a.category : a \in inSleeve} :
                       \A l \in {a.category : a \in inSleeve} :
                          members(k) < members(l) \/ (members(k) = members(l) /\ k <= l)
    IN  CHOOSE a \in inSleeve :
           /\ a.category = category
           /\ \A b \in inSleeve : b.category = category /\ b # a => Earlier(a, b)

Shortlist(eligible, targets) ==
    LET pool == {a \in ToSet(eligible) : targets[a.sleeve] > 0}
    IN  FoldLeft(LAMBDA chosen, slot : IF pool \subseteq ToSet(chosen) THEN chosen
                                       ELSE Append(chosen, Slot(chosen, targets, pool)),
                 <<>>, [slot \in 1..Capacity |-> slot])
Considered(in, targets) ==
    IF in.profile.catalogue THEN Shortlist(Eligible(in), targets) ELSE Eligible(in)

-----------------------------------------------------------------------------
(* Choice of a subset: the largest, and the earliest of that size.           *)
InSleeve(items, S, sleeve) == {i \in S : items[i].sleeve = sleeve}
EqualWeights(items, S, targets) ==
    [i \in S |->
        LET mates == InSleeve(items, S, items[i].sleeve)
            target == targets[items[i].sleeve]
            rank == Cardinality({j \in mates : j < i})
        IN  target \div Cardinality(mates)
              + (IF rank < target % Cardinality(mates) THEN 1 ELSE 0)]

\* Mutant: the descending range stops before the smallest size.
SizesAboveMinimum(items) == (MinPositions + 1) .. Min({MaxPositions, Len(items)})
Sizes(items) == MinPositions .. Min({MaxPositions, Len(items)})
Subsets(items) == {S \in SUBSET DOMAIN items : Cardinality(S) \in Sizes(items)}
OneFundEach(items, S) == \A i, j \in S : items[i].group = items[j].group => i = j \/ items[i].group = 0
Covers(items, S, targets) ==
    {sleeve \in Sleeves : targets[sleeve] > 0} \subseteq {items[i].sleeve : i \in S}

WeightsFit(weights) == \A i \in DOMAIN weights : weights[i] \in MinWeight..MaxWeight
CategoryTotal(items, weights, k) ==
    MapThenSumSet(LAMBDA i : weights[i], {i \in DOMAIN weights : items[i].category = k})
CategoriesFit(items, weights) ==
    \A i \in DOMAIN weights : CategoryTotal(items, weights, items[i].category) <= MaxCategory

LexFirst(S, T) == Min(SymDiff(S, T)) \in S
Chosen(items, targets) ==
    LET covered == {S \in Subsets(items) : OneFundEach(items, S) /\ Covers(items, S, targets)}
        sized == {S \in covered : WeightsFit(EqualWeights(items, S, targets))}
        fit == {S \in sized : CategoriesFit(items, EqualWeights(items, S, targets))}
        largest == {S \in fit : \A T \in fit : Cardinality(T) <= Cardinality(S)}
    IN  [reason |-> IF \/ covered = {}
                       \/ ~Covers(items, DOMAIN items, targets) THEN "missing_sleeve_coverage"
                    ELSE IF sized = {} THEN "position_constraints_infeasible"
                    ELSE IF fit = {} THEN "category_limit_infeasible" ELSE "none",
         set |-> IF fit = {} THEN {}
                 ELSE CHOOSE S \in largest : \A T \in largest \ {S} : LexFirst(S, T)]

-----------------------------------------------------------------------------
(* Cash: proportional to the weights, the largest remainders get the rest.   *)
CashWeight(items, weights, i) ==
    MapThenSumSet(LAMBDA j : weights[j], InSleeve(items, DOMAIN weights, items[i].sleeve))
CashFails(items, weights, cash) ==
    \E sleeve \in Sleeves :
        LET mates == InSleeve(items, DOMAIN weights, sleeve)
        IN  IF mates = {} THEN cash[sleeve] # 0 ELSE \A i \in mates : weights[i] = 0
CashFor(items, weights, cash) ==
    LET whole == [i \in DOMAIN weights |->
                    (cash[items[i].sleeve] * weights[i]) \div CashWeight(items, weights, i)]
        part == [i \in DOMAIN weights |->
                    (cash[items[i].sleeve] * weights[i]) % CashWeight(items, weights, i)]
        mates(i) == InSleeve(items, DOMAIN weights, items[i].sleeve)
        ahead(i) == {j \in mates(i) : part[j] > part[i] \/ (part[j] = part[i] /\ j < i)}
        rest(i) == cash[items[i].sleeve] - MapThenSumSet(LAMBDA j : whole[j], mates(i))
    IN  [i \in DOMAIN weights |-> whole[i] + (IF Cardinality(ahead(i)) < rest(i) THEN 1 ELSE 0)]
\* Exact rational conversion, rounded half up.
HalfUp(num, den) == (2 * num + den) \div (2 * den)
Traded(amount, base, currency) ==
    IF base = currency THEN amount
    ELSE IF base = "EUR" THEN HalfUp(amount * RateNum, RateDen) ELSE HalfUp(amount * RateDen, RateNum)

NeedsFx(in, items, S) ==
    New(in.profile.contract) /\ \E i \in S : items[i].currency # in.profile.base
Position(in, item, weight, initial, recurring) ==
    [symbol |-> item.symbol, sleeve |-> item.sleeve, category |-> item.category, group |-> item.group,
     weight |-> weight, initial |-> initial, recurring |-> recurring,
     traded |-> IF New(in.profile.contract)
                THEN <<Traded(initial, in.profile.base, item.currency),
                       Traded(recurring, in.profile.base, item.currency)>>
                ELSE <<initial, recurring>>]
DraftOf(in, items, S, targets) ==
    LET weights == EqualWeights(items, S, targets)
        initial == CashFor(items, weights, in.policy.initial)
        recurring == CashFor(items, weights, in.policy.recurring)
        at == SetToSortSeq(S, <)
    IN  [k \in DOMAIN at |->
            Position(in, items[at[k]], weights[at[k]], initial[at[k]], recurring[at[k]])]

-----------------------------------------------------------------------------
(* The independent validation of a draft.                                    *)
Total(draft, Value(_), S) == MapThenSumSet(LAMBDA i : Value(draft[i]), S)
OfSleeve(draft, sleeve) == {i \in DOMAIN draft : draft[i].sleeve = sleeve}

CashAgrees(in, draft, Value(_), cash, total) ==
    LET known == Eligible(in)
        item(i) == CHOOSE a \in ToSet(known) : a.symbol = draft[i].symbol
        items == [i \in DOMAIN draft |-> item(i)]
        weights == [i \in DOMAIN draft |-> draft[i].weight]
    IN  /\ \A i \in DOMAIN draft : \E a \in ToSet(known) : a.symbol = draft[i].symbol
        /\ ~CashFails(items, weights, cash)
        /\ [i \in DOMAIN draft |-> Value(draft[i])] = CashFor(items, weights, cash)
        /\ Total(draft, Value, DOMAIN draft) = total

Attributable(in, draft, targets) ==
    /\ \A i, j \in DOMAIN draft : draft[i].symbol = draft[j].symbol => i = j
    /\ New(in.profile.contract) => \A i, j \in DOMAIN draft : draft[i].group = draft[j].group => i = j
    /\ \A i \in DOMAIN draft : \E a \in ToSet(Considered(in, targets)) :
          /\ draft[i] = Position(in, a, draft[i].weight, draft[i].initial, draft[i].recurring)
          /\ New(in.profile.contract) /\ a.currency # in.profile.base => in.evidence.fx = "none"

\* The reason of the first check that fails.
DraftReason(in, draft) ==
    LET targets == TargetOf(in.policy)
        weight(x) == x.weight
    IN  IF Upstream(in) # "none" THEN "upstream_contract_mismatch"
        ELSE IF TargetReason(in.policy) # "none" THEN "allocation_band_mismatch"
        ELSE IF ClassifyReason(in) # "none" \/ ~Attributable(in, draft, targets)
             THEN "candidate_screening_unknown"
        ELSE IF \E sleeve \in Sleeves : targets[sleeve] > 0 /\ OfSleeve(draft, sleeve) = {}
             THEN "missing_sleeve_coverage"
        ELSE IF \/ Len(draft) \notin MinPositions..MaxPositions
                \/ ~WeightsFit([i \in DOMAIN draft |-> draft[i].weight])
             THEN "position_constraints_infeasible"
        ELSE IF ~CategoriesFit(draft, [i \in DOMAIN draft |-> draft[i].weight])
             THEN "category_limit_infeasible"
        ELSE IF \/ Total(draft, weight, DOMAIN draft) # TotalWeight
                \/ \E sleeve \in Sleeves :
                      Total(draft, weight, OfSleeve(draft, sleeve)) # targets[sleeve]
             THEN "weight_reconciliation_failed"
        ELSE IF \/ ~CashAgrees(in, draft, LAMBDA x : x.initial, in.policy.initial,
                               in.policy.total.initial)
                \/ ~CashAgrees(in, draft, LAMBDA x : x.recurring, in.policy.recurring,
                               in.policy.total.recurring)
             THEN "cash_reconciliation_failed"
        ELSE "none"

-----------------------------------------------------------------------------
(* construct_model_portfolio and the check of a persisted result.            *)
NoPortfolio == [status |-> "none", reason |-> "none", draft |-> <<>>, excluded |-> {},
                shortlist |-> <<>>]
Blocked(reason, excluded, shortlist) ==
    [status |-> "blocked", reason |-> reason, draft |-> <<>>, excluded |-> excluded,
     shortlist |-> shortlist]

Symbols(items) == [i \in DOMAIN items |-> items[i].symbol]
Repeated(items, S) ==
    {<<items[i].symbol, "duplicate_economic_exposure">> :
        i \in {i \in DOMAIN items \ S : \E j \in S : items[i].group = items[j].group}}

Build(in, targets) ==
    LET items == Considered(in, targets)
        listed == IF in.profile.catalogue THEN Symbols(items) ELSE <<>>
        choice == Chosen(items, targets)
        weights == EqualWeights(items, choice.set, targets)
        draft == DraftOf(in, items, choice.set, targets)
        blocked(reason) == Blocked(reason, Excluded(in), listed)
    IN  IF Len(items) < MinPositions THEN blocked("insufficient_eligible_candidates")
        ELSE IF choice.reason # "none" THEN blocked(choice.reason)
        ELSE IF \E cash \in {in.policy.initial, in.policy.recurring} : CashFails(items, weights, cash)
             THEN blocked("cash_reconciliation_failed")
        ELSE IF NeedsFx(in, items, choice.set) /\ in.evidence.fx # "none" THEN blocked(in.evidence.fx)
        ELSE IF DraftReason(in, draft) # "none" THEN blocked(DraftReason(in, draft))
        ELSE [status |-> "ready", reason |-> "none", draft |-> draft, shortlist |-> listed,
              excluded |-> Excluded(in)
                 \cup (IF New(in.profile.contract) THEN Repeated(items, choice.set) ELSE {})]

Construct(in) ==
    LET targets == TargetOf(in.policy)
        stop(reason) == Blocked(reason, {}, <<>>)
    IN  IF Upstream(in) # "none" THEN stop(Upstream(in))
        ELSE IF TargetReason(in.policy) # "none" THEN stop(TargetReason(in.policy))
        ELSE IF ClassifyReason(in) # "none" THEN stop(ClassifyReason(in))
        ELSE Build(in, targets)

ValidatedPersisted(in, persisted) ==
    LET expected == Construct(in)
    IN  IF persisted = expected THEN expected
        ELSE Blocked("persisted_construction_mismatch", expected.excluded, <<>>)
=============================================================================
