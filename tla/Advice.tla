------------------------------- MODULE Advice -------------------------------
(***************************************************************************)
(* The deterministic stages of one review, as the nodes of the graph run   *)
(* them (graph/nodes.py): search and select evidence, screen it, construct *)
(* a portfolio, and later check the persisted portfolio again against      *)
(* whatever the checkpoint then holds.                                     *)
(***************************************************************************)
EXTENDS Construction

CONSTANTS
    Profiles,      \* investor profiles a review may start with
    Altered,       \* profiles a checkpoint may hold by the time it is read again
    Ranked,        \* the documents of the index, in the order of the search
    Elsewhere,     \* results of the searches of other reviews
    FxOutcomes,    \* "none" or the defect of the exchange rate
    MaxFound       \* bound: results of one search

VARIABLES
    phase, profile,
    request,       \* symbols pinned by a catalogue review, in order
    found,         \* results of the search that the evidence was selected from
    looked,        \* position in Ranked of the last result
    policy, evidence, screening, portfolio

vars == <<phase, profile, request, found, looked, policy, evidence, screening, portfolio>>

Init ==
    /\ phase = "search" /\ profile \in Profiles /\ policy = PolicyFor(profile)
    /\ request = <<>> /\ found = <<>> /\ looked = 0
    /\ evidence = NoEvidence /\ screening = NoScreening /\ portfolio = NoPortfolio

\* The index holds a document under the contract it was researched for.
As(r, contract) == IF r.contract = "any" THEN [r EXCEPT !.contract = contract] ELSE r
Document(r, p) ==
    [As(r, p.contract) EXCEPT !.schema = IF New(p.contract) THEN 2 ELSE @]

\* The search returns another document of the index, one that is ranked after the last.
Search ==
    /\ phase = "search" /\ Len(found) < MaxFound
    /\ looked' \in (looked + 1)..Len(Ranked)
    /\ LET r == Document(Ranked[looked'], profile)
       IN  /\ found' = Append(found, r)
           /\ request' = IF profile.catalogue THEN Append(request, r.symbol) ELSE request
    /\ UNCHANGED <<phase, profile, policy, evidence, screening, portfolio>>

\* Retrieval asks the exchange rate only when some result trades in another currency.
Retrieve ==
    /\ phase = "search"
    /\ \E fx \in (IF NeedsRate(profile, found) THEN FxOutcomes ELSE {"fx_missing"}) :
          evidence' = Selected(profile, request, found, fx)
    /\ phase' = IF evidence'.status = "ready" /\ EvidenceMatches(evidence', profile, request)
                THEN "evidence" ELSE "stopped"
    /\ UNCHANGED <<profile, request, found, looked, policy, screening, portfolio>>

Screen ==
    /\ phase = "evidence"
    /\ screening' = Screening(evidence)
    /\ phase' = IF screening'.status = "ready" THEN "screening" ELSE "stopped"
    /\ UNCHANGED <<profile, request, found, looked, policy, evidence, portfolio>>

Inputs == [profile |-> profile, request |-> request, policy |-> policy,
           evidence |-> evidence, screening |-> screening]

ConstructPortfolio ==
    /\ phase \in {"screening", "resumed"}
    /\ portfolio' = Construct(Inputs)
    /\ phase' = IF portfolio'.status = "ready" THEN "construction" ELSE "stopped"
    /\ UNCHANGED <<profile, request, found, looked, policy, evidence, screening>>

\* What the stages of another review with the same profile made of the results of its search.
Another(results) ==
    LET docs == [i \in DOMAIN results |-> Document(results[i], profile)]
        rate == IF NeedsRate(profile, docs) THEN "none" ELSE "fx_missing"
        bundle == Selected(profile, request, docs, rate)
    IN  [found |-> docs, evidence |-> bundle, screening |-> Screening(bundle)]
PortfolioOf(o) == Construct([Inputs EXCEPT !.evidence = o.evidence, !.screening = o.screening])

\* The checkpoint is read after the screening or the construction, and some part of it may be
\* another review's, of the same time: the profile of one that asks something else, or the
\* evidence, the verdicts or the portfolio of one that asks the same.
Reload ==
    /\ phase \in {"screening", "construction"}
    /\ phase' = IF phase = "screening" THEN "resumed" ELSE "checkpoint"
    /\ \/ UNCHANGED <<profile, found, policy, evidence, screening, portfolio>>
       \/ \E p \in Altered :
             /\ profile' = p /\ policy' \in {policy, PolicyFor(p)}
             /\ UNCHANGED <<found, evidence, screening, portfolio>>
       \/ \E o \in {Another(results) : results \in Elsewhere} :
          /\ o.evidence.status = "ready" /\ o.screening.status = "ready"
          /\ \/ /\ found' = o.found /\ evidence' = o.evidence
                /\ screening' \in {screening, o.screening} /\ UNCHANGED portfolio
             \/ screening' = o.screening /\ UNCHANGED <<found, evidence, portfolio>>
             \/ /\ phase = "construction" /\ portfolio' = PortfolioOf(o)
                /\ UNCHANGED <<found, evidence, screening>>
          /\ UNCHANGED <<profile, policy>>
    /\ UNCHANGED <<request, looked>>

\* The explanation request and the dashboard construct again before they show the draft.
Validate ==
    /\ phase = "checkpoint"
    /\ portfolio' = ValidatedPersisted(Inputs, portfolio)
    /\ phase' = IF portfolio'.status = "ready" THEN "accepted" ELSE "stopped"
    /\ UNCHANGED <<profile, request, found, looked, policy, evidence, screening>>

Done == phase \in {"accepted", "stopped"} /\ UNCHANGED vars

Next == Search \/ Retrieve \/ Screen \/ ConstructPortfolio \/ Reload \/ Validate \/ Done
Spec == Init /\ [][Next]_vars

-----------------------------------------------------------------------------
(* Properties.                                                               *)

\* What the documents say of a listing, read without the rules of the screening.
Attested(r, name, oldest, ahead) ==
    /\ r.fields[name].state = "available"
    /\ -ahead <= r.fields[name].age /\ r.fields[name].age <= oldest
Window(r, name) == IF r.fields[name].issuer THEN IssuerAge ELSE MaxAge
Ahead(r, name) == IF r.fields[name].issuer THEN 0 ELSE Tolerance
Wanted(p) ==
    {"expense_ratio_pct", "average_daily_volume", "top_10_concentration_pct", "quote_type", "category"}
       \cup (IF New(p.contract) THEN {"listing_exchange", "trading_currency", "price_unit",
                                      "share_class_id", "economic_group_id"} ELSE {"market"})
       \cup (IF p.exclusions = {} THEN {} ELSE {"sector_exposures"})
Verified(p, r) ==
    /\ r.contract = p.contract /\ r.sound /\ -Tolerance <= r.age /\ r.age <= MaxAge
    /\ \A name \in Wanted(p) : Attested(r, name, Window(r, name), Ahead(r, name))
    /\ r.fields["expense_ratio_pct"].value \in 0..MaxExpense
    /\ r.fields["average_daily_volume"].value >= MinVolume
    /\ r.fields["top_10_concentration_pct"].value \in 0..MaxConcentration
    /\ p.exclusions \subseteq Taxonomy
    /\ p.exclusions # {} => r.fields["sector_exposures"].value \cap p.exclusions = {}
    /\ New(p.contract) => /\ r.fields["listing_exchange"].value \in Regions
                          /\ r.fields["trading_currency"].value \in {"USD", "EUR"}

\* Every position of a draft that is shown for a profile goes back to a retrieved document of
\* the evidence it is shown with, in which every fact the advice rests on is attributed, current,
\* within its limit and free of the sectors that profile excludes - although the profile, the
\* evidence, the verdicts or the portfolio of the checkpoint may have become another review's
\* before the construction or after it.
PositionsAreVerified ==
    phase = "accepted" =>
        \A i \in DOMAIN portfolio.draft : \E r \in ToSet(found) :
            r.symbol = portfolio.draft[i].symbol /\ Verified(profile, r)

\* The share of a position differs from its exact proportion by less than one minor unit.
NearShare(amount, cash, weight, of) ==
    amount * of - cash * weight < of /\ cash * weight - amount * of < of
Sums(draft, Value(_), at) == MapThenSumSet(LAMBDA i : Value(draft[i]), at)

\* A draft that is ready adds up, although the split of the cash is rounded twice: the weights to
\* the target of each sleeve, the cash to the last minor unit of what the investor brings, the
\* cash of each sleeve and of each position to within a minor unit of its exact share, one
\* position per fund, and no position, category or count beyond the limits.
DraftReconciles ==
    phase \in {"construction", "accepted"} =>
        LET draft == portfolio.draft
            all == DOMAIN draft
            growth == {i \in all : draft[i].category \in GrowthCategories}
            weight(x) == x.weight   initial(x) == x.initial   recurring(x) == x.recurring
            target == (GrowthTwice(profile) * TotalWeight) \div 200
            sleeveWeight(at) == IF at = growth THEN target ELSE TotalWeight - target
        IN  /\ Len(draft) \in MinPositions..MaxPositions
            /\ Sums(draft, initial, all) = profile.initial
            /\ Sums(draft, recurring, all) = profile.recurring
            /\ \A at \in {growth, all \ growth} :
                  /\ Sums(draft, weight, at) = sleeveWeight(at)
                  /\ NearShare(Sums(draft, initial, at), profile.initial, sleeveWeight(at), TotalWeight)
                  /\ NearShare(Sums(draft, recurring, at), profile.recurring, sleeveWeight(at),
                               TotalWeight)
                  /\ \A i \in at :
                        /\ NearShare(draft[i].initial, Sums(draft, initial, at), draft[i].weight,
                                     sleeveWeight(at))
                        /\ NearShare(draft[i].recurring, Sums(draft, recurring, at), draft[i].weight,
                                     sleeveWeight(at))
            /\ \A i \in all :
                  /\ draft[i].weight \in MinWeight..MaxWeight
                  /\ Sums(draft, weight, {j \in all : draft[j].category = draft[i].category})
                        <= MaxCategory
            /\ New(profile.contract) =>
                  \A i, j \in all : draft[i].group = draft[j].group => i = j

\* Integer weights within the limits exist for a set of positions, equal or not.
Possible(items, S, targets) ==
    \A sleeve \in Sleeves :
        LET size(k) == Cardinality({i \in S : items[i].category = k})
            used == {k \in (IF sleeve = "growth" THEN GrowthCategories ELSE DefensiveCategories) :
                        size(k) > 0}
            most(k) == Min({size(k) * MaxWeight, MaxCategory})
        IN  /\ \A k \in used : size(k) * MinWeight <= most(k)
            /\ targets[sleeve] \in MapThenSumSet(LAMBDA k : size(k) * MinWeight, used)
                                   .. MapThenSumSet(most, used)
            /\ used # {}

\* What the constructor may choose from: every eligible candidate, unless a catalogue review has
\* more of them than its shortlist has places.
Choosable ==
    IF profile.catalogue /\ Len(Eligible(Inputs)) > Capacity
    THEN Considered(Inputs, TargetOf(policy)) ELSE Eligible(Inputs)

\* The constructor gives up only when no choice of candidates and weights would do, and never
\* leaves out a position it could have had: although it tries equal weights alone, and stops at
\* the first set that fits, no larger set could be weighted in any way within the limits.  So
\* what it chose passes the validation that follows.  A full shortlist is taken as it is: that it
\* may miss a combination is the admitted limit of a catalogue review.
ShortlistSearchIsComplete ==
    /\ phase \in {"construction", "stopped"} /\ portfolio.status # "none"
    /\ portfolio.reason \notin {"persisted_construction_mismatch", "fx_missing", "fx_stale"}
    /\ Upstream(Inputs) = "none" /\ ClassifyReason(Inputs) = "none"
    => /\ portfolio.reason \in {"none", "insufficient_eligible_candidates", "missing_sleeve_coverage",
                                "position_constraints_infeasible", "category_limit_infeasible"}
       /\ LET items == Choosable
          IN  \A S \in SUBSET DOMAIN items :
                 /\ Cardinality(S) \in MinPositions..MaxPositions
                 /\ Cardinality(S) > Len(portfolio.draft)
                 /\ \A i, j \in S : i # j => items[i].group = 0 \/ items[i].group # items[j].group
                 => ~Possible(items, S, TargetOf(policy))
====
