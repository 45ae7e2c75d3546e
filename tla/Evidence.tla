------------------------------ MODULE Evidence ------------------------------
(***************************************************************************)
(* Selection of candidate evidence (rag/evidence.py): the ranked results   *)
(* of a search become a bundle that is ready, blocked, or refused.         *)
(* A result stands for one retrieved document with its metadata:           *)
(*   symbol, contract, schema     the identity and its wire encoding       *)
(*   sound       the metadata hold a valid source, URL, time, type, market *)
(*   coherent    the flattened metadata agree with the field provenance    *)
(*   age         time of the check minus the time of the observation       *)
(*   graph       the context attached by the graph store                   *)
(*   fields      name -> [state, value, age, issuer]: an attributable fact *)
(*               is available, missing for a stated reason, or absent      *)
(***************************************************************************)
EXTENDS Integers, Sequences, FiniteSets, SequencesExt, FiniteSetsExt

CONSTANTS
    MaxAge,       \* hours an observation may be old
    Tolerance,    \* hours it may lie in the future
    IssuerAge,    \* hours the issuer's own holdings of BND may be old
    Limit,        \* candidates asked of the search
    Taxonomy      \* the sectors evidence can be checked for

ASSUME LimitAssumption == Limit \in 1..10
ASSUME AgeAssumption == {MaxAge, Tolerance, IssuerAge} \subseteq Nat

Contracts == {"legacy", "us-eu", "curator"}
New(contract) == contract # "legacy"

\* A bundle that never came to be, with the code of the error.
NoEvidence == [status |-> "none", code |-> "none", candidates |-> <<>>]
Refused(code) == [status |-> "refused", code |-> code, candidates |-> <<>>]

Assessed(age, oldest, ahead) ==
    IF -age > ahead THEN "future" ELSE IF age > oldest THEN "stale" ELSE "current"
Health(r) == Assessed(r.age, MaxAge, Tolerance)

\* The freshness of one field: the issuer's holdings have a window of their own.
FieldHealth(f) ==
    IF f.issuer THEN Assessed(f.age, IssuerAge, 0) ELSE Assessed(f.age, MaxAge, Tolerance)

Bounded(p, found) ==
    IF p.catalogue THEN found ELSE SubSeq(found, 1, Min({Limit, Len(found)}))

\* Results that raise instead of adding an error to the bundle.
ScopeBroken(p, request, found) == p.catalogue /\ [i \in DOMAIN found |-> found[i].symbol] # request
Mixed(p, results) ==
    \/ \E r \in ToSet(results) : r.contract # p.contract
    \/ \E r, s \in ToSet(results) : r.schema # s.schema

Valid(r) == r.sound
ContextBelongs(r) == r.graph.about = r.symbol
Current(results) == SelectSeq(results, LAMBDA r : Valid(r) /\ Health(r) = "current")

\* Semantic order keeps the first result of a symbol.
Duplicate(results, i) == \E j \in 1..(i - 1) : results[j].symbol = results[i].symbol
Distinct(results) ==
    LET first == SetToSortSeq({i \in DOMAIN results : ~Duplicate(results, i)}, <)
    IN  [i \in DOMAIN first |-> results[first[i]]]

\* The context of another document is dropped, with a warning.
Attributed(r) ==
    IF ContextBelongs(r) THEN r ELSE [r EXCEPT !.graph = [about |-> r.symbol, status |-> "none"]]

SourceSectors(r) == r.fields["sector_exposures"]
GraphAgrees(r) ==
    \/ r.graph.status = "none"
    \/ r.graph.status = SourceSectors(r).state
       /\ (r.graph.status = "available" => r.graph.sectors = SourceSectors(r).value)

\* A document of the second encoding is refused when its parts disagree.
Intact(r) == r.schema = 2 => r.coherent /\ GraphAgrees(r)

\* Schema 2 may neither repeat a symbol nor carry the context of another document: the first
\* result that does decides the error, and a repeated symbol is noticed before a context.
LosslessError(current) ==
    LET repeated == {i \in DOMAIN current : current[i].schema = 2 /\ Duplicate(current, i)}
        foreign == {i \in DOMAIN current : current[i].schema = 2 /\ ~ContextBelongs(current[i])}
    IN  IF repeated \cup foreign = {} THEN "none"
        ELSE IF Min(repeated \cup foreign) \in repeated THEN "schema_encoding"
        ELSE "document_integrity"

\* The rules a bundle is validated by whenever it is read.
ReadyBundle(e) ==
    /\ e.candidates # <<>>
    /\ \A i \in DOMAIN e.candidates : ~Duplicate(e.candidates, i)
    /\ \A c \in ToSet(e.candidates) :
          c.contract = e.contract /\ Health(c) = "current" /\ Intact(c)
    /\ New(e.contract) => \A c \in ToSet(e.candidates) : c.schema = 2
    /\ e.request # <<>> =>
          New(e.contract) /\ [i \in DOMAIN e.candidates |-> e.candidates[i].symbol] = e.request

NeedsRate(p, found) == New(p.contract) /\ \E r \in ToSet(found) : r.contract # "legacy"
                          /\ r.fields["trading_currency"].value # p.base

\* select_candidate_evidence: every defect of a result blocks the whole bundle.
Selected(p, request, found, fx) ==
    LET results == Bounded(p, found)
        current == Current(results)
        kept == Distinct(current)
        usable == SelectSeq([i \in DOMAIN kept |-> Attributed(kept[i])], Intact)
        clean == results # <<>> /\ Len(current) = Len(results) /\ Len(usable) = Len(kept)
        bundle == [status |-> IF clean THEN "ready" ELSE "blocked",
                   code |-> "none", contract |-> p.contract, exclusions |-> p.exclusions,
                   risk |-> p.risk, objective |-> p.objective,
                   request |-> IF p.catalogue THEN request ELSE <<>>,
                   candidates |-> usable, fx |-> fx]
    IN  CASE ScopeBroken(p, request, found) -> Refused("catalogue_scope_integrity")
          [] ~ScopeBroken(p, request, found) /\ Mixed(p, results) -> Refused("schema_encoding")
          [] /\ ~ScopeBroken(p, request, found) /\ ~Mixed(p, results)
             /\ LosslessError(current) # "none" -> Refused(LosslessError(current))
          [] OTHER -> IF clean /\ ~ReadyBundle(bundle) THEN Refused("evidence_contract")
                      ELSE bundle

\* The workflow accepts a bundle only for the profile it was retrieved for.
EvidenceMatches(e, p, request) ==
    /\ e.objective = p.objective /\ e.risk = p.risk
    /\ e.exclusions = p.exclusions
    /\ e.request = (IF p.catalogue THEN request ELSE <<>>)
=============================================================================
