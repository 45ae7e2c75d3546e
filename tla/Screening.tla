----------------------------- MODULE Screening -----------------------------
(***************************************************************************)
(* Candidate screening (domain/screening.py): rules with three verdicts    *)
(* over the attributable facts of a ready bundle.  A fact that is missing  *)
(* leaves a rule unknown; a fact that contradicts another, or is not       *)
(* current, refuses the screening of the whole bundle.                     *)
(***************************************************************************)
EXTENDS Evidence

CONSTANTS
    MaxExpense, MinVolume, MaxConcentration,   \* the policy's thresholds
    Regions                                    \* exchanges with a US or EU listing region

Field(c, name) == c.fields[name]
Known(c, name) == Field(c, name).state = "available"
Verdict(passed) == IF passed THEN "pass" ELSE "fail"

\* Numbers must be finite and not negative, percentages at most 100: NaN is anything else.
NotANumber == -1
Numbers == {"expense_ratio_pct", "average_daily_volume", "top_10_concentration_pct"}

Consumed(c, exclusions) ==
    Numbers \cup {"quote_type", "market"}
            \cup (IF New(c.contract) THEN {"listing_exchange", "trading_currency", "price_unit"} ELSE {})
            \cup (IF exclusions = {} THEN {} ELSE {"sector_exposures"})

\* The flattened metadata, the units and the provenance must tell one story.
NewFactsBroken(c) ==
    \/ \E name \in {"price_unit", "listing_exchange", "trading_currency"} :
          Field(c, name).state = "absent"
    \/ /\ Known(c, "price_unit") /\ Known(c, "trading_currency")
       /\ Field(c, "price_unit").value # Field(c, "trading_currency").value
ContractBroken(c, exclusions) ==
    \/ ~c.coherent
    \/ New(c.contract) /\ NewFactsBroken(c)
    \/ ~New(c.contract) /\ \E name \in {"market", "quote_type"} : Field(c, name).state = "missing"
    \/ \E name \in Numbers : Known(c, name) /\ Field(c, name).value = NotANumber
    \/ /\ exclusions # {} /\ Known(c, "sector_exposures") /\ c.graph.status = "available"
       /\ c.graph.sectors # Field(c, "sector_exposures").value

NotCurrent(c, exclusions) ==
    \E name \in Consumed(c, exclusions) : Known(c, name) /\ FieldHealth(Field(c, name)) # "current"

Confirmed(c, name) == IF Known(c, name) THEN "pass" ELSE "unknown"
ListingRule(c) ==
    IF ~New(c.contract) THEN Confirmed(c, "market")
    ELSE IF ~Known(c, "listing_exchange") THEN "unknown"
    ELSE Verdict(Field(c, "listing_exchange").value \in Regions)
CurrencyRule(c) ==
    IF ~New(c.contract) THEN "pass"
    ELSE IF ~Known(c, "trading_currency") \/ ~Known(c, "price_unit") THEN "unknown"
    ELSE Verdict(Field(c, "trading_currency").value \in {"USD", "EUR"})
TypeRule(c) ==
    IF ~New(c.contract) THEN Confirmed(c, "quote_type")
    ELSE IF ~Known(c, "quote_type") THEN "unknown"
    ELSE Verdict(Field(c, "quote_type").value = "ETF")
FreshnessRule(c) == IF Health(c) = "current" THEN "pass" ELSE "unknown"

NumericRule(c, name) ==
    IF ~Known(c, name) THEN "unknown"
    ELSE Verdict(CASE name = "expense_ratio_pct" -> Field(c, name).value <= MaxExpense
                   [] name = "average_daily_volume" -> Field(c, name).value >= MinVolume
                   [] OTHER -> Field(c, name).value <= MaxConcentration)

\* Sectors reported above the tolerance; a term outside the taxonomy cannot be verified.
SectorsUnknown(c) == c.graph.status # "available" \/ ~Known(c, "sector_exposures")
SectorRule(c, exclusions) ==
    IF exclusions = {} THEN "pass"
    ELSE IF SectorsUnknown(c) THEN "unknown"
    ELSE IF exclusions \cap Taxonomy \cap c.graph.sectors # {} THEN "fail"
    ELSE IF ~(exclusions \subseteq Taxonomy) THEN "unknown" ELSE "pass"

Overall(verdicts) ==
    IF "fail" \in verdicts THEN "fail" ELSE IF "unknown" \in verdicts THEN "unknown" ELSE "pass"
Screened(c, exclusions) ==
    Overall({ListingRule(c), CurrencyRule(c), TypeRule(c), FreshnessRule(c),
             SectorRule(c, exclusions)} \cup {NumericRule(c, name) : name \in Numbers})

NoScreening == [status |-> "none", code |-> "none", verdicts |-> <<>>]

\* screen_candidate_evidence: the first candidate that breaks a contract decides the error.
Screening(e) ==
    LET broken == {i \in DOMAIN e.candidates : \/ ContractBroken(e.candidates[i], e.exclusions)
                                               \/ NotCurrent(e.candidates[i], e.exclusions)}
    IN  IF e.status # "ready" THEN [NoScreening EXCEPT !.status = "refused", !.code = "contract"]
        ELSE IF broken # {}
        THEN [NoScreening EXCEPT !.status = "refused",
                                 !.code = IF ContractBroken(e.candidates[Min(broken)], e.exclusions)
                                          THEN "contract" ELSE "freshness"]
        ELSE [status |-> "ready", code |-> "none", contract |-> e.contract,
              exclusions |-> e.exclusions,
              verdicts |-> [i \in DOMAIN e.candidates |-> Screened(e.candidates[i], e.exclusions)]]
=============================================================================
