------------------------------ MODULE MCAdvice ------------------------------
(* A small instance of Advice for TLC: an index of listings that differ in   *)
(* one fact each, and profiles that differ in contract, target and cash.     *)
EXTENDS Advice

Fact(value) == [state |-> "available", value |-> value, age |-> 0, issuer |-> FALSE]
Missing == [state |-> "missing", value |-> "none", age |-> 0, issuer |-> FALSE]

Listing(symbol, category, group, currency) ==
    [symbol |-> symbol, contract |-> "any", schema |-> 1, sound |-> TRUE, coherent |-> TRUE, age |-> 0,
     graph |-> [about |-> symbol, status |-> "available", sectors |-> {"energy"}],
     fields |->
        [expense_ratio_pct |-> Fact(1), average_daily_volume |-> Fact(5),
         top_10_concentration_pct |-> Fact(6), quote_type |-> Fact("ETF"), market |-> Fact("us_market"),
         listing_exchange |-> Fact("PCX"), trading_currency |-> Fact(currency),
         price_unit |-> Fact(currency), sector_exposures |-> Fact({"energy"}),
         category |-> Fact(category), share_class_id |-> Fact(symbol),
         economic_group_id |-> Fact(group)]]
With(r, name, fact) == [r EXCEPT !.fields[name] = fact]

Index == <<
    Listing(1, 1, 1, "USD"), Listing(2, 1, 2, "USD"), Listing(3, 4, 3, "USD"),
    \* another category, in euro; another share class of the first fund
    Listing(4, 2, 4, "EUR"), Listing(5, 1, 1, "USD"), Listing(6, 1, 6, "USD"),
    \* an issuer's figure that is older than other facts may be
    With(Listing(7, 4, 7, "USD"), "top_10_concentration_pct",
         [state |-> "available", value |-> 6, age |-> 20, issuer |-> TRUE]),
    With(Listing(8, 1, 8, "USD"), "expense_ratio_pct", Missing),
    [With(Listing(9, 1, 9, "USD"), "sector_exposures", Fact({"technology"}))
        EXCEPT !.graph.sectors = {"technology"}],
    \* the context of another document; an observation that is too old
    [Listing(10, 2, 10, "USD") EXCEPT !.graph.about = 1],
    [Listing(11, 1, 11, "USD") EXCEPT !.age = 9],
    \* the first share class under another fund; a second document about a symbol
    With(Listing(12, 4, 12, "USD"), "share_class_id", Fact(1)),
    Listing(2, 1, 2, "USD"),
    \* a fact that is too old, an expensive one
    With(Listing(13, 1, 13, "USD"), "category", [Fact(1) EXCEPT !.age = 9]),
    With(Listing(14, 4, 14, "USD"), "expense_ratio_pct", Fact(2)) >>

\* The index that other reviews searched: the same listings before one became expensive.
MCElsewhere == {<<Index[1], Index[2], Index[3]>>}

Profile(contract, risk, objective, base, cash, exclusions, catalogue) ==
    [contract |-> contract, risk |-> risk, objective |-> objective, base |-> base,
     initial |-> cash[1], recurring |-> cash[2], exclusions |-> exclusions, catalogue |-> catalogue]

MCProfiles == {
    Profile("legacy", "conservative", "income", "USD", <<10001, 7>>, {}, FALSE),
    Profile("legacy", "aggressive", "growth", "USD", <<3, 0>>, {"technology"}, FALSE),
    Profile("us-eu", "moderate", "balanced", "EUR", <<10001, 50>>, {}, FALSE),
    Profile("us-eu", "aggressive", "growth", "USD", <<999, 1>>, {}, TRUE),
    Profile("curator", "conservative", "income", "EUR", <<100, 33>>, {"technology"}, TRUE)}
MCAltered == {
    Profile("us-eu", "moderate", "balanced", "EUR", <<10001, 50>>, {"technology"}, FALSE),
    Profile("us-eu", "aggressive", "growth", "USD", <<999, 2>>, {}, TRUE),
    Profile("legacy", "conservative", "income", "USD", <<10001, 7>>, {"weapons"}, FALSE)}
=============================================================================
