---------------------------- MODULE CatalogueRefresh ----------------------------
(***************************************************************************)
(* The full refresh of the catalogue: CatalogueService.refresh             *)
(* (catalogue/service.py) and the proof of coverage that every published   *)
(* catalogue carries (validate_catalogue of the same file).                *)
(*                                                                         *)
(* A refresh asks the provider for the listings of one exchange after the  *)
(* other, page by page, within limits on pages, rows, calls and time.  The *)
(* provider has no cursor and no snapshot: its listings may change and be  *)
(* ordered anew between two pages.  CatalogueStore.tla follows what        *)
(* publish does with the candidate.                                        *)
(***************************************************************************)
EXTENDS Integers, Sequences, FiniteSets, Functions

CONSTANTS
    Manifest,       \* the exchanges, in the order of the refresh
    Symbols,
    Listings,       \* the provider's listings at the start: exchanges to sequences of symbols
    Additions,      \* the direct additions that the active catalogue may have
    PageSize, MaxPages, MaxRows, MaxAttempts,
    MaxChanges      \* bound: changes of the provider's listings

Exchanges == Range(Manifest)
NoReason == "none"

ASSUME RefreshConstants ==
    /\ IsInjective(Manifest) /\ Manifest # <<>>
    /\ Listings \subseteq [Exchanges -> Seq(Symbols)]
    /\ Additions \subseteq SUBSET [exchange : Exchanges, symbol : Symbols]
    /\ PageSize \in Nat \ {0} /\ {MaxPages, MaxRows, MaxAttempts, MaxChanges} \subseteq Nat

VARIABLES
    listings,   \* the provider's listing of each exchange
    direct,     \* the direct additions of the active catalogue
    pc,         \* idle, paging, collected, done
    late,       \* the time of the refresh is over
    attempts,   \* calls of the provider
    tries,      \* failed calls for the current page
    reports,    \* one report per exchange; the last is the current one
    found,      \* the listings collected, each with the offset of its page
    seen,       \* history: the sets of listings the provider answered from, by exchange
    outcome,    \* what the refresh returned
    changes     \* changes of the listings so far

vars == <<listings, direct, pc, late, attempts, tries, reports, found, seen, outcome, changes>>

-----------------------------------------------------------------------------
(* Reports.                                                                  *)
Blank(status) ==
    [status |-> status, pages |-> <<>>, unique |-> 0, duplicates |-> 0, truncation |-> NoReason]

Current == reports[Len(reports)]
Exchange == Manifest[Len(reports)]
Offset == Len(Current.pages) * PageSize
\* The listings of the current exchange that earlier pages brought.
Local == {l.symbol : l \in {m \in found : m.exchange = Exchange}}

\* No page starts at or after this row.
LastRow == IF Current.pages # <<>> /\ Current.pages[1].total < MaxRows
           THEN Current.pages[1].total ELSE MaxRows
PagesLeft == Len(Current.pages) < MaxPages /\ Offset < LastRow

-----------------------------------------------------------------------------
(* The provider.                                                             *)
Window(s) == SubSeq(s, Offset + 1, IF Offset + PageSize < Len(s) THEN Offset + PageSize ELSE Len(s))

\* A page of the listing, one that lost its last row, one whose last row repeats the first, and
\* an answer that cannot be used: it is of another page or exchange, or it cannot be read.
Answers ==
    LET listing == listings[Exchange]
        rows == Window(listing)
        page == [usable |-> TRUE, rows |-> rows, total |-> Len(listing)]
    IN  {page, [page EXCEPT !.usable = FALSE]}
        \union (IF rows = <<>> THEN {}
                ELSE {[page EXCEPT !.rows = SubSeq(rows, 1, Len(rows) - 1)],
                      [page EXCEPT !.rows[Len(rows)] = rows[1]]})

\* Two rows change places, a row leaves, arrives or is replaced.
Rearranged(s) ==
    LET new == Symbols \ Range(s)
        Swap(i, j) == [s EXCEPT ![i] = s[j], ![j] = s[i]]
        Without(i) == SubSeq(s, 1, i - 1) \o SubSeq(s, i + 1, Len(s))
    IN  {Swap(i, j) : i, j \in DOMAIN s} \union {Without(i) : i \in DOMAIN s}
        \union {Append(s, x) : x \in new} \union {[s EXCEPT ![i] = x] : i \in DOMAIN s, x \in new}

Change ==
    /\ pc = "paging" /\ changes < MaxChanges
    /\ \E e \in Exchanges : \E s \in Rearranged(listings[e]) \ {listings[e]} :
          listings' = [listings EXCEPT ![e] = s]
    /\ changes' = changes + 1
    /\ UNCHANGED <<direct, pc, late, attempts, tries, reports, found, seen, outcome>>

Expire ==
    /\ pc = "paging" /\ ~late /\ late' = TRUE
    /\ UNCHANGED <<listings, direct, pc, attempts, tries, reports, found, seen, outcome, changes>>

-----------------------------------------------------------------------------
(* The refresh.                                                              *)
Init ==
    /\ listings \in Listings /\ direct \in Additions
    /\ pc = "idle" /\ late = FALSE /\ attempts = 0 /\ tries = 0
    /\ reports = <<>> /\ found = {} /\ seen = [e \in Exchanges |-> {}]
    /\ outcome = NoReason /\ changes = 0

\* A catalogue of less than a day is used again unless the user forces a refresh.
Begin(force, recent) ==
    /\ pc = "idle"
    /\ IF ~force /\ recent
       THEN pc' = "done" /\ outcome' = "reused" /\ UNCHANGED reports
       ELSE pc' = "paging" /\ reports' = <<Blank("incomplete")>> /\ UNCHANGED outcome
    /\ UNCHANGED <<listings, direct, late, attempts, tries, found, seen, changes>>

\* The first exchange that is not complete ends the collection: the others are not attempted.
Truncate(report, reason) ==
    /\ reports' = [i \in DOMAIN Manifest |->
          IF i < Len(reports) THEN reports[i]
          ELSE IF i = Len(reports) THEN [report EXCEPT !.truncation = reason]
          ELSE Blank("unattempted")]
    /\ pc' = "done" /\ outcome' = "incomplete" /\ tries' = 0

OutOfPages ==
    /\ pc = "paging" /\ ~PagesLeft
    /\ Truncate(Current, "page_or_row_limit")
    /\ UNCHANGED <<listings, direct, late, attempts, found, seen, changes>>

OutOfCalls ==
    /\ pc = "paging" /\ PagesLeft /\ (late \/ attempts >= MaxAttempts)
    /\ Truncate(Current, "attempt_or_deadline_limit")
    /\ UNCHANGED <<listings, direct, late, attempts, found, seen, changes>>

MayCall == pc = "paging" /\ PagesLeft /\ ~late /\ attempts < MaxAttempts

\* The call fails, or its answer comes after the deadline; a page is asked for twice at most.
ProviderError ==
    /\ MayCall /\ attempts' = attempts + 1
    /\ late' \in BOOLEAN
    /\ IF tries = 0 THEN tries' = 1 /\ UNCHANGED <<pc, reports, outcome>>
       ELSE Truncate(Current, "provider_error")
    /\ UNCHANGED <<listings, direct, found, seen, changes>>

ValidPage(page) ==
    /\ page.usable /\ Len(page.rows) <= PageSize
    /\ Current.pages # <<>> => page.total = Current.pages[1].total
    /\ Offset + Len(page.rows) <= page.total

\* Rows of the page that came before, on an earlier page or on this one.
Again(page) == Len(page.rows) - Cardinality(Range(page.rows) \ Local)

\* The current report with the page.
Extended(page) ==
    [Current EXCEPT
       !.pages = Append(@, [offset |-> Offset, count |-> Len(page.rows), total |-> page.total]),
       !.duplicates = @ + Again(page),
       !.unique = Cardinality(Local \union Range(page.rows))]

\* Mutant: rows that came twice are not noticed.
VerdictByCount(report, page) ==
    CASE Len(page.rows) < PageSize /\ Offset + Len(page.rows) < page.total -> "invalid"
      [] Offset + Len(page.rows) = page.total -> "complete"
      [] OTHER -> "more"

\* What the page makes of the exchange.
Verdict(report, page) ==
    CASE Len(page.rows) < PageSize /\ Offset + Len(page.rows) < page.total -> "invalid"
      [] Offset + Len(page.rows) = page.total ->
            IF report.unique = page.total THEN "complete" ELSE "invalid"
      [] OTHER -> "more"

\* The next exchange, or the end of the collection.  An identity holds its exchange, so that none
\* can come from two.
Completed(report) ==
    LET done == [reports EXCEPT ![Len(reports)] = [report EXCEPT !.status = "complete"]]
    IN  IF Len(reports) = Len(Manifest)
        THEN reports' = done /\ pc' = "collected"
        ELSE reports' = Append(done, Blank("incomplete")) /\ pc' = pc

\* `conflicting': a row that came twice came with other facts.
Page(page, conflicting) ==
    LET rows == {[exchange |-> Exchange, symbol |-> x, offset |-> Offset] : x \in Range(page.rows) \ Local}
        report == Extended(page)
    IN  /\ MayCall /\ attempts' = attempts + 1
        /\ conflicting => Again(page) > 0
        /\ IF ~ValidPage(page) \/ conflicting
           THEN Truncate(Current, "invalid_page") /\ UNCHANGED <<found, seen>>
           ELSE /\ found' = found \union rows
                /\ seen' = [seen EXCEPT ![Exchange] = @ \union {Range(listings[Exchange])}]
                /\ CASE Verdict(report, page) = "invalid" -> Truncate(report, "invalid_page")
                     [] Verdict(report, page) = "more" ->
                           /\ reports' = [reports EXCEPT ![Len(reports)] = report]
                           /\ tries' = 0 /\ UNCHANGED <<pc, outcome>>
                     [] Verdict(report, page) = "complete" ->
                           Completed(report) /\ tries' = 0 /\ UNCHANGED outcome
        /\ UNCHANGED <<listings, direct, late, changes>>

-----------------------------------------------------------------------------
(* The proof of coverage: validate_catalogue.                                *)
Linked(i, offset) == {l \in found : l.exchange = Manifest[i] /\ l.offset = offset}
Plus(a, b) == a + b

ValidReport(i) ==
    LET r == reports[i]
        counts == [j \in DOMAIN r.pages |-> r.pages[j].count]
    IN  /\ r.status = "complete" /\ r.truncation = NoReason /\ r.duplicates = 0
        /\ Len(r.pages) \in 1..MaxPages
        /\ \A j \in DOMAIN r.pages :
              /\ r.pages[j].offset = (j - 1) * PageSize /\ r.pages[j].count <= PageSize
              /\ r.pages[j].total = r.pages[1].total
              /\ Cardinality(Linked(i, r.pages[j].offset)) = r.pages[j].count
        /\ FoldFunction(Plus, 0, counts) = r.pages[1].total /\ r.unique = r.pages[1].total

ValidCoverage ==
    /\ Len(reports) = Len(Manifest) /\ attempts \in Len(Manifest)..MaxAttempts
    /\ \A i \in DOMAIN Manifest : ValidReport(i)
    /\ Cardinality(found) = FoldFunction(Plus, 0, [i \in DOMAIN Manifest |-> reports[i].unique])

\* A symbol belongs to one exchange, among the listings found and those added directly.
OneExchangeEach ==
    \A l, m \in found \union direct : l.symbol = m.symbol => l.exchange = m.exchange

\* `won': the store takes the candidate, whose parent is still the active version.
Publish(won) ==
    /\ pc = "collected" /\ pc' = "done"
    /\ outcome' = IF ~(ValidCoverage /\ OneExchangeEach) THEN "refused"
                  ELSE IF won THEN "published" ELSE "failed"
    /\ UNCHANGED <<listings, direct, late, attempts, tries, reports, found, seen, changes>>

Next ==
    \/ \E force, recent \in BOOLEAN : Begin(force, recent)
    \/ \E page \in (IF MayCall THEN Answers ELSE {}), conflicting \in BOOLEAN :
          Page(page, conflicting)
    \/ ProviderError \/ OutOfPages \/ OutOfCalls
    \/ \E won \in BOOLEAN : Publish(won)
    \/ Change \/ Expire

Spec == Init /\ [][Next]_vars

-----------------------------------------------------------------------------
(* A published refresh tells the truth about every exchange: it found as      *)
(* many listings as the provider had at every one of the pages, each of them  *)
(* was there at some page, and where no listing arrived or left between the   *)
(* pages it found exactly what is listed, however the provider reordered      *)
(* them.  And the proof of coverage refuses what the refresh collected only   *)
(* for a symbol on two exchanges: retries, limits and reordering never make   *)
(* a catalogue that the store cannot read back.                               *)
CompleteIsTrue ==
    /\ outcome = "published" => \A e \in Exchanges :
          LET names == {l.symbol : l \in {m \in found : m.exchange = e}}
          IN  /\ names \subseteq UNION seen[e]
              /\ \A listing \in seen[e] : Cardinality(listing) = Cardinality(names)
              /\ Cardinality(seen[e]) = 1 => names \in seen[e]
    /\ outcome = "refused" => ~OneExchangeEach
=============================================================================
