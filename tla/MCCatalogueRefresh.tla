------------------------- MODULE MCCatalogueRefresh -------------------------
(* A small instance of CatalogueRefresh: two exchanges and five symbols, pages of two   *)
(* rows, so that three pages would be needed where two are allowed.             *)
EXTENDS CatalogueRefresh, TLC

CONSTANTS x1, x2, a, b, c, d, e

MCManifest == <<x1, x2>>
\* Empty, one full page, two pages, and more rows than the pages allow.
MCListings ==
    {(x1 :> <<a, b, c>> @@ x2 :> <<d>>), (x1 :> <<a, b>> @@ x2 :> <<>>),
     (x1 :> <<>> @@ x2 :> <<a, b, c>>), (x1 :> <<a, b, c, d>> @@ x2 :> <<>>),
     (x1 :> <<e>> @@ x2 :> <<a, b, c, d, e>>)}
MCAdditions == {{}, {[exchange |-> x2, symbol |-> a]}}
=============================================================================
