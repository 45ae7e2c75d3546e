---------------------------- MODULE MCCatalogueStore ----------------------------
(* A small instance of CatalogueStore.  Listings are strings, as "refresh" is.   *)
EXTENDS CatalogueStore

MCListings == {"VWCE.DE", "SXR8.DE"}
=============================================================================
