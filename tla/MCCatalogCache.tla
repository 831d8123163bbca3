--------------------------- MODULE MCCatalogCache ---------------------------
(* Small instances of CatalogCache. *)
EXTENDS CatalogCache

\* A point lookup, and an order for two products.
MCRequests == {{1}, {1, 2}}
=============================================================================
