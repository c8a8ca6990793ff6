--------------------------- MODULE MCCatalogStore ---------------------------
(***************************************************************************)
(* CatalogStore for TLC.                                                   *)
(***************************************************************************)
EXTENDS CatalogStore

CONSTANTS o1, o2

MCOriginal == <<o1, o2>>
=============================================================================
