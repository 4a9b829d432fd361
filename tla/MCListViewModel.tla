--------------------------- MODULE MCListViewModel ---------------------------
(***************************************************************************)
(* ListViewModel for TLC.                                                  *)
(***************************************************************************)
EXTENDS ListViewModel, TLC

CONSTANTS i1, i2

\* A search that matches everything and one that does not.
TwoSearches == ("" :> {i1, i2}) @@ ("x" :> {i1})
OneSearch == "" :> {i1, i2}
=============================================================================
