-------------------------- MODULE MCServerLifecycle --------------------------
(***************************************************************************)
(* ServerLifecycle for TLC.                                                *)
(***************************************************************************)
EXTENDS ServerLifecycle

\* The four columns Database::migrate adds.
AddedColumns == <<"school_code", "category", "keywords", "borrowable">>
=============================================================================
