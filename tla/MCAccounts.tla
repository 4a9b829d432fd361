----------------------------- MODULE MCAccounts -----------------------------
(***************************************************************************)
(* Accounts for TLC.                                                       *)
(***************************************************************************)
EXTENDS Accounts, TLC

\* Threads are interchangeable, and so are tokens.
Interchangeable == Permutations(Workers) \union Permutations(Tokens)
=============================================================================
