--------------------------- MODULE MCClientSession ---------------------------
(***************************************************************************)
(* ClientSession for TLC.                                                  *)
(***************************************************************************)
EXTENDS ClientSession, TLC

CONSTANTS t1, t2

\* An administrator's token and a user's.
TwoRoles == (t1 :> "Admin") @@ (t2 :> "User")
=============================================================================
