---------------------------- MODULE TokenServer -----------------------------
(***************************************************************************)
(* What the client relies on in the server, and the server's sessions      *)
(* implement: a token is issued once, is accepted from then on, and all of *)
(* them stop being accepted together, when the server restarts.            *)
(***************************************************************************)
CONSTANT Tokens

VARIABLES
  accepted,  \* the tokens that stand for a session
  issued     \* the tokens that ever did

vars == <<accepted, issued>>

Init == accepted = {} /\ issued = {}

Issue(t) ==
  /\ t \in Tokens \ issued
  /\ accepted' = accepted \union {t}
  /\ issued' = issued \union {t}

Restart ==
  /\ accepted # {} /\ accepted' = {}
  /\ UNCHANGED issued

Next == Restart \/ \E t \in Tokens : Issue(t)

Spec == Init /\ [][Next]_vars
=============================================================================
