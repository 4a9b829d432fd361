---------------------------- MODULE AccountStore ----------------------------
(***************************************************************************)
(* What the account handlers promise together, whatever their threads do   *)
(* between two statements: a directory from usernames to accounts in which *)
(* every request takes effect at most once, in one step, on the account it *)
(* asked for, and is answered OK only when it did.  An id is never handed  *)
(* out twice.  An update that also sets a password may be refused after    *)
(* its role was stored; no other refused request has changed anything.     *)
(***************************************************************************)
EXTENDS Integers

CONSTANTS Workers, Names, EmptyName, Ids

VARIABLES accounts,  \* username -> its account
          usedIds,   \* the ids handed out so far
          requests   \* per worker, the request it serves and its last reply

vars == <<accounts, usedIds, requests>>

Roles == {"User", "Admin"}
Refusals == {"UNAUTHENTICATED", "PERMISSION_DENIED", "INVALID_ARGUMENT",
             "NOT_FOUND", "UNKNOWN"}
Kinds == {"create", "update", "delete", "other"}

NoRequest == [kind |-> "none", id |-> 0, name |-> EmptyName,
              role |-> "User", done |-> FALSE, reply |-> "none"]

Replied(w, reply) ==
  requests' = [requests EXCEPT ![w] = [NoRequest EXCEPT !.reply = reply]]

TypeOK ==
  /\ usedIds \subseteq Ids
  /\ DOMAIN accounts \subseteq Names
  /\ \A n \in DOMAIN accounts : accounts[n] \in [id : usedIds, role : Roles]
  /\ \A m, n \in DOMAIN accounts : accounts[m].id = accounts[n].id => m = n

Holders(id) == {n \in DOMAIN accounts : accounts[n].id = id}

Add(name, role) ==
  /\ name \notin DOMAIN accounts
  /\ \E id \in Ids \ usedIds :
       /\ accounts' = [n \in DOMAIN accounts \union {name} |->
                         IF n = name THEN [id |-> id, role |-> role]
                                     ELSE accounts[n]]
       /\ usedIds' = usedIds \union {id}

Init ==
  /\ accounts = [n \in {} |-> 0]
  /\ usedIds = {}
  /\ requests = [w \in Workers |-> NoRequest]

Ask(w) ==
  /\ requests[w].kind = "none"
  /\ requests' = [requests EXCEPT ![w] = requests'[w]]
  /\ requests'[w] \in [kind : Kinds, id : Ids \union {0},
                       name : Names \union {EmptyName}, role : Roles,
                       done : {FALSE}, reply : {"none"}]
  /\ UNCHANGED <<accounts, usedIds>>

\* Requests about no account, and those answered as soon as they are asked.
Read(w) ==
  /\ requests[w].kind \in {"none", "other"}
  /\ \E reply \in Refusals \union {"OK"} : Replied(w, reply)
  /\ UNCHANGED <<accounts, usedIds>>

Create(w) ==
  /\ requests[w].kind = "create"
  /\ Add(requests[w].name, requests[w].role)
  /\ Replied(w, "OK")

Delete(w) ==
  /\ requests[w].kind = "delete"
  /\ Holders(requests[w].id) # {}
  /\ accounts' = [n \in DOMAIN accounts \ Holders(requests[w].id) |-> accounts[n]]
  /\ Replied(w, "OK")
  /\ UNCHANGED usedIds

Update(w) ==
  /\ requests[w].kind = "update" /\ ~requests[w].done
  /\ \E n \in Holders(requests[w].id) :
       accounts' = [accounts EXCEPT ![n].role = requests[w].role]
  /\ \/ \E reply \in {"OK", "UNKNOWN"} : Replied(w, reply)
     \/ requests' = [requests EXCEPT ![w].done = TRUE]
  /\ UNCHANGED usedIds

\* The role is stored; the password may or may not be.
FinishUpdate(w) ==
  /\ requests[w].kind = "update" /\ requests[w].done
  /\ \E reply \in {"OK", "INVALID_ARGUMENT"} : Replied(w, reply)
  /\ UNCHANGED <<accounts, usedIds>>

Refuse(w) ==
  /\ requests[w].kind \in Kinds /\ ~requests[w].done
  /\ \E reply \in Refusals : Replied(w, reply)
  /\ UNCHANGED <<accounts, usedIds>>

\* The process stops: requests in flight are forgotten, done or not.
Halt ==
  /\ requests' = [w \in Workers |-> NoRequest]
  /\ UNCHANGED <<accounts, usedIds>>

\* An account the server makes for itself, while it serves nothing.
Seed ==
  /\ \A w \in Workers : requests[w] = NoRequest
  /\ \E name \in Names : Add(name, "Admin")
  /\ UNCHANGED requests

Next ==
  \/ Halt \/ Seed
  \/ \E w \in Workers : \/ Ask(w) \/ Read(w) \/ Create(w) \/ Delete(w)
                        \/ Update(w) \/ FinishUpdate(w) \/ Refuse(w)

Spec == Init /\ [][Next]_vars
=============================================================================
