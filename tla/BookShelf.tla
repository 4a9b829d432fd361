----------------------------- MODULE BookShelf ------------------------------
(***************************************************************************)
(* What the book handlers promise together, whatever their threads do      *)
(* between two statements: a shelf on which every request takes effect at  *)
(* most once, in one step, on the book it named, and is answered OK only   *)
(* if it did.  An id is never handed out twice.  A creation that is        *)
(* refused may have been stored; no other refused request has changed      *)
(* anything.                                                               *)
(*                                                                         *)
(* An import is a request of many steps.  It takes away nothing but books  *)
(* that were there at one moment after it was asked, adds nothing but what *)
(* its file carries, and counts in its reply no book that it did not add.  *)
(* It promises no more: other requests take effect between its steps, and  *)
(* when the process stops it is left half done.                            *)
(***************************************************************************)
EXTENDS Integers

CONSTANTS Workers, Isbns, NoIsbn, Copies, Ids

VARIABLES shelf,     \* the books
          usedIds,   \* the ids handed out so far
          requests   \* per worker, the request it serves and its last reply

vars == <<shelf, usedIds, requests>>

Refusals == {"UNAUTHENTICATED", "PERMISSION_DENIED", "INVALID_ARGUMENT",
             "NOT_FOUND"}
AnyIsbn == Isbns \union {NoIsbn}

\* What a request carries: the book to store, if any, as the caller gave it.
Creations == [kind : {"create"}, isbn : AnyIsbn, total : Copies]
Updates == [kind : {"update"}, id : Ids, isbn : AnyIsbn, total : Copies,
            available : Copies]
Deletions == [kind : {"delete"}, id : Ids]
Readings == [kind : {"other"}]

\* A Replace import that has not looked at the shelf yet, and any import from
\* then on: what it may still clear away, what its file still carries, and how
\* many books it counted.
Carried == [isbn : Isbns, total : Copies]
Imports == [kind : {"replace"}, carries : SUBSET Carried]
             \union [kind : {"import"}, clears : {{}}, carries : SUBSET Carried,
                     counted : {0}]

Requests == Creations \union Updates \union Deletions \union Readings
              \union Imports

Reply(status) == [kind |-> "none", reply |-> status, counted |-> 0]
Become(w, request) == requests' = [requests EXCEPT ![w] = request]
Kind(w) == requests[w].kind
IdsOf(rows) == {b.id : b \in rows}

Add(isbn, total) ==
  \E id \in Ids \ usedIds :
    /\ shelf' = shelf \union {[id |-> id, isbn |-> isbn, total |-> total,
                               available |-> total]}
    /\ usedIds' = usedIds \union {id}

Init ==
  /\ shelf = {}
  /\ usedIds = {}
  /\ requests = [w \in Workers |-> Reply("none")]

Ask(w) ==
  /\ Kind(w) = "none"
  /\ requests'[w] \in Requests
  /\ Become(w, requests'[w])
  /\ UNCHANGED <<shelf, usedIds>>

\* Requests about no book, and those answered as soon as they are asked.
Read(w) ==
  /\ Kind(w) \in {"none", "other"}
  /\ \E status \in Refusals \union {"OK"} : Become(w, Reply(status))
  /\ UNCHANGED <<shelf, usedIds>>

Create(w) ==
  /\ Kind(w) = "create"
  /\ Add(requests[w].isbn, requests[w].total)
  /\ \E status \in {"OK", "INVALID_ARGUMENT"} : Become(w, Reply(status))

Update(w) ==
  /\ Kind(w) = "update"
  /\ \E b \in shelf :
       /\ b.id = requests[w].id
       /\ shelf' = (shelf \ {b})
            \union {[id |-> b.id, isbn |-> requests[w].isbn,
                     total |-> requests[w].total,
                     available |-> requests[w].available]}
  /\ Become(w, Reply("OK"))
  /\ UNCHANGED usedIds

Delete(w) ==
  /\ Kind(w) = "delete"
  /\ requests[w].id \in IdsOf(shelf)
  /\ shelf' = {b \in shelf : b.id # requests[w].id}
  /\ Become(w, Reply("OK"))
  /\ UNCHANGED usedIds

Refuse(w) ==
  /\ Kind(w) \in {"create", "update", "delete"}
  /\ \E status \in Refusals : Become(w, Reply(status))
  /\ UNCHANGED <<shelf, usedIds>>

\* The moment that decides what an import may clear away.
Look(w) ==
  /\ Kind(w) = "replace"
  /\ \E clears \in SUBSET IdsOf(shelf) :
       Become(w, [kind |-> "import", clears |-> clears,
                  carries |-> requests[w].carries, counted |-> 0])
  /\ UNCHANGED <<shelf, usedIds>>

\* Some of it goes, and is not looked for again.
Clear(w) ==
  /\ Kind(w) = "import"
  /\ \E tried \in SUBSET requests[w].clears :
       /\ Become(w, [requests[w] EXCEPT !.clears = @ \ tried])
       /\ \E gone \in SUBSET tried :
            shelf' = {b \in shelf : b.id \notin gone}
  /\ UNCHANGED usedIds

\* A line is read and, perhaps, stored, and only then, perhaps, counted.
Line(w) ==
  /\ Kind(w) = "import" /\ requests[w].clears = {}
  /\ \E left \in SUBSET requests[w].carries, more \in {0, 1} :
       /\ Become(w, [requests[w] EXCEPT !.carries = left, !.counted = @ + more])
       /\ \/ \E book \in requests[w].carries : Add(book.isbn, book.total)
          \/ more = 0 /\ UNCHANGED <<shelf, usedIds>>

Finish(w) ==
  /\ Kind(w) = "import" /\ requests[w].clears = {}
  /\ requests[w].carries = {}
  /\ Become(w, [Reply("OK") EXCEPT !.counted = requests[w].counted])
  /\ UNCHANGED <<shelf, usedIds>>

\* The process stops: requests in flight are forgotten, done or not.
Halt ==
  /\ requests' = [w \in Workers |-> Reply("none")]
  /\ UNCHANGED <<shelf, usedIds>>

Next ==
  \/ Halt
  \/ \E w \in Workers :
       \/ Ask(w) \/ Read(w) \/ Create(w) \/ Update(w) \/ Delete(w) \/ Refuse(w)
       \/ Look(w) \/ Clear(w) \/ Line(w) \/ Finish(w)

Spec == Init /\ [][Next]_vars
=============================================================================
