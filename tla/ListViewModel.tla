---------------------------- MODULE ListViewModel ----------------------------
(***************************************************************************)
(* The list of books, BookListViewModel with BookListPage, and the list of *)
(* users, UserListViewModel with AdminPanelPage, which differ in that only *)
(* books are searched: a page with one search is the list of users.        *)
(*                                                                         *)
(* Requests are futures on the thread pool.  Each reaches the server and   *)
(* comes back at a time of its own; the handlers and the user's actions    *)
(* are steps of the GUI thread.                                            *)
(***************************************************************************)
EXTENDS Integers, FiniteSets, Functions

CONSTANTS
  Items,      \* the rows the server starts with
  Searches,   \* what may stand in the search field
  Matches,    \* the items each search matches
  Tasks       \* numbers for the futures in flight (a bound)

ASSUME ListAssumption ==
  /\ Tasks \subseteq Nat /\ IsFiniteSet(Tasks) /\ IsFiniteSet(Items)
  /\ Matches \in [Searches -> SUBSET Items]

VARIABLES
  stored,     \* the server's rows
  configured, \* Session::m_serverConfigured
  visible,    \* the page is on the screen
  items,      \* m_books or m_users
  lastSearch, \* m_lastSearch, and the text of the search field
  selected,   \* m_selectedIds
  pending,    \* m_pendingDeletions
  busy,
  error,      \* whether m_errorMessage is not empty
  tasks,      \* the futures in flight
  inOrder,    \* the refresh started last was the only one in flight
  ignored     \* since then a connection was lost and Session did nothing

page == <<items, lastSearch, selected, pending, busy, error>>
vars == <<stored, configured, visible, page, tasks, inOrder, ignored>>

Task == [kind : {"none", "refresh", "delete", "bulk"},
         asked : SUBSET Items,      \* what a refresh looks for, or the item
         result : {"none", "ok", "refused", "unreachable"},
         found : SUBSET Items]

NoTask == [kind |-> "none", asked |-> {}, result |-> "none", found |-> {}]
Request(kind, asked) == [NoTask EXCEPT !.kind = kind, !.asked = asked]

Free(k) == tasks[k].kind = "none"
NextFree(k) == Free(k) /\ \A j \in Tasks : Free(j) => k <= j
InFlight(kind) == {k \in Tasks : tasks[k].kind = kind}
Become(k, task) == tasks' = [tasks EXCEPT ![k] = task]

-----------------------------------------------------------------------------
(* The GUI thread.                                                          *)

\* refresh, in the slot k of a future; earlier are the other refreshes.
Refresh(k, search, earlier) ==
  /\ busy' = TRUE /\ error' = FALSE /\ lastSearch' = search
  /\ inOrder' = (earlier = {}) /\ ignored' = FALSE
  /\ Become(k, Request("refresh", Matches[search]))

Search(k, search) ==
  /\ visible /\ NextFree(k)
  /\ Refresh(k, search, InFlight("refresh"))
  /\ UNCHANGED <<stored, configured, visible, items, selected, pending>>

Show(k) ==
  /\ configured /\ ~visible /\ NextFree(k)
  /\ visible' = TRUE
  /\ Refresh(k, lastSearch, InFlight("refresh"))
  /\ UNCHANGED <<stored, configured, items, selected, pending>>

Hide ==
  /\ visible /\ visible' = FALSE
  /\ UNCHANGED <<stored, configured, page, tasks, inOrder, ignored>>

\* A check of the connection ends.  One that fails sets m_serverConfigured and
\* emits nothing, so that a page on the screen stays there (Session.cpp:178).
ConnectionChecked ==
  /\ configured' = ~configured
  /\ UNCHANGED <<stored, visible, page, tasks, inOrder, ignored>>

ToggleSelection(i) ==
  /\ visible /\ i \in items
  /\ selected' = IF i \in selected THEN selected \ {i} ELSE selected \union {i}
  /\ UNCHANGED <<stored, configured, visible, items, lastSearch, pending, busy,
                 error, tasks, inOrder, ignored>>

\* The confirmation may have been opened on an item that is not shown any more,
\* and stays open when the page goes, as that of a bulk deletion does.
Delete(k, i) ==
  /\ NextFree(k)
  /\ busy' = TRUE /\ error' = FALSE
  /\ Become(k, Request("delete", {i}))
  /\ UNCHANGED <<stored, configured, visible, items, lastSearch, selected,
                 pending, inOrder, ignored>>

DeleteSelected ==
  /\ selected # {}
  /\ Cardinality(selected) <= Cardinality({k \in Tasks : Free(k)})
  /\ busy' = TRUE /\ error' = FALSE
  /\ pending' = Cardinality(selected)
  /\ LET slot == CHOOSE f \in [selected -> {k \in Tasks : Free(k)}] :
                   IsInjective(f)
     IN  tasks' = [k \in Tasks |->
           IF k \in Range(slot)
             THEN Request("bulk", {i \in selected : slot[i] = k})
             ELSE tasks[k]]
  /\ UNCHANGED <<stored, configured, visible, items, lastSearch, selected,
                 inOrder, ignored>>

\* Session::handleConnectivityIssue takes the page off the screen, unless the
\* session has no server already.
HandleConnectivityIssue ==
  \/ /\ configured /\ configured' = FALSE /\ visible' = FALSE
     /\ UNCHANGED ignored
  \/ /\ ~configured /\ ignored' = TRUE
     /\ UNCHANGED <<configured, visible>>
Connected == UNCHANGED <<configured, visible, ignored>>

Handled(k, kind) == tasks[k].kind = kind /\ tasks[k].result # "none"
Result(k) == tasks[k].result

\* Mutant: the selection survives.
OnRefreshedKeepingSelection(k) ==
  /\ Handled(k, "refresh")
  /\ busy' = FALSE
  /\ Become(k, NoTask)
  /\ \/ Result(k) = "unreachable" /\ HandleConnectivityIssue
        /\ UNCHANGED <<items, selected, error>>
     \/ Result(k) = "refused" /\ error' = TRUE
        /\ Connected /\ UNCHANGED <<items, selected>>
     \/ Result(k) = "ok" /\ items' = tasks[k].found
        /\ Connected /\ UNCHANGED <<selected, error>>
  /\ UNCHANGED <<stored, lastSearch, pending, inOrder>>

OnRefreshed(k) ==
  /\ Handled(k, "refresh")
  /\ busy' = FALSE
  /\ Become(k, NoTask)
  /\ \/ /\ Result(k) = "unreachable" /\ HandleConnectivityIssue
        /\ UNCHANGED <<items, selected, error>>
     \/ /\ Result(k) = "refused" /\ error' = TRUE
        /\ Connected /\ UNCHANGED <<items, selected>>
     \/ /\ Result(k) = "ok" /\ items' = tasks[k].found /\ selected' = {}
        /\ Connected /\ UNCHANGED error
  /\ UNCHANGED <<stored, lastSearch, pending, inOrder>>

\* Mutant: busy is left to the refresh that never comes.
OnDeletedBusy(k) ==
  /\ Handled(k, "delete")
  /\ \/ /\ Result(k) = "ok"
        /\ Refresh(k, lastSearch, InFlight("refresh"))
        /\ UNCHANGED <<configured, visible>>
     \/ /\ Result(k) = "unreachable" /\ HandleConnectivityIssue
        /\ Become(k, NoTask)
        /\ UNCHANGED <<busy, lastSearch, error, inOrder>>
     \/ /\ Result(k) = "refused" /\ error' = TRUE /\ Connected
        /\ Become(k, NoTask)
        /\ UNCHANGED <<busy, lastSearch, inOrder>>
  /\ UNCHANGED <<stored, items, selected, pending>>

OnDeleted(k) ==
  /\ Handled(k, "delete")
  /\ \/ /\ Result(k) = "ok"
        /\ Refresh(k, lastSearch, InFlight("refresh"))
        /\ UNCHANGED <<configured, visible>>
     \/ /\ Result(k) = "unreachable" /\ busy' = FALSE /\ HandleConnectivityIssue
        /\ Become(k, NoTask)
        /\ UNCHANGED <<lastSearch, error, inOrder>>
     \/ /\ Result(k) = "refused" /\ busy' = FALSE /\ error' = TRUE /\ Connected
        /\ Become(k, NoTask)
        /\ UNCHANGED <<lastSearch, inOrder>>
  /\ UNCHANGED <<stored, items, selected, pending>>

\* Mutant: = instead of <=.
ExactlyNone(left) == left = 0
NoneLeft(left) == left <= 0
\* Mutant: a lost connection returns before the counter.
AfterReached(k) == IF Result(k) = "unreachable" THEN pending ELSE pending - 1
AfterReply(k) == pending - 1

OnBulkDeleted(k) ==
  /\ Handled(k, "bulk")
  /\ pending' = AfterReply(k)
  /\ \/ /\ Result(k) = "unreachable" /\ HandleConnectivityIssue
        /\ Become(k, NoTask)
        /\ UNCHANGED <<lastSearch, busy, error, inOrder>>
     \/ /\ Result(k) # "unreachable" /\ NoneLeft(pending')
        /\ Refresh(k, lastSearch, InFlight("refresh"))
        /\ UNCHANGED <<configured, visible>>
     \/ /\ Result(k) # "unreachable" /\ ~NoneLeft(pending') /\ Connected
        /\ error' = (error \/ Result(k) = "refused")
        /\ Become(k, NoTask)
        /\ UNCHANGED <<lastSearch, busy, inOrder>>
  /\ UNCHANGED <<stored, items, selected>>

-----------------------------------------------------------------------------
(* The server, or the transport on the way there or back.                   *)

Reply(k, result, found) ==
  Become(k, [tasks[k] EXCEPT !.result = result, !.found = found])
Open(k) == ~Free(k) /\ Result(k) = "none"

List(k) ==
  /\ Open(k) /\ tasks[k].kind = "refresh"
  /\ Reply(k, "ok", stored \intersect tasks[k].asked)
  /\ UNCHANGED stored

Remove(k) ==
  /\ Open(k) /\ tasks[k].kind # "refresh"
  /\ tasks[k].asked \subseteq stored
  /\ stored' = stored \ tasks[k].asked
  /\ \E result \in {"ok", "unreachable"} : Reply(k, result, {})

\* The last administrator, a missing row, a token that is not accepted any more.
Refuse(k) == Open(k) /\ Reply(k, "refused", {}) /\ UNCHANGED stored
Unreachable(k) == Open(k) /\ Reply(k, "unreachable", {}) /\ UNCHANGED stored

Serve(k) ==
  /\ List(k) \/ Remove(k) \/ Refuse(k) \/ Unreachable(k)
  /\ UNCHANGED <<configured, visible, page, inOrder, ignored>>

-----------------------------------------------------------------------------
Init ==
  /\ stored = Items
  /\ configured = FALSE /\ visible = FALSE
  /\ items = {} /\ lastSearch \in Searches /\ selected = {} /\ pending = 0
  /\ busy = FALSE /\ error = FALSE
  /\ tasks = [k \in Tasks |-> NoTask]
  /\ inOrder = TRUE /\ ignored = FALSE

User(k) ==
  \/ Show(k) \/ (\E search \in Searches : Search(k, search))
  \/ \E i \in Items : Delete(k, i)
Handle(k) == OnRefreshed(k) \/ OnDeleted(k) \/ OnBulkDeleted(k)

Next ==
  \/ Hide \/ ConnectionChecked \/ DeleteSelected
  \/ \E i \in Items : ToggleSelection(i)
  \/ \E k \in Tasks : User(k) \/ Serve(k) \/ Handle(k)

Spec == Init /\ [][Next]_vars

\* Every request is answered or fails, and the event loop handles every reply.
LiveSpec == Spec /\ \A k \in Tasks : WF_vars(Serve(k)) /\ WF_vars(Handle(k))

-----------------------------------------------------------------------------
(* Properties.                                                              *)

\* The view model and its futures have the types of the code; the counter never
\* promises more replies than are to come, also when one bulk deletion
\* overwrites the counter of another (BookListViewModel.cpp:170).
TypeOK ==
  /\ {stored, items, selected} \subseteq SUBSET Items
  /\ {configured, visible, busy, error, inOrder, ignored} \subseteq BOOLEAN
  /\ lastSearch \in Searches
  /\ tasks \in [Tasks -> Task]
  /\ pending \in Int /\ pending <= Cardinality(InFlight("bulk"))

\* What a bulk deletion would delete is on the screen, whatever replies arrive
\* between the choice and the confirmation (BookListViewModel.cpp:48-64 and :116).
SelectionShown == selected \subseteq items

\* When everything has been answered and no failure is shown, the list is the
\* server's, for the search in the field, also after bulk deletions that
\* overlapped or lost the connection half way.  Only refreshes whose replies
\* overtake each other can spoil that, or a lost connection that the session
\* ignores, because it has no server already (Session.cpp:152).
ListSettles ==
  visible /\ inOrder /\ ~error /\ ~ignored /\ (\A k \in Tasks : Free(k))
    => items = stored \intersect Matches[lastSearch]

\* The busy indicator of a page on the screen does not turn for ever, unless a
\* lost connection was ignored: the handler of a bulk deletion leaves it to the
\* page to go (BookListViewModel.cpp:183).
SpinnerEnds == busy /\ visible ~> ~busy \/ ~visible \/ ignored

\* "if one fails [...], the others still succeed and the failure is reported"
\* (README.md:103): the handler of a refusal leaves a message on the page.
FailureReported ==
  [][\A k \in Tasks : OnBulkDeleted(k) /\ Result(k) = "refused" => error']_vars
=============================================================================
