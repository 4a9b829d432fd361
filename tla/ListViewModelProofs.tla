-------------------------- MODULE ListViewModelProofs --------------------------
(***************************************************************************)
(* Proofs about ListViewModel, for any rows and searches and any number of *)
(* futures in flight.                                                      *)
(***************************************************************************)
EXTENDS ListViewModel, TLAPS, FiniteSetTheorems

Types ==
  /\ stored \subseteq Items /\ items \subseteq Items /\ selected \subseteq Items
  /\ visible \in BOOLEAN /\ busy \in BOOLEAN /\ error \in BOOLEAN
  /\ inOrder \in BOOLEAN /\ configured \in BOOLEAN /\ ignored \in BOOLEAN
  /\ lastSearch \in Searches
  /\ tasks \in [Tasks -> Task]
  /\ pending \in Int

\* The counter promises no more replies than are to come.
PendingInv == pending <= Cardinality(InFlight("bulk"))

-----------------------------------------------------------------------------
(* The futures.                                                             *)

LEMMA NoTaskType == NoTask \in Task /\ NoTask.kind = "none"
BY DEF NoTask, Task

LEMMA RequestType ==
  ASSUME NEW kind \in {"refresh", "delete", "bulk"}, NEW asked \in SUBSET Items
  PROVE  /\ Request(kind, asked) \in Task
         /\ Request(kind, asked).kind = kind
         /\ Request(kind, asked).asked = asked
         /\ Request(kind, asked).result = "none"
BY DEF Request, NoTask, Task

LEMMA BecomeType ==
  ASSUME Types, NEW k \in Tasks, NEW task \in Task, Become(k, task)
  PROVE  /\ tasks' \in [Tasks -> Task] /\ tasks'[k] = task
         /\ \A j \in Tasks \ {k} : tasks'[j] = tasks[j]
BY DEF Types, Become

LEMMA RefreshType ==
  ASSUME ListAssumption, Types, NEW k \in Tasks, NEW search \in Searches,
         NEW earlier, Refresh(k, search, earlier)
  PROVE  /\ tasks' \in [Tasks -> Task]
         /\ tasks'[k] = Request("refresh", Matches[search])
         /\ tasks'[k].kind = "refresh" /\ tasks'[k].result = "none"
         /\ tasks'[k].asked = Matches[search]
         /\ \A j \in Tasks \ {k} : tasks'[j] = tasks[j]
         /\ busy' \in BOOLEAN /\ error' \in BOOLEAN /\ ~error' /\ inOrder' \in BOOLEAN
         /\ ignored' \in BOOLEAN /\ ~ignored'
         /\ lastSearch' = search /\ (inOrder' <=> earlier = {})
<1>1. Matches[search] \in SUBSET Items
  BY DEF ListAssumption
<1>2. Become(k, Request("refresh", Matches[search]))
  BY DEF Refresh
<1>3. /\ busy' = TRUE /\ error' = FALSE
      /\ lastSearch' = search /\ inOrder' = (earlier = {}) /\ ignored' = FALSE
  BY DEF Refresh
<1>4. inOrder' \in BOOLEAN /\ (inOrder' <=> earlier = {})
  BY <1>3, Zenon
<1>5. /\ busy' \in BOOLEAN /\ error' \in BOOLEAN /\ ~error'
      /\ ignored' \in BOOLEAN /\ ~ignored'
  BY <1>3, Zenon
<1>6. /\ tasks' \in [Tasks -> Task]
      /\ tasks'[k] = Request("refresh", Matches[search])
      /\ \A j \in Tasks \ {k} : tasks'[j] = tasks[j]
  BY <1>1, <1>2, RequestType, BecomeType
<1>7. tasks'[k].kind = "refresh" /\ tasks'[k].result = "none"
      /\ tasks'[k].asked = Matches[search]
  BY <1>1, <1>6, RequestType
<1> QED
  BY <1>3, <1>4, <1>5, <1>6, <1>7

\* The reply to the request in the slot k.
LEMMA ReplyType ==
  ASSUME Types, NEW k \in Tasks, NEW result \in {"ok", "refused", "unreachable"},
         NEW found \in SUBSET Items, Reply(k, result, found)
  PROVE  /\ tasks' \in [Tasks -> Task]
         /\ tasks'[k].kind = tasks[k].kind /\ tasks'[k].asked = tasks[k].asked
         /\ tasks'[k].result = result /\ tasks'[k].found = found
         /\ \A j \in Tasks \ {k} : tasks'[j] = tasks[j]
<1> DEFINE task == [tasks[k] EXCEPT !.result = result, !.found = found]
<1>1. /\ task \in Task /\ task.kind = tasks[k].kind /\ task.asked = tasks[k].asked
      /\ task.result = result /\ task.found = found
  BY DEF Types, Task
<1>2. Become(k, task)
  BY DEF Reply
<1> HIDE DEF task
<1> QED
  BY <1>1, <1>2, BecomeType

-----------------------------------------------------------------------------
(* How many bulk deletions are in flight.                                   *)

LEMMA InFlightFinite ==
  ASSUME ListAssumption, NEW kind
  PROVE  IsFiniteSet(InFlight(kind)) /\ Cardinality(InFlight(kind)) \in Nat
<1>1. InFlight(kind) \in SUBSET Tasks
  BY DEF InFlight
<1> QED
  BY <1>1, FS_Subset, FS_CardinalityType DEF ListAssumption

LEMMA SameBulk ==
  ASSUME PendingInv, pending' = pending,
         \A j \in Tasks : (tasks'[j].kind = "bulk") = (tasks[j].kind = "bulk")
  PROVE  PendingInv'
<1>1. InFlight("bulk")' = InFlight("bulk")
  BY DEF InFlight
<1> QED
  BY <1>1 DEF PendingInv

\* One fewer, and one fewer to wait for.
LEMMA OneBulkLess ==
  ASSUME ListAssumption, Types, PendingInv, NEW k \in Tasks, tasks[k].kind = "bulk",
         tasks'[k].kind # "bulk", \A j \in Tasks \ {k} : tasks'[j] = tasks[j],
         pending' = pending - 1
  PROVE  PendingInv'
<1>1. InFlight("bulk")' = InFlight("bulk") \ {k} /\ k \in InFlight("bulk")
  BY DEF InFlight
<1>2. Cardinality(InFlight("bulk")') = Cardinality(InFlight("bulk")) - 1
  BY <1>1, InFlightFinite, FS_RemoveElement
<1> QED
  BY <1>2, InFlightFinite DEF PendingInv, Types

\* There are enough numbers for the futures of a bulk deletion.
LEMMA EnoughSlots ==
  ASSUME NEW S, NEW T, IsFiniteSet(S), IsFiniteSet(T), Cardinality(S) <= Cardinality(T)
  PROVE  \E f \in [S -> T] : IsInjective(f)
<1> DEFINE m == Cardinality(S)
           n == Cardinality(T)
<1>1. m \in Nat /\ n \in Nat /\ m <= n
  BY FS_CardinalityType
<1>2. PICK g \in Bijection(1 .. m, S) : TRUE
  BY FS_CardinalityType DEF ExistsBijection
<1>3. PICK h \in Bijection(1 .. n, T) : TRUE
  BY FS_CardinalityType DEF ExistsBijection
<1> HIDE DEF m, n
<1>4. \A s \in S : \E i \in 1 .. m : g[i] = s
  BY <1>2 DEF Bijection, Surjection
<1> DEFINE index(s) == CHOOSE i \in 1 .. m : g[i] = s
           f == [s \in S |-> h[index(s)]]
<1>5. \A s \in S : index(s) \in 1 .. m /\ g[index(s)] = s
  BY <1>4
<1> HIDE DEF index
<1>6. \A i \in 1 .. m : i \in 1 .. n
  BY <1>1
<1>7. h \in [1 .. n -> T] /\ IsInjective(h)
  BY <1>3 DEF Bijection, Injection
<1>8. f \in [S -> T]
  BY <1>5, <1>6, <1>7
<1>9. IsInjective(f)
  BY <1>5, <1>6, <1>7 DEF IsInjective
<1> QED
  BY <1>8, <1>9
-----------------------------------------------------------------------------
(* Types, the counter and the selection.                                    *)

\* What a bulk deletion would delete is on the screen.
ListInv == Types /\ PendingInv /\ SelectionShown

LEMMA ListInit == ASSUME ListAssumption, Init PROVE ListInv
<1>1. tasks = [k \in Tasks |-> NoTask] /\ pending = 0 /\ selected = {} /\ items = {}
  BY DEF Init
<1>2. Types
  <2>1. /\ visible \in BOOLEAN /\ busy \in BOOLEAN /\ error \in BOOLEAN
        /\ inOrder \in BOOLEAN /\ configured \in BOOLEAN /\ ignored \in BOOLEAN
    BY Zenon DEF Init
  <2>2. tasks \in [Tasks -> Task]
    BY <1>1, NoTaskType
  <2> QED
    BY <1>1, <2>1, <2>2 DEF Init, Types
<1>3. PendingInv
  BY <1>1, InFlightFinite DEF PendingInv
<1> QED
  BY <1>1, <1>2, <1>3 DEF ListInv, SelectionShown

\* A bulk deletion takes as many free numbers as rows are selected.
LEMMA BulkSlots ==
  ASSUME ListAssumption, Types, DeleteSelected
  PROVE  \E f \in [selected -> {k \in Tasks : Free(k)}] :
           /\ IsInjective(f)
           /\ tasks' = [k \in Tasks |->
                IF k \in Range(f)
                  THEN Request("bulk", {i \in selected : f[i] = k})
                  ELSE tasks[k]]
<1> DEFINE slots == {k \in Tasks : Free(k)}
           slot == CHOOSE f \in [selected -> slots] : IsInjective(f)
<1>1. IsFiniteSet(selected) /\ IsFiniteSet(slots)
  BY FS_Subset DEF ListAssumption, Types
<1>2. Cardinality(selected) <= Cardinality(slots)
  BY DEF DeleteSelected
<1>3. \E f \in [selected -> slots] : IsInjective(f)
  BY <1>1, <1>2, EnoughSlots
<1>4. slot \in [selected -> slots] /\ IsInjective(slot)
  BY <1>3
<1>5. tasks' = [k \in Tasks |->
                  IF k \in Range(slot)
                    THEN Request("bulk", {i \in selected : slot[i] = k})
                    ELSE tasks[k]]
  BY DEF DeleteSelected
<1> QED
  BY <1>4, <1>5

LEMMA BulkInv ==
  ASSUME ListAssumption, ListInv, DeleteSelected PROVE ListInv'
<1> USE DEF ListInv
<1>1. PICK f \in [selected -> {k \in Tasks : Free(k)}] :
         /\ IsInjective(f)
         /\ tasks' = [k \in Tasks |->
              IF k \in Range(f)
                THEN Request("bulk", {i \in selected : f[i] = k})
                ELSE tasks[k]]
  BY BulkSlots
<1>2. /\ busy' = TRUE /\ error' = FALSE /\ pending' = Cardinality(selected)
      /\ UNCHANGED <<stored, configured, visible, items, lastSearch, selected,
                     inOrder, ignored>>
  BY DEF DeleteSelected
<1>3. ASSUME NEW k \in Range(f)
      PROVE  /\ k \in Tasks /\ tasks'[k] \in Task /\ tasks'[k].kind = "bulk"
  <2> DEFINE asked == {i \in selected : f[i] = k}
  <2>1. k \in Tasks
    BY <1>3 DEF Range
  <2>2. asked \in SUBSET Items
    BY DEF Types
  <2>3. tasks'[k] = Request("bulk", asked)
    BY <1>1, <1>3, <2>1
  <2> HIDE DEF asked
  <2> QED
    BY <2>1, <2>2, <2>3, RequestType
<1>4. IsFiniteSet(selected) /\ Cardinality(selected) \in Nat
  BY FS_Subset, FS_CardinalityType DEF ListAssumption, Types
<1>5. Types'
  <2>1. tasks' \in [Tasks -> Task]
    BY <1>1, <1>3 DEF Types
  <2>2. busy' \in BOOLEAN /\ error' \in BOOLEAN
    BY <1>2, Zenon
  <2>3. pending' \in Int
    BY <1>2, <1>4
  <2> QED
    BY <1>2, <2>1, <2>2, <2>3 DEF Types
<1>6. PendingInv'
  <2>1. Range(f) \in SUBSET InFlight("bulk")' /\ IsFiniteSet(InFlight("bulk")')
    <3>1. InFlight("bulk")' \in SUBSET Tasks
      BY DEF InFlight
    <3> QED
      BY <1>3, <3>1, FS_Subset DEF InFlight, ListAssumption
  <2>2. Cardinality(selected) = Cardinality(Range(f))
    <3>1. f \in Bijection(selected, Range(f))
      BY <1>1 DEF Bijection, Injection, Surjection, Range
    <3> QED
      BY <1>4, <3>1, FS_Bijection DEF ExistsBijection
  <2>3. Cardinality(Range(f)) <= Cardinality(InFlight("bulk")')
    BY <2>1, FS_Subset
  <2> QED
    BY <1>2, <2>2, <2>3 DEF PendingInv
<1> QED
  BY <1>2, <1>5, <1>6 DEF SelectionShown

LEMMA UserInv ==
  ASSUME ListAssumption, ListInv, NEW k \in Tasks, User(k) PROVE ListInv'
<1> USE DEF ListInv
<1>1. ASSUME NEW search \in Searches, Free(k),
             Refresh(k, search, InFlight("refresh")), visible' \in BOOLEAN,
             UNCHANGED <<stored, configured, items, selected, pending>>
      PROVE  ListInv'
  <2>1. Types'
    BY <1>1, RefreshType DEF Types
  <2>2. PendingInv'
    BY <1>1, RefreshType, SameBulk DEF Free
  <2> QED
    BY <1>1, <2>1, <2>2 DEF SelectionShown
<1>2. ASSUME NEW search \in Searches, Search(k, search) PROVE ListInv'
  BY <1>1, <1>2 DEF Search, NextFree, Types
<1>3. CASE Show(k)
  BY <1>1, <1>3 DEF Show, NextFree, Types
<1>4. ASSUME NEW i \in Items, Delete(k, i) PROVE ListInv'
  <2>1. /\ Become(k, Request("delete", {i})) /\ busy' = TRUE /\ error' = FALSE
        /\ Free(k)
        /\ UNCHANGED <<stored, configured, visible, items, lastSearch, selected,
                       pending, inOrder, ignored>>
    BY <1>4 DEF Delete, NextFree
  <2>2. /\ tasks' \in [Tasks -> Task] /\ tasks'[k].kind = "delete"
        /\ \A j \in Tasks \ {k} : tasks'[j] = tasks[j]
    <3>1. {i} \in SUBSET Items
      OBVIOUS
    <3> QED
      BY <2>1, <3>1, RequestType, BecomeType
  <2>3. Types'
    BY <2>1, <2>2 DEF Types
  <2>4. PendingInv'
    BY <2>1, <2>2, SameBulk DEF Free
  <2> QED
    BY <2>1, <2>3, <2>4 DEF SelectionShown
<1> QED
  BY <1>2, <1>3, <1>4 DEF User

LEMMA ServeInv ==
  ASSUME ListAssumption, ListInv, NEW k \in Tasks, Serve(k) PROVE ListInv'
<1> USE DEF ListInv
<1>1. PICK result \in {"ok", "refused", "unreachable"}, found \in SUBSET Items :
        Reply(k, result, found)
  BY DEF Serve, List, Remove, Refuse, Unreachable, Types
<1>2. /\ stored' \subseteq stored
      /\ UNCHANGED <<configured, visible, page, inOrder, ignored>>
  BY DEF Serve, List, Remove, Refuse, Unreachable
<1>3. Types'
  BY <1>1, <1>2, ReplyType DEF Types, page
<1>4. PendingInv'
  BY <1>1, <1>2, ReplyType, SameBulk DEF page
<1> QED
  BY <1>2, <1>3, <1>4 DEF SelectionShown, page

\* Where the session and its page are after a reply.
LEMMA HandleFlags ==
  ASSUME ListAssumption, Types, NEW k \in Tasks, Handle(k)
  PROVE  configured' \in BOOLEAN /\ visible' \in BOOLEAN /\ ignored' \in BOOLEAN
<1>1. configured \in BOOLEAN /\ visible \in BOOLEAN /\ ignored \in BOOLEAN
  BY DEF Types
<1>2. CASE HandleConnectivityIssue \/ Connected
  BY <1>1, <1>2, Zenon DEF HandleConnectivityIssue, Connected
<1>3. CASE Refresh(k, lastSearch, InFlight("refresh"))
           /\ UNCHANGED <<configured, visible>>
  BY <1>1, <1>3, RefreshType DEF Types
<1>4. \/ HandleConnectivityIssue \/ Connected
      \/ /\ Refresh(k, lastSearch, InFlight("refresh"))
         /\ UNCHANGED <<configured, visible>>
  BY DEF Handle, OnRefreshed, OnDeleted, OnBulkDeleted
<1> QED
  BY <1>2, <1>3, <1>4

LEMMA HandleInv ==
  ASSUME ListAssumption, ListInv, NEW k \in Tasks, Handle(k) PROVE ListInv'
<1> USE DEF ListInv
<1>0. tasks[k] \in Task /\ tasks[k].found \subseteq Items /\ lastSearch \in Searches
  BY DEF Types, Task
<1>a. configured' \in BOOLEAN /\ visible' \in BOOLEAN /\ ignored' \in BOOLEAN
  BY HandleFlags
<1>1. CASE OnRefreshed(k)
  <2>1. /\ Become(k, NoTask) /\ busy' = FALSE /\ tasks[k].kind = "refresh"
        /\ UNCHANGED <<stored, lastSearch, pending, inOrder>>
        /\ error' \in BOOLEAN /\ items' \subseteq Items
        /\ selected' = {} \/ (selected' = selected /\ items' = items)
    BY <1>0, <1>1 DEF OnRefreshed, Handled, Types
  <2>2. /\ tasks' \in [Tasks -> Task] /\ tasks'[k].kind = "none"
        /\ \A j \in Tasks \ {k} : tasks'[j] = tasks[j]
    BY <2>1, NoTaskType, BecomeType
  <2>3. Types'
    BY <1>a, <2>1, <2>2 DEF Types
  <2>4. PendingInv'
    BY <2>1, <2>2, SameBulk
  <2> QED
    BY <2>1, <2>3, <2>4 DEF SelectionShown
<1>2. CASE OnDeleted(k)
  <2>1. /\ tasks[k].kind = "delete"
        /\ UNCHANGED <<stored, items, selected, pending>>
    BY <1>2 DEF OnDeleted, Handled, Types
  <2>2. /\ tasks' \in [Tasks -> Task] /\ tasks'[k].kind # "bulk"
        /\ \A j \in Tasks \ {k} : tasks'[j] = tasks[j]
        /\ busy' \in BOOLEAN /\ error' \in BOOLEAN /\ inOrder' \in BOOLEAN
        /\ lastSearch' \in Searches
    <3>1. CASE Refresh(k, lastSearch, InFlight("refresh"))
      BY <1>0, <3>1, RefreshType
    <3>2. CASE Become(k, NoTask) /\ ~Refresh(k, lastSearch, InFlight("refresh"))
      BY <1>2, <3>2, NoTaskType, BecomeType DEF OnDeleted, Types
    <3> QED
      BY <1>2, <3>1, <3>2 DEF OnDeleted
  <2>3. Types'
    BY <1>a, <2>1, <2>2 DEF Types
  <2>4. PendingInv'
    BY <2>1, <2>2, SameBulk
  <2> QED
    BY <2>1, <2>3, <2>4 DEF SelectionShown
<1>3. CASE OnBulkDeleted(k)
  <2>1. /\ tasks[k].kind = "bulk" /\ pending' = pending - 1
        /\ UNCHANGED <<stored, items, selected>>
    BY <1>3 DEF OnBulkDeleted, Handled, AfterReply, Types
  <2>2. /\ tasks' \in [Tasks -> Task] /\ tasks'[k].kind # "bulk"
        /\ \A j \in Tasks \ {k} : tasks'[j] = tasks[j]
        /\ busy' \in BOOLEAN /\ error' \in BOOLEAN /\ inOrder' \in BOOLEAN
        /\ lastSearch' \in Searches
    <3>1. CASE Refresh(k, lastSearch, InFlight("refresh"))
      BY <1>0, <3>1, RefreshType
    <3>2. CASE Become(k, NoTask) /\ ~Refresh(k, lastSearch, InFlight("refresh"))
      BY <1>3, <3>2, NoTaskType, BecomeType DEF OnBulkDeleted, Types
    <3> QED
      BY <1>3, <3>1, <3>2 DEF OnBulkDeleted
  <2>3. Types'
    BY <1>a, <2>1, <2>2 DEF Types
  <2>4. PendingInv'
    BY <2>1, <2>2, OneBulkLess
  <2> QED
    BY <2>1, <2>3, <2>4 DEF SelectionShown
<1> QED
  BY <1>1, <1>2, <1>3 DEF Handle

LEMMA ListNext ==
  ASSUME ListAssumption, ListInv, [Next]_vars PROVE ListInv'
<1>1. CASE Hide \/ ConnectionChecked \/ (\E i \in Items : ToggleSelection(i))
  <2>1. /\ UNCHANGED <<stored, items, lastSearch, pending, busy, error, tasks,
                       inOrder, ignored>>
        /\ selected' \subseteq items
    BY <1>1 DEF Hide, ConnectionChecked, ToggleSelection, page, ListInv,
                SelectionShown
  <2>2. visible' \in BOOLEAN /\ configured' \in BOOLEAN
    <3>1. visible \in BOOLEAN /\ configured \in BOOLEAN
      BY DEF ListInv, Types
    <3> QED
      BY <1>1, <3>1, Zenon DEF Hide, ConnectionChecked, ToggleSelection
  <2> QED
    BY <2>1, <2>2, SameBulk DEF ListInv, Types, SelectionShown
<1>2. CASE UNCHANGED vars
  BY <1>2, SameBulk DEF vars, page, ListInv, Types, SelectionShown
<1> QED
  BY <1>1, <1>2, BulkInv, UserInv, ServeInv, HandleInv DEF Next

LEMMA ListAlways == Spec => []ListInv
<1>1. Init => ListInv
  BY ListInit, ListAssumption
<1>2. ListInv /\ [Next]_vars => ListInv'
  BY ListNext, ListAssumption
<1> QED
  BY <1>1, <1>2, PTL DEF Spec

\* The types, and that m_pendingDeletions, which each bulk deletion overwrites,
\* never promises more replies than are to come.
THEOREM TypeCorrect == Spec => []TypeOK
<1>1. ASSUME ListInv PROVE TypeOK
  <2>1. Types /\ PendingInv
    BY <1>1 DEF ListInv
  <2>2. {configured, visible, busy, error, inOrder, ignored} \subseteq BOOLEAN
    BY <2>1 DEF Types
  <2> QED
    BY <2>1, <2>2 DEF Types, PendingInv, TypeOK
<1> QED
  BY <1>1, ListAlways, PTL

\* A bulk deletion never deletes what is not on the screen, whatever arrives
\* between the choice and its confirmation.
THEOREM SelectionIsShown == Spec => []SelectionShown
<1>1. ListInv => SelectionShown
  BY DEF ListInv
<1> QED
  BY <1>1, ListAlways, PTL
-----------------------------------------------------------------------------
(* What the list shows in the end.  As long as refreshes do not overtake each *)
(* other and no failure is shown and no lost connection ignored, a list that  *)
(* is not the server's is about to be: a deletion is in flight, which ends in *)
(* a refresh, or a refresh is, which asks for the search in the field and     *)
(* brings what is stored.                                                     *)

Deleting(k) == tasks[k].kind \in {"delete", "bulk"}
Refreshing(k) ==
  /\ tasks[k].kind = "refresh"
  /\ \/ tasks[k].result = "none" /\ tasks[k].asked = Matches[lastSearch]
     \/ tasks[k].result = "ok" /\ tasks[k].found = stored \intersect Matches[lastSearch]
     \/ tasks[k].result \in {"refused", "unreachable"}
UpToDate == items = stored \intersect Matches[lastSearch]

SettlesInv ==
  /\ inOrder => \A j, k \in Tasks :
       tasks[j].kind = "refresh" /\ tasks[k].kind = "refresh" => j = k
  /\ visible /\ inOrder /\ ~error /\ ~ignored =>
       \/ \E k \in Tasks : Deleting(k)
       \/ /\ \A k \in Tasks : tasks[k].kind = "refresh" => Refreshing(k)
          /\ (\E k \in Tasks : tasks[k].kind = "refresh") \/ UpToDate

\* A refresh that is the only one will bring what it should.
LEMMA RefreshSettles ==
  ASSUME ListAssumption, Types, SettlesInv, NEW k \in Tasks, NEW search \in Searches,
         tasks[k].kind # "refresh", Refresh(k, search, InFlight("refresh"))
  PROVE  SettlesInv'
<1>1. /\ tasks'[k].kind = "refresh" /\ tasks'[k].result = "none"
      /\ tasks'[k].asked = Matches[search] /\ lastSearch' = search
      /\ \A j \in Tasks \ {k} : tasks'[j] = tasks[j]
      /\ inOrder' <=> InFlight("refresh") = {}
  BY RefreshType
<1>2. Refreshing(k)'
  BY <1>1 DEF Refreshing
<1>3. inOrder' => \A j \in Tasks \ {k} : tasks'[j].kind # "refresh"
  BY <1>1 DEF InFlight
<1>4. inOrder' => /\ \A j \in Tasks : tasks'[j].kind = "refresh" => j = k
                  /\ \E j \in Tasks : tasks'[j].kind = "refresh"
  BY <1>1, <1>3
<1> QED
  BY <1>2, <1>4 DEF SettlesInv

LEMMA UserSettles ==
  ASSUME ListAssumption, Types, SettlesInv, NEW k \in Tasks, User(k)
  PROVE  SettlesInv'
<1>1. ASSUME NEW search \in Searches, Search(k, search) PROVE SettlesInv'
  BY <1>1, RefreshSettles DEF Search, NextFree, Free
<1>2. CASE Show(k)
  BY <1>2, RefreshSettles DEF Show, NextFree, Free, Types
<1>3. ASSUME NEW i \in Items, Delete(k, i) PROVE SettlesInv'
  <2>1. tasks'[k].kind = "delete" /\ \A j \in Tasks \ {k} : tasks'[j] = tasks[j]
    <3>1. {i} \in SUBSET Items /\ Become(k, Request("delete", {i}))
      BY <1>3 DEF Delete
    <3>2. Request("delete", {i}) \in Task /\ Request("delete", {i}).kind = "delete"
      BY <3>1, RequestType
    <3> QED
      BY <3>1, <3>2, BecomeType
  <2>2. inOrder' = inOrder
    BY <1>3 DEF Delete
  <2> QED
    BY <2>1, <2>2 DEF SettlesInv, Deleting
<1> QED
  BY <1>1, <1>2, <1>3 DEF User

LEMMA BulkSettles ==
  ASSUME ListAssumption, Types, SettlesInv, DeleteSelected PROVE SettlesInv'
<1>1. PICK f \in [selected -> {k \in Tasks : Free(k)}] :
         tasks' = [k \in Tasks |->
              IF k \in Range(f)
                THEN Request("bulk", {i \in selected : f[i] = k})
                ELSE tasks[k]]
  BY BulkSlots
<1>2. ASSUME NEW k \in Tasks, k \in Range(f) PROVE tasks'[k].kind = "bulk"
  <2>1. {i \in selected : f[i] = k} \in SUBSET Items
    BY DEF Types
  <2>2. tasks'[k] = Request("bulk", {i \in selected : f[i] = k})
    BY <1>1, <1>2
  <2> QED
    BY <2>1, <2>2, RequestType
<1>3. \A k \in Tasks : k \notin Range(f) => tasks'[k] = tasks[k]
  BY <1>1
<1>4. \E k \in Tasks : k \in Range(f)
  BY DEF DeleteSelected, Range
<1>5. inOrder' = inOrder
  BY DEF DeleteSelected
<1> QED
  BY <1>2, <1>3, <1>4, <1>5 DEF SettlesInv, Deleting

LEMMA ServeSettles ==
  ASSUME ListAssumption, Types, SettlesInv, NEW k \in Tasks, Serve(k)
  PROVE  SettlesInv'
<1>0. UNCHANGED <<visible, items, lastSearch, inOrder, error, ignored>>
  BY DEF Serve, page
<1>1. CASE List(k)
  <2>1. /\ Reply(k, "ok", stored \intersect tasks[k].asked) /\ stored' = stored
        /\ tasks[k].kind = "refresh" /\ tasks[k].result = "none"
    BY <1>1 DEF List, Open, Result
  <2>2. /\ tasks'[k].kind = "refresh" /\ tasks'[k].result = "ok"
        /\ tasks'[k].found = stored \intersect tasks[k].asked
        /\ \A j \in Tasks \ {k} : tasks'[j] = tasks[j]
    <3>1. stored \intersect tasks[k].asked \in SUBSET Items
      BY DEF Types
    <3> QED
      BY <2>1, <3>1, ReplyType
  <2> QED
    BY <1>0, <2>1, <2>2 DEF SettlesInv, Deleting, Refreshing, UpToDate
<1>2. CASE Remove(k)
  <2>1. /\ tasks[k].kind \in {"delete", "bulk"}
        /\ \E result \in {"ok", "unreachable"} : Reply(k, result, {})
    BY <1>2 DEF Remove, Open, Free, Types, Task
  <2>2. /\ tasks'[k].kind = tasks[k].kind
        /\ \A j \in Tasks \ {k} : tasks'[j] = tasks[j]
    <3>1. {} \in SUBSET Items
      OBVIOUS
    <3> QED
      BY <2>1, <3>1, ReplyType
  <2> QED
    BY <1>0, <2>1, <2>2 DEF SettlesInv, Deleting
<1>3. CASE Refuse(k) \/ Unreachable(k)
  <2>1. /\ stored' = stored
        /\ \E result \in {"refused", "unreachable"} : Reply(k, result, {})
    BY <1>3 DEF Refuse, Unreachable
  <2>2. /\ tasks'[k].kind = tasks[k].kind
        /\ tasks'[k].result \in {"refused", "unreachable"}
        /\ \A j \in Tasks \ {k} : tasks'[j] = tasks[j]
    <3>1. PICK result \in {"refused", "unreachable"} : Reply(k, result, {})
      BY <2>1
    <3>2. {} \in SUBSET Items
      OBVIOUS
    <3>3. result \in {"ok", "refused", "unreachable"}
      OBVIOUS
    <3>4. /\ tasks'[k].kind = tasks[k].kind /\ tasks'[k].result = result
          /\ \A j \in Tasks \ {k} : tasks'[j] = tasks[j]
      BY <3>1, <3>2, <3>3, ReplyType
    <3> QED
      BY <3>4
  <2> QED
    BY <1>0, <2>1, <2>2 DEF SettlesInv, Deleting, Refreshing, UpToDate
<1> QED
  BY <1>1, <1>2, <1>3 DEF Serve

LEMMA HandleSettles ==
  ASSUME ListAssumption, ListInv, PendingInv', SettlesInv, NEW k \in Tasks, Handle(k)
  PROVE  SettlesInv'
<1> USE DEF ListInv
\* The future ends, with nothing to hope for from this page or from the server.
<1>1. ASSUME Become(k, NoTask), inOrder' = inOrder, error' \/ ~visible' \/ ignored'
      PROVE  SettlesInv'
  BY <1>1, NoTaskType, BecomeType DEF SettlesInv
<1>2. CASE OnRefreshed(k)
  <2>1. /\ Become(k, NoTask) /\ tasks[k].kind = "refresh"
        /\ UNCHANGED <<stored, lastSearch, inOrder>>
    BY <1>2 DEF OnRefreshed, Handled
  <2>2. CASE Result(k) = "ok"
    <3>1. items' = tasks[k].found /\ UNCHANGED <<visible, error, ignored>>
      BY <1>2, <2>2 DEF OnRefreshed, Connected
    <3>2. tasks'[k].kind = "none" /\ \A j \in Tasks \ {k} : tasks'[j] = tasks[j]
      BY <2>1, NoTaskType, BecomeType
    <3>3. CASE visible /\ inOrder /\ ~error /\ ~ignored
      <4>1. CASE \E j \in Tasks : Deleting(j)
        BY <2>1, <3>1, <3>2, <4>1 DEF SettlesInv, Deleting
      <4>2. CASE ~\E j \in Tasks : Deleting(j)
        <5>1. Refreshing(k) /\ \A j \in Tasks \ {k} : tasks[j].kind # "refresh"
          BY <2>1, <3>3, <4>2 DEF SettlesInv
        <5>2. UpToDate'
          BY <2>1, <2>2, <3>1, <5>1 DEF Refreshing, UpToDate, Result
        <5>3. \A j \in Tasks : tasks'[j].kind # "refresh"
          BY <3>2, <5>1
        <5> QED
          BY <5>2, <5>3 DEF SettlesInv
      <4> QED
        BY <4>1, <4>2
    <3> QED
      BY <2>1, <3>1, <3>2, <3>3 DEF SettlesInv
  <2>3. CASE Result(k) # "ok"
    <3>1. error' \/ ~visible' \/ ignored'
      BY <1>2, <2>3 DEF OnRefreshed, HandleConnectivityIssue
    <3> QED
      BY <1>1, <2>1, <3>1
  <2> QED
    BY <2>2, <2>3
<1>3. CASE OnDeleted(k)
  <2>1. CASE Refresh(k, lastSearch, InFlight("refresh"))
    BY <1>3, <2>1, RefreshSettles DEF OnDeleted, Handled, Types
  <2>2. CASE ~Refresh(k, lastSearch, InFlight("refresh"))
    BY <1>1, <1>3, <2>2 DEF OnDeleted, HandleConnectivityIssue
  <2> QED
    BY <2>1, <2>2
<1>4. CASE OnBulkDeleted(k)
  <2>1. CASE Refresh(k, lastSearch, InFlight("refresh"))
    BY <1>4, <2>1, RefreshSettles DEF OnBulkDeleted, Handled, Types
  <2>2. CASE Become(k, NoTask) /\ inOrder' = inOrder /\ (~visible' \/ ignored')
    BY <1>1, <2>2
  <2>3. CASE Become(k, NoTask) /\ inOrder' = inOrder /\ ~NoneLeft(pending')
    <3>1. tasks'[k].kind = "none" /\ \A j \in Tasks \ {k} : tasks'[j] = tasks[j]
      BY <2>3, NoTaskType, BecomeType
    <3>2. \E j \in Tasks : tasks'[j].kind = "bulk"
      <4>1. pending' = pending - 1 /\ pending' > 0
        BY <1>4, <2>3 DEF OnBulkDeleted, AfterReply, NoneLeft, Types
      <4>2. InFlight("bulk")' # {}
        <5>1. Cardinality(InFlight("bulk")') # 0
          BY <4>1 DEF PendingInv, Types
        <5> QED
          BY <5>1, FS_EmptySet
      <4> QED
        BY <4>2 DEF InFlight
    <3> QED
      BY <2>3, <3>1, <3>2 DEF SettlesInv, Deleting
  <2> QED
    BY <1>4, <2>1, <2>2, <2>3 DEF OnBulkDeleted, HandleConnectivityIssue
<1> QED
  BY <1>2, <1>3, <1>4 DEF Handle

LEMMA SettlesNext ==
  ASSUME ListAssumption, ListInv, ListInv', SettlesInv, [Next]_vars PROVE SettlesInv'
<1> USE DEF ListInv
<1>1. CASE Hide \/ ConnectionChecked \/ (\E i \in Items : ToggleSelection(i))
  <2>1. /\ UNCHANGED <<stored, items, lastSearch, error, tasks, inOrder, ignored>>
        /\ visible' = visible \/ ~visible'
    BY <1>1 DEF Hide, ConnectionChecked, ToggleSelection, page
  <2> QED
    BY <2>1 DEF SettlesInv, Deleting, Refreshing, UpToDate
<1>2. CASE UNCHANGED vars
  BY <1>2 DEF vars, page, SettlesInv, Deleting, Refreshing, UpToDate
<1> QED
  BY <1>1, <1>2, UserSettles, BulkSettles, ServeSettles, HandleSettles DEF Next

\* When everything has been answered, refreshes did not overtake each other, no
\* failure is shown and no lost connection was ignored, the list is the server's,
\* for the search in the field: no bulk deletion that overlaps another leaves a
\* list that nobody refreshes.
THEOREM ListIsServers == Spec => []ListSettles
<1>1. ASSUME Init PROVE SettlesInv
  <2>1. \A k \in Tasks : tasks[k].kind = "none"
    BY <1>1, NoTaskType DEF Init
  <2>2. ~visible
    BY <1>1 DEF Init
  <2> QED
    BY <2>1, <2>2 DEF SettlesInv
<1>2. ListInv /\ ListInv' /\ SettlesInv /\ [Next]_vars => SettlesInv'
  BY SettlesNext, ListAssumption
<1>3. SettlesInv => ListSettles
  BY DEF SettlesInv, ListSettles, Deleting, Refreshing, UpToDate, Free
<1> QED
  BY <1>1, <1>2, <1>3, ListAlways, PTL DEF Spec
=============================================================================
