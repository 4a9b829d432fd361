-------------------------- MODULE ClientSessionProofs --------------------------
(***************************************************************************)
(* Proofs about ClientSession, for any number of futures and tokens.       *)
(***************************************************************************)
EXTENDS ClientSession, TLAPS, FiniteSetTheorems

-----------------------------------------------------------------------------
(* Types.                                                                   *)

\* One future's entry is replaced by one in order.
LEMMA BecomeType ==
  ASSUME NEW k \in Tasks, NEW task \in Task, tasks \in [Tasks -> Task],
         Become(k, task)
  PROVE  /\ tasks' \in [Tasks -> Task]
         /\ tasks'[k] = task
         /\ \A j \in Tasks \ {k} : tasks'[j] = tasks[j]
BY DEF Become

LEMMA TaskTypes ==
  ASSUME SessionAssumption
  PROVE  /\ NoTask \in Task /\ Check \in Task /\ LoginTask \in Task
         /\ \A t \in Tokens \union {NoToken} : AutoLogin(t) \in Task
BY DEF NoTask, Check, LoginTask, AutoLogin, Task, Roles

LEMMA FinishedType ==
  ASSUME NEW k \in Tasks, tasks \in [Tasks -> Task], NEW r \in Roles,
         NEW result \in {"ok", "refused", "unreachable"}, Finished(k, result, r)
  PROVE  tasks' \in [Tasks -> Task]
<1>1. [tasks[k] EXCEPT !.stage = "finished", !.result = result, !.role = r] \in Task
  BY DEF Task
<1> QED
  BY <1>1 DEF Finished, Become

\* A connection attempt starts in any slot, also while the clients of the other
\* futures are gone.
LEMMA CheckType ==
  ASSUME SessionAssumption, NEW k \in Tasks, NEW others \in [Tasks -> Task],
         CheckConnection(k, others)
  PROVE  tasks' \in [Tasks -> Task] /\ connecting' \in BOOLEAN
         /\ connectionError' \in BOOLEAN
BY TaskTypes DEF CheckConnection

LEMMA IssueType ==
  ASSUME NEW t \in Tokens \ issued, accepted \subseteq issued, issued \subseteq Tokens,
         Issue(t)
  PROVE  accepted' \subseteq issued' /\ issued' \subseteq Tokens
BY DEF Issue, Server!Issue
LEMMA PageTypes ==
  ASSUME NEW configured, NEW signedIn
  PROVE  MainPage(configured, signedIn) \in {"none", "login", "home"}
BY DEF MainPage

LEMMA TypeInit == SessionAssumption /\ Init => TypeOK
<1> SUFFICES ASSUME SessionAssumption, Init PROVE TypeOK
  OBVIOUS
<1>1. tasks \in [Tasks -> Task]
  BY TaskTypes DEF Init
<1>2. {authenticated, busy, serverConfigured, connecting, connectionError,
       connectPage, address, rememberMe, running, calm} \subseteq BOOLEAN
  BY DEF Init
<1> QED
  BY <1>1, <1>2 DEF Init, TypeOK, Roles

\* TypeOK, variable by variable.
Types ==
  /\ authenticated \in BOOLEAN /\ busy \in BOOLEAN
  /\ serverConfigured \in BOOLEAN /\ connecting \in BOOLEAN
  /\ connectionError \in BOOLEAN /\ connectPage \in BOOLEAN
  /\ address \in BOOLEAN /\ rememberMe \in BOOLEAN
  /\ running \in BOOLEAN /\ calm \in BOOLEAN
  /\ page \in {"none", "login", "home"} /\ role \in Roles
  /\ token \in Tokens \union {NoToken} /\ savedToken \in Tokens \union {NoToken}
  /\ tasks \in [Tasks -> Task]
  /\ accepted \subseteq issued /\ issued \subseteq Tokens
  /\ savedToken # NoToken => rememberMe

LEMMA TypesAre == TypeOK <=> Types
BY DEF TypeOK, Types

LEMMA ConnectivityTypes ==
  ASSUME SessionAssumption, Types, NEW k \in Tasks,
         HandleConnectivityIssue(k)
  PROVE  /\ tasks' \in [Tasks -> Task]
         /\ authenticated' \in BOOLEAN /\ serverConfigured' \in BOOLEAN
         /\ connecting' \in BOOLEAN /\ connectionError' \in BOOLEAN
         /\ connectPage' \in BOOLEAN /\ page' \in {"none", "login", "home"}
<1>1. CASE ~serverConfigured
  BY <1>1, TaskTypes, BecomeType DEF HandleConnectivityIssue, Types, pages
<1>2. CASE serverConfigured
  <2>1. CheckConnection(k, tasks) /\ ServerConfiguredChanged(FALSE, FALSE)
        /\ authenticated' = FALSE /\ serverConfigured' = FALSE
    BY <1>2 DEF HandleConnectivityIssue
  <2> QED
    BY <2>1, CheckType, PageTypes DEF ServerConfiguredChanged, Types
<1> QED
  BY <1>1, <1>2

LEMMA UserTypes ==
  ASSUME SessionAssumption, Types,
         \/ UserForgets \/ End \/ ServerRestart
         \/ \E k \in Tasks : User(k) \/ ViewModelLostConnection(k)
  PROVE  Types'
<1> USE DEF Types, screen, pages, settings, server, GuiUnchanged, Watch
<1>1. CASE Logout
  BY <1>1, PageTypes DEF Logout, AuthenticationChanged, Roles
<1>2. ASSUME NEW remember \in BOOLEAN, SetRememberMe(remember) PROVE Types'
  BY <1>2 DEF SetRememberMe
<1>3. CASE End
  <2>1. tasks' \in [Tasks -> Task]
    BY <1>3, TaskTypes DEF End
  <2> QED
    BY <1>3, <2>1, PageTypes DEF End, AtStart, ServerConfiguredChanged, Roles
<1>4. CASE ServerRestart
  BY <1>4 DEF ServerRestart, Server!Restart
<1>5. ASSUME NEW k \in Tasks, Login(k) PROVE Types'
  <2>1. tasks' \in [Tasks -> Task]
    BY <1>5, TaskTypes, BecomeType DEF Login
  <2> QED
    BY <1>5, <2>1 DEF Login
<1>6. ASSUME NEW k \in Tasks, ConnectToServer(k) PROVE Types'
  <2> DEFINE others == [j \in Tasks |-> [tasks[j] EXCEPT !.mine = NoClient(j)]]
  <2>1. others \in [Tasks -> Task]
    <3>1. ASSUME NEW j \in Tasks, NEW gone \in BOOLEAN
          PROVE  [tasks[j] EXCEPT !.mine = gone] \in Task
      BY DEF Task
    <3>2. \A j \in Tasks : NoClient(j) \in BOOLEAN
      BY DEF NoClient
    <3> QED
      BY <3>1, <3>2
  <2> HIDE DEF others
  <2>2. /\ tasks' \in [Tasks -> Task] /\ connecting' \in BOOLEAN
        /\ connectionError' \in BOOLEAN
    BY <1>6, <2>1, CheckType DEF ConnectToServer, others
  <2> QED
    BY <1>6, <2>2, PageTypes DEF ConnectToServer, AuthenticationChanged
<1>7. ASSUME NEW k \in Tasks, Launch(k) PROVE Types'
  <2>1. /\ tasks' \in [Tasks -> Task] /\ connecting' \in BOOLEAN
        /\ connectionError' \in BOOLEAN
    BY <1>7, CheckType DEF Launch
  <2> QED
    BY <1>7, <2>1, PageTypes DEF Launch, AtStart, ServerConfiguredChanged, Roles
<1>8. ASSUME NEW k \in Tasks, ViewModelLostConnection(k) PROVE Types'
  BY <1>8, TaskTypes, ConnectivityTypes DEF ViewModelLostConnection
<1> QED
  BY <1>1, <1>2, <1>3, <1>4, <1>5, <1>6, <1>7, <1>8 DEF UserForgets, User

LEMMA ProgressTypes ==
  ASSUME SessionAssumption, Types, NEW k \in Tasks, Progress(k)
  PROVE  Types'
<1> USE DEF Types, screen, pages, settings, server, GuiUnchanged
<1>1. CASE Start(k)
  <2>1. /\ [tasks[k] EXCEPT !.stage = "sent"] \in Task
        /\ tasks[k].token \in Tokens \union {NoToken}
    BY DEF Task
  <2>2. tasks' \in [Tasks -> Task]
    BY <1>1, <2>1, BecomeType DEF Start
  <2> QED
    BY <1>1, <2>1, <2>2 DEF Start
<1>2. CASE CheckReply(k)
  <2>1. tasks' \in [Tasks -> Task]
    BY <1>2, FinishedType DEF CheckReply, Roles
  <2> QED
    BY <1>2, <2>1 DEF CheckReply
<1>3. CASE AutoLoginReply(k)
  <2>1. RoleOf[tasks[k].token] \in Roles \/ tasks[k].token \notin accepted
    BY DEF SessionAssumption, Roles
  <2>2. tasks' \in [Tasks -> Task]
    BY <1>3, <2>1, FinishedType DEF AutoLoginReply, Roles
  <2> QED
    BY <1>3, <2>2 DEF AutoLoginReply
<1>4. CASE LoginReply(k)
  <2>1. \A t \in Tokens : ReturnedRole(t) \subseteq Roles
    BY DEF SessionAssumption, ReturnedRole, Roles
  <2>2. tasks' \in [Tasks -> Task]
    BY <1>4, <2>1, FinishedType DEF LoginReply, Roles
  <2>3. accepted' \subseteq issued' /\ issued' \subseteq Tokens
    BY <1>4, IssueType DEF LoginReply
  <2> QED
    BY <1>4, <2>2, <2>3 DEF LoginReply
<1>5. CASE Astray(k)
  <2>1. tasks' \in [Tasks -> Task]
    BY <1>5, FinishedType DEF Astray
  <2> QED
    BY <1>5, <2>1 DEF Astray
<1>6. CASE OnChecked(k)
  <2>1. tasks' \in [Tasks -> Task]
    BY <1>6, TaskTypes, BecomeType DEF OnChecked
  <2> QED
    BY <1>6, <2>1, PageTypes, ZenonT(30) DEF OnChecked, ServerConfiguredChanged
<1>7. CASE OnAutoLogin(k)
  <2>1. tasks' \in [Tasks -> Task] /\ tasks[k].role \in Roles
    BY <1>7, TaskTypes, BecomeType DEF OnAutoLogin, Task
  <2> QED
    BY <1>7, <2>1, PageTypes, ZenonT(30) DEF OnAutoLogin, AuthenticationChanged
<1>8. CASE OnLogin(k)
  <2>1. tasks[k].role \in Roles
    BY DEF Task
  <2>2. CASE Succeeded(k)
    <3>1. tasks' \in [Tasks -> Task]
      BY <1>8, <2>2, TaskTypes, BecomeType DEF OnLogin, Succeeded
    <3> QED
      BY <1>8, <2>1, <2>2, <3>1, PageTypes DEF OnLogin, Succeeded, AuthenticationChanged
  <2>3. CASE tasks[k].result = "unreachable"
    BY <1>8, <2>3, TaskTypes, ConnectivityTypes DEF OnLogin, Succeeded
  <2>4. CASE tasks[k].result = "refused"
    <3>1. tasks' \in [Tasks -> Task]
      BY <1>8, <2>4, TaskTypes, BecomeType DEF OnLogin, Succeeded
    <3> QED
      BY <1>8, <2>4, <3>1, ZenonT(30) DEF OnLogin, Succeeded
  <2> QED
    BY <1>8, <2>2, <2>3, <2>4 DEF OnLogin
<1> QED
  BY <1>1, <1>2, <1>3, <1>4, <1>5, <1>6, <1>7, <1>8 DEF Progress

\* The session, its futures and the settings keep their types, and a token is on
\* disk only while the user wants it to be: no future that ends later saves one.
THEOREM TypeCorrect == Spec => []TypeOK
<1>1. ASSUME SessionAssumption, TypeOK, [Next]_vars PROVE TypeOK'
  <2>1. CASE UNCHANGED vars
    BY <1>1, <2>1 DEF TypeOK, vars, screen, pages, settings, server
  <2>2. CASE Next
    <3>1. Types'
      BY <1>1, <2>2, TypesAre, UserTypes, ProgressTypes DEF Next
    <3> QED
      BY <3>1 DEF Types, TypeOK
  <2> QED
    BY <1>1, <2>1, <2>2
<1> QED
  BY <1>1, TypeInit, SessionAssumption, PTL DEF Spec
-----------------------------------------------------------------------------
(* The page that asks for an address.  Whoever takes the program there starts *)
(* an attempt in the same step, and only an attempt that failed ends there.   *)

LEMMA ReasonNext ==
  ASSUME SessionAssumption, TypeOK, ReasonShown, [Next]_vars
  PROVE  ReasonShown'
<1> USE DEF ReasonShown, screen, pages, settings, server, GuiUnchanged, CheckConnection
<1>1. CASE UserForgets \/ End \/ ServerRestart
  BY <1>1 DEF UserForgets, Logout, SetRememberMe, AuthenticationChanged, End,
              ServerRestart
<1>2. ASSUME NEW k \in Tasks, HandleConnectivityIssue(k), UNCHANGED <<address, running>>
      PROVE  ReasonShown'
  BY <1>2 DEF HandleConnectivityIssue
<1>3. ASSUME NEW k \in Tasks, User(k) PROVE ReasonShown'
  BY <1>3 DEF User, Login, ConnectToServer, Launch, AuthenticationChanged
<1>4. ASSUME NEW k \in Tasks, ViewModelLostConnection(k) PROVE ReasonShown'
  BY <1>2, <1>4 DEF ViewModelLostConnection
<1>5. ASSUME NEW k \in Tasks,
             \/ Start(k) \/ CheckReply(k) \/ AutoLoginReply(k)
             \/ LoginReply(k) \/ Astray(k)
      PROVE  ReasonShown'
  BY <1>5 DEF Start, CheckReply, AutoLoginReply, LoginReply, Astray
<1>6. ASSUME NEW k \in Tasks, OnChecked(k) PROVE ReasonShown'
  BY <1>6 DEF OnChecked, ServerConfiguredChanged
<1>7. ASSUME NEW k \in Tasks, OnAutoLogin(k) PROVE ReasonShown'
  BY <1>7 DEF OnAutoLogin, AuthenticationChanged
<1>8. ASSUME NEW k \in Tasks, OnLogin(k) PROVE ReasonShown'
  <2>1. UNCHANGED <<address, running>>
    BY <1>8 DEF OnLogin
  <2>2. CASE HandleConnectivityIssue(k)
    BY <1>2, <2>1, <2>2
  <2>3. CASE ~HandleConnectivityIssue(k)
    <3>1. UNCHANGED <<connectPage, connecting, connectionError>>
      BY <1>8, <2>3 DEF OnLogin, AuthenticationChanged
    <3> QED
      BY <2>1, <3>1
  <2> QED
    BY <2>2, <2>3
<1>9. CASE UNCHANGED vars
  BY <1>9 DEF vars
<1> QED
  BY <1>1, <1>3, <1>4, <1>5, <1>6, <1>7, <1>8, <1>9 DEF Next, Progress

\* The user is never left on that page without an attempt and without a reason.
THEOREM AlwaysAReason == Spec => []ReasonShown
<1>1. Init => ReasonShown
  BY DEF Init, ReasonShown
<1>2. TypeOK /\ ReasonShown /\ [Next]_vars => ReasonShown'
  BY ReasonNext, SessionAssumption
<1> QED
  BY <1>1, <1>2, TypeCorrect, PTL DEF Spec

-----------------------------------------------------------------------------
(* The page and the session.  The home page is shown to a user who is       *)
(* authenticated, and the login page to one who is not, also when the page  *)
(* lags behind the flag serverConfigured.                                   *)

PageInv ==
  /\ page = "home" => authenticated
  /\ page = "login" => ~authenticated

LEMMA PageNext ==
  ASSUME TypeOK, PageInv, [Next]_vars PROVE PageInv'
<1> USE DEF PageInv, MainPage, screen, pages, settings, server, GuiUnchanged,
            AuthenticationChanged, ServerConfiguredChanged
<1>1. CASE UserForgets \/ End \/ ServerRestart
  BY <1>1 DEF UserForgets, Logout, SetRememberMe, End, AtStart, ServerRestart
<1>2. ASSUME NEW k \in Tasks, HandleConnectivityIssue(k) PROVE PageInv'
  BY <1>2 DEF HandleConnectivityIssue
<1>3. ASSUME NEW k \in Tasks, User(k) PROVE PageInv'
  BY <1>3 DEF User, Login, ConnectToServer, Launch, AtStart
<1>4. ASSUME NEW k \in Tasks, ViewModelLostConnection(k) PROVE PageInv'
  BY <1>2, <1>4 DEF ViewModelLostConnection
<1>5. ASSUME NEW k \in Tasks,
             \/ Start(k) \/ CheckReply(k) \/ AutoLoginReply(k)
             \/ LoginReply(k) \/ Astray(k)
      PROVE  PageInv'
  BY <1>5 DEF Start, CheckReply, AutoLoginReply, LoginReply, Astray
<1>6. ASSUME NEW k \in Tasks, OnChecked(k) PROVE PageInv'
  BY <1>6 DEF OnChecked
<1>7. ASSUME NEW k \in Tasks, OnAutoLogin(k) PROVE PageInv'
  BY <1>7 DEF OnAutoLogin
<1>8. ASSUME NEW k \in Tasks, OnLogin(k) PROVE PageInv'
  BY <1>2, <1>8 DEF OnLogin
<1>9. CASE UNCHANGED vars
  BY <1>9 DEF vars
<1> QED
  BY <1>1, <1>3, <1>4, <1>5, <1>6, <1>7, <1>8, <1>9 DEF Next, Progress
-----------------------------------------------------------------------------
(* The token.  While futures did not overlap, a future in flight is the only *)
(* one, has its client, and runs while nobody is signed in; what it brings   *)
(* for the session and what it puts into the client belong together.         *)

Alone(k) ==
  /\ tasks[k].mine /\ ~authenticated
  /\ tasks[k].kind = "auto" =>
       /\ tasks[k].token \in Tokens
       /\ tasks[k].stage = "sent" => token = tasks[k].token
       /\ tasks[k].stage = "finished" /\ tasks[k].result = "ok" =>
            token = tasks[k].token /\ tasks[k].role = RoleOf[token]
  /\ tasks[k].kind = "login" /\ tasks[k].stage = "finished" /\ tasks[k].result = "ok" =>
       token \in Tokens /\ tasks[k].role = RoleOf[token]

CalmInv ==
  /\ \A k \in Tasks : Free(k) => tasks[k] = NoTask
  /\ ~running => \A k \in Tasks : Free(k)
  /\ calm =>
       /\ \A j, k \in Tasks : ~Free(j) /\ ~Free(k) => j = k
       /\ \A k \in Tasks : ~Free(k) => Alone(k)
       /\ authenticated => token \in Tokens /\ role = RoleOf[token]

\* Counting futures, for this.
LEMMA OneInFlight ==
  ASSUME SessionAssumption, NEW all,
         Cardinality(InFlight(all)) <= 1,
         NEW j \in Tasks, all[j].kind # "none", NEW k \in Tasks, all[k].kind # "none"
  PROVE  j = k
<1>1. IsFiniteSet(InFlight(all)) /\ {j, k} \subseteq InFlight(all)
  BY FS_Subset DEF SessionAssumption, InFlight
<1>2. Cardinality({j, k}) <= Cardinality(InFlight(all))
  BY <1>1, FS_Subset
<1>3. SUFFICES ASSUME j # k PROVE FALSE
  OBVIOUS
<1>4. Cardinality({j}) = 1 /\ IsFiniteSet({j})
  BY FS_Singleton
<1>5. Cardinality({j} \union {k}) = 2
  <2>1. Cardinality({j} \union {k}) = Cardinality({j}) + 1
    BY <1>3, <1>4, FS_AddElement
  <2> QED
    BY <1>4, <2>1
<1>6. {j} \union {k} = {j, k}
  OBVIOUS
<1>7. Cardinality(InFlight(all)) \in Nat
  BY <1>1, FS_CardinalityType
<1> QED
  BY <1>2, <1>5, <1>6, <1>7

LEMMA AloneInFlight ==
  ASSUME NEW k \in Tasks, ~Free(k), \A j \in Tasks : ~Free(j) => j = k
  PROVE  Cardinality(InFlight(tasks)) = 1
<1>1. InFlight(tasks) = {k}
  BY DEF InFlight, Free
<1> QED
  BY <1>1, FS_Singleton

LEMMA CalmInit == SessionAssumption /\ Init => CalmInv
BY DEF Init, CalmInv, Free, NoTask

\* A step that starts a future in the slot k, with what it has to say of k if no
\* other is in flight.
LEMMA StartCalm ==
  ASSUME SessionAssumption, Types, CalmInv, NEW k \in Tasks,
         tasks' \in [Tasks -> Task], running', Watch, ~authenticated',
         \A j \in Tasks \ {k} : Free(j) => tasks'[j] = tasks[j],
         \A j \in Tasks \ {k} : ~Free(j) => tasks'[j].kind # "none",
         tasks'[k].kind \in {"check", "login"}, tasks'[k].stage # "finished",
         tasks'[k].mine
  PROVE  CalmInv'
<1>1. \A j \in Tasks : Free(j)' => tasks'[j] = NoTask
  <2>1. ASSUME NEW j \in Tasks, tasks'[j].kind = "none" PROVE tasks'[j] = NoTask
    BY <2>1 DEF CalmInv, Free
  <2> QED
    BY <2>1 DEF Free
<1>2. ASSUME calm', NEW i \in Tasks, ~Free(i)' PROVE i = k
  BY <1>2, OneInFlight DEF Watch, Free
<1>3. Alone(k)'
  BY DEF Alone
<1> QED
  BY <1>1, <1>2, <1>3 DEF CalmInv

\* A step that ends the future in the slot k, or replaces it by another one.
LEMMA EndCalm ==
  ASSUME SessionAssumption, Types, CalmInv, NEW k \in Tasks, ~Free(k),
         NEW task \in Task, Become(k, task), running', calm' = calm,
         task.kind = "none" => task = NoTask,
         calm => \/ /\ task.kind = "none"
                    /\ authenticated' => token' \in Tokens /\ role' = RoleOf[token']
                 \/ Alone(k)'
  PROVE  CalmInv'
<1>1. tasks'[k] = task /\ \A j \in Tasks \ {k} : tasks'[j] = tasks[j]
  BY BecomeType DEF Types
<1>2. \A j \in Tasks : Free(j)' => tasks'[j] = NoTask
  BY <1>1 DEF CalmInv, Free
<1>3. ASSUME calm PROVE \A j \in Tasks : ~Free(j)' => j = k
  BY <1>1, <1>3 DEF CalmInv, Free
<1> QED
  BY <1>1, <1>2, <1>3 DEF CalmInv, Alone, Free
LEMMA UserCalm ==
  ASSUME SessionAssumption, Types, Types', PageInv, CalmInv,
         \/ UserForgets \/ End \/ ServerRestart
         \/ \E k \in Tasks : User(k) \/ ViewModelLostConnection(k)
  PROVE  CalmInv'
<1> USE DEF screen, pages, settings, server, GuiUnchanged
<1>1. CASE Logout
  <2>1. calm => \A k \in Tasks : Free(k)
    BY <1>1 DEF Logout, HomePage, PageInv, CalmInv, Alone
  <2>2. /\ UNCHANGED <<tasks, running, calm>> /\ authenticated' = FALSE
    BY <1>1 DEF Logout
  <2> QED
    BY <2>1, <2>2 DEF CalmInv, Free
<1>2. CASE (\E remember \in BOOLEAN : SetRememberMe(remember)) \/ ServerRestart
  BY <1>2 DEF SetRememberMe, ServerRestart, CalmInv, Free, Alone
<1>3. CASE End
  <2>1. tasks' = [k \in Tasks |-> NoTask] /\ authenticated' = FALSE
    BY <1>3 DEF End, AtStart
  <2> QED
    BY <2>1 DEF CalmInv, Free, NoTask
<1>4. ASSUME NEW k \in Tasks, Login(k) PROVE CalmInv'
  <2>1. /\ tasks'[k] = LoginTask
        /\ \A j \in Tasks \ {k} : tasks'[j] = tasks[j]
    BY <1>4 DEF Login, Become, Types
  <2>2. running' /\ ~authenticated' /\ Watch
    BY <1>4 DEF Login, LoginPage, PageInv
  <2>3. LoginTask.kind = "login" /\ LoginTask.mine /\ LoginTask.stage = "queued"
    BY DEF LoginTask, NoTask
  <2> QED
    BY <2>1, <2>2, <2>3, StartCalm DEF Types, Free
<1>5. ASSUME NEW k \in Tasks, ConnectToServer(k) PROVE CalmInv'
  <2> DEFINE others == [j \in Tasks |-> [tasks[j] EXCEPT !.mine = NoClient(j)]]
  <2>1. tasks' = [others EXCEPT ![k] = Check]
    BY <1>5 DEF ConnectToServer, CheckConnection
  <2>2. tasks'[k] = Check
    BY <2>1
  <2>3. ASSUME NEW j \in Tasks \ {k}
        PROVE  tasks'[j] = [tasks[j] EXCEPT !.mine = NoClient(j)]
    BY <2>1
  <2>4. ASSUME NEW j \in Tasks \ {k}, Free(j) PROVE tasks'[j] = tasks[j]
    <3>1. tasks[j] = NoTask
      BY <2>4 DEF CalmInv
    <3>2. NoClient(j) = TRUE
      BY <3>1 DEF NoClient, NoTask
    <3>3. [tasks[j] EXCEPT !.mine = TRUE] = tasks[j]
      <4>1. tasks[j] \in Task /\ tasks[j].mine = TRUE
        <5>1. NoTask.mine = TRUE
          BY DEF NoTask
        <5>2. tasks[j] \in Task
          BY DEF Types
        <5> QED
          BY <3>1, <5>1, <5>2, Zenon
      <4> QED
        BY <4>1 DEF Task
    <3> QED
      BY <2>3, <3>2, <3>3
  <2>5. ASSUME NEW j \in Tasks \ {k}, ~Free(j) PROVE tasks'[j].kind # "none"
    BY <2>3, <2>5 DEF Free, Types, Task
  <2>6. running' /\ ~authenticated' /\ Watch
    BY <1>5 DEF ConnectToServer, SetupPage
  <2>7. Check.kind = "check" /\ Check.mine /\ Check.stage = "sent"
    BY DEF Check, NoTask
  <2> QED
    BY <2>2, <2>4, <2>5, <2>6, <2>7, StartCalm DEF Types, Free
<1>6. ASSUME NEW k \in Tasks, Launch(k) PROVE CalmInv'
  <2>1. \A j \in Tasks : tasks[j] = NoTask
    BY <1>6 DEF Launch, CalmInv
  <2>2. /\ running' /\ ~authenticated'
        /\ \/ tasks' = [tasks EXCEPT ![k] = Check]
           \/ tasks' = tasks
    BY <1>6 DEF Launch, AtStart, CheckConnection
  <2>3. \A j \in Tasks : tasks'[j] = NoTask \/ (j = k /\ tasks'[j] = Check)
    BY <2>1, <2>2 DEF Types
  <2>4. /\ NoTask.kind = "none"
        /\ Check.kind = "check" /\ Check.mine /\ Check.stage = "sent"
    BY DEF Check, NoTask
  <2> QED
    BY <2>2, <2>3, <2>4 DEF CalmInv, Free, Alone
<1>7. ASSUME NEW k \in Tasks, ViewModelLostConnection(k) PROVE CalmInv'
  <2>1. /\ tasks' = [tasks EXCEPT ![k] = Check] /\ Watch
        /\ running' /\ ~authenticated'
    BY <1>7 DEF ViewModelLostConnection, HandleConnectivityIssue, CheckConnection
  <2>2. tasks'[k] = Check /\ \A j \in Tasks \ {k} : tasks'[j] = tasks[j]
    BY <2>1 DEF Types
  <2>3. Check.kind = "check" /\ Check.mine /\ Check.stage = "sent"
    BY DEF Check, NoTask
  <2> QED
    BY <2>1, <2>2, <2>3, StartCalm DEF Types, Free
<1> QED
  BY <1>1, <1>2, <1>3, <1>4, <1>5, <1>6, <1>7 DEF UserForgets, User

\* What a reply makes of a future's entry.
LEMMA FinishedTask ==
  ASSUME Types, NEW k \in Tasks, ~Free(k), NEW r \in Roles,
         NEW result \in {"ok", "refused", "unreachable"}, Finished(k, result, r)
  PROVE  \E task \in Task :
           /\ Become(k, task) /\ tasks'[k] = task
           /\ task.kind = tasks[k].kind /\ task.kind # "none"
           /\ task.token = tasks[k].token /\ task.mine = tasks[k].mine
           /\ task.stage = "finished" /\ task.result = result /\ task.role = r
<1> DEFINE task == [tasks[k] EXCEPT !.stage = "finished", !.result = result, !.role = r]
<1>1. /\ task \in Task
      /\ task.kind = tasks[k].kind /\ task.token = tasks[k].token
      /\ task.mine = tasks[k].mine
      /\ task.stage = "finished" /\ task.result = result /\ task.role = r
  BY ZenonT(30) DEF Types, Task
<1>2. Become(k, task)
  BY DEF Finished
<1> HIDE DEF task
<1>3. tasks'[k] = task
  BY <1>1, <1>2, BecomeType DEF Types
<1> QED
  BY <1>1, <1>2, <1>3 DEF Free

LEMMA CallCalm ==
  ASSUME SessionAssumption, Types, CalmInv, NEW k \in Tasks,
         Start(k) \/ CheckReply(k) \/ AutoLoginReply(k) \/ LoginReply(k) \/ Astray(k)
  PROVE  CalmInv'
<1> USE DEF screen, pages, settings, server, GuiUnchanged
<1>0. ~Free(k) /\ running' /\ calm' = calm /\ authenticated' = authenticated
  <2>1. CASE Free(k)
    <3>1. tasks[k] = NoTask
      BY <2>1 DEF CalmInv
    <3> QED
      BY <2>1, <3>1
      DEF Start, CheckReply, AutoLoginReply, LoginReply, Astray, Sent, NoTask
  <2> QED
    BY <2>1 DEF Start, CheckReply, AutoLoginReply, LoginReply, Astray, Sent
<1>1. CASE Start(k)
  <2> DEFINE task == [tasks[k] EXCEPT !.stage = "sent"]
  <2>1. /\ task \in Task /\ task.kind = tasks[k].kind /\ task.token = tasks[k].token
        /\ task.mine = tasks[k].mine /\ task.stage = "sent"
    BY DEF Types, Task
  <2>2. /\ Become(k, task)
        /\ token' = IF tasks[k].kind = "auto" THEN tasks[k].token ELSE token
    BY <1>1 DEF Start
  <2> HIDE DEF task
  <2>3. tasks'[k] = task
    BY <2>1, <2>2, BecomeType DEF Types
  <2>4. calm => Alone(k)'
    BY <1>0, <2>1, <2>2, <2>3 DEF CalmInv, Alone
  <2> QED
    BY <1>0, <2>1, <2>2, <2>4, EndCalm DEF Free
<1>2. ASSUME NEW r \in Roles, NEW result \in {"ok", "refused", "unreachable"},
             Finished(k, result, r),
             calm /\ result = "ok" /\ tasks[k].kind \in {"auto", "login"} =>
               token' \in Tokens /\ r = RoleOf[token'],
             calm /\ result = "ok" /\ tasks[k].kind = "auto" => token' = tasks[k].token
      PROVE  CalmInv'
  <2>1. PICK task \in Task :
           /\ Become(k, task) /\ tasks'[k] = task
           /\ task.kind = tasks[k].kind /\ task.kind # "none"
           /\ task.token = tasks[k].token /\ task.mine = tasks[k].mine
           /\ task.stage = "finished" /\ task.result = result /\ task.role = r
    BY <1>0, <1>2, FinishedTask
  <2>2. calm => Alone(k)'
    BY <1>0, <1>2, <2>1 DEF CalmInv, Alone
  <2> QED
    BY <1>0, <2>1, <2>2, EndCalm
<1>3. CASE CheckReply(k)
  BY <1>2, <1>3 DEF CheckReply, Sent, Roles
<1>4. CASE AutoLoginReply(k)
  <2>1. /\ tasks[k].kind = "auto"
        /\ calm => tasks[k].token \in Tokens /\ token = tasks[k].token
    BY <1>0, <1>4 DEF AutoLoginReply, Sent, CalmInv, Alone
  <2>2. CASE Finished(k, "ok", RoleOf[tasks[k].token]) /\ token' = token
             /\ tasks[k].token \in accepted
    <3>1. RoleOf[tasks[k].token] \in Roles
      BY <2>2 DEF SessionAssumption, Types, Roles
    <3> QED
      BY <1>2, <2>1, <2>2, <3>1
  <2>3. CASE \E result \in {"refused", "unreachable"} : Finished(k, result, "User")
    BY <1>2, <2>3 DEF Roles
  <2> QED
    BY <1>4, <2>2, <2>3 DEF AutoLoginReply
<1>5. CASE LoginReply(k)
  <2>1. tasks[k].kind = "login"
    BY <1>5 DEF LoginReply, Sent
  <2>2. ASSUME NEW t \in Tokens, token' = t, NEW r \in ReturnedRole(t),
               Finished(k, "ok", r)
        PROVE  CalmInv'
    <3>1. r \in Roles
      BY DEF SessionAssumption, ReturnedRole, Roles
    <3>2. calm => r = RoleOf[t]
      <4>1. SUFFICES ASSUME calm PROVE r = RoleOf[t]
        OBVIOUS
      <4>2. Cardinality(InFlight(tasks)) = 1
        BY <1>0, <4>1, AloneInFlight DEF CalmInv
      <4> QED
        BY <4>2 DEF ReturnedRole
    <3> QED
      BY <1>2, <2>1, <2>2, <3>1, <3>2
  <2>3. CASE \E result \in {"refused", "unreachable"} : Finished(k, result, "User")
    BY <1>2, <2>3 DEF Roles
  <2> QED
    BY <1>5, <2>2, <2>3 DEF LoginReply
<1>6. CASE Astray(k)
  <2>1. ~calm
    BY <1>0, <1>6 DEF Astray, CalmInv, Alone
  <2> QED
    BY <1>2, <1>6, <2>1 DEF Astray
<1> QED
  BY <1>1, <1>3, <1>4, <1>5, <1>6

LEMMA HandlerCalm ==
  ASSUME SessionAssumption, Types, CalmInv, NEW k \in Tasks,
         OnChecked(k) \/ OnAutoLogin(k) \/ OnLogin(k)
  PROVE  CalmInv'
<1> USE DEF screen, pages, settings, server
<1>0. /\ ~Free(k) /\ running' /\ calm' = calm /\ token' = token
      /\ tasks[k].stage = "finished"
  <2>1. CASE OnChecked(k)
    BY <2>1 DEF OnChecked, Handled, Free
  <2>2. CASE OnAutoLogin(k)
    BY <2>2 DEF OnAutoLogin, Handled, Free
  <2>3. CASE OnLogin(k)
    BY <2>3 DEF OnLogin, Handled, Free
  <2> QED
    BY <2>1, <2>2, <2>3
<1>1. NoTask \in Task /\ NoTask.kind = "none" /\ Check \in Task /\ Check.kind = "check"
      /\ Check.mine /\ Check.stage = "sent"
  BY TaskTypes DEF NoTask, Check
<1>2. CASE Become(k, NoTask) /\ authenticated' = authenticated
  <2>1. calm => ~authenticated'
    BY <1>0, <1>2 DEF CalmInv, Alone
  <2> QED
    BY <1>0, <1>1, <1>2, <2>1, EndCalm
<1>3. CASE OnChecked(k) /\ Become(k, AutoLogin(savedToken))
  <2>1. /\ savedToken \in Tokens /\ AutoLogin(savedToken) \in Task
        /\ AutoLogin(savedToken).kind = "auto" /\ AutoLogin(savedToken).mine
        /\ AutoLogin(savedToken).token = savedToken
        /\ AutoLogin(savedToken).stage = "queued"
    <3>1. savedToken \in Tokens
      <4>1. savedToken # NoToken \/ Become(k, NoTask)
        BY <1>3 DEF OnChecked
      <4>2. CASE savedToken = NoToken
        <5>1. AutoLogin(NoToken).kind = "auto"
          BY DEF AutoLogin, NoTask
        <5>2. tasks'[k] = NoTask /\ tasks'[k] = AutoLogin(savedToken)
          BY <1>1, <1>3, <4>1, <4>2, TaskTypes, BecomeType DEF Types
        <5> QED
          BY <1>1, <4>2, <5>1, <5>2
      <4> QED
        BY <4>2 DEF Types
    <3> QED
      BY <3>1, TaskTypes DEF AutoLogin, NoTask
  <2>2. tasks'[k] = AutoLogin(savedToken) /\ authenticated' = authenticated
    BY <1>3, <2>1, BecomeType DEF OnChecked, Types
  <2>3. calm => Alone(k)'
    BY <1>0, <2>1, <2>2 DEF CalmInv, Alone
  <2> QED
    BY <1>0, <1>3, <2>1, <2>3, EndCalm
<1>4. CASE OnAutoLogin(k) /\ Succeeded(k)
  <2>1. /\ Become(k, NoTask) /\ role' = tasks[k].role
    BY <1>4 DEF OnAutoLogin
  <2>2. calm => token' \in Tokens /\ role' = RoleOf[token']
    BY <1>0, <1>4, <2>1 DEF OnAutoLogin, Handled, Succeeded, CalmInv, Alone
  <2> QED
    BY <1>0, <1>1, <2>1, <2>2, EndCalm
<1>5. CASE OnLogin(k) /\ Succeeded(k)
  <2>1. /\ Become(k, NoTask) /\ role' = tasks[k].role
    BY <1>5 DEF OnLogin, Succeeded
  <2>2. calm => token' \in Tokens /\ role' = RoleOf[token']
    BY <1>0, <1>5, <2>1 DEF OnLogin, Handled, Succeeded, CalmInv, Alone
  <2> QED
    BY <1>0, <1>1, <2>1, <2>2, EndCalm
<1>6. CASE OnLogin(k) /\ HandleConnectivityIssue(k) /\ serverConfigured
  <2>1. Become(k, Check) /\ ~authenticated'
    BY <1>6 DEF HandleConnectivityIssue, CheckConnection, Become
  <2>2. tasks'[k] = Check
    BY <1>1, <2>1, BecomeType DEF Types
  <2>3. calm => Alone(k)'
    BY <1>0, <1>1, <2>1, <2>2 DEF CalmInv, Alone
  <2> QED
    BY <1>0, <1>1, <2>1, <2>3, EndCalm
<1> QED
  BY <1>2, <1>3, <1>4, <1>5, <1>6
     DEF OnChecked, OnAutoLogin, OnLogin, HandleConnectivityIssue

\* As long as its futures did not overlap, the session never shows the home page
\* without a token, or with the role of another one.
THEOREM ScreenIsOfToken == Spec => []ScreenMatchesToken
<1>1. SessionAssumption /\ Init => CalmInv /\ PageInv
  BY CalmInit DEF Init, PageInv
<1>2. ASSUME SessionAssumption, TypeOK, TypeOK', PageInv, CalmInv, [Next]_vars
      PROVE  PageInv' /\ CalmInv'
  <2>1. Types /\ Types'
    BY <1>2, TypesAre DEF Types, TypeOK
  <2>2. PageInv'
    BY <1>2, PageNext
  <2>3. ASSUME UNCHANGED vars PROVE CalmInv'
    <3>1. UNCHANGED <<authenticated, role, token, tasks, running, calm>>
      BY <2>3 DEF vars, screen
    <3> QED
      BY <1>2, <3>1 DEF CalmInv, Free, Alone
  <2>4. ASSUME \/ UserForgets \/ End \/ ServerRestart
               \/ \E k \in Tasks : User(k) \/ ViewModelLostConnection(k)
        PROVE  CalmInv'
    BY <1>2, <2>1, <2>4, UserCalm
  <2>5. ASSUME NEW k \in Tasks, Progress(k) PROVE CalmInv'
    BY <1>2, <2>1, <2>5, CallCalm, HandlerCalm DEF Progress
  <2> QED
    BY <1>2, <2>2, <2>3, <2>4, <2>5 DEF Next
<1>3. ASSUME SessionAssumption, PageInv, CalmInv PROVE ScreenMatchesToken
  BY <1>3 DEF PageInv, CalmInv, ScreenMatchesToken, SessionAssumption
<1> QED
  BY <1>1, <1>2, <1>3, TypeCorrect, SessionAssumption, PTL DEF Spec
=============================================================================
