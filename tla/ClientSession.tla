---------------------------- MODULE ClientSession ----------------------------
(***************************************************************************)
(* The client's Session object, the AlexandriaClient it owns, and the      *)
(* settings that outlive the program.                                      *)
(*                                                                         *)
(* Everything but AlexandriaClient runs in the GUI thread: an action of    *)
(* the user, or the handler of a finished future, is one step.  Futures    *)
(* run on the pool and finish in any order; the pages decide what the user *)
(* can do meanwhile (Main.qml, LoginPage.qml, ServerSetupPage.qml).        *)
(*                                                                         *)
(* connectToServer destroys the client object.  A future that still holds  *)
(* it uses freed memory from then on: the program ends, or the future      *)
(* reports whatever it finds there.                                        *)
(***************************************************************************)
EXTENDS Integers, FiniteSets

CONSTANTS
  Tasks,     \* futures that may be in flight at once (a bound)
  Tokens,    \* tokens the server may issue (a bound on the logins)
  NoToken,   \* the empty token
  RoleOf     \* the role of the user each token is issued to

ASSUME SessionAssumption ==
  /\ IsFiniteSet(Tasks)
  /\ NoToken \notin Tokens
  /\ RoleOf \in [Tokens -> {"User", "Admin"}]

Roles == {"User", "Admin"}

VARIABLES
  \* Session
  authenticated, role, busy, serverConfigured, connecting,
  connectionError,   \* whether m_connectionError is not empty
  \* Main.qml
  connectPage,       \* ServerSetupPage is shown
  page,              \* of the two other pages, the one that is shown
  \* AlexandriaClient
  token,             \* m_token
  tasks,             \* the futures in flight
  \* QSettings; m_serverAddress and m_rememberMe are their copies
  address,           \* whether an address is set
  rememberMe, savedToken,
  \* the server
  accepted, issued,  \* tokens it accepts, tokens it ever issued
  \* the program
  running,
  calm               \* since it started, no two of these futures were in
                     \* flight at once

pages == <<connectPage, page>>
screen == <<authenticated, role, busy, serverConfigured, connecting,
            connectionError, pages>>
settings == <<address, rememberMe, savedToken>>
server == <<accepted, issued>>
vars == <<screen, token, tasks, settings, server, running, calm>>

(***************************************************************************)
(* token is the one validateToken was called with; mine tells whether the  *)
(* client the future holds still exists.                                   *)
(***************************************************************************)
Task == [kind : {"none", "check", "auto", "login"},
         stage : {"queued", "sent", "finished"},
         token : Tokens \union {NoToken}, mine : BOOLEAN,
         result : {"none", "ok", "refused", "unreachable"}, role : Roles]

NoTask == [kind |-> "none", stage |-> "queued", token |-> NoToken,
           mine |-> TRUE, result |-> "none", role |-> "User"]
Check == [NoTask EXCEPT !.kind = "check", !.stage = "sent"]
AutoLogin(t) == [NoTask EXCEPT !.kind = "auto", !.token = t]
LoginTask == [NoTask EXCEPT !.kind = "login"]

Free(k) == tasks[k].kind = "none"
Become(k, task) == tasks' = [tasks EXCEPT ![k] = task]
InFlight(all) == {k \in Tasks : all[k].kind # "none"}
Watch == calm' = (calm /\ Cardinality(InFlight(tasks')) <= 1)

-----------------------------------------------------------------------------
(* Main.qml.  A page looks at the session again when the session emits a    *)
(* signal, and not when it changes.                                         *)

MainPage(configured, signedIn) ==
  IF ~configured THEN "none" ELSE IF signedIn THEN "home" ELSE "login"

AuthenticationChanged(signedIn) ==
  page' = MainPage(serverConfigured, signedIn) /\ UNCHANGED connectPage

ServerConfiguredChanged(configured, signedIn) ==
  connectPage' = ~configured /\ page' = MainPage(configured, signedIn)

LoginPage == running /\ page = "login"
HomePage == running /\ page = "home"
\* The Connect button of ServerSetupPage, alone or as a tab of the home page.
SetupPage == running /\ (connectPage \/ page = "home") /\ ~connecting

-----------------------------------------------------------------------------
(* Session, in the GUI thread.                                              *)

\* The button is disabled while busy, the return key is not.
Login(k) ==
  /\ LoginPage /\ Free(k)
  /\ Become(k, LoginTask)
  /\ busy' = TRUE
  /\ Watch
  /\ UNCHANGED <<authenticated, role, serverConfigured, connecting,
                 connectionError, pages, token, settings, server, running>>

Logout ==
  /\ HomePage
  /\ token' = NoToken /\ authenticated' = FALSE /\ role' = "User"
  /\ savedToken' = NoToken
  /\ AuthenticationChanged(FALSE)
  /\ UNCHANGED <<busy, serverConfigured, connecting, connectionError, tasks,
                 address, rememberMe, server, running, calm>>

\* Mutant: the saved token is kept.
SetRememberMeOnly(remember) ==
  /\ LoginPage /\ remember # rememberMe
  /\ rememberMe' = remember
  /\ UNCHANGED <<screen, token, tasks, address, savedToken, server, running,
                 calm>>

SetRememberMe(remember) ==
  /\ LoginPage /\ remember # rememberMe
  /\ rememberMe' = remember
  /\ savedToken' = IF remember THEN savedToken ELSE NoToken
  /\ UNCHANGED <<screen, token, tasks, address, server, running, calm>>

\* checkConnection, in the slot k of a future.
CheckConnection(k, others) ==
  /\ tasks' = [others EXCEPT ![k] = Check]
  /\ connecting' = TRUE /\ connectionError' = FALSE

\* A login looks the client up when the pool starts it.
NoClient(k) == tasks[k].kind \in {"none", "login"} /\ tasks[k].stage = "queued"

ConnectToServer(k) ==
  /\ SetupPage /\ Free(k)
  /\ CheckConnection(k, [j \in Tasks |-> [tasks[j] EXCEPT !.mine = NoClient(j)]])
  /\ address' \in BOOLEAN   \* the return key takes an empty field too
  /\ authenticated' = FALSE /\ token' = NoToken
  /\ AuthenticationChanged(FALSE)
  /\ Watch
  /\ UNCHANGED <<role, busy, serverConfigured, rememberMe, savedToken, server,
                 running>>

\* Mutant: requestServerChange alone.
ReturnToSetup(k) ==
  IF ~serverConfigured
    THEN Become(k, NoTask)
         /\ UNCHANGED <<authenticated, serverConfigured, connecting,
                        connectionError, pages>>
    ELSE /\ authenticated' = FALSE /\ serverConfigured' = FALSE
         /\ ServerConfiguredChanged(FALSE, FALSE)
         /\ connectionError' = FALSE /\ Become(k, NoTask)
         /\ UNCHANGED connecting

\* The check starts in the slot of the future that failed.
HandleConnectivityIssue(k) ==
  IF ~serverConfigured
    THEN Become(k, NoTask)
         /\ UNCHANGED <<authenticated, serverConfigured, connecting,
                        connectionError, pages>>
    ELSE /\ authenticated' = FALSE /\ serverConfigured' = FALSE
         /\ ServerConfiguredChanged(FALSE, FALSE)
         /\ CheckConnection(k, tasks)

\* A future of another view model ends with a connectivity error.
ViewModelLostConnection(k) ==
  /\ running /\ serverConfigured /\ Free(k)
  /\ HandleConnectivityIssue(k)
  /\ Watch
  /\ UNCHANGED <<role, busy, token, settings, server, running>>

Handled(k, kind) ==
  running /\ tasks[k].kind = kind /\ tasks[k].stage = "finished"
Succeeded(k) == tasks[k].result = "ok"

OnChecked(k) ==
  /\ Handled(k, "check")
  /\ connecting' = FALSE
  /\ \/ /\ ~Succeeded(k)
        /\ serverConfigured' = FALSE /\ connectionError' = TRUE
        /\ Become(k, NoTask)
        /\ UNCHANGED <<busy, pages>>   \* serverConfiguredChanged is not emitted
     \/ /\ Succeeded(k)
        /\ serverConfigured' = TRUE
        /\ ServerConfiguredChanged(TRUE, authenticated)
        /\ IF rememberMe /\ savedToken # NoToken
             THEN Become(k, AutoLogin(savedToken)) /\ busy' = TRUE
             ELSE Become(k, NoTask) /\ UNCHANGED busy
        /\ UNCHANGED connectionError
  /\ UNCHANGED <<authenticated, role, token, settings, server, running, calm>>

\* Mutant: a refused token returns before setBusy(false).
OnAutoLoginEarly(k) ==
  /\ Handled(k, "auto")
  /\ Become(k, NoTask)
  /\ \/ /\ ~Succeeded(k)
        /\ savedToken' = NoToken
        /\ UNCHANGED <<authenticated, role, busy, pages>>
     \/ /\ Succeeded(k)
        /\ authenticated' = TRUE /\ role' = tasks[k].role /\ busy' = FALSE
        /\ AuthenticationChanged(TRUE)
        /\ UNCHANGED savedToken
  /\ UNCHANGED <<serverConfigured, connecting, connectionError, token, address,
                 rememberMe, server, running, calm>>

OnAutoLogin(k) ==
  /\ Handled(k, "auto")
  /\ Become(k, NoTask)
  /\ busy' = FALSE
  /\ \/ /\ ~Succeeded(k)
        /\ savedToken' = NoToken
        /\ UNCHANGED <<authenticated, role, pages>>
     \/ /\ Succeeded(k)
        /\ authenticated' = TRUE /\ role' = tasks[k].role
        /\ AuthenticationChanged(TRUE)
        /\ UNCHANGED savedToken
  /\ UNCHANGED <<serverConfigured, connecting, connectionError, token, address,
                 rememberMe, server, running, calm>>

\* saveToken takes whatever the client holds by now.
OnLogin(k) ==
  /\ Handled(k, "login")
  /\ busy' = FALSE
  /\ \/ /\ Succeeded(k)
        /\ Become(k, NoTask)
        /\ authenticated' = TRUE /\ role' = tasks[k].role
        /\ AuthenticationChanged(TRUE)
        /\ savedToken' = IF rememberMe THEN token ELSE savedToken
        /\ UNCHANGED <<serverConfigured, connecting, connectionError>>
     \/ /\ tasks[k].result = "unreachable"
        /\ HandleConnectivityIssue(k)
        /\ UNCHANGED <<role, savedToken>>
     \/ /\ tasks[k].result = "refused"
        /\ Become(k, NoTask)
        /\ UNCHANGED <<authenticated, role, serverConfigured, connecting,
                       connectionError, pages, savedToken>>
  /\ UNCHANGED <<token, address, rememberMe, server, running, calm>>

-----------------------------------------------------------------------------
(* AlexandriaClient, on the pool, and the server's side of its calls.       *)

GuiUnchanged == UNCHANGED <<screen, settings, running, calm>>
Sent(k, kind) == running /\ tasks[k].kind = kind /\ tasks[k].stage = "sent"
Finished(k, result, r) ==
  Become(k, [tasks[k] EXCEPT !.stage = "finished", !.result = result, !.role = r])

\* The pool starts the future; validateToken puts its token into the client.
Start(k) ==
  /\ running /\ ~Free(k) /\ tasks[k].stage = "queued"
  /\ tasks[k].mine
  /\ Become(k, [tasks[k] EXCEPT !.stage = "sent"])
  /\ token' = IF tasks[k].kind = "auto" THEN tasks[k].token ELSE token
  /\ UNCHANGED server /\ GuiUnchanged

CheckReply(k) ==
  /\ Sent(k, "check") /\ tasks[k].mine
  /\ \E result \in {"ok", "unreachable"} : Finished(k, result, "User")
  /\ UNCHANGED <<token, server>> /\ GuiUnchanged

\* Whatever fails, the client's token is cleared.
AutoLoginReply(k) ==
  /\ Sent(k, "auto") /\ tasks[k].mine
  /\ \/ /\ tasks[k].token \in accepted
        /\ Finished(k, "ok", RoleOf[tasks[k].token])
        /\ UNCHANGED token
     \/ /\ \/ Finished(k, "unreachable", "User")
           \/ tasks[k].token \notin accepted /\ Finished(k, "refused", "User")
        /\ token' = NoToken
  /\ UNCHANGED server /\ GuiUnchanged

\* The server stores a session for a login it accepts, also if its reply is
\* lost.
Server == INSTANCE TokenServer
Issue(t) == Server!Issue(t)
\* The role returned is read again without the lock: with another future in
\* flight it may be the one that stored.
ReturnedRole(t) == IF Cardinality(InFlight(tasks)) > 1 THEN Roles ELSE {RoleOf[t]}

\* Mutant: the token in the reply is not stored.
LoginReplyRoleOnly(k) ==
  /\ Sent(k, "login") /\ tasks[k].mine
  /\ \/ \E t \in Tokens \ issued :
          /\ Issue(t)
          /\ \/ \E r \in ReturnedRole(t) : Finished(k, "ok", r)
             \/ Finished(k, "unreachable", "User")
     \/ /\ \E result \in {"refused", "unreachable"} : Finished(k, result, "User")
        /\ UNCHANGED server
  /\ UNCHANGED token /\ GuiUnchanged

LoginReply(k) ==
  /\ Sent(k, "login") /\ tasks[k].mine
  /\ \/ \E t \in Tokens \ issued :
          /\ Issue(t)
          /\ \/ token' = t /\ \E r \in ReturnedRole(t) : Finished(k, "ok", r)
             \/ Finished(k, "unreachable", "User") /\ UNCHANGED token
     \/ /\ \E result \in {"refused", "unreachable"} : Finished(k, result, "User")
        /\ UNCHANGED <<token, server>>
  /\ GuiUnchanged

ServerRestart ==
  /\ Server!Restart
  /\ UNCHANGED <<token, tasks>> /\ GuiUnchanged

-----------------------------------------------------------------------------
(* The program.                                                             *)

AtStart ==
  /\ authenticated' = FALSE /\ role' = "User" /\ busy' = FALSE
  /\ serverConfigured' = FALSE /\ token' = NoToken /\ calm' = TRUE
  /\ ServerConfiguredChanged(FALSE, FALSE)

\* The constructor of Session.
Launch(k) ==
  /\ ~running /\ running' = TRUE
  /\ AtStart
  /\ IF address
       THEN CheckConnection(k, tasks)
       ELSE UNCHANGED <<tasks, connecting, connectionError>>
  /\ UNCHANGED <<settings, server>>

End ==
  /\ running /\ running' = FALSE
  /\ AtStart
  /\ connecting' = FALSE /\ connectionError' = FALSE
  /\ tasks' = [k \in Tasks |-> NoTask]
  /\ UNCHANGED <<settings, server>>

\* The future of a destroyed client: if the program survives, any result.
Astray(k) ==
  /\ running /\ ~tasks[k].mine /\ tasks[k].stage # "finished"
  /\ \E result \in {"ok", "refused", "unreachable"}, r \in Roles :
       Finished(k, result, r)
  /\ UNCHANGED <<token, server>> /\ GuiUnchanged

Init ==
  /\ authenticated = FALSE /\ role = "User" /\ busy = FALSE
  /\ serverConfigured = FALSE /\ connecting = FALSE /\ connectionError = FALSE
  /\ connectPage = TRUE /\ page = "none"
  /\ token = NoToken /\ tasks = [k \in Tasks |-> NoTask]
  /\ address = FALSE /\ rememberMe = FALSE /\ savedToken = NoToken
  /\ accepted = {} /\ issued = {}
  /\ running = FALSE /\ calm = TRUE

UserForgets == Logout \/ \E remember \in BOOLEAN : SetRememberMe(remember)
User(k) == Login(k) \/ ConnectToServer(k) \/ Launch(k)

\* The pool and the event loop go on with a future.
Progress(k) ==
  \/ Start(k) \/ CheckReply(k) \/ AutoLoginReply(k) \/ LoginReply(k)
  \/ Astray(k)
  \/ OnChecked(k) \/ OnAutoLogin(k) \/ OnLogin(k)

Next ==
  \/ UserForgets \/ End \/ ServerRestart
  \/ \E k \in Tasks : User(k) \/ ViewModelLostConnection(k) \/ Progress(k)

Spec == Init /\ [][Next]_vars

(***************************************************************************)
(* The pool runs every future and the event loop every handler.  A call    *)
(* has no deadline, except checkConnection's three seconds: that it ends   *)
(* relies on the transport to report a dead connection.                    *)
(***************************************************************************)
LiveSpec == Spec /\ \A k \in Tasks : WF_vars(Progress(k))

-----------------------------------------------------------------------------
(* Properties.                                                              *)

\* The session, its futures and the settings have the types of the code; a
\* token is on disk only while the user wants it to be, whatever finishes after
\* the box was unticked (Session.cpp:78-89 and :105-112).
TypeOK ==
  /\ {authenticated, busy, serverConfigured, connecting, connectionError,
      connectPage, address, rememberMe, running, calm} \subseteq BOOLEAN
  /\ page \in {"none", "login", "home"}
  /\ role \in Roles
  /\ {token, savedToken} \subseteq Tokens \union {NoToken}
  /\ tasks \in [Tasks -> Task]
  /\ accepted \subseteq issued /\ issued \subseteq Tokens
  /\ savedToken # NoToken => rememberMe

\* Outside of a connection attempt, the page that asks for an address says why
\* the last attempt failed: whatever is lost or checked twice, the user is never
\* left there without an attempt and without a reason (Session.cpp:140-197).
ReasonShown ==
  running /\ address /\ connectPage /\ ~connecting => connectionError

\* As long as the session's futures did not overlap, the home page is that of a
\* user whose token the client holds, with the role the token was issued with
\* (Session.cpp:163-286, AlexandriaClient.cpp:92-122 and :357-381).
ScreenMatchesToken ==
  calm /\ page = "home" =>
    authenticated /\ token # NoToken /\ role = RoleOf[token]

\* Both the login and the connection page become usable again, also when
\* futures overlap, fail or outlive their client.
SpinnersEnd == (busy ~> ~busy) /\ (connecting ~> ~connecting)

\* "It also detects server connectivity loss during normal use (not just at
\* login) and automatically returns to the reconnect screen" (README.md:46): a
\* login that cannot reach the server leaves the user on that screen.
ReconnectScreen ==
  [][\A k \in Tasks :
       OnLogin(k) /\ tasks[k].result = "unreachable" => connectPage']_vars
=============================================================================
