--------------------------- MODULE ServerLifecycle ---------------------------
(***************************************************************************)
(* The server process from main to its end: the migration of the database  *)
(* file, statement by statement; the start of the gRPC server; and the two *)
(* ways to stop it, RunServer's console and desktop mode, with the threads *)
(* each of them makes.  What the calls do is the other modules' matter.    *)
(*                                                                         *)
(* grpc::Server is external: Shutdown without a deadline ends no call, it  *)
(* waits for those in progress; a second Shutdown waits for the first one; *)
(* Wait returns when a Shutdown is through.  Once main has blocked them,   *)
(* signals stay pending until the signal thread takes them: that no thread *)
(* of a library takes one first is assumed.                                *)
(***************************************************************************)
EXTENDS Integers, Sequences

CONSTANTS
  Columns,   \* the columns ALTER TABLE adds to books, in that order
  MaxCalls,  \* calls in progress at once (a bound)
  MaxQuits   \* requests to stop one process (a bound)

ASSUME LifecycleAssumption ==
  /\ Columns \in Seq({Columns[i] : i \in DOMAIN Columns})
  /\ MaxCalls \in Nat /\ MaxQuits \in Nat

VARIABLES
  \* the database file
  hasBooks, hasUsers,
  columns,     \* those of Columns that books has
  \* main
  main,
  next,        \* the ALTER TABLE it is at
  failed,      \* booksOk is false
  \* the threads of RunServer
  signalThread, waitThread,
  quitPosted,  \* app.quit() was called or queued
  \* gRPC
  server, calls,
  \* the environment
  pending,     \* signals sent and not yet taken
  \* of this process
  desktop,     \* it shows a tray icon
  faulted,     \* a statement of its migration failed
  quits,       \* requests to stop it
  stray        \* what a thread used after it was gone

file == <<hasBooks, hasUsers, columns>>
threads == <<signalThread, waitThread, quitPosted>>
grpc == <<server, calls>>
process == <<desktop, faulted, quits, stray>>
vars == <<file, main, next, failed, threads, grpc, pending, process>>

Added == {Columns[i] : i \in DOMAIN Columns}
\* Every return of main and every crash: nothing of a process outlives it.
Gone ==
  /\ main' = "down" /\ next' = 1 /\ failed' = FALSE
  /\ signalThread' = "none" /\ waitThread' = "none" /\ quitPosted' = FALSE
  /\ server' = "none" /\ calls' = 0 /\ pending' = 0
  /\ desktop' = FALSE /\ faulted' = FALSE /\ quits' = 0 /\ stray' = {}

-----------------------------------------------------------------------------
(* Database::migrate.  A statement may fail, and the process may end        *)
(* between any two.                                                         *)

MigrationUnchanged == UNCHANGED <<threads, grpc, pending, desktop, quits, stray>>

CreateBooks ==
  /\ main = "books"
  /\ \/ /\ hasBooks' = TRUE /\ failed' = FALSE
        /\ columns' = IF hasBooks THEN columns ELSE Added
        /\ UNCHANGED <<hasUsers, faulted>>
     \/ /\ failed' = TRUE /\ faulted' = TRUE
        /\ UNCHANGED file
  /\ main' = "alter" /\ next' = 1
  /\ MigrationUnchanged

\* Mutant: a table with the first column is taken for one with all of them.
SkipUpgraded == IF next = 1 /\ Columns[1] \in columns THEN Len(Columns) ELSE next
AlterFrom == next

\* Whether it succeeds is not looked at: mostly the column is there already.
AlterBooks ==
  /\ main = "alter" /\ next <= Len(Columns)
  /\ \/ /\ columns' = IF hasBooks THEN columns \union {Columns[AlterFrom]} ELSE columns
        /\ UNCHANGED faulted
     \/ faulted' = TRUE /\ UNCHANGED columns
  /\ next' = AlterFrom + 1
  /\ UNCHANGED <<hasBooks, hasUsers, main, failed>>
  /\ MigrationUnchanged

\* A failed migration ends main.
CreateUsers ==
  /\ main = "alter" /\ next > Len(Columns)
  /\ \/ /\ hasUsers' = TRUE
        /\ \/ failed /\ Gone
           \/ /\ ~failed /\ main' = "build"
              /\ UNCHANGED <<next, failed, faulted>> /\ MigrationUnchanged
     \/ Gone /\ UNCHANGED hasUsers
  /\ UNCHANGED <<hasBooks, columns>>

-----------------------------------------------------------------------------
(* main, runServerHeadless and runServerWithTray.                           *)

Launch ==
  /\ main = "down" /\ main' = "books"
  /\ UNCHANGED <<file, next, failed, threads, grpc, pending, process>>

\* The port may be taken.  The server serves from here on, and a signal still
\* ends the process.
BuildAndStart ==
  /\ main = "build"
  /\ \/ /\ main' = "started" /\ server' = "serving"
        /\ UNCHANGED <<next, failed, threads, calls, pending, process>>
     \/ Gone
  /\ UNCHANGED file

\* Signals are blocked, then the threads are made, which start when they do.
RunServer ==
  /\ main = "started"
  /\ desktop' \in BOOLEAN
  /\ main' = IF desktop' THEN "exec" ELSE "wait"
  /\ signalThread' = "starting"
  /\ waitThread' = IF desktop' THEN "wait" ELSE "none"
  /\ UNCHANGED <<file, next, failed, quitPosted, grpc, pending, faulted, quits,
                 stray>>

\* server->Shutdown(), up to the point where it waits.
Shutdown == server' = IF server = "serving" THEN "draining" ELSE server
MainUnchanged ==
  UNCHANGED <<file, next, failed, signalThread, waitThread, calls, pending,
              desktop, faulted, stray>>

\* runServerHeadless: Wait, then join.
WaitReturns ==
  /\ main = "wait" /\ server = "stopped" /\ main' = "join"
  /\ UNCHANGED <<server, quitPosted, quits>> /\ MainUnchanged

JoinSignalThread ==
  /\ main = "join" /\ signalThread = "done" /\ main' = "leave"
  /\ UNCHANGED <<server, quitPosted, quits>> /\ MainUnchanged

\* runServerWithTray: Quit in the tray's menu holds the GUI thread in Shutdown.
Quit ==
  /\ main = "exec" /\ quits < MaxQuits /\ quits' = quits + 1
  /\ main' = "quitting" /\ Shutdown
  /\ UNCHANGED quitPosted /\ MainUnchanged

\* Mutant: the menu only stops the server.
QuitShutDownOnly ==
  /\ main = "quitting" /\ server = "stopped"
  /\ main' = "exec"
  /\ UNCHANGED <<quitPosted, server, quits>> /\ MainUnchanged

QuitShutDown ==
  /\ main = "quitting" /\ server = "stopped"
  /\ main' = "exec" /\ quitPosted' = TRUE
  /\ UNCHANGED <<server, quits>> /\ MainUnchanged

\* The desktop ends the session, without the menu.
DesktopQuit ==
  /\ main = "exec" /\ quits < MaxQuits /\ quits' = quits + 1
  /\ quitPosted' = TRUE
  /\ UNCHANGED <<main, server>> /\ MainUnchanged

\* Mutant: nothing is stopped after the event loop.
ExecReturnsAtOnce ==
  /\ main = "exec" /\ quitPosted
  /\ main' = "leave"
  /\ UNCHANGED <<server, quitPosted, quits>> /\ MainUnchanged

ExecReturns ==
  /\ main = "exec" /\ quitPosted
  /\ main' = "lastShutdown" /\ Shutdown
  /\ UNCHANGED <<quitPosted, quits>> /\ MainUnchanged

JoinWaitThread ==
  /\ main = "lastShutdown" /\ server = "stopped" /\ waitThread = "done"
  /\ main' = "leave"
  /\ UNCHANGED <<server, quitPosted, quits>> /\ MainUnchanged

\* main returns: server, services and database are destroyed, the process ends.
Destroy ==
  /\ main = "leave" /\ main' = "destroyed" /\ server' = "none"
  /\ UNCHANGED <<quitPosted, quits>> /\ MainUnchanged

Exit == main = "destroyed" /\ Gone /\ UNCHANGED file

MainStep ==
  \/ CreateBooks \/ AlterBooks \/ CreateUsers \/ BuildAndStart \/ RunServer
  \/ WaitReturns \/ JoinSignalThread \/ QuitShutDown \/ ExecReturns
  \/ JoinWaitThread \/ Destroy \/ Exit

-----------------------------------------------------------------------------
(* The other threads of RunServer.                                          *)

\* The server and the application.
Touch == stray' = IF main = "destroyed" THEN stray \union {"server"} ELSE stray
ThreadUnchanged ==
  UNCHANGED <<file, main, next, failed, waitThread, calls, desktop, faulted,
              quits>>

\* It reads the signals to wait for from the frame that made it.  In desktop mode
\* main may have left that by then, and the thread waits for whatever it finds.
SignalStarts ==
  /\ signalThread = "starting"
  /\ IF main \in {"leave", "destroyed"}
       THEN signalThread' \in {"sigwait", "shutdown"}
            /\ stray' = stray \union {"signalSet"}
       ELSE signalThread' = "sigwait" /\ UNCHANGED stray
  /\ UNCHANGED <<server, pending, quitPosted>> /\ ThreadUnchanged

Sigwait ==
  /\ signalThread = "sigwait" /\ pending > 0
  /\ pending' = pending - 1 /\ signalThread' = "shutdown"
  /\ UNCHANGED <<server, quitPosted, stray>> /\ ThreadUnchanged

\* Mutant: the event loop is told to quit before the server has stopped.
QuitsAtOnce == desktop
QuitsAlready == FALSE

SignalShutdown ==
  /\ signalThread = "shutdown" /\ signalThread' = "draining"
  /\ Shutdown /\ Touch
  /\ quitPosted' = (quitPosted \/ QuitsAlready)
  /\ UNCHANGED pending /\ ThreadUnchanged

\* Mutant: the console's thread posts app.quit() too.
PostsAlways == TRUE
PostsQuit == desktop

\* In desktop mode it posts app.quit(); main joins it in console mode only.
SignalDone ==
  /\ signalThread = "draining" /\ server \in {"stopped", "none"}
  /\ signalThread' = "done"
  /\ quitPosted' = (quitPosted \/ PostsQuit) /\ Touch
  /\ UNCHANGED <<server, pending>> /\ ThreadUnchanged

SignalStep == SignalStarts \/ Sigwait \/ SignalShutdown \/ SignalDone

WaitThreadReturns ==
  /\ waitThread = "wait" /\ server = "stopped" /\ waitThread' = "done"
  /\ UNCHANGED <<file, main, next, failed, signalThread, quitPosted, grpc,
                 pending, process>>

-----------------------------------------------------------------------------
(* grpc::Server.                                                            *)

GrpcUnchanged == UNCHANGED <<file, main, next, failed, threads, pending, process>>

CallArrives ==
  /\ server = "serving" /\ calls < MaxCalls
  /\ calls' = calls + 1 /\ UNCHANGED server /\ GrpcUnchanged

CallEnds == calls > 0 /\ calls' = calls - 1 /\ UNCHANGED server /\ GrpcUnchanged

Drained ==
  /\ server = "draining" /\ calls = 0
  /\ server' = "stopped" /\ UNCHANGED calls /\ GrpcUnchanged

-----------------------------------------------------------------------------
(* The environment.                                                         *)

Blocked == main \notin {"down", "books", "alter", "build", "started"}

\* SIGINT or SIGTERM; until main has blocked them it ends the process.
Signal ==
  /\ main # "down"
  /\ IF Blocked
       THEN /\ quits < MaxQuits /\ quits' = quits + 1 /\ pending' = pending + 1
            /\ UNCHANGED <<main, next, failed, threads, grpc, desktop, faulted,
                           stray>>
       ELSE Gone
  /\ UNCHANGED file

Crash == main # "down" /\ Gone /\ UNCHANGED file

\* A file of any version of the program, or none.
Init ==
  /\ hasBooks \in BOOLEAN /\ hasUsers \in BOOLEAN
  /\ columns \in SUBSET (IF hasBooks THEN Added ELSE {})
  /\ main = "down" /\ next = 1 /\ failed = FALSE
  /\ signalThread = "none" /\ waitThread = "none" /\ quitPosted = FALSE
  /\ server = "none" /\ calls = 0 /\ pending = 0
  /\ desktop = FALSE /\ faulted = FALSE /\ quits = 0 /\ stray = {}

Next ==
  \/ Launch \/ MainStep \/ SignalStep \/ WaitThreadReturns
  \/ Quit \/ DesktopQuit \/ Signal \/ Crash
  \/ CallArrives \/ CallEnds \/ Drained

Spec == Init /\ [][Next]_vars

\* Every thread is scheduled, and every call and every Shutdown ends.
LiveSpec ==
  /\ Spec
  /\ WF_vars(MainStep) /\ WF_vars(SignalStep) /\ WF_vars(WaitThreadReturns)
  /\ WF_vars(CallEnds) /\ WF_vars(Drained)

-----------------------------------------------------------------------------
(* Properties.                                                              *)

\* The process has the types of the code, threads only while it runs, and an
\* event loop to quit only in desktop mode.
TypeOK ==
  /\ {hasBooks, hasUsers, failed, quitPosted, desktop, faulted} \subseteq BOOLEAN
  /\ stray \subseteq {"signalSet", "server"}
  /\ columns \subseteq (IF hasBooks THEN Added ELSE {})
  /\ main \in {"down", "books", "alter", "build", "started", "wait", "join",
               "exec", "quitting", "lastShutdown", "leave", "destroyed"}
  /\ next \in 1 .. Len(Columns) + 1
  /\ signalThread \in
       {"none", "starting", "sigwait", "shutdown", "draining", "done"}
  /\ waitThread \in {"none", "wait", "done"}
  /\ server \in {"none", "serving", "draining", "stopped"}
  /\ calls \in 0 .. MaxCalls
  /\ quits \in 0 .. MaxQuits /\ pending \in 0 .. quits
  /\ main = "down" => server = "none" /\ signalThread = "none"
  /\ quitPosted => desktop

\* A server that serves has its tables; and it has all their columns if no
\* statement failed in this start, from whatever version the file is and
\* wherever earlier migrations of it failed or were cut off (Database.cpp:24-58).
SchemaComplete ==
  server # "none" =>
    /\ hasBooks /\ hasUsers
    /\ ~faulted => columns = Added

\* "performs the same graceful shutdown" (README.md:169): whatever made main
\* return, a signal, the menu, the desktop or several of them, no call is in
\* progress when the services it runs on are destroyed (RunServer.cpp:24 and
\* :167).
NoCallCut == main \in {"leave", "destroyed"} => calls = 0

\* The signal thread is detached with pointers to the server and to the
\* application: a process that was asked to stop only once never lets it use
\* them when they are gone, if it had got as far as to wait for signals when
\* main left the function that made it (RunServer.cpp:153-159 and :165-168).
NoStrayThread == quits <= 1 /\ "signalSet" \notin stray => "server" \notin stray

\* A process that serves and was asked to stop ends, in either mode, however
\* often and in whatever order it was asked: its threads never wait for one
\* another (RunServer.cpp:9-29 and :136-168).
Ends == quits > 0 ~> main = "down"
=============================================================================
