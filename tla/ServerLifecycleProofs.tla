------------------------ MODULE ServerLifecycleProofs ------------------------
(***************************************************************************)
(* Theorems about ServerLifecycle, for any columns, any number of calls    *)
(* and any number of requests to stop: everything its run checks but that  *)
(* the process ends.                                                       *)
(***************************************************************************)
EXTENDS ServerLifecycle, TLAPS

Starting == {"down", "books", "alter", "build", "started"}
Desktop == {"exec", "quitting", "lastShutdown"}

\* Which threads there are while main is where.
Placed ==
  /\ main \in Starting =>
       /\ signalThread = "none" /\ waitThread = "none"
       /\ quits = 0 /\ ~desktop /\ stray = {}
  /\ main \notin Starting => signalThread # "none"
  /\ main \in {"wait", "join"} => ~desktop
  /\ main \in Desktop => desktop

\* The server stops serving only when asked to, is stopped when it has no calls,
\* and whoever waited for that saw it stopped.
Served ==
  /\ main \in {"down", "books", "alter", "build", "destroyed"} <=> server = "none"
  /\ server \in {"none", "stopped"} => calls = 0
  /\ server = "draining" => quits > 0
  /\ server = "stopped" => quits > 0
  /\ main \in {"join", "leave"} => server = "stopped"
  /\ signalThread = "done" => server \in {"stopped", "none"}
  /\ waitThread = "done" => server \in {"stopped", "none"}
  /\ main \in {"leave", "destroyed"} /\ ~desktop => signalThread = "done"
  /\ "signalSet" \in stray => main \in {"leave", "destroyed"}

\* Each request to stop is spent once: on a signal that is pending or was taken,
\* or on a quit.  A process asked only once, by a signal, leaves its event loop
\* no sooner than the signal thread is through, if that thread started in time.
SignalActive == signalThread \in {"shutdown", "draining"}
InTime == "signalSet" \notin stray
Taken == IF signalThread \in {"none", "starting", "sigwait"} THEN 0 ELSE 1
Asked ==
  /\ InTime => pending + Taken <= quits
  /\ quits = 0 => ~quitPosted /\ main \notin {"quitting", "join"}
  /\ main \in {"lastShutdown", "leave", "destroyed"} => quits > 0
  /\ InTime /\ desktop /\ quits <= 1 /\ (pending > 0 \/ SignalActive)
       => ~quitPosted /\ main = "exec"

\* The migration has done what comes before the statement it is at.
Migrated ==
  /\ failed => faulted
  /\ main = "alter" =>
       /\ ~failed => hasBooks
       /\ ~faulted => \A i \in 1 .. next - 1 : Columns[i] \in columns
  /\ main \notin {"down", "books", "alter"} =>
       /\ hasBooks /\ hasUsers
       /\ ~faulted => columns = Added

LifecycleInv ==
  TypeOK /\ Placed /\ Served /\ Asked /\ Migrated /\ NoStrayThread

LEMMA ColumnCount ==
  Len(Columns) \in Nat /\ DOMAIN Columns = 1 .. Len(Columns)
<1> DEFINE S == {Columns[i] : i \in DOMAIN Columns}
<1> HIDE DEF S
<1>1. Columns \in Seq(S)
  BY LifecycleAssumption DEF S
<1> QED
  BY <1>1

LEMMA Bounds == MaxCalls \in Nat /\ MaxQuits \in Nat
BY LifecycleAssumption

\* Where every process ends and, with some file, where it begins.
LEMMA GoneStep ==
  ASSUME Gone, columns' \subseteq (IF hasBooks' THEN Added ELSE {}),
         hasBooks' \in BOOLEAN, hasUsers' \in BOOLEAN
  PROVE  LifecycleInv'
<1>1. TypeOK'
  <2>1. ({hasBooks, hasUsers, failed, quitPosted, desktop, faulted}
           \subseteq BOOLEAN)'
    BY DEF Gone
  <2>2. (columns \subseteq (IF hasBooks THEN Added ELSE {}))'
    OBVIOUS
  <2>3. (next \in 1 .. Len(Columns) + 1)'
    BY ColumnCount DEF Gone
  <2>4. (/\ calls \in 0 .. MaxCalls
         /\ quits \in 0 .. MaxQuits /\ pending \in 0 .. quits)'
    BY Bounds DEF Gone
  <2> QED
    BY <2>1, <2>2, <2>3, <2>4, Zenon DEF TypeOK, Gone
<1>2. (Placed /\ Served /\ Asked /\ Migrated /\ NoStrayThread)'
  BY DEF Gone, Placed, Served, Asked, Migrated, NoStrayThread, Starting,
     Desktop, SignalActive, InTime, Taken
<1> QED
  BY <1>1, <1>2 DEF LifecycleInv

LEMMA Ended == ASSUME LifecycleInv, Gone, UNCHANGED file PROVE LifecycleInv'
<1>1. /\ columns' \subseteq (IF hasBooks' THEN Added ELSE {})
      /\ hasBooks' \in BOOLEAN /\ hasUsers' \in BOOLEAN
  BY DEF LifecycleInv, TypeOK, file
<1> QED
  BY <1>1, GoneStep

LEMMA LifecycleInit == Init => LifecycleInv
<1> SUFFICES ASSUME Init PROVE LifecycleInv
  OBVIOUS
<1>1. TypeOK
  <2>1. {hasBooks, hasUsers, failed, quitPosted, desktop, faulted}
          \subseteq BOOLEAN
    BY DEF Init
  <2>2. columns \subseteq (IF hasBooks THEN Added ELSE {})
    BY DEF Init
  <2>3. next \in 1 .. Len(Columns) + 1
    BY ColumnCount DEF Init
  <2>4. /\ calls \in 0 .. MaxCalls
        /\ quits \in 0 .. MaxQuits /\ pending \in 0 .. quits
    BY Bounds DEF Init
  <2> QED
    BY <2>1, <2>2, <2>3, <2>4, Zenon DEF TypeOK, Init
<1>2. Placed /\ Served /\ Asked /\ Migrated /\ NoStrayThread
  BY DEF Init, Placed, Served, Asked, Migrated, NoStrayThread, Starting,
     Desktop, SignalActive, InTime, Taken
<1> QED
  BY <1>1, <1>2 DEF LifecycleInv

\* The statements of the migration touch the file and main's own variables.
Steady == UNCHANGED <<signalThread, waitThread, quitPosted, server, calls,
                      pending, desktop, quits, stray>>

LEMMA MigrationFrame ==
  ASSUME LifecycleInv, Steady,
         main \in {"books", "alter"}, main' \in {"alter", "build"},
         {hasBooks', hasUsers', failed', faulted'} \subseteq BOOLEAN,
         columns' \subseteq (IF hasBooks' THEN Added ELSE {}),
         next' \in 1 .. Len(Columns) + 1,
         Migrated'
  PROVE  LifecycleInv'
<1>1. TypeOK'
  BY Zenon DEF LifecycleInv, TypeOK, Steady
<1>2. (Placed /\ Served /\ Asked /\ NoStrayThread)'
  BY DEF LifecycleInv, TypeOK, Placed, Served, Asked, NoStrayThread, Starting,
     Desktop, SignalActive, InTime, Taken, Steady
<1> QED
  BY <1>1, <1>2 DEF LifecycleInv

LEMMA MigrationStep ==
  ASSUME LifecycleInv, CreateBooks \/ AlterBooks \/ CreateUsers
  PROVE  LifecycleInv'
<1> USE DEF MigrationUnchanged, file, threads, grpc, process
<1>0. /\ {hasBooks, hasUsers, failed, faulted} \subseteq BOOLEAN
      /\ columns \subseteq (IF hasBooks THEN Added ELSE {})
      /\ next \in 1 .. Len(Columns) + 1 /\ Len(Columns) \in Nat
      /\ Migrated
  BY ColumnCount DEF LifecycleInv, TypeOK
<1>1. CASE CreateBooks
  <2>1. /\ Steady /\ main = "books" /\ main' = "alter" /\ next' = 1
        /\ hasUsers' = hasUsers
    BY <1>1 DEF CreateBooks, Steady
  <2>2. {hasBooks', failed', faulted'} \subseteq BOOLEAN
    BY <1>0, <1>1 DEF CreateBooks
  <2>3. columns' \subseteq (IF hasBooks' THEN Added ELSE {})
    BY <1>0, <1>1 DEF CreateBooks
  <2>4. Migrated'
    BY <1>0, <1>1 DEF CreateBooks, Migrated
  <2> QED
    BY <1>0, <2>1, <2>2, <2>3, <2>4, MigrationFrame
<1>2. CASE AlterBooks
  <2>1. /\ Steady /\ main = "alter" /\ main' = "alter" /\ next' = next + 1
        /\ next \in 1 .. Len(Columns)
        /\ hasBooks' = hasBooks /\ hasUsers' = hasUsers /\ failed' = failed
    BY <1>0, <1>2 DEF AlterBooks, AlterFrom, Steady
  <2>2. faulted' \in BOOLEAN
    BY <1>0, <1>2 DEF AlterBooks
  <2>3. columns' \subseteq (IF hasBooks' THEN Added ELSE {})
    BY <1>0, <1>2, <2>1, ColumnCount DEF AlterBooks, AlterFrom, Added
  <2>4. Migrated'
    BY <1>0, <1>2, <2>1 DEF AlterBooks, AlterFrom, Migrated
  <2> QED
    BY <1>0, <2>1, <2>2, <2>3, <2>4, MigrationFrame
<1>3. CASE CreateUsers
  <2>1. CASE Gone
    <3>1. /\ columns' = columns /\ hasBooks' = hasBooks
          /\ hasUsers' \in BOOLEAN
      BY <1>0, <1>3 DEF CreateUsers
    <3> QED
      BY <1>0, <2>1, <3>1, GoneStep
  <2>2. CASE /\ hasUsers' = TRUE /\ ~failed /\ main' = "build"
             /\ UNCHANGED <<next, failed, faulted, hasBooks, columns>>
             /\ MigrationUnchanged
    <3>1. Steady /\ main = "alter" /\ next > Len(Columns)
      BY <1>3, <2>2 DEF CreateUsers, Steady
    <3>2. ~faulted => columns = Added
      BY <1>0, <2>2, <3>1, ColumnCount DEF Migrated, Added
    <3>3. Migrated'
      BY <1>0, <2>2, <3>1, <3>2 DEF Migrated, Added
    <3> QED
      BY <1>0, <2>2, <3>1, <3>3, MigrationFrame
  <2> QED
    BY <1>3, <2>1, <2>2 DEF CreateUsers
<1> QED
  BY <1>1, <1>2, <1>3

LEMMA MainThreadStep ==
  ASSUME LifecycleInv,
         \/ Launch \/ BuildAndStart \/ RunServer \/ WaitReturns
         \/ JoinSignalThread \/ Quit \/ QuitShutDown \/ DesktopQuit
         \/ ExecReturns \/ JoinWaitThread \/ Destroy \/ Exit \/ Crash
  PROVE  LifecycleInv'
<1> USE ColumnCount, Bounds DEF LifecycleInv, TypeOK, Placed, Served, Asked,
      Migrated, NoStrayThread, Starting, Desktop, SignalActive, InTime, Taken,
      Shutdown, MainUnchanged, file, threads, grpc, process
<1>1. CASE Launch
  BY <1>1 DEF Launch
<1>2. CASE BuildAndStart
  <2>1. CASE Gone
    BY <1>2, <2>1, Ended DEF BuildAndStart
  <2>2. CASE /\ main' = "started" /\ server' = "serving"
             /\ UNCHANGED <<next, failed, threads, calls, pending, process>>
    <3>1. main = "build" /\ UNCHANGED file
      BY <1>2 DEF BuildAndStart
    <3>2. TypeOK'
      BY <2>2, <3>1
    <3> QED
      BY <2>2, <3>1, <3>2
  <2> QED
    BY <1>2, <2>1, <2>2 DEF BuildAndStart
<1>3. CASE RunServer
  BY <1>3 DEF RunServer
<1>4. CASE WaitReturns
  BY <1>4 DEF WaitReturns
<1>5. CASE JoinSignalThread
  BY <1>5 DEF JoinSignalThread
<1>6. CASE Quit
  BY <1>6 DEF Quit
<1>7. CASE QuitShutDown
  BY <1>7 DEF QuitShutDown
<1>8. CASE DesktopQuit
  BY <1>8 DEF DesktopQuit
<1>9. CASE ExecReturns
  BY <1>9 DEF ExecReturns
<1>10. CASE JoinWaitThread
  BY <1>10 DEF JoinWaitThread
<1>11. CASE Destroy
  BY <1>11 DEF Destroy
<1>12. CASE Exit
  BY <1>12, Ended DEF Exit
<1>13. CASE Crash
  BY <1>13, Ended DEF Crash
<1> QED
  BY <1>1, <1>2, <1>3, <1>4, <1>5, <1>6, <1>7, <1>8, <1>9, <1>10, <1>11,
     <1>12, <1>13

LEMMA OtherStep ==
  ASSUME LifecycleInv,
         \/ SignalStarts \/ Sigwait \/ SignalShutdown \/ SignalDone \/ WaitThreadReturns
         \/ CallArrives \/ CallEnds \/ Drained \/ Signal
  PROVE  LifecycleInv'
<1> USE ColumnCount, Bounds DEF LifecycleInv, TypeOK, Placed, Served, Asked,
      Migrated, NoStrayThread, Starting, Desktop, SignalActive, InTime, Taken,
      Shutdown, Touch, ThreadUnchanged, GrpcUnchanged, file, threads, grpc, process
<1>0. CASE SignalStarts
  <2>1. TypeOK'
    BY <1>0 DEF SignalStarts
  <2>2. Placed'
    BY <1>0 DEF SignalStarts
  <2>3. Served'
    BY <1>0 DEF SignalStarts
  <2>4. Asked'
    BY <1>0 DEF SignalStarts
  <2>5. Migrated'
    BY <1>0 DEF SignalStarts
  <2>6. NoStrayThread'
    BY <1>0 DEF SignalStarts
  <2> QED
    BY <2>1, <2>2, <2>3, <2>4, <2>5, <2>6
<1>1. CASE Sigwait
  BY <1>1 DEF Sigwait
<1>2. CASE SignalShutdown
  <2>1. TypeOK'
    BY <1>2 DEF SignalShutdown, QuitsAlready
  <2>2. Placed'
    BY <1>2 DEF SignalShutdown, QuitsAlready
  <2>3. Served'
    <3>1. CASE server = "serving"
      BY <1>2, <3>1 DEF SignalShutdown, QuitsAlready
    <3>2. CASE server # "serving"
      BY <1>2, <3>2 DEF SignalShutdown, QuitsAlready
    <3> QED
      BY <3>1, <3>2
  <2>4. Asked'
    BY <1>2 DEF SignalShutdown, QuitsAlready
  <2>5. Migrated'
    BY <1>2 DEF SignalShutdown, QuitsAlready
  <2>6. NoStrayThread'
    BY <1>2 DEF SignalShutdown, QuitsAlready
  <2> QED
    BY <2>1, <2>2, <2>3, <2>4, <2>5, <2>6
<1>3. CASE SignalDone
  BY <1>3 DEF SignalDone, PostsQuit
<1>4. CASE WaitThreadReturns
  BY <1>4 DEF WaitThreadReturns
<1>5. CASE CallArrives
  BY <1>5 DEF CallArrives
<1>6. CASE CallEnds
  BY <1>6 DEF CallEnds
<1>7. CASE Drained
  BY <1>7 DEF Drained
<1>8. CASE Signal
  <2>1. CASE ~Blocked
    BY <1>8, <2>1, Ended DEF Signal
  <2>2. CASE Blocked
    <3>1. TypeOK'
      <4>1. quits' \in 0 .. MaxQuits /\ pending' \in 0 .. quits'
        BY <1>8, <2>2 DEF Signal
      <4>2. UNCHANGED <<file, main, next, failed, threads, grpc, desktop, faulted,
                        stray>>
        BY <1>8, <2>2 DEF Signal
      <4> QED
        BY <4>1, <4>2
    <3>2. Placed'
      BY <1>8, <2>2 DEF Signal, Blocked
    <3>3. Served'
      BY <1>8, <2>2 DEF Signal, Blocked
    <3>4. Asked'
      BY <1>8, <2>2 DEF Signal, Blocked
    <3>5. Migrated'
      BY <1>8, <2>2 DEF Signal, Blocked
    <3>6. NoStrayThread'
      BY <1>8, <2>2 DEF Signal, Blocked
    <3> QED
      BY <3>1, <3>2, <3>3, <3>4, <3>5, <3>6
  <2> QED
    BY <2>1, <2>2
<1> QED
  BY <1>0, <1>1, <1>2, <1>3, <1>4, <1>5, <1>6, <1>7, <1>8

LEMMA LifecycleNext == LifecycleInv /\ [Next]_vars => LifecycleInv'
<1> SUFFICES ASSUME LifecycleInv, [Next]_vars
             PROVE  LifecycleInv'
  OBVIOUS
<1>1. CASE Next
  BY <1>1, MigrationStep, MainThreadStep, OtherStep DEF Next, MainStep, SignalStep
<1>2. CASE UNCHANGED vars
  BY <1>2 DEF vars, file, threads, grpc, process, LifecycleInv, TypeOK, Placed,
     Served, Asked, Migrated, NoStrayThread, SignalActive, InTime, Taken
<1> QED
  BY <1>1, <1>2

LEMMA LifecycleInvariant == Spec => []LifecycleInv
BY LifecycleInit, LifecycleNext, PTL DEF Spec

\* The process and its threads have the types of the code, in either mode and
\* however often it is asked to stop.
THEOREM TypeCorrect == Spec => []TypeOK
BY LifecycleInvariant, PTL DEF LifecycleInv

\* Whatever version of the file a start meets, and wherever earlier migrations
\* were cut off, a server that serves has its schema (Database.cpp:24-58).
THEOREM SchemaIsComplete == Spec => []SchemaComplete
<1>1. LifecycleInv => SchemaComplete
  BY DEF LifecycleInv, TypeOK, Served, Migrated, SchemaComplete
<1> QED
  BY <1>1, LifecycleInvariant, PTL

\* No call is in progress when main returns from RunServer (RunServer.cpp:24 and
\* :167).
THEOREM ShutdownIsGraceful == Spec => []NoCallCut
<1>1. LifecycleInv => NoCallCut
  BY DEF LifecycleInv, Served, NoCallCut
<1> QED
  BY <1>1, LifecycleInvariant, PTL

\* A process asked to stop once leaves no thread with a pointer to a destroyed
\* server, if the thread had begun to wait for signals before main left the
\* function that made it (RunServer.cpp:153-159).
THEOREM OneQuitLeavesNoThread == Spec => []NoStrayThread
BY LifecycleInvariant, PTL DEF LifecycleInv
=============================================================================
