# A TLA+ model of Alexandria

Alexandria is a library catalogue: a gRPC server over SQLite and a Qt client.
This directory holds TLA+ modules of its server and client logic, TLC
configurations that check them on small instances, and TLAPS proofs about both
sides for instances of any size. Paths below are relative to the repository;
`README` without a path is the repository's own.

## 1. The system

### Server

| Component | State | Operations | What makes it correct |
|---|---|---|---|
| User accounts (`UserService`, `SqliteUserRepository`, `UserServiceImpl`) | table `users` with its AUTOINCREMENT counter | create, update, delete, list | unique names and ids; an id keeps its meaning; the last administrator stays; a reply tells what happened |
| Authentication (`AuthService`, `SessionManager`, `auth_guard`, `AuthServiceImpl`, `PasswordHasher`) | the map from tokens to users, in memory | login, validate, the guard of every call | a token stands for one user and does not outlive the process |
| Book catalogue (`BookService`, `SqliteBookRepository`, `BookServiceImpl`) | table `books` with its counter | create, update, delete, get, list | an ISBN belongs to one book; available copies stay within the total |
| CSV (`CsvService`) | none of its own | export, import in Append or Replace mode | what is exported can be imported; Replace leaves what it reports |
| Start-up (`main.cpp`, `Database`) | the schema | migrate, seed the first administrator | a server that serves has its schema; there is always somebody who can sign in |
| Process control (`RunServer.cpp`) | signal thread, wait thread, event loop, gRPC server | shut down, from a signal, the tray menu or the desktop | it ends; no call is cut off; no thread is left behind |

gRPC serves each call on a thread of its pool. `Database::mutex` is taken inside
each repository method, so it serialises statements and not calls:
everything a service decides on one statement may be out of date at the next.
`SessionManager::m_mutex` does the same for the sessions. The process may end
between any two statements; the database file stays, sessions and calls go.

### Client

| Component | State | Operations | What makes it correct |
|---|---|---|---|
| `Session` and `AlexandriaClient` | signed in or not, role, busy and connecting flags, the client's token; in `QSettings` the address, the remember-me box and the saved token | connect, automatic login, login, logout, loss of the connection | the screen agrees with the token; the user always has a page that works and explains itself |
| List view models (`BookListViewModel`, `UserListViewModel`) | the rows, the selection, busy flag, message, counter of pending deletions | refresh, delete one, delete the selection | what is shown is what the server has; what is deleted was on the screen; failures are reported |
| Form dialogs and view models (`BookFormDialog`, `UserFormDialog`, `BookFormViewModel`, `UserFormViewModel`) | the fields, the row edited, busy flag, error, success, closing timer | open, edit, save, cancel, close after success | what is saved is what is shown; one row per creation; the message is about this save; the form yields to the connection page |
| CSV dialog and view model (`CsvImportDialog`, `CsvViewModel`) | file, mode, busy flag | import, export | nothing is replaced that was not asked for; the button comes back; the list is asked again |

All of it runs in the GUI thread except the gRPC calls, which run as futures on
the Qt thread pool and come back in any order. `Session` replaces its client
object when the user connects to another server, while futures may still use it.
Every view model reports a lost connection to `Session::handleConnectivityIssue`.
Pages and dialogs look at the session when it emits a signal, and not when it
changes. The dialogs are made once and opened again for every row.

### What is hard about it

The list, at its lines, is `hazards` in `PROJECT.json`. In short: checks and
writes in separate statements (last administrator, ISBN, Replace import), ids
and tokens used after they were read, statements that fail half way through a
call, restarts and migrations cut off, numbers at their limits (largest rowid,
zero copies, the range of a spin box), text formats written by one function and
read by another, replies that overtake each other or come back to an object
whose user has moved on, timers that fire on whatever is shown by then, and
threads that stop a server others still use.

## 2. The modules

| Module | Models | Checked in | Proved in |
|---|---|---|---|
| `Accounts` | accounts, sessions, guard, seeding | `MCAccounts` | `AccountsProofs` |
| `AccountStore` | what `Accounts` promises: an abstract directory | instantiated in `Accounts` | `AccountStoreProofs` |
| `TokenServer` | what the client relies on: tokens issued, accepted, revoked together | instantiated in `Accounts` and `ClientSession` | `AccountsProofs` |
| `Catalog` | books, ISBN check, the import over the table | `MCCatalog` | `CatalogProofs` |
| `BookShelf` | what `Catalog` promises: an abstract shelf | instantiated in `Catalog` | `CatalogProofs` |
| `Csv` | the text of an export and its import | `MCCsv` | `CsvProofs` |
| `ServerLifecycle` | migration, start, the two ways to run and to stop | `MCServerLifecycle` | `ServerLifecycleProofs` |
| `ClientSession` | `Session`, the part of `AlexandriaClient` it uses, `QSettings`, the pages | `MCClientSession` | `ClientSessionProofs` |
| `ListViewModel` | both list view models and their pages | `MCListViewModel` | `ListViewModelProofs` |
| `FormDialog` | both form dialogs with their view models | extended by `BookPage` | `BookPageProofs` |
| `CsvDialog` | the import dialog, the export button, `CsvViewModel` | instantiated in `BookPage` | `BookPageProofs` |
| `BookPage` | the dialogs of a page over one list and one session | `MCBookPage` | `BookPageProofs` |

`TokenServer` joins the two sides: `Accounts` is shown to implement it and
`ClientSession` is written over it, so that the client is checked against a
server that does no more and no less than the real one where tokens go.

Definitions carry the names of the code where they can (`CreateUser`,
`RequireRole`, `OnLogin` is the handler of the future `login` starts). A
definition that is there to show that a property can fail is commented
`Mutant:`; nothing in the specifications uses it.

### Accounts

`calls[w]` is the call the gRPC thread `w` runs. Its `pc` says which locked
section comes next, so `UserService::deleteUser` is three steps: `DeleteUser`
(the guard, under the session mutex), `DeleteUserRead` (`findAll` and the count
of administrators in that snapshot), `DeleteUserRemove` (the `DELETE`). Local
code goes with the section before it. `CanInsert` has the two conditions under
which SQLite refuses an `INSERT`: the UNIQUE column, and an exhausted
AUTOINCREMENT.

With `Faults` a statement may fail. What that means differs and is taken from
the repository class: a `SELECT` that fails, at once or on the way, finds fewer
rows than there are (so `seedInitialAdminIfNeeded` may try to seed a table that
is not empty), a failed write changes nothing and is reported as *not found*. A
hash that cannot be computed throws, and gRPC answers `UNKNOWN`; in the seeding it
ends `main`, and the process stays down.

A guarded call carries the token it came with, which the code does not keep. It is
there for `OnlyAdminsWrite`, which is about the caller of the statement that
writes and not only about who has signed in.

A login is two sections. Between them the account may be deleted, and the
session is created all the same, with the role the row had then. Sessions keep
that role; `requireRole` never looks at the table. The model has both.

The password is a value, its hash the pair `<<"hash", password>>`, and
`Verify` compares. Salt and iteration count play no part.

### AccountStore

The abstract specification: a map from usernames to accounts on which each
request takes effect at most once, in one step, on the account it named, and is
answered OK only if it did. It says what a caller may conclude from a reply,
including the one thing it may not: an update with a password that is refused
may have stored its role (`UserService.cpp:70-82`). It knows nothing of
threads, snapshots, sessions or the last administrator. `Accounts!ImplementsStore`
is the refinement: `users` is read as the map, `1..lastId` as the ids handed out.

### TokenServer

Tokens are issued once, accepted from then on, and stop being accepted all
together when the process restarts. `Accounts!ImplementsTokenServer` reads the
domain of `sessions` as the accepted ones. That a deleted user's token is still
accepted is part of what it says: `SessionManager` never forgets one.

### Catalog

The same scheme over `books`. A book keeps its id, ISBN and copies; titles and
authors are the flag `complete` of a request, because all the handlers ask is
whether they are empty. `RequireRole` gets the caller's role from outside:
where sessions come from is the business of `Accounts`. `Sent` keeps the inputs
small: what a request carries that is refused before it is read has one value
for all. Files have no empty lines, which the import passes over.

`importBooksFromString` is not one step but the loop it is: `ImportRead` takes
the snapshot a Replace import deletes, `ImportRemove` deletes one book of it and
ignores the outcome, `ImportLine` handles one line, `ImportReply` answers. Other
calls run in between. `Create` stands for an `INSERT` and a `SELECT` under one
lock: if only the second fails the row is stored and the caller told it is not.

### BookShelf

The abstract specification of the book handlers. A creation, an update and a
deletion take effect at most once, in one step, on the book they named, and are
answered OK only if they did; an id is never handed out twice; a refused
creation may have been stored (`SqliteBookRepository.cpp:60`), and nothing else
that is refused changes anything. An import is a request of many steps. All it
promises is that, before it is answered, it takes away nothing but books that
were there at one moment after it was asked, and adds nothing but what its file
carries, and that it counts no book it did not add: no more is true of it, for
other requests take effect in between, and a crash leaves it half done.
`Catalog!ImplementsShelf` is the refinement; `RequestOf` reads the abstract
request off the place a call stands at.

### Csv

Characters are what the format tells apart: the comma, the quote, the newline,
the minus sign, a letter, a digit. A total is its numeral, with a sign if it is
negative, as an earlier import may have stored it. `ExportBooksToString` is the
text; the import then runs over it, one step per line (`ReadLine`, `LineParsed`)
and one per round of the loop of `parseCsvLine` (`ReadChar` and its five
branches). The header is one empty line here, as nobody reads it. `importBooks`
and `exportBooks`, the two variants over a file on the server, only add opening
it and are left out. `RoundTrip` is exact: it says which books come back, and so
also which do not. The available copies are not in the text; an import sets them
to the total.

### ServerLifecycle

`main` is where the main thread stands, from `CreateBooks` (the first statement
of `Database::migrate`) over `BuildAndStart` and `RunServer`, which is
`runServerHeadless` or `runServerWithTray`, to `Destroy`, when the locals of
`main()` go, and `Exit`. `signalThread` and `waitThread` are the threads
`RunServer.cpp` makes. `AlterBooks` runs once for each column, and whether it
succeeds is not looked at, as in the code, because mostly it fails as the column
is there.

`grpc::Server` is external: `Shutdown` starts to drain (no new calls), is
through when the last call ended, and whoever called it or `Wait` goes on then
(`Drained`). A signal is pending until `sigwait` takes it. In between
`BuildAndStart` and the blocking of signals, and before, it ends the process,
like a crash. That no thread a library made earlier takes a signal later, with
the same effect, is an assumption about these libraries.

`stray` records what the signal thread, which desktop mode detaches, used after
it was gone: the signal set in the frame of `runServerWithTray`, which it reads
when it starts (`SignalStarts`), or the server and the application. A process that
was asked to stop once, and whose signal thread had started by the time `main`
left that frame, never uses the server when it is gone (`NoStrayThread`). One that
was asked twice may: a signal whose thread wakes up late while the menu's *Quit*
lets `main` return. A thread that starts after that frame is gone waits for
whatever it finds there, or for nothing.

### ClientSession

A step is an action of the user, the handler of a finished future, or what a
future does on the pool. `tasks` are the futures in flight: queued, sent,
finished. Which actions the user has is read from the pages: `LoginPage.qml`
starts a second login with the return key while busy (only the button is
disabled), `ServerSetupPage.qml` connects with the return key also if the field
is empty.

`connectPage` and `page` are what `Main.qml` shows. Its expressions are
evaluated when the session emits a signal (`AuthenticationChanged`,
`ServerConfiguredChanged`), so they are variables of their own and may lag
behind: a connection check that fails clears the flag `m_serverConfigured` and
emits nothing (`OnChecked`). Screen and session disagree from then on, which is
what `session_reconnect` is about.

`connectToServer` destroys the client. A future that captured a pointer to it
gets `mine = FALSE` and from then on reports anything (`Astray`), if the program
survives at all. A queued login is different: its lambda captures `this` and
takes the new client when it starts (`NoClient`).

The server is `TokenServer`. It may lose its tokens (`ServerRestart`), and store
a session for a login whose reply is lost.

`calm` is TRUE as long as no two of these futures overlapped since the program
started. Some properties are only claimed then, see below.

### ListViewModel

`BookListViewModel` and `UserListViewModel` share their code but for the search
text, so one module with the constant `Searches` stands for both: with a single
search it is the list of users. A request reaches the server at `List`,
`Remove`, `Refuse` or `Unreachable`, where a deletion may also succeed and its
reply be lost, and is handled by `OnRefreshed`, `OnDeleted` or `OnBulkDeleted`.
A handler that calls `refresh` starts its future in the same step. The
confirmations of the deletions are dialogs that stay open when the page goes, so
`Delete` and `DeleteSelected` do not ask for it.

`configured` is the session's flag. A lost connection takes the page away only
if it is set; `ConnectionChecked` is the check that clears it without a signal,
or sets it again. `ignored` records that a handler called
`handleConnectivityIssue` in vain since the last refresh. A refresh after a form
or an import was saved is a `Search` for the same text; one that a dialog's
timer starts while the page is already hidden is left out. The null check of
`Session::instance()` in `refresh` is left out: `main.cpp` creates the session
before the pages.

### FormDialog

`form` says which of the two dialogs it is; the state is the dialog's and its
view model's. The dialogs are never destroyed, so nothing but what
`openForCreate`, `openForEdit` and `reset` assign is fresh when one is opened.
What the properties need to know of the history is the record `opening`, which
the program does not keep: the row the form was opened for, whether the user
touched a field (`touched`), whether nothing of an earlier use was under way
when it was opened (`own`), whether the save in flight is its own (`saving`),
how its last save ended (`outcome`), whether the user saved again after a
success (`again`) or after a save that inserted its row, or may have, and did
not say so (`unsure`), and how many rows its saves inserted (`created`). Two
kinds of saves do not say so: one whose reply was lost, and the creation of a
book that is refused because the row cannot be read back after its `INSERT`.

Of a book the two numbers of copies are kept, with the spin boxes in front of
them, because these act on their own: a box moves a value into its range and
writes back when it moved, the total limits the other box, and in a new book the
other box follows it (`SetTotal`, `SetAvailable`, `SetLimit`). The rows are those
an import may have stored, with negative numbers too: below such a total the range
of the other box is upside down (`Bound`, `Offered`). Of a user the role
and the password are kept, the latter as far as `canSave` tells it apart.

`Serve` is the call, at the server or lost on the way; `OnFinished` is the
handler of its future; `OnTriggered` is the timer of 700 ms, which closes
whatever the dialog shows by then. `page` and `serverConfigured` are the session
as the dialog sees it: the same flag and the same signals as in `ClientSession`.
`stale` is set by a confirmed save and cleared when the list is asked again.

### CsvDialog and BookPage

`CsvDialog` has the two `CsvViewModel`s of the book page: the import dialog
guards its button with `busy`, the export button has no guard. `BookPage` puts
form and import dialog over one session and one list. They are modal, so one is
open at a time, but what each asked for outlives it: a lost export closes the
form (`CsvHandle`), the import dialog stays open over the connection page. With
`form = "user"` the page is `AdminPanelPage`, which has the form alone.

## 3. The runs

| Run | Instance | Properties | Result |
|---|---|---|---|
| `accounts_calls` | 2 threads, 2 names, ids to 3, 1 token, statements fail | `TypeOK` `UsernamesUnique` `IdentityStable` `TokenMeaning` `ImplementsStore` `ImplementsTokenServer` `CallsAnswered` | hold |
| `accounts_solo` | 2 threads, 2 names, ids to 3, 2 tokens, `SoloSpec` | `ServesAdmin` `LastAdminKept` `OnlyAdminsWrite` | hold |
| `accounts_race` | the same without `SoloSpec`, ids to 2 | `LastAdminKept` | **violated** |
| `catalog_safety` | 2 threads, 1 ISBN or none, -1, 0 or 1 copies, ids to 2, statements fail | `TypeOK` `AvailableWithinTotal` `ClearedStayGone` `ImplementsShelf` `ImportEnds` | hold |
| `catalog_isbn` | 2 threads, 1 ISBN or none, 1 copy, no failures | `IsbnsEnforced` | **violated** |
| `csv_roundtrip` | all small books, totals of either sign, all pairs of smaller ones | `TypeOK` `RoundTrip` | hold |
| `lifecycle` | any older file, 4 columns, 2 calls, 3 requests to stop | `TypeOK` `SchemaComplete` `NoCallCut` `NoStrayThread` `Ends` | hold |
| `session_live` | 2 futures, 2 tokens of different roles | `TypeOK` `ReasonShown` `ScreenMatchesToken` `SpinnersEnd` | hold |
| `session_reconnect` | the same | `ReconnectScreen` | **violated** |
| `lists_live` | 2 rows, 2 searches, 2 futures | `TypeOK` `SelectionShown` `ListSettles` `SpinnerEnds` | hold |
| `lists_failure` | 2 rows, 1 search, 2 futures | `FailureReported` | **violated** |
| `forms_live` | a box up to 2, books of -1, 2 and 3 copies, either form, 2 exports | `TypeOK` `CsvTypeOK` `ReplaceIsChosen` `ShowsWhatItSaves` `MessageHonest` `CreatedOnce` `FormYields` `PageSettles` | hold |

### Bounds, and why they suffice

* *Threads* (`Workers`, 2). Every hazard here is about a pair: one call between
  a check and its write, another one that makes the check stale. The proofs hold
  for any number.
* *`MaxId`* (2 or 3) is the largest rowid. It is a real limit of SQLite made
  small, so reaching it is part of the model: `INSERT` fails there. Three ids
  are enough to delete a user and create the name again while a call holds the
  old id.
* *`Tokens`* bounds the logins of a behaviour: `Login` waits for a token that
  was never issued. One token is enough for a login to race with a deletion,
  two for two administrators who remove each other. `TokenMeaning` compares
  tokens across restarts.
* *`Copies`* are -1, 0 and 1: both sides of each comparison with zero or one.
* *`Files`*: a line to skip before a book with a negative number of copies. An
  import of this file may find the table full, and may run twice.
* *`Shelves`*: titles of up to three and authors of up to two characters over
  four, ISBNs of none or one (a quote among them). The parser looks one
  character ahead and remembers one bit, so three characters in a row show every
  combination of what it remembers, sees and looks at, at either end of a field
  as well as inside.
* *`Tasks`* (2) bounds the futures in flight. Two is the least at which replies
  overtake each other, a bulk deletion meets a refresh, and a counter is
  overwritten. A third future of the lists is beyond what TLC does in minutes.

* *`MaxCopies`* (2) is the upper end of the box of the total, 9999 in the code.
  What matters is that a value is inside, at or outside of the range; `FewBooks`
  has a book below it (with a negative number), one at its end, with fewer copies
  available than in all, and one above, opened in any order.
* *`MaxExports`* (2): two exports are the least at which the flag of one is
  cleared by the other.
* *`MaxQuits`* (3): a signal, the menu and the desktop, in any order, or three of
  a kind. *`MaxCalls`* (2). *`Columns`* are the four of the code. The proofs
  hold for any of them.

The lists have one client: what other clients change on the server is not in
`ListSettles`, which is about the replies of this one.

### Fairness

* `Accounts` and `Catalog`: `WF_vars(Serve(w))`, a thread inside a call runs
  again and gets a mutex that is only held for one statement. Nothing is assumed
  of clients: that a call arrives, or that the process ends, is never forced.
* `ClientSession`: `WF_vars(Progress(k))`, the pool runs each future and the
  event loop each handler. Of the calls only `checkConnection` has a deadline;
  that the others end is taken from the transport, which reports a dead
  connection. The user is never forced to act.
* `ListViewModel`: each request is answered or fails, and each finished future
  is handled. Again the end of a call relies on the transport.
* `BookPage`: each call ends, each reply is handled, and the timer fires
  (`FormServe`, `FormFinished`, `FormTriggered`, `ImportFinished`, each on its
  own). The user is never forced to act, so a form may stay open.
* `ServerLifecycle`: every thread is scheduled (`MainStep`, `SignalStep`,
  `WaitThreadReturns`), a call ends (`CallEnds`: that is `CallsAnswered` and
  `ImportEnds`), and gRPC notices that it has drained. Without the fourth of
  these the process would not end: `Shutdown` is called without a deadline.

The safety runs that find violations assume no fairness.

### Restrictions some properties carry

* `SoloSpec` of `Accounts` lets at most one call at a time stand between the
  last-admin check and its statement. `ServesAdmin` and `LastAdminKept` are
  false without it (`accounts_race`); with it they say that the overlap is all
  there is to it. The `SoloSpec` of `Catalog`, one call inside an import or
  between the ISBN check and its write, is for two theorems of section 5.
* `ServesAdmin` is checked without `Faults`: `main` does not notice that seeding
  failed, and a server whose first `INSERT` fails starts without anybody who can
  sign in. (A `findAll` that fails at a later start makes it try to seed again,
  which the UNIQUE column refuses as long as the user `admin` exists.)
* `ScreenMatchesToken` is about `calm` behaviours.
  When futures overlap it does not hold: a connection lost by a list
  while a login is under way starts an automatic login next to it, whose failure
  clears the token the login stored.
* `RoundTrip` is about tables without a newline in a field.
* `ShowsWhatItSaves` excepts the form of a book whose total is outside of the
  box's range, though not what such a book leaves in the boxes for the next one;
  `MessageHonest` excepts forms opened over unfinished business (`own`), and
  both `MessageHonest` and `CreatedOnce` forms that were saved again after a
  success (`again`). `CreatedOnce` also excepts forms saved again after a save
  that was not known to have failed (`unsure`). What happens then is in section
  4.
* `NoStrayThread` is about processes that were asked to stop once and whose signal
  thread had started.
* `ListSettles` asks that the refresh started last had no other in flight. The
  book list sends one per keystroke, and an overtaken reply replaces a newer one.
* `ListSettles` and `SpinnerEnds` are about lists whose session ignored no lost
  connection (`ignored`): the handler of a bulk deletion leaves both the busy
  indicator and the list to the page that will be shown again.

## 4. Disagreements between the code and its documentation

1. *Last administrator* (`accounts_race`). `UserService.cpp:107` refuses to
   "delete the last remaining admin". The count is taken on a snapshot; two
   deletions or demotions that overlap each see the other's administrator and
   both go through. The repository's documentation gives this refusal as its
   example of a bulk deletion that fails in part, which is exactly the way to
   send such calls at the same time.
2. *ISBN* (`catalog_isbn`). `README:98` says that "ISBN uniqueness is enforced
   in the service layer". The import stores its books without asking
   (`CsvService.cpp:134`): a file imported twice in Append mode is there twice.
   And two `createBook` calls that overlap store the same ISBN, since the lookup
   and the `INSERT` are separate statements. Where no writers overlap, the
   import is the only one that does it (`OnlyImportsDuplicate`, a theorem).
3. *Reconnect screen* (`session_reconnect`). `README:46` says that the client
   "automatically returns to the reconnect screen" on connectivity loss. A check
   that fails clears `m_serverConfigured` without the signal (`Session.cpp:178`),
   and with the flag cleared `handleConnectivityIssue` does nothing
   (`Session.cpp:152`). If the check was started from the home page's server tab,
   which shows the login page, a login that then cannot reach the server ends
   there, without a message and without a way to another server.
4. *Bulk deletion* (`lists_failure`). `README:103` says that "the failure is
   reported". If the last reply is the one that failed, its handler starts the
   refresh that clears the message before it was shown.

Two more were met, for which the models have the behaviour but no run of their
own:

* *CSV.* `README:264` says the format carries title, author, ISBN and total, and
  `README:35` that the ISBN is optional. Books without one are exported and then
  skipped by the import (`RoundTrip` says exactly that); a Replace import of the
  server's own export deletes them. A newline in a field is quoted by the writer
  and split at by the reader.
* *Remember me.* `README:46` promises to skip the login "as long as the token is
  still valid on the server". The automatic login forgets the token on any
  failure, also if the server could not be reached (`OnAutoLogin`).

Met as well, and nothing says they should be otherwise:

* an import accepts zero or negative copies (`CsvService.cpp:126`); an update
  may set the total of a book to zero (`BookService.cpp:80`), which creation
  refuses. An edit form shows, and would save, another number for a total of
  zero or below, or above 9999;
* a role that is changed, or a user who is deleted, does not affect sessions
  that exist;
* an edit form opens with the error of the last use; the timer of a saved form,
  or a reply that comes late, closes or marks a form that was opened meanwhile
  for another row; a second *Save* within the 700 ms of a success stores a book
  without an ISBN twice, and so does a retry after a lost reply or after the
  refusal of a book that was stored (`SqliteBookRepository.cpp:60`);
* a bulk deletion that loses a connection while the session already counts as
  unconnected leaves the page with its busy indicator on and the old rows;
* the import dialog stays open over the connection page; the export button's
  indicator may be off while an export is in flight;
* a server asked to stop twice may let its detached signal thread use objects
  that are gone, and one that stops before that thread has started lets it read a
  signal set that is gone;
* the test `CsvExportAndImportRoundTrip` of the client exports and never imports.

## 5. What is proved

Each theorem holds for any value of the constants that the module's assumption
allows: any number of threads, futures, names, ids, rows, files and copies. The
assumptions say what the constants are (numbers, Booleans, finite sets; the
special names, passwords, ISBNs and tokens are special) and TLC evaluates them in
every run. `FormAssumption` also says that of the rows a form is opened for the
available copies are the total or between 0 and the total. That is
`Catalog!AvailableWithinTotal`, a theorem about the server; negative totals, which
an import stores, are among them. What a theorem needs beyond that is in its own
statement.

### Accounts

| Module | Theorem | Statement | Assumes |
|---|---|---|---|
| `AccountsProofs` | `TypeCorrect` | `Spec => []TypeOK` | |
| | `UniqueUsernames` | `Spec => []UsernamesUnique` | |
| | `StableIdentity` | `Spec => []IdentityStable` | |
| | `TokensKeepMeaning` | `Spec => TokenMeaning` | |
| | `IsTokenServer` | `Spec => ImplementsTokenServer` | |
| | `LastAdminSafe` | `SoloSpec => LastAdminKept` | |
| | `AlwaysAnAdmin` | `SoloSpec => []ServesAdmin` | `~Faults` |
| | `GuardHolds` | `Spec => OnlyAdminsWrite` | |
| | `ScheduledCallsAnswered` | `Spec /\ \A w : Scheduled(w) => CallsAnswered` | |
| `AccountStoreProofs` | `IsAccountStore` | `Spec => ImplementsStore` | |

* *Steps of a worker have a shape* (`ArriveShape`, `ServeShape`): whatever a
  call does, it replaces its own entry of `calls` by one that is `WellFormed`
  (what the checks before a section guarantee to it) and `Anchored` (an id it
  carries was read together with the name it carries, from one row). Each later
  proof uses the shape instead of going through some twenty actions again.
* `TypeInv` is `TypeOK` and `WellFormed` of every call. `TypeOK` alone is not
  inductive: nothing in it says that a call about to insert has a password long
  enough to be hashed into a `Row`.
* `IdInv` is `UsernamesUnique`, `IdentityStable` and `IdsHandedOut`, that no row,
  session or call has an id above `lastId`. The last part is why they survive an
  `INSERT`: the new row gets an id that nothing refers to. This is where
  AUTOINCREMENT matters; with rowids that are reused `IdentityStable` fails.
* `SoloInv` says of a call past the last-admin check that, if its target is an
  administrator, there is another one: a snapshot in which a failed `SELECT`
  left out rows shows no administrator that is not there (`ReadSafe`).
  `SoloRemoval` keeps it: nobody else can remove that other one meanwhile. It
  needs cardinalities of finite sets (`NotTheLast`), and so that the tables of a
  reachable state are finite, which follows from ids being bounded and distinct.
* `SeedInv` adds that without failures only a server that was never started has
  no administrator.
* Sessions change in two ways (`SessionsStep`): `CreateSession` adds one with a
  token never used before, and the end of the process takes all of them. Both
  theorems about tokens follow from that alone.
* `GuardInv` says that a call past the guard of `UserServiceImpl` carries a token
  whose session is an administrator's. The guard is one section and the statement
  another, so it is an invariant and not a property of the step: it survives
  because no session is ever forgotten but by the end of the process, which takes
  the calls with it.
* `Scheduled(w)` is the fairness of `LiveSpec` for a thread, with what enables it
  spelled out: time and again the thread is idle, or it runs a section. Every
  section is followed by a later one or by the answer (`SectionShape`), nothing
  else moves a call but the end of the process (`CallMoves`), and at most three
  sections are to come, so the temporal part has no induction.
* The refinement reads the stage of a request off the place its call stands at
  (`RequestAt`), and shows of each statement that writes what it does to the
  directory from usernames to accounts (`InsertAdds`, `SetRoleUpdates`,
  `SetPasswordIsSilent`, `RemoveDeletes`). The table is a map because
  `UsernamesUnique` and the ids hold; that a row found by id is still the account
  that was named is `IdentityStable`'s doing (`Anchored`). `DownInv`, no call
  while the process is down, is what a restart needs.

### Catalog

| Module | Theorem | Statement | Assumes |
|---|---|---|---|
| `CatalogProofs` | `TypeCorrect` | `Spec => []TypeOK` | |
| | `CopiesWithinTotal` | `Spec => []AvailableWithinTotal` | |
| | `ClearedBooksStayGone` | `Spec => ClearedStayGone` | |
| | `IsBookShelf` | `Spec => ImplementsShelf` | |
| | `OnlyImportDuplicates` | `SoloSpec => OnlyImportsDuplicate` | `~Faults` |
| | `ReplaceIsExact` | `SoloSpec => ReplaceExact` | `~Faults` |

* The same scheme: `CallShape` and `TableShape` (nothing, an insertion with all
  copies available, an update within its total, a deletion) cover every step.
* `CatalogInv` is types and `WellFormed` calls, `AvailableWithinTotal`, and
  `IdsHandedOut`: distinct ids, none above `lastId` in a row or a snapshot. A
  cleared book stays gone because the next id is in no snapshot.
* The refinement reads the request off the place (`RequestAt`); each section is
  one abstract action or changes nothing abstract (`ServeRefines`). A line of an
  import may add one of the books its file still carries (`CarriedTail`).
* `SoloInv` says what a writer knows of the table at its place (`Knows`): its ISBN
  is free for it (`FreeFor`) before an `INSERT` or `UPDATE`; nothing is outside
  of the snapshot while an import removes; the table has as many books as were
  imported while it adds. A reader's step leaves the table alone
  (`ReaderKnows`) and no other writer steps (`OthersKnow`). That `findByIsbn`
  finds a holder if there is one (`FirstHolderHolds`) takes the least of a set of
  numbers, from the well-foundedness of `<`. An update whose ISBN is held by its
  own book first may stand among duplicates: it changes no ISBN, so none is added.
* `OnlyImportsDuplicate` and `ReplaceExact` are properties of no run: the theorems
  say of all instances without overlap or failure what a run could only sample.

### Csv

| Module | Theorem | Statement |
|---|---|---|
| `CsvProofs` | `TypeCorrect` | `Spec => []TypeOK` |
| | `RoundTripExact` | `Spec => []RoundTrip` |

For titles, authors, ISBNs and tables of any length. `RoundTripExact` is what the
format promises: `parseCsvLine` undoes `escapeCsvField`, and `std::getline` undoes
the joining of lines as long as no field contains a newline.

* The text is `FlattenSeq` of the rows, and a row that of its escaped fields. What
  is needed of `FlattenSeq` is that it puts its first sequence in front of the
  others; that takes the one induction of the module, over the length, with a set
  of numbers in the place of the predicate (`Least`, `Induction`). From there on
  texts are taken apart from the front.
* `CsvInv` says at each step what is still to be read. On a line, `Reads` is one
  of the places the reader can be at: at the beginning of a field (`AtField`),
  inside one without quotes (`Plain`), before an opening quote (`Opening`),
  inside quotes (`Inside`), each with the rest of this field as the writer left
  it and the text of the fields after it. The case that decides is a doubled
  quote: in `Inside` a quote ends the field just if the writer did not double
  it, which the look-ahead of one character sees.
* Between lines, `Progress` is that the text left is the rows of the books to
  come, and that what was imported and skipped accounts for all before them
  (`Accounted`).
* A total comes back because it is read as it was printed: of a numeral `Stoi`
  leaves nothing out, sign included (`StoiNumeral`).
* `TypeOK` holds of all tables, `RoundTrip` is about those without newlines
  (`PlainShelf`), so `CsvInv` claims `Progress` of these only.

### ServerLifecycle

`ServerLifecycleProofs`: `TypeCorrect` (`[]TypeOK`), `SchemaIsComplete`
(`[]SchemaComplete`), `ShutdownIsGraceful` (`[]NoCallCut`) and
`OneQuitLeavesNoThread` (`[]NoStrayThread`), all of `Spec`, for any columns, any
number of calls and any number of requests to stop.
`NoStrayThread` is about a thread that had started (section 3).

They are one invariant, `LifecycleInv`: which threads there are while `main` is
where (`Placed`); that the server stops only when asked to, is stopped when it
has no calls, and whoever waited saw it stopped (`Served`); that each request to
stop is spent once, on a signal or on a quit (`Asked`), which is why a process
asked once cannot overtake its signal thread; and that the migration has done
what comes before the statement it is at (`Migrated`).

### The client

| Module | Theorem | Statement |
|---|---|---|
| `ClientSessionProofs` | `TypeCorrect` | `Spec => []TypeOK` |
| | `AlwaysAReason` | `Spec => []ReasonShown` |
| | `ScreenIsOfToken` | `Spec => []ScreenMatchesToken` |
| `ListViewModelProofs` | `TypeCorrect` | `Spec => []TypeOK` |
| | `SelectionIsShown` | `Spec => []SelectionShown` |
| | `ListIsServers` | `Spec => []ListSettles` |
| `BookPageProofs` | `TypeCorrect` | `PageSpec => []TypeOK` |
| | `CsvTypeCorrect` | `PageSpec => []CsvTypeOK` |
| | `FormNeverInTheWay` | `PageSpec => []FormYields` |
| | `OneOpeningOneRow` | `PageSpec => []CreatedOnce` |
| | `HonestForm` | `PageSpec => []MessageHonest` |
| | `FormShowsWhatItSaves` | `PageSpec => []ShowsWhatItSaves` |
| | `ReplaceOnlyIfChosen` | `PageSpec => []ReplaceIsChosen` |
| | `ScheduledPageSettles` | `PageSpec /\ PageScheduled => PageSettles` |

* *Session.* `ReasonShown` is inductive over the types. `ScreenMatchesToken`
  needs `PageInv` (the home page is shown to one who is signed in, also when it
  lags behind `serverConfigured`) and `CalmInv`: in a calm behaviour the future in
  flight is the only one, still has its client and runs while nobody is signed
  in; and what it brings for the session and what it has put into the client
  belong together (`Alone`).
* *Lists.* `PendingInv`: the counter of a bulk deletion promises no more replies
  than are to come, also after a second deletion overwrote it; this is what makes
  a refresh follow every bulk deletion. `SettlesInv`: while refreshes are in order
  and no error is shown, a deletion is in flight, or every refresh in flight will
  bring what the server has for the search in the field, and one is in flight or
  the list is up to date. A lost connection keeps it by taking the page away, and
  one that was ignored is excepted.
* *Dialogs.* `ControlInv` relates the form, its save and the page: the save in
  flight belongs to a form that was opened over nothing unfinished
  (`OwnBusiness`), a row can have been inserted only if the save got as far as
  the server, unless the user saved again unsure (`Once`), and the message is
  that of the save (`Honest`). `BoxInv` says what a spin box shows of its value
  after any order of loading and moving (`Fit`), after rows with negative
  numbers too; it is kept because the total is loaded before the available
  copies, which it limits. `CsvInv` and `FieldInv` are the rest.

* *Dialogs, in the end.* `PageScheduled` is the fairness of `PageLiveSpec` with
  what enables its four actions spelled out. A save goes from sent to replied to
  ended and nothing else moves it (`SaveMoves`). That the list is asked again
  needs `TimerInv`: a list on the screen that was not asked since the last
  confirmed save has the timer running, also after the form was closed or opened
  again.

### Liveness

The prover does not handle ENABLED, and so not `WF` as it stands. The two theorems
about liveness assume instead, of each fair action, that time and again its guard
is false or it is taken, with the guard written out. That the guard is what
enables the action is read off the module; that the properties follow from the
fairness of the specifications as stated is what the runs `accounts_calls` and
`forms_live` check.

### Only model-checked

* `ImportEnds` and `Ends`. The steps to come are as many as a snapshot has books
  and a file lines, or as calls are in progress; leads-to over such a number is an
  induction over temporal formulas, which the prover cannot instantiate.
* `SpinnersEnd` and `SpinnerEnds`. A spinner waits for one of several futures:
  from each of them leads-to an end has to follow that some of them does, a
  quantifier the prover of temporal steps does not see.

Every invariant and every action property of the runs that pass is proved.

## 6. What is not modelled

* `SessionManager::invalidateSession`, `AlexandriaClient::getBook` and a few
  accessors, which have no caller.
* The two variants of import and export over a file, on the server and on the
  client, beyond a file that cannot be read.
* Showing and hiding the status window, tray texts, the header, layout,
  translations and the wording of messages.
* Message conversion (`ProtoConverters.h`) and generated code: field by field.
* Hashing, of which only that a hash verifies its password matters, and the
  search inside SQLite, which is the set a search matches (`Matches`).
* A signal that a thread of gRPC or Qt takes. A database that cannot be migrated
  and a port that is taken are in `ServerLifecycle`; the result of opening the
  file is not looked at (`Database.cpp:11`), so one that cannot be opened is a
  migration whose statements fail.

## 7. Plan

Done, in this order: `Accounts` with `AccountStore` and its first proofs,
`Catalog`, `Csv`, `ClientSession`, `ListViewModel`, then `FormDialog`, `CsvDialog`
and `BookPage`, `ServerLifecycle`, `BookShelf`, `TokenServer`, and the proof
modules from `CatalogProofs` to `CsvProofs`.

What would add most next:

1. `Server`: `Accounts` and `Catalog` composed over one table of sessions, so
   that `RequireRole` of the catalogue reads real sessions; no write of a book by
   a token that was not issued to an administrator since the last start.
2. `BookPage` over `ListViewModel` as it is, instead of over the flag `stale`, and
   two view models that report a lost connection to one `ClientSession`.
3. Two clients on one server: what an edit form overwrites of another
   administrator's change.
4. Larger instances of the client modules (three futures), for TLC alone.
