------------------------------ MODULE FormDialog ------------------------------
(***************************************************************************)
(* BookFormDialog with BookFormViewModel, and UserFormDialog with          *)
(* UserFormViewModel.  A program has one of each, used for every row in    *)
(* turn: what the last use left behind, a save in flight or the timer that *)
(* closes a saved form, is still there when the dialog is opened again.    *)
(*                                                                         *)
(* Everything but the call itself runs in the GUI thread.  The session is  *)
(* reduced to what the dialogs see of ClientSession: the page on the       *)
(* screen, and the flag handleConnectivityIssue looks at.                  *)
(***************************************************************************)
EXTENDS Integers

CONSTANTS
  MaxCopies,  \* the upper end of the box for the total
  BookRows    \* [total, available] of the books a list may show

\* A book as an import stores it, whatever the number, or within the check of an
\* update (Catalog!AvailableWithinTotal).
Stored(b) == b.available = b.total \/ b.available \in 0 .. b.total

ASSUME FormAssumption ==
  /\ MaxCopies \in Nat \ {0}
  /\ BookRows \subseteq [total : Int, available : Int]
  /\ \A b \in BookRows : Stored(b)

VARIABLES
  form,         \* which of the two dialogs this is
  \* the dialog
  opening,      \* what became of the form since it was opened, or Closed
  showSuccess,
  closeTimer,   \* whether closeTimer is running
  copies,       \* m_totalCopies and m_availableCopies, and their spin boxes
  \* the view model
  editing,      \* m_bookId or m_userId is not 0
  account,      \* m_isAdmin and m_password
  busy,
  error,        \* whether m_errorMessage is not empty
  save,         \* the request in flight
  \* the session and the list behind the dialog
  page, serverConfigured,
  stale         \* a save was confirmed since the list was last asked for

fields == <<editing, copies, account>>
session == <<page, serverConfigured>>
vars == <<form, opening, showSuccess, closeTimer, fields, busy, error, save,
          session, stale>>

(***************************************************************************)
(* An open form: the row it was opened for, whether the user changed a     *)
(* field, whether nothing of an earlier opening was unfinished, whether    *)
(* the save in flight is its own, how its last save ended, whether it      *)
(* saved again after a success (again) or after a save that did or may     *)
(* have inserted its row without saying so (unsure), and the rows its      *)
(* saves inserted, up to two.                                              *)
(***************************************************************************)
Opening(r, unfinished) ==
  [row |-> r, touched |-> FALSE, own |-> ~unfinished, saving |-> FALSE,
   outcome |-> "none", again |-> FALSE, unsure |-> FALSE, created |-> 0]
Closed == [outcome |-> "closed"]
opened == opening # Closed

NoSave == [stage |-> "none", creates |-> FALSE]
Fresh == [total |-> 1, available |-> 1, admin |-> FALSE]
Rows == IF form = "book"
          THEN {[Fresh EXCEPT !.total = b.total, !.available = b.available] :
                  b \in BookRows}
          ELSE {[Fresh EXCEPT !.admin = admin] : admin \in BOOLEAN}

-----------------------------------------------------------------------------
(* The spin boxes.  A box takes a value by moving it into its range, and    *)
(* writes back into the view model only when its own value changes.  A      *)
(* range is as good upside down: below a negative total the box of the      *)
(* available copies offers the numbers from the total up to 0.              *)

Between(v, low, high) == IF v < low THEN low ELSE IF v > high THEN high ELSE v
Bound(v, from, to) ==
  IF from <= to THEN Between(v, from, to) ELSE Between(v, to, from)
\* What the box of the available copies offers.
Offered(limit) == IF limit < 0 THEN limit .. 0 ELSE 0 .. limit

\* setAvailableCopies, with the box's upper end at limit.
SetAvailable(c, v, limit) ==
  LET shown == Bound(v, 0, limit)
  IN  IF v = c.available THEN c
      ELSE IF shown = c.shownAvailable THEN [c EXCEPT !.available = v]
      ELSE [c EXCEPT !.available = shown, !.shownAvailable = shown]

\* The total is the upper end of the box of the available copies.
SetLimit(c, limit) ==
  LET shown == Bound(c.shownAvailable, 0, limit)
  IN  IF shown = c.shownAvailable THEN c
      ELSE [c EXCEPT !.available = shown, !.shownAvailable = shown]

\* setTotalCopies; isEditing is what the box's handler asks.
SetTotal(c, v, isEditing) ==
  LET shown == Bound(v, 1, MaxCopies)
      moved == shown # c.shownTotal
      total == IF moved THEN shown ELSE v
      first == IF moved /\ ~isEditing THEN SetAvailable(c, shown, c.total) ELSE c
  IN  IF v = c.total THEN c
      ELSE SetLimit([first EXCEPT !.total = total, !.shownTotal = shown], total)

\* The user turns the box of the total.
TurnedTotal(c, v) ==
  LET limited == SetLimit([c EXCEPT !.total = v, !.shownTotal = v], v)
  IN  IF editing THEN limited ELSE SetAvailable(limited, v, v)

\* Mutant: the available copies are assigned before the total that limits them.
AvailableFirst(c, r) == SetTotal(SetAvailable(c, r.available, c.total), r.total, TRUE)
RowCopies(c, r) ==
  LET withTotal == SetTotal(c, r.total, TRUE)
  IN  SetAvailable(withTotal, r.available, withTotal.total)

ResetCopies(c) ==
  LET withTotal == SetTotal(c, 1, FALSE)
  IN  SetAvailable(withTotal, 1, withTotal.total)

-----------------------------------------------------------------------------
(* The dialog.                                                              *)

ListPage == page = "list" /\ ~opened

Open(r) ==
  /\ ListPage
  /\ opening' = Opening(r, save # NoSave \/ closeTimer)
  /\ showSuccess' = FALSE
  /\ UNCHANGED <<form, closeTimer, busy, save, session, stale>>

\* reset leaves busy alone.
OpenForCreate ==
  /\ Open(Fresh)
  /\ editing' = FALSE
  /\ copies' = ResetCopies(copies)
  /\ account' = [admin |-> FALSE, password |-> ""]
  /\ error' = FALSE

\* The error of the last use stays.
OpenForEdit(r) ==
  /\ Open(r)
  /\ editing' = TRUE
  /\ copies' = RowCopies(copies, r)
  /\ account' = [admin |-> r.admin, password |-> ""]
  /\ UNCHANGED error

\* A field of the open form changes.
Touch ==
  /\ opened /\ opening' = [opening EXCEPT !.touched = TRUE]
  /\ UNCHANGED <<form, showSuccess, closeTimer, editing, busy, error, save,
                 session, stale>>

TurnTotal(v) ==
  /\ Touch /\ form = "book" /\ v # copies.shownTotal
  /\ copies' = TurnedTotal(copies, v)
  /\ UNCHANGED account

TurnAvailable(v) ==
  /\ Touch /\ form = "book" /\ editing
  /\ v # copies.shownAvailable
  /\ copies' = [copies EXCEPT !.available = v, !.shownAvailable = v]
  /\ UNCHANGED account

FillAccount(admin, password) ==
  /\ Touch /\ form = "user"
  /\ account' = [admin |-> admin, password |-> password]
  /\ UNCHANGED copies

\* The button Save, and the return key in most fields of the book form.
CanSave ==
  form = "user" =>
    account.password = "long" \/ (editing /\ account.password = "")
\* The return key in the field for the password of a user.
ReturnKey == form = "user" /\ ~showSuccess

\* The save that ended inserted its row, or may have, and did not say so.
Unsure ==
  \/ opening.outcome = "unreachable"
  \/ opening.outcome = "refused" /\ opening.created > 0

\* save, of a form that may have saved before.
SaveForm ==
  /\ busy' = TRUE /\ error' = FALSE
  /\ save' = [stage |-> "sent", creates |-> ~editing]
  /\ opening' = [opening EXCEPT
                   !.saving = TRUE, !.outcome = "none",
                   !.again = @ \/ opening.outcome = "ok",
                   !.unsure = @ \/ Unsure]
  /\ UNCHANGED <<form, showSuccess, closeTimer, fields, session, stale>>

\* Mutant: nothing keeps the user from pressing the button twice.
SaveTwice == opened /\ (CanSave \/ ReturnKey) /\ SaveForm
Save == opened /\ ~busy /\ (CanSave \/ ReturnKey) /\ SaveForm

Cancel ==
  /\ opened /\ opening' = Closed
  /\ UNCHANGED <<form, showSuccess, closeTimer, fields, busy, error, save,
                 session, stale>>

-----------------------------------------------------------------------------
(* The reply, and the timer.                                                *)

\* The form knows how its own save ended.
Answered(result) ==
  IF opened /\ opening.saving
    THEN [opening EXCEPT !.saving = FALSE, !.outcome = result]
    ELSE opening

\* handleConnectivityIssue while a server is configured; the dialog closes on
\* the signal serverConfiguredChanged.
ConnectionLost ==
  /\ serverConfigured' = FALSE /\ page' = "connect"
  /\ opening' = Closed

\* Mutant: a lost connection returns before setBusy(false).
BusyAfter(result) == result = "unreachable"
BusyAfterReply(result) == FALSE
\* Mutant: a refusal is taken for a success.
ConfirmedIfReached(result) == result # "unreachable"
Confirmed(result) == result = "ok"

OnFinished ==
  LET result == save.stage IN
  /\ result \in {"ok", "refused", "unreachable"}
  /\ busy' = BusyAfterReply(result) /\ save' = NoSave
  /\ \/ /\ Confirmed(result)
        /\ showSuccess' = TRUE /\ closeTimer' = TRUE /\ stale' = TRUE
        /\ opening' = Answered(result)
        /\ UNCHANGED <<error, session>>
     \/ /\ result = "unreachable"
        /\ IF serverConfigured
             THEN ConnectionLost
             ELSE opening' = Answered(result) /\ UNCHANGED session
        /\ UNCHANGED <<showSuccess, closeTimer, error, stale>>
     \/ /\ ~Confirmed(result) /\ result # "unreachable"
        /\ error' = TRUE
        /\ opening' = Answered(result)
        /\ UNCHANGED <<showSuccess, closeTimer, session, stale>>
  /\ UNCHANGED <<form, fields>>

\* A page that is not shown asks when it is shown again.
RefreshList == stale' = (stale /\ page # "list")

\* Mutant: a form that was closed meanwhile needs nothing.
OnTriggeredIfOpened ==
  /\ closeTimer /\ closeTimer' = FALSE
  /\ opening' = Closed
  /\ IF opened THEN RefreshList ELSE UNCHANGED stale
  /\ UNCHANGED <<form, showSuccess, fields, busy, error, save, session>>

\* The timer closes whatever the dialog shows by now.
OnTriggered ==
  /\ closeTimer /\ closeTimer' = FALSE
  /\ opening' = Closed /\ RefreshList
  /\ UNCHANGED <<form, showSuccess, fields, busy, error, save, session>>

-----------------------------------------------------------------------------
(* The server, or the transport on the way there or back.                   *)

Replies(results) ==
  /\ save.stage = "sent"
  /\ \E result \in results : save' = [save EXCEPT !.stage = result]
  /\ UNCHANGED <<form, showSuccess, closeTimer, fields, busy, error, session, stale>>

Inserted ==
  IF opened /\ opening.saving /\ opening.created < 2
    THEN [opening EXCEPT !.created = @ + 1]
    ELSE opening

\* createBook and createUser: a reply that is lost may tell of a new row, and a
\* book that cannot be read back after its INSERT is refused (Catalog!Create).
ServeCreate ==
  /\ save.creates
  /\ \/ Replies({"ok", "unreachable"}) /\ opening' = Inserted
     \/ form = "book" /\ Replies({"refused"}) /\ opening' = Inserted
     \/ Replies({"refused", "unreachable"}) /\ UNCHANGED opening

\* updateBook and updateUser.
ServeUpdate ==
  /\ ~save.creates
  /\ Replies({"ok", "refused", "unreachable"})
  /\ UNCHANGED opening

Serve == ServeCreate \/ ServeUpdate

-----------------------------------------------------------------------------
(* The session, as the dialog sees it.                                      *)

DialogUnchanged ==
  UNCHANGED <<form, showSuccess, closeTimer, fields, busy, error, save>>

\* A future of another view model cannot reach the server.
LoseConnection == serverConfigured /\ ConnectionLost /\ DialogUnchanged /\ UNCHANGED stale

\* A check that fails clears the flag without the signal.
CheckFailed ==
  /\ serverConfigured' = FALSE
  /\ DialogUnchanged /\ UNCHANGED <<opening, page, stale>>

CheckSucceeded ==
  /\ serverConfigured' = TRUE
  /\ page' = IF page = "connect" THEN "login" ELSE page
  /\ DialogUnchanged /\ UNCHANGED <<opening, stale>>

\* Without the flag the window stays blank (ClientSession!MainPage).
ShowList ==
  /\ page = "login" /\ serverConfigured
  /\ page' = "list" /\ stale' = FALSE
  /\ DialogUnchanged /\ UNCHANGED <<opening, serverConfigured>>

\* Logout, or another server: the open dialog is modal.
LeaveList ==
  /\ ListPage /\ page' = "login"
  /\ DialogUnchanged /\ UNCHANGED <<opening, serverConfigured, stale>>

-----------------------------------------------------------------------------
Init ==
  /\ form \in {"book", "user"}
  /\ opening = Closed /\ showSuccess = FALSE /\ closeTimer = FALSE
  /\ editing = FALSE
  /\ copies = [total |-> 1, available |-> 1, shownTotal |-> 1, shownAvailable |-> 1]
  /\ account = [admin |-> FALSE, password |-> ""]
  /\ busy = FALSE /\ error = FALSE /\ save = NoSave
  /\ page = "login" /\ serverConfigured = TRUE /\ stale = FALSE

User ==
  \/ OpenForCreate \/ (\E r \in Rows : OpenForEdit(r))
  \/ (\E v \in 1 .. MaxCopies : TurnTotal(v))
  \/ (\E v \in Offered(copies.total) : TurnAvailable(v))
  \/ (\E admin \in BOOLEAN, password \in {"", "short", "long"} :
        FillAccount(admin, password))
  \/ Save \/ Cancel \/ LeaveList

Session == LoseConnection \/ CheckFailed \/ CheckSucceeded \/ ShowList

Next == User \/ OnFinished \/ OnTriggered \/ Serve \/ Session

Spec == Init /\ [][Next]_vars

-----------------------------------------------------------------------------
(* Properties.                                                              *)

\* The dialog has the types of the code, and busy means that a save is in
\* flight, of this opening or of an earlier one: reset does not clear it
\* (BookFormViewModel.cpp:173-186), so there is never a second one.
TypeOK ==
  /\ {showSuccess, closeTimer, editing, busy, error, serverConfigured, stale}
       \subseteq BOOLEAN
  /\ copies \in [total : Int, available : Int,
                 shownTotal : 1 .. MaxCopies, shownAvailable : Int]
  /\ account \in [admin : BOOLEAN, password : {"", "short", "long"}]
  /\ save.stage \in {"none", "sent", "ok", "refused", "unreachable"}
  /\ page \in {"connect", "login", "list"}
  /\ busy = (save # NoSave)
  /\ opened /\ opening.saving => busy

\* What Save sends is what the form shows, and as long as the user has changed
\* nothing that is the row it was opened for, whatever the last use of the
\* dialog left in the two boxes, one of which limits the other
\* (BookFormDialog.qml:58-71 and :160-187, UserFormDialog.qml:58-65).  That holds
\* also for what a row left behind whose total is below 1 or beyond the box's
\* range, which an import can store; such a row itself is excepted.
ShowsWhatItSaves ==
  opened /\ opening.row.total \in 1 .. MaxCopies =>
    /\ copies.shownTotal = copies.total
    /\ editing => copies.shownAvailable = copies.available
    /\ ~opening.touched =>
         /\ copies.total = opening.row.total
         /\ copies.available = opening.row.available
         /\ account = [admin |-> opening.row.admin, password |-> ""]

\* A form that was not opened over unfinished business of the last one, and
\* did not save again after a success, tells how its save ended: success just
\* if it was confirmed, and then the form is about to close; an error if it was
\* refused.  Only a session that lost its server without a signal
\* (Session.cpp:178) leaves a form open that could not reach the server.
MessageHonest ==
  opened /\ opening.own /\ ~opening.again =>
    /\ showSuccess = (opening.outcome = "ok")
    /\ opening.outcome = "ok" => closeTimer
    /\ opening.outcome = "refused" => error

\* One opening inserts one row, unless the user saves once more after a save
\* that succeeded, could not reach the server, or was refused although its row
\* is there (SqliteBookRepository.cpp:54-62): no double click, return key, late
\* reply or other refusal does it (BookFormDialog.qml:93-139 and :212).
CreatedOnce == opened /\ ~opening.again /\ ~opening.unsure => opening.created <= 1

\* The form never hides the page that offers to reconnect, nor the login page
\* (BookFormDialog.qml:20-27, UserFormDialog.qml:20-27).
FormYields == opened => page = "list"

\* A save ends, and the list is asked again after every confirmed one, also if
\* the form was closed before the reply or opened again before the timer fired,
\* and unless its page is not on the screen.
SaveSettles ==
  /\ busy ~> ~busy
  /\ stale ~> ~stale \/ page # "list"
=============================================================================
