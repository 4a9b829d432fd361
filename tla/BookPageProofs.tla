----------------------------- MODULE BookPageProofs -----------------------------
(***************************************************************************)
(* Proofs about BookPage: whatever earlier uses of its dialogs left behind, *)
(* and whatever the rows of the list.                                      *)
(***************************************************************************)
EXTENDS BookPage, TLAPS

RowType == [total : Int, available : Int, admin : BOOLEAN]
FormType ==
  [row : RowType, touched : BOOLEAN, own : BOOLEAN, saving : BOOLEAN,
   outcome : {"none", "ok", "refused", "unreachable"}, again : BOOLEAN,
   unsure : BOOLEAN, created : 0 .. 2]

\* The open form, the save in flight and the page.
ControlOK ==
  /\ opened => opening \in FormType
  /\ save \in [stage : {"none", "sent", "ok", "refused", "unreachable"},
               creates : BOOLEAN]
  /\ save.stage = "none" => save = NoSave
  /\ busy <=> save # NoSave
  /\ opened /\ opening.saving => busy /\ opening.outcome = "none"
  /\ page \in {"connect", "login", "list"}
  /\ showSuccess \in BOOLEAN /\ closeTimer \in BOOLEAN /\ busy \in BOOLEAN
  /\ error \in BOOLEAN /\ serverConfigured \in BOOLEAN /\ stale \in BOOLEAN

\* The rows an open form may have inserted: none before the server took its
\* save, and one at most from then on.
MayHaveSaved ==
  IF opening.saving THEN save.stage # "sent" ELSE opening.outcome # "none"
Once ==
  opened /\ ~opening.again /\ ~opening.unsure =>
    opening.created = 0 \/ (MayHaveSaved /\ opening.created = 1)

\* A form with nothing unfinished behind it: the save in flight is its own.
OwnBusiness == opened /\ opening.own => opening.saving \/ ~busy


\* Honest, without an equation between truth values.
Honest ==
  opened /\ opening.own /\ ~opening.again =>
    /\ showSuccess <=> opening.outcome = "ok"
    /\ opening.outcome = "ok" => closeTimer
    /\ opening.outcome = "refused" => error

ControlInv == ControlOK /\ FormYields /\ Once /\ OwnBusiness /\ Honest

LEMMA RowsType == ASSUME FormAssumption PROVE Rows \subseteq RowType
<1>1. ASSUME NEW b \in BookRows
      PROVE  [Fresh EXCEPT !.total = b.total, !.available = b.available] \in RowType
  BY <1>1 DEF FormAssumption, RowType, Fresh
<1>2. ASSUME NEW admin \in BOOLEAN
      PROVE  [Fresh EXCEPT !.admin = admin] \in RowType
  BY <1>2 DEF RowType, Fresh
<1> QED
  BY <1>1, <1>2, Zenon DEF Rows

LEMMA ControlInit == PageInit => ControlInv
<1> SUFFICES ASSUME PageInit PROVE ControlInv
  OBVIOUS
<1>1. ~opened
  BY DEF PageInit, Init, opened
<1>2. ControlOK
  BY <1>1 DEF PageInit, Init, ControlOK, NoSave
<1> QED
  BY <1>1, <1>2 DEF ControlInv, FormYields, Once, OwnBusiness, Honest

\* A form is opened over the list, without a save of its own.
LEMMA OpenControl ==
  ASSUME ControlInv, NEW r \in RowType, Open(r), error' \in BOOLEAN
  PROVE  ControlInv'
<1>1. opening' \in FormType /\ opening'.outcome = "none" /\ opening'.created = 0
      /\ ~opening'.saving /\ ~opening'.again /\ ~opening'.unsure /\ page = "list"
      /\ opening'.own = ~(save # NoSave \/ closeTimer)
      /\ UNCHANGED <<busy, save, session, stale, closeTimer>> /\ showSuccess' = FALSE
  BY DEF Open, Opening, FormType, ListPage
<1> QED
  <2>1. ControlOK'
    BY <1>1 DEF ControlInv, ControlOK, opened, session
  <2>2. FormYields'
    BY <1>1 DEF ControlInv, ControlOK, opened, FormYields, session
  <2>3. Once'
    BY <1>1 DEF ControlInv, ControlOK, opened, Once, MayHaveSaved, session
  <2>4. OwnBusiness'
    BY <1>1 DEF ControlInv, ControlOK, opened, OwnBusiness, session
  <2>5. Honest'
    BY <1>1 DEF ControlInv, ControlOK, opened, Honest, session
  <2> QED
    BY <2>1, <2>2, <2>3, <2>4, <2>5 DEF ControlInv

LEMMA TouchControl == ASSUME ControlInv, Touch PROVE ControlInv'
<1>1. opened /\ opening \in FormType
  BY DEF Touch, ControlInv, ControlOK
<1>2. /\ opening' \in FormType /\ opening' # Closed
      /\ opening'.own = opening.own /\ opening'.saving = opening.saving
      /\ opening'.outcome = opening.outcome /\ opening'.again = opening.again
      /\ opening'.unsure = opening.unsure
      /\ opening'.created = opening.created
      /\ UNCHANGED <<showSuccess, closeTimer, busy, error, save, session, stale>>
  BY <1>1 DEF Touch, FormType, Closed
<1> QED
  BY <1>1, <1>2 DEF ControlInv, ControlOK, opened, FormYields, Once,
              MayHaveSaved, OwnBusiness, Honest, session

LEMMA SaveControl == ASSUME ControlInv, Save PROVE ControlInv'
<1>1. opened /\ opening \in FormType /\ ~busy /\ ~opening.saving /\ save = NoSave
  BY DEF Save, ControlInv, ControlOK
<1>2. /\ opening' \in FormType /\ opening' # Closed
      /\ opening'.own = opening.own /\ opening'.saving /\ opening'.outcome = "none"
      /\ opening'.again <=> opening.again \/ opening.outcome = "ok"
      /\ opening'.unsure <=> opening.unsure \/ Unsure
      /\ opening'.created = opening.created
      /\ UNCHANGED <<showSuccess, closeTimer, session, stale>>
      /\ busy' /\ ~error' /\ save' = [stage |-> "sent", creates |-> ~editing]
  BY <1>1 DEF Save, SaveForm, FormType, Closed, Unsure
<1>3. busy' = TRUE /\ error' = FALSE
  BY DEF Save, SaveForm
<1> QED
  <2>1. ControlOK'
    BY <1>1, <1>2, <1>3 DEF ControlInv, ControlOK, opened, session, NoSave
  <2>2. FormYields'
    BY <1>1, <1>2 DEF ControlInv, opened, FormYields, session
  <2>3. Once'
    <3>1. opening.created \in 0 .. 2
             /\ opening.outcome \in {"none", "ok", "refused", "unreachable"}
      BY <1>1 DEF FormType
    <3> QED
      BY <1>1, <1>2, <3>1 DEF ControlInv, opened, Once, MayHaveSaved, Unsure
  <2>4. OwnBusiness'
    BY <1>2 DEF OwnBusiness
  <2>5. Honest'
    BY <1>1, <1>2 DEF ControlInv, opened, Honest
  <2> QED
    BY <2>1, <2>2, <2>3, <2>4, <2>5 DEF ControlInv

\* Without the form only the save goes on.
ClosedControlOK ==
  ControlOK' /\ opening' = Closed

LEMMA ClosedControl == ASSUME ClosedControlOK PROVE ControlInv'
BY DEF ClosedControlOK, ControlInv, opened, FormYields, Once, OwnBusiness,
       Honest

LEMMA FinishedControl == ASSUME ControlInv, OnFinished PROVE ControlInv'
<1> DEFINE result == save.stage
<1>0. /\ result \in {"ok", "refused", "unreachable"} /\ busy' = FALSE
      /\ save' = NoSave /\ busy
      /\ opened => opening \in FormType
  BY DEF OnFinished, BusyAfterReply, ControlInv, ControlOK, NoSave
<1>1. CASE opening' = Closed
  <2>1. /\ showSuccess' \in BOOLEAN /\ closeTimer' \in BOOLEAN
        /\ error' \in BOOLEAN /\ serverConfigured' \in BOOLEAN
        /\ stale' \in BOOLEAN /\ page' \in {"connect", "login", "list"}
    BY DEF OnFinished, ControlInv, ControlOK, ConnectionLost, session
  <2> QED
    BY <1>0, <1>1, <2>1, ClosedControl
       DEF ClosedControlOK, ControlOK, NoSave, opened
<1>2. CASE opening' = Answered(result)
  <2>1. /\ UNCHANGED session
        /\ \/ result = "ok" /\ showSuccess' = TRUE /\ closeTimer' = TRUE
              /\ stale' = TRUE /\ error' = error
           \/ result = "refused" /\ error' = TRUE
              /\ UNCHANGED <<showSuccess, closeTimer, stale>>
           \/ result = "unreachable"
              /\ UNCHANGED <<showSuccess, closeTimer, stale, error>>
        \/ opening' = Closed
    BY <1>0, <1>2 DEF OnFinished, Confirmed, ConnectionLost
  <2>2. CASE ~opened
    BY <1>1, <1>2, <2>2 DEF Answered, opened
  <2>3. CASE opened /\ ~opening.saving
    BY <1>0, <1>1, <1>2, <2>1, <2>3
       DEF Answered, ControlInv, ControlOK, opened, FormYields, Once, MayHaveSaved,
           OwnBusiness, Honest, session, NoSave
  <2>4. CASE opened /\ opening.saving
    <3>1. /\ opening' \in FormType /\ opening' # Closed
          /\ opening'.own = opening.own /\ ~opening'.saving
          /\ opening'.outcome = result /\ opening'.again = opening.again
          /\ opening'.unsure = opening.unsure
          /\ opening'.created = opening.created
      BY <1>0, <1>2, <2>4 DEF Answered, FormType, Closed
    <3> QED
      <4>1. ControlOK'
        BY <1>0, <1>1, <2>1, <2>4, <3>1
           DEF ControlInv, ControlOK, opened, session, NoSave
      <4>2. FormYields'
        BY <1>0, <1>1, <2>1, <2>4, <3>1
           DEF ControlInv, ControlOK, opened, FormYields, session, NoSave
      <4>3. Once'
        BY <1>0, <1>1, <2>1, <2>4, <3>1
           DEF ControlInv, ControlOK, opened, Once, MayHaveSaved, session, NoSave
      <4>4. OwnBusiness'
        BY <1>0, <1>1, <2>1, <2>4, <3>1
           DEF ControlInv, ControlOK, opened, OwnBusiness, session, NoSave
      <4>5. Honest'
        BY <1>0, <1>1, <2>1, <2>4, <3>1
           DEF ControlInv, ControlOK, opened, Honest, session, NoSave
      <4> QED
        BY <4>1, <4>2, <4>3, <4>4, <4>5 DEF ControlInv
  <2> QED
    BY <2>2, <2>3, <2>4
<1> QED
  BY <1>1, <1>2 DEF OnFinished, ConnectionLost

LEMMA ServeControl == ASSUME ControlInv, Serve PROVE ControlInv'
<1>1. PICK result \in {"ok", "refused", "unreachable"} :
        /\ save.stage = "sent" /\ save' = [save EXCEPT !.stage = result]
        /\ UNCHANGED <<showSuccess, closeTimer, busy, error, session, stale>>
        /\ opening' \in {opening, Inserted}
  BY DEF Serve, ServeCreate, ServeUpdate, Replies
<1>2. /\ save'.stage = result /\ save'.creates = save.creates
      /\ save' \in [stage : {"none", "sent", "ok", "refused", "unreachable"},
                    creates : BOOLEAN]
      /\ save # NoSave /\ save' # NoSave
  BY <1>1 DEF ControlInv, ControlOK, NoSave
<1>3. CASE opening' = opening
  <2>1. ControlOK'
    BY <1>1, <1>2, <1>3 DEF ControlInv, ControlOK, opened, session
  <2>2. FormYields'
    BY <1>1, <1>2, <1>3 DEF ControlInv, ControlOK, opened, FormYields, session
  <2>3. Once'
    BY <1>1, <1>2, <1>3 DEF ControlInv, ControlOK, opened, Once, MayHaveSaved, session
  <2>4. OwnBusiness'
    BY <1>1, <1>2, <1>3 DEF ControlInv, ControlOK, opened, OwnBusiness, session
  <2>5. Honest'
    BY <1>1, <1>2, <1>3 DEF ControlInv, ControlOK, opened, Honest, session
  <2> QED
    BY <2>1, <2>2, <2>3, <2>4, <2>5 DEF ControlInv
<1>4. CASE opening' = Inserted /\ opening' # opening
  <2>1. /\ opened /\ opening \in FormType /\ opening.saving
        /\ opening' = [opening EXCEPT !.created = @ + 1] /\ opening.created < 2
    BY <1>4 DEF Inserted, ControlInv, ControlOK
  <2>2. /\ opening' \in FormType /\ opening' # Closed
        /\ opening'.own = opening.own /\ opening'.saving
        /\ opening'.outcome = opening.outcome /\ opening'.again = opening.again
        /\ opening'.unsure = opening.unsure
        /\ opening'.created = opening.created + 1
    BY <2>1 DEF FormType, Closed
  <2> QED
    <3>1. ControlOK'
      BY <1>1, <1>2, <1>4, <2>1, <2>2 DEF ControlInv, ControlOK, opened, session
    <3>2. FormYields'
      BY <1>1, <1>2, <1>4, <2>1, <2>2
      DEF ControlInv, ControlOK, opened, FormYields, session
    <3>3. Once'
      BY <1>1, <1>2, <1>4, <2>1, <2>2
      DEF ControlInv, ControlOK, opened, Once, MayHaveSaved, session
    <3>4. OwnBusiness'
      BY <1>1, <1>2, <1>4, <2>1, <2>2
      DEF ControlInv, ControlOK, opened, OwnBusiness, session
    <3>5. Honest'
      BY <1>1, <1>2, <1>4, <2>1, <2>2 DEF ControlInv, ControlOK, opened, Honest, session
    <3> QED
      BY <3>1, <3>2, <3>3, <3>4, <3>5 DEF ControlInv
<1> QED
  BY <1>1, <1>3, <1>4
LEMMA TriggeredControl == ASSUME ControlInv, OnTriggered PROVE ControlInv'
BY ClosedControl
   DEF OnTriggered, RefreshList, ControlInv, ControlOK, ClosedControlOK, opened, session

\* The page changes under a form that is closed, or stays.
LEMMA ElsewhereControl ==
  ASSUME ControlInv,
         UNCHANGED <<showSuccess, closeTimer, busy, error, save>>,
         stale' \in BOOLEAN, serverConfigured' \in BOOLEAN,
         page' \in {"connect", "login", "list"},
         opening' = Closed \/ (opening' = opening /\ (opened => page' = page))
  PROVE  ControlInv'
<1>1. CASE opening' = Closed
  BY <1>1, ClosedControl DEF ClosedControlOK, ControlInv, ControlOK, opened
<1>2. CASE opening' = opening
  BY <1>2 DEF ControlInv, ControlOK, opened, FormYields, Once, MayHaveSaved,
              OwnBusiness, Honest
<1> QED
  BY <1>1, <1>2

LEMMA UserControl == ASSUME FormAssumption, ControlInv, User PROVE ControlInv'
<1>1. CASE OpenForCreate
  <2>1. Fresh \in RowType
    BY DEF Fresh, RowType
  <2> QED
    BY <1>1, <2>1, OpenControl DEF OpenForCreate
<1>2. ASSUME NEW r \in Rows, OpenForEdit(r) PROVE ControlInv'
  BY <1>2, OpenControl, RowsType DEF OpenForEdit, ControlInv, ControlOK
<1>3. CASE \E v \in 1 .. MaxCopies : TurnTotal(v)
  BY <1>3, TouchControl DEF TurnTotal
<1>4. CASE \E v \in Offered(copies.total) : TurnAvailable(v)
  BY <1>4, TouchControl DEF TurnAvailable
<1>5. CASE \E admin \in BOOLEAN, password \in {"", "short", "long"} :
             FillAccount(admin, password)
  BY <1>5, TouchControl DEF FillAccount
<1>6. CASE Save
  BY <1>6, SaveControl
<1>7. CASE Cancel
  BY <1>7, ElsewhereControl DEF Cancel, session, ControlInv, ControlOK
<1>8. CASE LeaveList
  BY <1>8, ElsewhereControl
     DEF LeaveList, ListPage, DialogUnchanged, session, ControlInv, ControlOK
<1> QED
  BY <1>1, <1>2, <1>3, <1>4, <1>5, <1>6, <1>7, <1>8 DEF User

LEMMA SessionControl == ASSUME ControlInv, Session PROVE ControlInv'
<1> USE DEF DialogUnchanged, session, ControlInv, ControlOK
<1>1. CASE LoseConnection
  BY <1>1, ElsewhereControl DEF LoseConnection, ConnectionLost
<1>2. CASE CheckFailed
  BY <1>2, ElsewhereControl DEF CheckFailed
<1>3. CASE CheckSucceeded
  BY <1>3, ElsewhereControl DEF CheckSucceeded, FormYields
<1>4. CASE ShowList
  BY <1>4, ElsewhereControl DEF ShowList, FormYields
<1> QED
  BY <1>1, <1>2, <1>3, <1>4 DEF Session

\* The two ways through a CSV file.
LEMMA CsvControl ==
  ASSUME ControlInv, CsvUser \/ ImportFinished \/ ExportFinished
  PROVE  ControlInv'
<1> USE DEF formVars, ControlInv, ControlOK
<1>1. CASE CsvUser
  <2>1. UNCHANGED <<page, serverConfigured, stale>>
    BY <1>1 DEF CsvUser, Csv!User, Csv!OpenImport, Csv!CloseImport, Csv!ImportFromFile,
                Csv!ExportToFile, Csv!ChooseMode, Csv!session
  <2> QED
    BY <1>1, <2>1, ElsewhereControl DEF CsvUser
<1>2. CASE ImportFinished
  BY <1>2, ElsewhereControl
     DEF ImportFinished, CsvHandle, FormFollows, Csv!OnImported, Csv!RefreshNow,
         Csv!HandleConnectivityIssue, Csv!session
<1>3. CASE ExportFinished
  BY <1>3, ElsewhereControl
     DEF ExportFinished, CsvHandle, FormFollows, Csv!OnExported,
         Csv!HandleConnectivityIssue, Csv!session
<1> QED
  BY <1>1, <1>2, <1>3

LEMMA ControlNext ==
  ASSUME FormAssumption, ControlInv, [PageNext]_pageVars
  PROVE  ControlInv'
<1>1. CASE FormUser
  BY <1>1, UserControl DEF FormUser
<1>2. CASE FormSession
  BY <1>2, SessionControl DEF FormSession
<1>3. CASE FormServe
  BY <1>3, ServeControl DEF FormServe
<1>4. CASE FormFinished
  BY <1>4, FinishedControl DEF FormFinished
<1>5. CASE FormTriggered
  BY <1>5, TriggeredControl DEF FormTriggered
<1>6. CASE CsvUser \/ ImportFinished \/ ExportFinished
  BY <1>6, CsvControl
<1>7. CASE UNCHANGED pageVars
  BY <1>7, ElsewhereControl DEF pageVars, vars, session, ControlInv, ControlOK
<1> QED
  BY <1>1, <1>2, <1>3, <1>4, <1>5, <1>6, <1>7 DEF PageNext

LEMMA ControlAlways == PageSpec => []ControlInv
<1>1. ControlInv /\ [PageNext]_pageVars => ControlInv'
  BY ControlNext, FormAssumption
<1> QED
  BY <1>1, ControlInit, PTL DEF PageSpec

\* The form never covers the page that offers to reconnect, nor the login page
\* (BookFormDialog.qml:20-27), whoever loses the server: the form, the list, an
\* import or an export.
THEOREM FormNeverInTheWay == PageSpec => []FormYields
<1>1. ControlInv => FormYields
  BY DEF ControlInv
<1> QED
  BY <1>1, ControlAlways, PTL

\* No double click, return key or late reply makes one opening insert two rows,
\* unless the user saves again after a save that succeeded, that could not reach
\* the server, or that was refused after its INSERT.
THEOREM OneOpeningOneRow == PageSpec => []CreatedOnce
<1>1. ControlInv => CreatedOnce
  BY DEF ControlInv, Once, CreatedOnce
<1> QED
  BY <1>1, ControlAlways, PTL

\* A form opened over no unfinished business says truly how its save ended.
THEOREM HonestForm == PageSpec => []MessageHonest
<1>1. ASSUME ControlInv PROVE MessageHonest
  <2>1. ASSUME opened, opening.own, ~opening.again
        PROVE  showSuccess = (opening.outcome = "ok")
    <3>1. showSuccess \in BOOLEAN /\ (showSuccess <=> opening.outcome = "ok")
      BY <1>1, <2>1 DEF ControlInv, ControlOK, Honest
    <3> QED
      BY <3>1, Zenon
  <2> QED
    BY <1>1, <2>1 DEF ControlInv, Honest, MessageHonest
<1> QED
  BY <1>1, ControlAlways, PTL
-----------------------------------------------------------------------------
(* The boxes.  The one of the total shows it as far as its range allows; the *)
(* one of the available copies, limited by the total, shows them unless they *)
(* are out of the range of any total that its box offers.                    *)

BoxType == [total : Int, available : Int, shownTotal : 1 .. MaxCopies,
            shownAvailable : Int]
InReach(c) == c.available \in 0 .. MaxCopies
Fit(c) ==
  /\ c \in BoxType
  /\ c.shownTotal = Bound(c.total, 1, MaxCopies)
  /\ c.shownAvailable \in Offered(c.total)
  /\ InReach(c) => c.shownAvailable = c.available

\* The boxes of the open form, for a row within their range.
BoxInv ==
  /\ Fit(copies)
  /\ opened /\ opening.row.total \in 1 .. MaxCopies =>
       /\ copies.total \in 1 .. MaxCopies /\ InReach(copies)
       /\ ~opening.touched =>
            /\ copies.total = opening.row.total
            /\ copies.available = opening.row.available
            /\ account = [admin |-> opening.row.admin, password |-> ""]

\* A box moves a value into its range, which may be upside down, and leaves it
\* alone there.
LEMMA BoundOffered ==
  ASSUME NEW v \in Int, NEW limit \in Int
  PROVE  /\ Bound(v, 0, limit) \in Int /\ Bound(v, 0, limit) \in Offered(limit)
         /\ v \in Offered(limit) => Bound(v, 0, limit) = v
BY DEF Bound, Between, Offered

LEMMA BoundTotal ==
  ASSUME FormAssumption, NEW v \in Int
  PROVE  /\ Bound(v, 1, MaxCopies) \in 1 .. MaxCopies
         /\ v \in 1 .. MaxCopies => Bound(v, 1, MaxCopies) = v
         /\ v > MaxCopies => Bound(v, 1, MaxCopies) = MaxCopies
         /\ v < 1 => Bound(v, 1, MaxCopies) = 1
BY DEF Bound, Between, FormAssumption

LEMMA SetLimitFits ==
  ASSUME FormAssumption, NEW c \in BoxType, NEW limit \in Int,
         InReach(c) => c.shownAvailable = c.available
  PROVE  LET d == SetLimit(c, limit)
         IN  /\ d \in BoxType
             /\ d.total = c.total /\ d.shownTotal = c.shownTotal
             /\ d.shownAvailable \in Offered(limit)
             /\ InReach(d) => d.shownAvailable = d.available
             /\ d.available = c.available \/ d.available \in Offered(limit)
<1> DEFINE shown == Bound(c.shownAvailable, 0, limit)
           d == SetLimit(c, limit)
<1>1. shown \in Int /\ shown \in Offered(limit)
  BY BoundOffered DEF BoxType
<1>2. CASE shown = c.shownAvailable
  BY <1>1, <1>2 DEF SetLimit
<1>3. CASE shown # c.shownAvailable
  <2>1. d = [c EXCEPT !.available = shown, !.shownAvailable = shown]
    BY <1>3 DEF SetLimit
  <2> HIDE DEF shown, d
  <2>2. /\ d \in BoxType
        /\ d.total = c.total /\ d.shownTotal = c.shownTotal
        /\ d.available = shown /\ d.shownAvailable = shown
    BY <1>1, <2>1 DEF BoxType
  <2> QED
    BY <1>1, <2>2 DEF d
<1> QED
  BY <1>2, <1>3

LEMMA SetAvailableFits ==
  ASSUME FormAssumption, NEW c, Fit(c), NEW v \in Int,
         v \in 0 .. MaxCopies => v \in Offered(c.total)
  PROVE  LET d == SetAvailable(c, v, c.total)
         IN  /\ Fit(d) /\ d.total = c.total
             /\ v \in Offered(c.total) => d.available = v
<1> DEFINE shown == Bound(v, 0, c.total)
           d == SetAvailable(c, v, c.total)
<1>0. c \in BoxType /\ c.total \in Int
  BY DEF Fit, BoxType
<1>1. shown \in Int /\ shown \in Offered(c.total)
      /\ (v \in Offered(c.total) => shown = v)
  BY <1>0, BoundOffered
<1>2. CASE v = c.available
  BY <1>2 DEF SetAvailable
<1>3. CASE v # c.available /\ shown = c.shownAvailable
  <2>1. d = [c EXCEPT !.available = v]
    BY <1>3 DEF SetAvailable
  <2> HIDE DEF shown, d
  <2>2. /\ d \in BoxType
        /\ d.total = c.total /\ d.shownTotal = c.shownTotal
        /\ d.available = v /\ d.shownAvailable = shown
    BY <1>0, <1>3, <2>1 DEF BoxType
  <2> QED
    BY <1>1, <2>2 DEF d, Fit, InReach
<1>4. CASE v # c.available /\ shown # c.shownAvailable
  <2>1. d = [c EXCEPT !.available = shown, !.shownAvailable = shown]
    BY <1>4 DEF SetAvailable
  <2> HIDE DEF shown, d
  <2>2. /\ d \in BoxType
        /\ d.total = c.total /\ d.shownTotal = c.shownTotal
        /\ d.available = shown /\ d.shownAvailable = shown
    BY <1>0, <1>1, <2>1 DEF BoxType
  <2> QED
    BY <1>1, <2>2 DEF d, Fit
<1> QED
  BY <1>2, <1>3, <1>4

LEMMA SetTotalFits ==
  ASSUME FormAssumption, NEW c, Fit(c), NEW v \in Int
  PROVE  LET d == SetTotal(c, v, TRUE)
         IN  /\ Fit(d)
             /\ v \in 1 .. MaxCopies => d.total = v
             /\ d.total = v \/ (v > MaxCopies /\ d.total = MaxCopies)
                           \/ (v < 1 /\ d.total = 1)
<1> DEFINE shown == Bound(v, 1, MaxCopies)
           total == IF shown # c.shownTotal THEN shown ELSE v
           e == [c EXCEPT !.total = total, !.shownTotal = shown]
<1>1. shown \in 1 .. MaxCopies /\ (v \in 1 .. MaxCopies => shown = v)
      /\ (v > MaxCopies => shown = MaxCopies) /\ (v < 1 => shown = 1)
  BY BoundTotal
<1>2. total \in Int /\ Bound(total, 1, MaxCopies) = shown
  BY <1>1, BoundTotal DEF FormAssumption
<1> HIDE DEF shown, total
<1>3. /\ e \in BoxType
      /\ e.total = total /\ e.shownTotal = shown
      /\ e.available = c.available /\ e.shownAvailable = c.shownAvailable
  BY <1>1, <1>2 DEF Fit, BoxType
<1> HIDE DEF e
<1>4. Fit(SetLimit(e, total)) /\ SetLimit(e, total).total = total
  <2> DEFINE d == SetLimit(e, total)
  <2>1. InReach(e) => e.shownAvailable = e.available
    BY <1>3 DEF Fit, InReach
  <2>2. /\ d \in BoxType
        /\ d.total = total /\ d.shownTotal = shown
        /\ d.shownAvailable \in Offered(total)
        /\ InReach(d) => d.shownAvailable = d.available
    BY <1>2, <1>3, <2>1, SetLimitFits
  <2> HIDE DEF d
  <2>3. Fit(d) /\ d.total = total
    BY <1>2, <2>2 DEF Fit
  <2> QED
    BY <2>3 DEF d
<1>5. SetTotal(c, v, TRUE) = IF v = c.total THEN c ELSE SetLimit(e, total)
  BY DEF SetTotal, e, total, shown
<1>6. total = v \/ (v > MaxCopies /\ total = MaxCopies) \/ (v < 1 /\ total = 1)
  BY <1>1 DEF total, FormAssumption
<1> QED
  BY <1>1, <1>4, <1>5, <1>6 DEF FormAssumption

\* A box that is moved to its new total, and the limit that goes with it.
LEMMA LimitFits ==
  ASSUME FormAssumption, NEW c, Fit(c), NEW v \in 1 .. MaxCopies
  PROVE  LET d == SetLimit([c EXCEPT !.total = v, !.shownTotal = v], v)
         IN  /\ Fit(d) /\ d.total = v
             /\ InReach(c) => InReach(d)
<1> DEFINE e == [c EXCEPT !.total = v, !.shownTotal = v]
<1>0. /\ c \in BoxType /\ v \in Int /\ Bound(v, 1, MaxCopies) = v
      /\ InReach(c) => c.shownAvailable = c.available
  BY BoundTotal DEF Fit, FormAssumption
<1>1. /\ e \in BoxType
      /\ e.total = v /\ e.shownTotal = v
      /\ e.available = c.available /\ e.shownAvailable = c.shownAvailable
  BY <1>0 DEF BoxType
<1> HIDE DEF e
<1>2. Fit(SetLimit(e, v)) /\ SetLimit(e, v).total = v
      /\ (InReach(c) => InReach(SetLimit(e, v)))
  <2> DEFINE d == SetLimit(e, v)
  <2>0. InReach(e) <=> InReach(c)
    BY <1>1 DEF InReach
  <2>1. /\ d \in BoxType
        /\ d.total = v /\ d.shownTotal = v /\ d.shownAvailable \in Offered(v)
        /\ InReach(d) => d.shownAvailable = d.available
        /\ d.available = c.available \/ d.available \in Offered(v)
    BY <1>0, <1>1, <2>0, SetLimitFits
  <2> HIDE DEF d
  <2>2. Fit(d) /\ d.total = v
    BY <1>0, <2>1 DEF Fit
  <2>3. InReach(c) => InReach(d)
    BY <1>0, <2>1 DEF FormAssumption, InReach, Offered
  <2> QED
    BY <2>2, <2>3 DEF d
<1> QED
  BY <1>2 DEF e

LEMMA RowCopiesFit ==
  ASSUME FormAssumption, NEW c, Fit(c), NEW r \in RowType, Stored(r)
  PROVE  /\ Fit(RowCopies(c, r))
         /\ r.total \in 1 .. MaxCopies =>
              /\ RowCopies(c, r).total = r.total
              /\ RowCopies(c, r).available = r.available
<1> DEFINE withTotal == SetTotal(c, r.total, TRUE)
<1>1. r.total \in Int /\ r.available \in Int
  BY DEF RowType
<1>2. /\ Fit(withTotal)
      /\ r.total \in 1 .. MaxCopies => withTotal.total = r.total
      /\ withTotal.total = r.total \/ withTotal.total = MaxCopies
           \/ (r.total < 1 /\ withTotal.total = 1)
  BY <1>1, SetTotalFits
<1>3. RowCopies(c, r) = SetAvailable(withTotal, r.available, withTotal.total)
  BY DEF RowCopies
<1> HIDE DEF withTotal
<1>4. r.available \in 0 .. MaxCopies => r.available \in Offered(withTotal.total)
  BY <1>1, <1>2 DEF FormAssumption, Stored, Offered
<1>5. r.total \in 1 .. MaxCopies => r.available \in Offered(withTotal.total)
  BY <1>1, <1>2 DEF FormAssumption, Stored, Offered
<1> QED
  BY <1>1, <1>2, <1>3, <1>4, <1>5, SetAvailableFits

LEMMA ResetCopiesFit ==
  ASSUME FormAssumption, NEW c, Fit(c)
  PROVE  /\ Fit(ResetCopies(c))
         /\ ResetCopies(c).total = 1 /\ ResetCopies(c).available = 1
<1> DEFINE withTotal == SetTotal(c, 1, FALSE)
           first == IF 1 # c.shownTotal THEN SetAvailable(c, 1, c.total) ELSE c
<1>1. 1 \in 1 .. MaxCopies /\ Bound(1, 1, MaxCopies) = 1
  BY BoundTotal DEF FormAssumption
<1>2. Fit(first)
  <2>1. CASE 1 # c.shownTotal
    <3>1. c.total \in Int /\ ~(c.total < 1)
      BY <2>1, BoundTotal DEF Fit, BoxType
    <3>2. 1 \in Offered(c.total)
      BY <3>1 DEF Offered
    <3> QED
      BY <2>1, <3>2, SetAvailableFits
  <2> QED
    BY <2>1
<1>3. withTotal = IF 1 = c.total THEN c
                  ELSE SetLimit([first EXCEPT !.total = 1, !.shownTotal = 1], 1)
  BY <1>1 DEF SetTotal
<1> HIDE DEF first, withTotal
<1>4. Fit(withTotal) /\ withTotal.total = 1
  BY <1>1, <1>2, <1>3, LimitFits
<1>5. ResetCopies(c) = SetAvailable(withTotal, 1, withTotal.total)
  BY DEF ResetCopies, withTotal
<1>6. 1 \in Offered(withTotal.total)
  BY <1>4 DEF Offered
<1> QED
  BY <1>4, <1>5, <1>6, SetAvailableFits

LEMMA TurnedTotalFits ==
  ASSUME FormAssumption, NEW c, Fit(c), NEW v \in 1 .. MaxCopies
  PROVE  /\ Fit(TurnedTotal(c, v)) /\ TurnedTotal(c, v).total = v
         /\ InReach(c) => InReach(TurnedTotal(c, v))
<1> DEFINE limited == SetLimit([c EXCEPT !.total = v, !.shownTotal = v], v)
<1>1. /\ Fit(limited) /\ limited.total = v
      /\ InReach(c) => InReach(limited)
  BY LimitFits
<1>2. TurnedTotal(c, v) = IF editing THEN limited ELSE SetAvailable(limited, v, v)
  BY DEF TurnedTotal
<1> HIDE DEF limited
<1>3. v \in Int /\ v \in 0 .. MaxCopies /\ v \in Offered(v)
  BY DEF FormAssumption, Offered
<1>4. /\ Fit(SetAvailable(limited, v, v)) /\ SetAvailable(limited, v, v).total = v
      /\ InReach(SetAvailable(limited, v, v))
  BY <1>1, <1>3, SetAvailableFits DEF InReach
<1> QED
  BY <1>1, <1>2, <1>3, <1>4

LEMMA BoxInit == ASSUME FormAssumption, PageInit PROVE BoxInv
<1>1. ~opened
  BY DEF PageInit, Init, opened
<1>2. copies = [total |-> 1, available |-> 1, shownTotal |-> 1, shownAvailable |-> 1]
  BY DEF PageInit, Init
<1>3. 1 \in 1 .. MaxCopies /\ Bound(1, 1, MaxCopies) = 1 /\ 1 \in Offered(1)
  BY BoundTotal DEF FormAssumption, Offered
<1>4. copies.total = 1 /\ copies.available = 1 /\ copies.shownTotal = 1
      /\ copies.shownAvailable = 1
      /\ copies \in BoxType
  BY <1>2, <1>3 DEF BoxType
<1>5. Fit(copies)
  BY <1>3, <1>4 DEF Fit
<1> QED
  BY <1>1, <1>5 DEF BoxInv

LEMMA StoredInReach ==
  ASSUME FormAssumption, NEW r \in RowType, Stored(r), r.total \in 1 .. MaxCopies
  PROVE  r.available \in 0 .. MaxCopies
BY DEF FormAssumption, RowType, Stored

\* A form opened for a row shows it.
LEMMA OpenBox ==
  ASSUME FormAssumption, BoxInv, NEW r \in RowType, Open(r),
         Fit(copies'), Stored(r),
         r.total \in 1 .. MaxCopies =>
           /\ copies'.total = r.total /\ copies'.available = r.available
           /\ account' = [admin |-> r.admin, password |-> ""]
  PROVE  BoxInv'
<1>1. opening'.row = r
  BY DEF Open, Opening
<1>3. r.total \in 1 .. MaxCopies => r.available \in 0 .. MaxCopies
  BY StoredInReach
<1>4. opening'.row.total \in 1 .. MaxCopies =>
        /\ copies'.total \in 1 .. MaxCopies /\ InReach(copies')
        /\ copies'.total = opening'.row.total
        /\ copies'.available = opening'.row.available
        /\ account' = [admin |-> opening'.row.admin, password |-> ""]
  BY <1>1, <1>3 DEF InReach
<1> QED
  BY <1>4 DEF BoxInv, InReach

\* A step that touches the boxes only within their range.
LEMMA TouchBox ==
  ASSUME ControlInv, BoxInv, Touch, Fit(copies'),
         opening.row.total \in 1 .. MaxCopies =>
           copies'.total \in 1 .. MaxCopies /\ InReach(copies')
  PROVE  BoxInv'
<1>1. opened /\ opening \in FormType
  BY DEF Touch, ControlInv, ControlOK
<1>2. opening'.row = opening.row /\ opening'.touched
  BY <1>1 DEF Touch, FormType
<1> QED
  BY <1>1, <1>2 DEF BoxInv, InReach

\* Other steps leave the boxes and what they show alone, or close the form.
LEMMA OtherBox ==
  ASSUME BoxInv, UNCHANGED <<copies, account>>,
         \/ opening' = Closed
         \/ /\ opened /\ opening'.row = opening.row
            /\ opening'.touched = opening.touched
  PROVE  BoxInv'
<1>1. Fit(copies') /\ (InReach(copies)' <=> InReach(copies))
  BY DEF BoxInv, InReach
<1>2. CASE opening' = Closed
  BY <1>1, <1>2 DEF BoxInv, opened
<1>3. CASE opening' # Closed
  BY <1>1, <1>3 DEF BoxInv, opened
<1> QED
  BY <1>2, <1>3

LEMMA RowsStored == ASSUME FormAssumption, NEW r \in Rows PROVE Stored(r)
<1>1. ASSUME NEW b \in BookRows
      PROVE  Stored([Fresh EXCEPT !.total = b.total, !.available = b.available])
  BY <1>1 DEF FormAssumption, Fresh, Stored
<1>2. ASSUME NEW admin \in BOOLEAN
      PROVE  Stored([Fresh EXCEPT !.admin = admin])
  BY <1>2 DEF Fresh, Stored
<1> QED
  BY <1>1, <1>2, Zenon DEF Rows

LEMMA UserBox ==
  ASSUME FormAssumption, ControlInv, BoxInv, User PROVE BoxInv'
<1>1. CASE OpenForCreate
  <2>1. Fresh \in RowType /\ Fresh.total = 1 /\ Fresh.available = 1 /\ ~Fresh.admin
        /\ Stored(Fresh) /\ Fresh.admin = FALSE
    BY DEF Fresh, RowType, Stored
  <2>2. /\ Fit(copies') /\ copies'.total = 1 /\ copies'.available = 1
        /\ account' = [admin |-> Fresh.admin, password |-> ""]
    BY <1>1, <2>1, ResetCopiesFit DEF OpenForCreate, BoxInv
  <2> QED
    BY <1>1, <2>1, <2>2, OpenBox DEF OpenForCreate
<1>2. ASSUME NEW r \in Rows, OpenForEdit(r) PROVE BoxInv'
  <2>1. r \in RowType /\ Stored(r)
    BY RowsType, RowsStored
  <2>2. /\ Open(r) /\ copies' = RowCopies(copies, r)
        /\ account' = [admin |-> r.admin, password |-> ""]
    BY <1>2 DEF OpenForEdit
  <2>3. /\ Fit(copies')
        /\ r.total \in 1 .. MaxCopies =>
             copies'.total = r.total /\ copies'.available = r.available
    BY <2>1, <2>2, RowCopiesFit DEF BoxInv
  <2> QED
    BY <2>1, <2>2, <2>3, OpenBox
<1>3. ASSUME NEW v \in 1 .. MaxCopies, TurnTotal(v) PROVE BoxInv'
  <2>1. Touch /\ opened /\ copies' = TurnedTotal(copies, v)
    BY <1>3 DEF TurnTotal, Touch
  <2>2. /\ Fit(copies') /\ copies'.total = v
        /\ InReach(copies) => InReach(copies')
    BY <2>1, TurnedTotalFits DEF BoxInv
  <2>3. opening.row.total \in 1 .. MaxCopies => InReach(copies)
    BY <2>1 DEF BoxInv
  <2> QED
    BY <2>1, <2>2, <2>3, TouchBox
<1>4. ASSUME NEW v \in Offered(copies.total), TurnAvailable(v) PROVE BoxInv'
  <2>1. /\ Touch /\ opened
        /\ copies' = [copies EXCEPT !.available = v, !.shownAvailable = v]
    BY <1>4 DEF TurnAvailable, Touch
  <2>2. copies \in BoxType /\ copies.total \in Int /\ v \in Int
    <3>1. copies \in BoxType /\ copies.total \in Int
      BY DEF BoxInv, Fit, BoxType
    <3>2. v \in Int
      BY <1>4, <3>1 DEF Offered
    <3> QED
      BY <3>1, <3>2
  <2>3. /\ copies' \in BoxType
        /\ copies'.total = copies.total /\ copies'.shownTotal = copies.shownTotal
        /\ copies'.available = v /\ copies'.shownAvailable = v
    BY <2>1, <2>2 DEF BoxType
  <2>4. Fit(copies')
    BY <2>1, <2>3 DEF BoxInv, Fit
  <2>5. opening.row.total \in 1 .. MaxCopies =>
          copies'.total \in 1 .. MaxCopies /\ InReach(copies')
    <3>1. opening.row.total \in 1 .. MaxCopies => copies.total \in 1 .. MaxCopies
      BY <2>1 DEF BoxInv
    <3>2. copies.total \in 1 .. MaxCopies => v \in 0 .. MaxCopies
      BY <1>4, <2>2 DEF Offered, FormAssumption
    <3> QED
      BY <2>3, <3>1, <3>2 DEF InReach
  <2> QED
    BY <2>1, <2>4, <2>5, TouchBox
<1>5. CASE \E admin \in BOOLEAN, password \in {"", "short", "long"} :
             FillAccount(admin, password)
  <2>1. Touch /\ opened /\ copies' = copies
    BY <1>5 DEF FillAccount, Touch
  <2>2. Fit(copies') /\ (InReach(copies') <=> InReach(copies))
    BY <2>1 DEF BoxInv
  <2> QED
    BY <2>1, <2>2, TouchBox DEF BoxInv
<1>6. CASE Save
  <2>1. opened /\ opening \in FormType /\ UNCHANGED <<copies, account>>
    BY <1>6 DEF Save, SaveForm, fields, ControlInv, ControlOK
  <2>2. opening'.row = opening.row /\ opening'.touched = opening.touched
    BY <1>6, <2>1 DEF Save, SaveForm, FormType
  <2> QED
    BY <2>1, <2>2, OtherBox
<1>7. CASE Cancel
  BY <1>7, OtherBox DEF Cancel, fields
<1>8. CASE LeaveList
  BY <1>8 DEF LeaveList, DialogUnchanged, fields, BoxInv, InReach, opened
<1> QED
  BY <1>1, <1>2, <1>3, <1>4, <1>5, <1>6, <1>7, <1>8 DEF User

\* Replies, the timer, the session and the CSV dialogs: no other step writes to
\* the boxes or opens a form.
LEMMA BoxNext ==
  ASSUME FormAssumption, ControlInv, BoxInv, [PageNext]_pageVars
  PROVE  BoxInv'
<1>0. ASSUME UNCHANGED <<copies, account>>, opening' \in {opening, Closed}
      PROVE  BoxInv'
  BY <1>0 DEF BoxInv, InReach, opened
<1>1. CASE FormUser
  BY <1>1, UserBox DEF FormUser
<1>2. CASE FormSession
  BY <1>0, <1>2 DEF FormSession, Session, LoseConnection, ConnectionLost, CheckFailed,
                    CheckSucceeded, ShowList, DialogUnchanged, fields
<1>3. CASE FormServe
  <2>1. UNCHANGED <<copies, account>> /\ opening' \in {opening, Inserted}
    BY <1>3 DEF FormServe, Serve, ServeCreate, ServeUpdate, Replies, fields
  <2>2. opened => opening \in FormType
    BY DEF ControlInv, ControlOK
  <2>3. CASE opening' # opening
    <3>1. /\ opened /\ opening'.row = opening.row
          /\ opening'.touched = opening.touched
      BY <2>1, <2>2, <2>3 DEF Inserted, FormType
    <3> QED
      BY <2>1, <3>1, OtherBox
  <2> QED
    BY <1>0, <2>1, <2>3
<1>4. CASE FormFinished
  <2>1. /\ UNCHANGED <<copies, account>>
        /\ \/ opening' = Closed
           \/ \E result \in {"ok", "refused", "unreachable"} :
                opening' = Answered(result)
    BY <1>4 DEF FormFinished, OnFinished, ConnectionLost, fields
  <2>2. opened => opening \in FormType
    BY DEF ControlInv, ControlOK
  <2>3. CASE opening' \notin {opening, Closed}
    <3>1. /\ opened /\ opening'.row = opening.row
          /\ opening'.touched = opening.touched
      BY <2>1, <2>2, <2>3 DEF Answered, FormType
    <3> QED
      BY <2>1, <3>1, OtherBox
  <2> QED
    BY <1>0, <2>1, <2>3
<1>5. CASE FormTriggered
  BY <1>0, <1>5 DEF FormTriggered, OnTriggered, fields
<1>6. CASE CsvUser \/ ImportFinished \/ ExportFinished
  BY <1>0, <1>6 DEF CsvUser, ImportFinished, ExportFinished, CsvHandle, FormFollows,
                    formVars, fields
<1>7. CASE UNCHANGED pageVars
  BY <1>0, <1>7 DEF pageVars, vars, fields
<1> QED
  BY <1>1, <1>2, <1>3, <1>4, <1>5, <1>6, <1>7 DEF PageNext

LEMMA BoxAlways == PageSpec => []BoxInv
<1>1. ControlInv /\ BoxInv /\ [PageNext]_pageVars => BoxInv'
  BY BoxNext, FormAssumption
<1>2. PageInit => BoxInv
  BY BoxInit, FormAssumption
<1> QED
  BY <1>1, <1>2, ControlAlways, PTL DEF PageSpec

\* What Save sends is what the form shows, and until the user changes something
\* that is the row the form was opened for: no order of the assignments to the
\* two boxes, nor what the last row left in them, clips a value on the way.
THEOREM FormShowsWhatItSaves == PageSpec => []ShowsWhatItSaves
<1>1. ASSUME BoxInv, FormAssumption PROVE ShowsWhatItSaves
  <2>1. SUFFICES ASSUME opened, opening.row.total \in 1 .. MaxCopies
                 PROVE  /\ copies.shownTotal = copies.total
                        /\ copies.shownAvailable = copies.available
    BY <1>1 DEF BoxInv, ShowsWhatItSaves
  <2>2. Fit(copies) /\ copies.total \in 1 .. MaxCopies /\ InReach(copies)
    BY <1>1, <2>1 DEF BoxInv
  <2> QED
    BY <1>1, <2>2, BoundTotal DEF Fit, BoxType
<1> QED
  BY <1>1, BoxAlways, FormAssumption, PTL
-----------------------------------------------------------------------------
(* The CSV dialogs, and the types.                                          *)

\* CsvTypeOK, without an equation between a number and a conditional.
CsvInv ==
  /\ importOpened \in BOOLEAN /\ replaceExisting \in BOOLEAN
  /\ importBusy \in BOOLEAN /\ exportBusy \in BOOLEAN /\ chosen \in BOOLEAN
  /\ imports \in {0, 1} /\ (importBusy <=> imports = 1)
  /\ exports \in 0 .. MaxExports
  /\ exportBusy => exports > 0
  /\ replaceExisting => chosen

LEMMA CsvNext ==
  ASSUME PageAssumption, CsvInv, [PageNext]_pageVars
  PROVE  CsvInv'
<1> USE DEF CsvInv, PageAssumption, Csv!dialog, Csv!importing, Csv!exporting
<1>1. CASE UNCHANGED csvVars
  BY <1>1 DEF csvVars
<1>2. CASE Csv!User
  <2>1. CASE Csv!OpenImport
    BY <2>1 DEF Csv!OpenImport, Csv!ResetForm
  <2>2. CASE Csv!CloseImport
    BY <2>2 DEF Csv!CloseImport
  <2>3. CASE Csv!ImportFromFile
    BY <2>3 DEF Csv!ImportFromFile
  <2>4. CASE Csv!ExportToFile
    BY <2>4 DEF Csv!ExportToFile
  <2>5. ASSUME NEW replace \in BOOLEAN, Csv!ChooseMode(replace) PROVE CsvInv'
    BY <2>5 DEF Csv!ChooseMode
  <2> QED
    BY <1>2, <2>1, <2>2, <2>3, <2>4, <2>5 DEF Csv!User
<1>3. CASE Csv!OnImported
  <2>0. imports > 0 /\ imports' = imports - 1 /\ importBusy' = FALSE
    BY <1>3 DEF Csv!OnImported
  <2>1. imports' = 0 /\ importBusy' \in BOOLEAN /\ ~importBusy'
    <3>1. imports \in {0, 1}
      OBVIOUS
    <3>2. imports' = 0
      BY <2>0, <3>1
    <3>3. importBusy' \in BOOLEAN /\ ~importBusy'
      BY <2>0, Zenon
    <3> QED
      BY <3>2, <3>3
  <2>2. UNCHANGED <<importOpened, replaceExisting, chosen, exportBusy, exports>>
    BY <1>3 DEF Csv!OnImported
  <2> QED
    BY <2>1, <2>2
<1>4. CASE Csv!OnExported
  <2>0. exports > 0 /\ exports' = exports - 1 /\ exportBusy' = FALSE
    BY <1>4 DEF Csv!OnExported
  <2>1. exportBusy' \in BOOLEAN /\ ~exportBusy' /\ exports' \in 0 .. MaxExports
    <3>1. exports \in 0 .. MaxExports /\ MaxExports \in Nat
      OBVIOUS
    <3>2. exports' \in 0 .. MaxExports
      BY <2>0, <3>1
    <3>3. exportBusy' \in BOOLEAN /\ ~exportBusy'
      BY <2>0, Zenon
    <3> QED
      BY <3>2, <3>3
  <2>2. UNCHANGED <<importOpened, replaceExisting, chosen, importBusy, imports>>
    BY <1>4 DEF Csv!OnExported
  <2> QED
    BY <2>1, <2>2
<1> QED
  BY <1>1, <1>2, <1>3, <1>4
     DEF PageNext, FormUser, FormSession, FormServe, FormFinished, FormTriggered,
         CsvUser, ImportFinished, ExportFinished, CsvHandle, pageVars

LEMMA CsvAlways == PageSpec => []CsvInv
<1>1. ASSUME PageInit PROVE CsvInv
  <2>1. /\ importOpened = FALSE /\ replaceExisting = FALSE /\ chosen = FALSE
        /\ importBusy = FALSE /\ imports = 0 /\ exportBusy = FALSE /\ exports = 0
    BY <1>1 DEF PageInit, Csv!Init
  <2>2. /\ importOpened \in BOOLEAN /\ replaceExisting \in BOOLEAN
        /\ importBusy \in BOOLEAN /\ exportBusy \in BOOLEAN /\ chosen \in BOOLEAN
        /\ ~importBusy /\ ~exportBusy /\ ~replaceExisting
    BY <2>1
  <2>3. imports \in {0, 1} /\ imports # 1 /\ exports \in 0 .. MaxExports
    BY <2>1, PageAssumption DEF PageAssumption
  <2> QED
    BY <2>2, <2>3 DEF CsvInv
<1>2. CsvInv /\ [PageNext]_pageVars => CsvInv'
  BY CsvNext, PageAssumption
<1> QED
  BY <1>1, <1>2, PTL DEF PageSpec

\* The import button is disabled just while an import is in flight, and the
\* indicator of the exports never turns without one, whatever fails or is closed.
THEOREM CsvTypeCorrect == PageSpec => []CsvTypeOK
<1>1. ASSUME CsvInv PROVE CsvTypeOK
  <2>1. imports = IF importBusy THEN 1 ELSE 0
    BY <1>1 DEF CsvInv
  <2> QED
    BY <1>1, <2>1 DEF CsvInv, CsvTypeOK, Csv!TypeOK
<1> QED
  BY <1>1, CsvAlways, PTL

\* A choice to replace all books never survives the opening it was made in.
THEOREM ReplaceOnlyIfChosen == PageSpec => []ReplaceIsChosen
<1>1. CsvInv => ReplaceIsChosen
  BY DEF CsvInv, ReplaceIsChosen, Csv!ReplaceIsChosen
<1> QED
  BY <1>1, CsvAlways, PTL

\* The fields of the form, as text.
FieldInv ==
  /\ editing \in BOOLEAN
  /\ account \in [admin : BOOLEAN, password : {"", "short", "long"}]

LEMMA FieldNext ==
  ASSUME FormAssumption, FieldInv, [PageNext]_pageVars
  PROVE  FieldInv'
<1>0. CASE UNCHANGED <<editing, account>>
  BY <1>0 DEF FieldInv
<1>1. CASE OpenForCreate
  BY <1>1 DEF FieldInv, OpenForCreate
<1>2. ASSUME NEW r \in Rows, OpenForEdit(r) PROVE FieldInv'
  <2>1. r.admin \in BOOLEAN
    BY RowsType DEF RowType
  <2> QED
    BY <1>2, <2>1 DEF FieldInv, OpenForEdit
<1>3. ASSUME NEW admin \in BOOLEAN, NEW password \in {"", "short", "long"},
             FillAccount(admin, password)
      PROVE  FieldInv'
  <2>1. account' = [admin |-> admin, password |-> password] /\ editing' = editing
    BY <1>3 DEF FillAccount, Touch
  <2> QED
    BY <2>1 DEF FieldInv
<1>4. CASE User
  BY <1>0, <1>1, <1>2, <1>3, <1>4
     DEF User, TurnTotal, TurnAvailable, Touch, Save, SaveForm, Cancel, LeaveList,
         DialogUnchanged, fields
<1>5. CASE Session \/ Serve \/ OnFinished \/ OnTriggered
  BY <1>0, <1>5
     DEF Session, LoseConnection, CheckFailed, CheckSucceeded, ShowList,
         DialogUnchanged, Serve, ServeCreate, ServeUpdate, Replies, OnFinished,
         OnTriggered, fields
<1> QED
  BY <1>0, <1>4, <1>5
     DEF PageNext, FormUser, FormSession, FormServe, FormFinished, FormTriggered,
         CsvUser, ImportFinished, ExportFinished, CsvHandle, formVars, pageVars,
         vars, fields

\* The types of the form, and busy just while a save is in flight.
THEOREM TypeCorrect == PageSpec => []TypeOK
<1>1. ASSUME PageInit PROVE FieldInv
  <2>1. editing = FALSE /\ account = [admin |-> FALSE, password |-> ""]
    BY <1>1 DEF PageInit, Init
  <2> QED
    BY <2>1 DEF FieldInv
<1>2. FieldInv /\ [PageNext]_pageVars => FieldInv'
  BY FieldNext, FormAssumption
<1>3. ASSUME ControlInv, BoxInv, FieldInv PROVE TypeOK
  <2>1. busy = (save # NoSave)
    <3>1. busy \in BOOLEAN /\ (busy <=> save # NoSave)
      BY <1>3 DEF ControlInv, ControlOK
    <3> QED
      BY <3>1, Zenon
  <2>2. copies \in [total : Int, available : Int,
                   shownTotal : 1 .. MaxCopies, shownAvailable : Int]
    BY <1>3 DEF BoxInv, Fit, BoxType
  <2>3. {showSuccess, closeTimer, editing, busy, error, serverConfigured, stale}
          \subseteq BOOLEAN
    BY <1>3 DEF ControlInv, ControlOK, FieldInv
  <2>4. save.stage \in {"none", "sent", "ok", "refused", "unreachable"}
    BY <1>3 DEF ControlInv, ControlOK
  <2> QED
    BY <1>3, <2>1, <2>2, <2>3, <2>4 DEF ControlInv, ControlOK, FieldInv, TypeOK
<1> QED
  BY <1>1, <1>2, <1>3, ControlAlways, BoxAlways, PTL DEF PageSpec

(***************************************************************************)
(* Saves and imports end.  PageScheduled is the fairness of PageLiveSpec   *)
(* with what enables each action spelled out: a call that was sent ends, a *)
(* reply that came is handled, a timer that runs fires.                    *)
(***************************************************************************)
Sent == save.stage = "sent"
Replied == save.stage \in {"ok", "refused", "unreachable"}

PageScheduled ==
  /\ []<>~Sent \/ []<><<FormServe>>_pageVars
  /\ []<>~Replied \/ []<><<FormFinished>>_pageVars
  /\ []<>~closeTimer \/ []<><<FormTriggered>>_pageVars
  /\ []<>(imports = 0) \/ []<><<ImportFinished>>_pageVars

\* A list that was not asked since the last confirmed save, while it is on the
\* screen, has the timer running.
ListDue == stale /\ page = "list"
TimerInv == ListDue => closeTimer

LEMMA TimerNext == ASSUME TimerInv, [PageNext]_pageVars PROVE TimerInv'
<1> USE DEF TimerInv, ListDue
<1>1. CASE FormFinished
  <2>1. \/ closeTimer' = TRUE
        \/ UNCHANGED <<closeTimer, stale>> /\ (page' = page \/ page' = "connect")
    BY <1>1 DEF FormFinished, OnFinished, ConnectionLost, session
  <2> QED
    BY <2>1, Zenon
<1>2. CASE FormTriggered
  <2>1. stale' = (stale /\ page # "list") /\ page' = page
    BY <1>2 DEF FormTriggered, OnTriggered, RefreshList, session
  <2> QED
    BY <2>1, Zenon
<1>3. CASE FormServe
  BY <1>3 DEF FormServe, Serve, ServeCreate, ServeUpdate, Replies, session
<1>4. CASE FormSession
  BY <1>4 DEF FormSession, Session, LoseConnection, ConnectionLost, CheckFailed,
              CheckSucceeded, ShowList, DialogUnchanged
<1>5. CASE FormUser
  <2>1. CASE \/ \E v \in 1 .. MaxCopies : TurnTotal(v)
             \/ \E v \in Offered(copies.total) : TurnAvailable(v)
             \/ \E admin \in BOOLEAN, password \in {"", "short", "long"} :
                  FillAccount(admin, password)
    BY <2>1 DEF TurnTotal, TurnAvailable, FillAccount, Touch, session
  <2>2. CASE OpenForCreate \/ \E r \in Rows : OpenForEdit(r)
    BY <2>2 DEF OpenForCreate, OpenForEdit, Open, session
  <2>3. CASE Save \/ Cancel
    BY <2>3 DEF Save, SaveForm, Cancel, session
  <2>4. CASE LeaveList
    BY <2>4 DEF LeaveList
  <2> QED
    BY <1>5, <2>1, <2>2, <2>3, <2>4 DEF FormUser, User
<1>6. CASE CsvUser
  BY <1>6 DEF CsvUser, Csv!User, Csv!OpenImport, Csv!CloseImport, Csv!ChooseMode,
              Csv!ImportFromFile, Csv!ExportToFile, Csv!session, formVars
<1>7. CASE ImportFinished \/ ExportFinished
  BY <1>7 DEF ImportFinished, ExportFinished, CsvHandle, Csv!OnImported,
              Csv!OnExported, Csv!RefreshNow, Csv!HandleConnectivityIssue,
              Csv!session, formVars
<1>8. CASE UNCHANGED pageVars
  BY <1>8 DEF pageVars, vars, session
<1> QED
  BY <1>1, <1>2, <1>3, <1>4, <1>5, <1>6, <1>7, <1>8 DEF PageNext

LEMMA TimerAlways == PageSpec => []TimerInv
<1>1. PageInit => TimerInv
  BY DEF PageInit, Init, TimerInv, ListDue
<1>2. TimerInv /\ [PageNext]_pageVars => TimerInv'
  BY TimerNext
<1> QED
  BY <1>1, <1>2, PTL DEF PageSpec

\* Only its reply and the handler of the reply move a save: busy keeps the user
\* from sending another one.
LEMMA SaveMoves ==
  ASSUME ControlInv, [PageNext]_pageVars, busy
  PROVE  /\ Sent => (Sent \/ Replied)'
         /\ Replied => Replied' \/ ~busy'
<1> USE DEF Sent, Replied
<1>1. CASE save' = save
  BY <1>1
<1>2. CASE FormServe
  BY <1>2 DEF FormServe, Serve, ServeCreate, ServeUpdate, Replies, ControlInv,
              ControlOK
<1>3. CASE FormFinished
  BY <1>3 DEF FormFinished, OnFinished, BusyAfterReply
<1>4. CASE FormUser
  BY <1>1, <1>4
     DEF FormUser, User, OpenForCreate, OpenForEdit, Open, TurnTotal,
         TurnAvailable, FillAccount, Touch, Save, Cancel, LeaveList,
         DialogUnchanged
<1> QED
  BY <1>1, <1>2, <1>3, <1>4
     DEF PageNext, FormSession, Session, LoseConnection, CheckFailed,
         CheckSucceeded, ShowList, DialogUnchanged, FormTriggered, OnTriggered,
         CsvUser, ImportFinished, ExportFinished, CsvHandle, formVars, pageVars, vars

\* What each of the scheduled actions brings about.
LEMMA Settling ==
  ASSUME ControlInv
  PROVE  /\ FormServe => Replied'
         /\ FormFinished => ~busy'
         /\ FormTriggered => ~ListDue'
         /\ ImportFinished => ~importBusy'
<1>1. ASSUME FormServe PROVE Replied'
  BY <1>1 DEF FormServe, Serve, ServeCreate, ServeUpdate, Replies, ControlInv,
              ControlOK, Replied
<1>2. ASSUME FormFinished PROVE ~busy'
  BY <1>2 DEF FormFinished, OnFinished, BusyAfterReply
<1>3. ASSUME FormTriggered PROVE ~ListDue'
  <2>1. stale' = (stale /\ page # "list") /\ page' = page
    BY <1>3 DEF FormTriggered, OnTriggered, RefreshList, session
  <2> QED
    BY <2>1, Zenon DEF ListDue
<1>4. ASSUME ImportFinished PROVE ~importBusy'
  BY <1>4 DEF ImportFinished, CsvHandle, Csv!OnImported
<1> QED
  BY <1>1, <1>2, <1>3, <1>4

\* Every save and every import ends, so that its button comes back, and the list
\* is asked again after each that was confirmed, whatever was closed, opened or
\* put aside meanwhile.
THEOREM ScheduledPageSettles == PageSpec /\ PageScheduled => PageSettles
<1>1. ControlInv /\ busy => Sent \/ Replied
  BY DEF ControlInv, ControlOK, Sent, Replied
<1>2. ControlInv /\ [PageNext]_pageVars /\ busy
        => (Sent => (Sent \/ Replied)') /\ (Replied => Replied' \/ ~busy')
  BY SaveMoves
<1>3. ControlInv =>
        /\ <<FormServe>>_pageVars => Replied'
        /\ <<FormFinished>>_pageVars => ~busy'
        /\ <<FormTriggered>>_pageVars => ~ListDue'
        /\ <<ImportFinished>>_pageVars => ~importBusy'
  BY Settling
<1>4. CsvInv /\ imports = 0 => ~importBusy
  BY DEF CsvInv
<1>5. PageSpec /\ PageScheduled => (busy ~> ~busy)
  BY <1>1, <1>2, <1>3, ControlAlways, PTL DEF PageSpec, PageScheduled
<1>6. PageSpec /\ PageScheduled => (importBusy ~> ~importBusy)
  BY <1>3, <1>4, ControlAlways, CsvAlways, PTL DEF PageSpec, PageScheduled
<1>7. PageSpec /\ PageScheduled => (stale ~> ~stale \/ page # "list")
  <2>1. TimerInv /\ ~closeTimer => ~ListDue
    BY DEF TimerInv
  <2>2. ~ListDue <=> ~stale \/ page # "list"
    BY DEF ListDue
  <2> QED
    BY <1>3, <2>1, <2>2, ControlAlways, TimerAlways, PTL
       DEF PageSpec, PageScheduled
<1> QED
  BY <1>5, <1>6, <1>7, PTL DEF PageSettles, SaveSettles
=============================================================================
