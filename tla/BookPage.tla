------------------------------- MODULE BookPage -------------------------------
(***************************************************************************)
(* BookListPage: the form dialog and the two ways through a CSV file, over *)
(* one list and one session.  The dialogs are modal, so that only one is   *)
(* open, but what they asked for outlives them: a request of one that      *)
(* cannot reach the server closes the other.  With form = "user" the page  *)
(* is AdminPanelPage, which has the form alone.                            *)
(***************************************************************************)
EXTENDS FormDialog

CONSTANTS MaxExports

ASSUME PageAssumption == MaxExports \in Nat

VARIABLES importOpened, replaceExisting, importBusy, imports, exportBusy, exports,
          chosen

Csv == INSTANCE CsvDialog

csvVars == <<importOpened, replaceExisting, importBusy, imports, exportBusy,
             exports, chosen>>
formVars == <<form, showSuccess, closeTimer, fields, busy, error, save>>
pageVars == <<vars, csvVars>>

\* Behind the import dialog the user reaches neither form nor list.
FormUser == User /\ ~importOpened /\ UNCHANGED csvVars
FormSession == Session /\ UNCHANGED csvVars

CsvUser ==
  /\ form = "book" /\ ~opened
  /\ Csv!User
  /\ UNCHANGED <<formVars, opening>>

\* Mutant: the form stays over the page a lost import or export returns to.
FormStays == UNCHANGED opening
\* serverConfiguredChanged closes the form.
FormFollows == opening' = IF page' = page THEN opening ELSE Closed

CsvHandle(handler) == handler /\ FormFollows /\ UNCHANGED formVars

\* Each of these goes on by itself: calls, handlers, and the timer.
FormServe == Serve /\ UNCHANGED csvVars
FormFinished == OnFinished /\ UNCHANGED csvVars
FormTriggered == OnTriggered /\ UNCHANGED csvVars
ImportFinished == CsvHandle(Csv!OnImported)
ExportFinished == CsvHandle(Csv!OnExported)

PageInit == Init /\ Csv!Init

PageNext ==
  \/ FormUser \/ FormSession \/ FormServe \/ FormFinished \/ FormTriggered
  \/ CsvUser \/ ImportFinished \/ ExportFinished

PageSpec == PageInit /\ [][PageNext]_pageVars

\* Every call ends, the event loop handles its reply, and the timer fires.
PageLiveSpec ==
  /\ PageSpec
  /\ WF_pageVars(FormServe) /\ WF_pageVars(FormFinished)
  /\ WF_pageVars(FormTriggered)
  /\ WF_pageVars(ImportFinished)

-----------------------------------------------------------------------------
(* Properties.                                                              *)

CsvTypeOK == Csv!TypeOK
ReplaceIsChosen == Csv!ReplaceIsChosen

\* Saves and imports end, and after each that was confirmed the list is asked
\* again, whichever dialogs were closed, opened again or put aside meanwhile.
PageSettles == SaveSettles /\ (importBusy ~> ~importBusy)
=============================================================================
