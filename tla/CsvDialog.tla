------------------------------ MODULE CsvDialog ------------------------------
(***************************************************************************)
(* The two CsvViewModels of the book page: the one of CsvImportDialog, and *)
(* the one behind the button Export CSV.  The dialog guards its button     *)
(* with busy; the export has no such guard.  Neither closes when the       *)
(* server is lost.  The text of the status messages is left out.           *)
(*                                                                         *)
(* The module shares the session and the list with the other dialogs of    *)
(* the page (BookPage).                                                    *)
(***************************************************************************)
EXTENDS Integers

CONSTANTS MaxExports   \* exports in flight at once (a bound)

VARIABLES
  page, serverConfigured, stale,
  importOpened, replaceExisting,
  importBusy,
  imports,        \* futures of importBooksCsv in flight
  exportBusy,
  exports,        \* futures of exportBooksCsv in flight
  chosen          \* replaceExisting was chosen since the dialog was opened

session == <<page, serverConfigured>>
dialog == <<importOpened, replaceExisting, chosen>>
importing == <<importBusy, imports>>
exporting == <<exportBusy, exports>>

-----------------------------------------------------------------------------
(* CsvImportDialog.                                                         *)

\* Mutant: only the file is reset.
ResetFile == chosen' = FALSE /\ UNCHANGED replaceExisting
ResetForm == chosen' = FALSE /\ replaceExisting' = FALSE

OpenImport ==
  /\ page = "list" /\ ~importOpened
  /\ importOpened' = TRUE
  /\ ResetForm
  /\ UNCHANGED <<session, stale, importing, exporting>>

CloseImport ==
  /\ importOpened /\ importOpened' = FALSE
  /\ UNCHANGED <<session, stale, replaceExisting, chosen, importing, exporting>>

ChooseMode(replace) ==
  /\ importOpened /\ replaceExisting' = replace
  /\ chosen' = (chosen \/ replace)
  /\ UNCHANGED <<session, stale, importOpened, importing, exporting>>

-----------------------------------------------------------------------------
(* CsvViewModel.                                                            *)

\* Mutant: a file that cannot be read returns before setBusy(false).
ImportFromFileBusy ==
  /\ importOpened /\ ~importBusy
  /\ importBusy' = TRUE
  /\ imports' \in {imports, imports + 1}
  /\ UNCHANGED <<session, stale, dialog, exporting>>

\* A file that cannot be read changes nothing but the message.
ImportFromFile ==
  /\ importOpened /\ ~importBusy
  /\ importBusy' = TRUE /\ imports' = imports + 1
  /\ UNCHANGED <<session, stale, dialog, exporting>>

\* Session::handleConnectivityIssue.
HandleConnectivityIssue ==
  /\ page' = IF serverConfigured THEN "connect" ELSE page
  /\ serverConfigured' = FALSE

\* importFinished refreshes the list at once.
RefreshNow == stale' = (page # "list")

OnImported ==
  /\ imports > 0 /\ imports' = imports - 1
  /\ importBusy' = FALSE
  /\ \/ RefreshNow /\ UNCHANGED session             \* imported
     \/ UNCHANGED <<stale, session>>                \* refused
     \/ HandleConnectivityIssue /\ UNCHANGED stale
  /\ UNCHANGED <<dialog, exporting>>

ExportToFile ==
  /\ page = "list" /\ ~importOpened /\ exports < MaxExports
  /\ exportBusy' = TRUE /\ exports' = exports + 1
  /\ UNCHANGED <<session, stale, dialog, importing>>

OnExported ==
  /\ exports > 0 /\ exports' = exports - 1
  /\ exportBusy' = FALSE
  /\ HandleConnectivityIssue \/ UNCHANGED session
  /\ UNCHANGED <<stale, dialog, importing>>

-----------------------------------------------------------------------------
Init ==
  /\ importOpened = FALSE /\ replaceExisting = FALSE /\ chosen = FALSE
  /\ importBusy = FALSE /\ imports = 0
  /\ exportBusy = FALSE /\ exports = 0

User ==
  \/ OpenImport \/ CloseImport \/ ImportFromFile \/ ExportToFile
  \/ \E replace \in BOOLEAN : ChooseMode(replace)

-----------------------------------------------------------------------------
(* Properties.                                                              *)

\* One import is in flight just as long as its button is disabled; the
\* indicator of the exports may be off while one is in flight, but never turns
\* without one (CsvViewModel.cpp:47-144).
TypeOK ==
  /\ {importOpened, replaceExisting, importBusy, exportBusy, chosen}
       \subseteq BOOLEAN
  /\ imports = IF importBusy THEN 1 ELSE 0
  /\ exports \in 0 .. MaxExports
  /\ exportBusy => exports > 0

\* Only the user of this opening makes an import delete what there was: the
\* choice of an earlier one never survives (CsvImportDialog.qml:35-38).
ReplaceIsChosen == replaceExisting => chosen
=============================================================================
