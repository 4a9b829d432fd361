------------------------------- MODULE Catalog -------------------------------
(***************************************************************************)
(* The book catalogue: BookServiceImpl, BookService and CsvService over    *)
(* SqliteBookRepository.  As in Accounts a worker is a gRPC thread running *)
(* one call, and a step is one statement section under Database::mutex     *)
(* with the local code after it; nothing spans two of them, so a Replace   *)
(* import is a long sequence of single deletions and insertions.           *)
(*                                                                         *)
(* Of a book only its id, its ISBN and its copies are kept.  Titles and    *)
(* authors matter to the handlers by being empty or not.                   *)
(***************************************************************************)
EXTENDS Integers, Sequences, FiniteSets

CONSTANTS
  Workers,   \* gRPC pool threads
  Isbns,     \* ISBNs that are not empty
  NoIsbn,    \* the empty ISBN
  Copies,    \* copy counts of requests and CSV lines: integers, any sign
  Files,     \* CSV files an import may carry, each a sequence of Lines
  MaxId,     \* the largest rowid: past it an INSERT fails (SQLITE_FULL)
  Faults     \* TRUE: a statement may fail

(***************************************************************************)
(* What importBooksFromString makes of a line after the header: a skipped  *)
(* one if it has not four fields, a title, an author, an ISBN and a        *)
(* number, or else a book.  Of an empty line it makes nothing at all, so   *)
(* files have none here.                                                   *)
(***************************************************************************)
BookLines == [kind : {"book"}, isbn : Isbns, total : Copies]
Lines == [kind : {"malformed"}] \union BookLines

ASSUME CatalogAssumption ==
  /\ NoIsbn \notin Isbns
  /\ Copies \subseteq Int
  /\ Files \subseteq Seq(Lines)
  /\ MaxId \in Nat \ {0}
  /\ Faults \in BOOLEAN

VARIABLES
  books,   \* the rows of table books
  lastId,  \* sqlite_sequence: the last id an AUTOINCREMENT handed out
  calls,   \* per worker, the call it runs and where it stands
  up       \* the process is running

vars == <<books, lastId, calls, up>>

Ids == 1..MaxId
Roles == {"none", "User", "Admin"}   \* of the caller's session, if it has one
Modes == {"Append", "Replace"}
Statuses == {"none", "OK", "UNAUTHENTICATED", "PERMISSION_DENIED",
             "INVALID_ARGUMENT", "NOT_FOUND"}
Places == {"idle", "createLookup", "createInsert", "updateLookup",
           "updateWrite", "deleteRemove", "getRead", "listRead",
           "importRead", "importRemove", "importLine"}

Row == [id : Ids, isbn : Isbns \union {NoIsbn}, total : Int, available : Int]

(***************************************************************************)
(* seen is the snapshot a Replace import deletes, todo what is left of it; *)
(* lines is the unread rest of the file.  The counts of a finished import  *)
(* stay with its reply until the next call.                                *)
(***************************************************************************)
Call == [pc : Places, id : Ids \union {0}, isbn : Isbns \union {NoIsbn},
         total : Int, available : Int, mode : Modes,
         seen : SUBSET Ids, todo : SUBSET Ids, lines : Seq(Lines),
         imported : Nat, skipped : Nat, reply : Statuses]

Blank == [pc |-> "idle", id |-> 0, isbn |-> NoIsbn, total |-> 0,
          available |-> 0, mode |-> "Append", seen |-> {}, todo |-> {},
          lines |-> <<>>, imported |-> 0, skipped |-> 0, reply |-> "none"]

Answered(status) == [Blank EXCEPT !.reply = status]
Become(w, call) == calls' = [calls EXCEPT ![w] = call]
Answer(w, status) == Become(w, Answered(status))
Goto(w, place) == Become(w, [calls[w] EXCEPT !.pc = place])
At(w, place) == up /\ calls[w].pc = place
Unwritten == UNCHANGED <<books, lastId, up>>

-----------------------------------------------------------------------------
(* SqliteBookRepository.                                                    *)

IdsOf(rows) == {b.id : b \in rows}
Has(id) == id \in IdsOf(books)
\* A SELECT that fails, at once or on the way, looks like fewer books.
FindAll == IF Faults THEN SUBSET books ELSE {books}

Holders(isbn) == {b \in books : b.isbn = isbn}
\* findByIsbn scans in rowid order and returns the first row it meets.
FirstHolder(isbn) ==
  CHOOSE b \in Holders(isbn) : \A c \in Holders(isbn) : b.id <= c.id

\* Mutant: a primary key without AUTOINCREMENT takes the largest id plus one.
LargestIdPlusOne ==
  CHOOSE i \in 1..(MaxId + 1) :
    /\ \A b \in books : b.id < i
    /\ i = 1 \/ Has(i - 1)
NextRowId == lastId + 1
\* Mutant: no limit on the rowid.
AlwaysInsert == TRUE
CanInsert == NextRowId \in Ids
Insert(isbn, total, available) ==
  /\ CanInsert
  /\ books' = books \union {[id |-> NextRowId, isbn |-> isbn, total |-> total,
                             available |-> available]}
  /\ lastId' = NextRowId

\* create: an INSERT and, under the same lock, a SELECT of the new row.  When
\* only the SELECT fails the row is stored and the caller told it is not.
Create(w, isbn, total, available, stored, failed) ==
  \/ /\ Insert(isbn, total, available)
     /\ Become(w, stored) \/ (Faults /\ Become(w, failed))
  \/ /\ ~CanInsert \/ Faults
     /\ Become(w, failed)
     /\ UNCHANGED <<books, lastId>>

Update(id, isbn, total, available) ==
  books' = {IF b.id = id
              THEN [b EXCEPT !.isbn = isbn, !.total = total,
                             !.available = available]
              ELSE b : b \in books}
Remove(id) == books' = {b \in books : b.id # id}

-----------------------------------------------------------------------------
(* BookServiceImpl and BookService.                                         *)

\* requireRole, for a caller whose session has the given role.
RequireRole(w, role, minimum, call) ==
  Become(w, CASE role = "none" -> Answered("UNAUTHENTICATED")
              [] role = "User" /\ minimum = "Admin" ->
                   Answered("PERMISSION_DENIED")
              [] OTHER -> call)

IsbnTaken(isbn, excludeId) ==
  Holders(isbn) # {} /\ FirstHolder(isbn).id # excludeId

\* isbnAlreadyRegistered, for a call that goes on to place if it is free.
CheckIsbn(w, excludeId, place) ==
  \/ IsbnTaken(calls[w].isbn, excludeId) /\ Answer(w, "INVALID_ARGUMENT")
  \/ /\ ~IsbnTaken(calls[w].isbn, excludeId) \/ Faults
     /\ Goto(w, place)

CreateBook(w, role, complete, isbn, total) ==
  /\ At(w, "idle")
  /\ RequireRole(w, role, "Admin",
       IF ~complete \/ total < 1
         THEN Answered("INVALID_ARGUMENT")
         ELSE [Blank EXCEPT
                 !.pc = IF isbn = NoIsbn THEN "createInsert" ELSE "createLookup",
                 !.isbn = isbn, !.total = total, !.available = total])
  /\ Unwritten

CreateBookLookup(w) ==
  At(w, "createLookup") /\ CheckIsbn(w, 0, "createInsert") /\ Unwritten

CreateBookInsert(w) ==
  /\ At(w, "createInsert")
  /\ Create(w, calls[w].isbn, calls[w].total, calls[w].available,
            Answered("OK"), Answered("INVALID_ARGUMENT"))
  /\ UNCHANGED up

\* Mutant: only the lower bound.
NotNegative(total, available) == 0 <= available

CopiesAllowed(total, available) == 0 <= available /\ available <= total

UpdateBook(w, role, complete, id, isbn, total, available) ==
  /\ At(w, "idle")
  /\ RequireRole(w, role, "Admin",
       IF ~complete \/ ~CopiesAllowed(total, available)
         THEN Answered("INVALID_ARGUMENT")
         ELSE [Blank EXCEPT
                 !.pc = IF isbn = NoIsbn THEN "updateWrite" ELSE "updateLookup",
                 !.id = id, !.isbn = isbn, !.total = total,
                 !.available = available])
  /\ Unwritten

UpdateBookLookup(w) ==
  /\ At(w, "updateLookup")
  /\ CheckIsbn(w, calls[w].id, "updateWrite")
  /\ Unwritten

UpdateBookWrite(w) ==
  /\ At(w, "updateWrite")
  /\ \/ /\ Has(calls[w].id)
        /\ Update(calls[w].id, calls[w].isbn, calls[w].total,
                  calls[w].available)
        /\ Answer(w, "OK")
     \/ /\ ~Has(calls[w].id) \/ Faults
        /\ Answer(w, "INVALID_ARGUMENT")
        /\ UNCHANGED books
  /\ UNCHANGED <<lastId, up>>

DeleteBook(w, role, id) ==
  /\ At(w, "idle")
  /\ RequireRole(w, role, "Admin",
                 [Blank EXCEPT !.pc = "deleteRemove", !.id = id])
  /\ Unwritten

DeleteBookRemove(w) ==
  /\ At(w, "deleteRemove")
  /\ \/ Has(calls[w].id) /\ Remove(calls[w].id) /\ Answer(w, "OK")
     \/ /\ ~Has(calls[w].id) \/ Faults
        /\ Answer(w, "NOT_FOUND")
        /\ UNCHANGED books
  /\ UNCHANGED <<lastId, up>>

GetBook(w, role, id) ==
  /\ At(w, "idle")
  /\ RequireRole(w, role, "User", [Blank EXCEPT !.pc = "getRead", !.id = id])
  /\ Unwritten

GetBookRead(w) ==
  /\ At(w, "getRead")
  /\ \/ Has(calls[w].id) /\ Answer(w, "OK")
     \/ (~Has(calls[w].id) \/ Faults) /\ Answer(w, "NOT_FOUND")
  /\ Unwritten

\* ListBooks, for any user, and ExportBooks, for an administrator: one SELECT.
ListBooks(w, role, minimum) ==
  /\ At(w, "idle")
  /\ RequireRole(w, role, minimum, [Blank EXCEPT !.pc = "listRead"])
  /\ Unwritten

ListBooksRead(w) == At(w, "listRead") /\ Answer(w, "OK") /\ Unwritten

-----------------------------------------------------------------------------
(* CsvService::importBooksFromString.                                       *)

ImportBooks(w, role, mode, file) ==
  /\ At(w, "idle")
  /\ RequireRole(w, role, "Admin",
       [Blank EXCEPT
          !.pc = IF mode = "Replace" THEN "importRead" ELSE "importLine",
          !.mode = mode, !.lines = file])
  /\ Unwritten

\* findAll("") of a Replace import.
ImportRead(w) ==
  /\ At(w, "importRead")
  /\ \E rows \in FindAll :
       Become(w, [calls[w] EXCEPT !.pc = "importRemove", !.seen = IdsOf(rows),
                                  !.todo = IdsOf(rows)])
  /\ Unwritten

\* Mutant: a book is tried again until it is removed.
RemoveUntilGone(w) ==
  /\ At(w, "importRemove")
  /\ \/ \E id \in calls[w].todo :
          \/ /\ Has(id) /\ Remove(id)
             /\ Become(w, [calls[w] EXCEPT !.todo = @ \ {id}])
          \/ Faults /\ UNCHANGED <<books, calls>>
     \/ calls[w].todo = {} /\ Goto(w, "importLine") /\ UNCHANGED books
  /\ UNCHANGED <<lastId, up>>

\* Mutant: DELETE FROM books instead of the loop over the snapshot.
ClearTable(w) ==
  /\ At(w, "importRemove")
  /\ books' = {}
  /\ Become(w, [calls[w] EXCEPT !.todo = {}, !.pc = "importLine"])
  /\ UNCHANGED <<lastId, up>>

\* One remove of the loop; whether it removed anything is not looked at.
ImportRemove(w) ==
  /\ At(w, "importRemove")
  /\ \/ \E id \in calls[w].todo :
          /\ Remove(id) \/ (Faults /\ UNCHANGED books)
          /\ Become(w, [calls[w] EXCEPT !.todo = @ \ {id}])
     \/ calls[w].todo = {} /\ Goto(w, "importLine") /\ UNCHANGED books
  /\ UNCHANGED <<lastId, up>>

Imported(call) == [call EXCEPT !.lines = Tail(@), !.imported = @ + 1]
Skipped(call) == [call EXCEPT !.lines = Tail(@), !.skipped = @ + 1]

\* One line of the file.  The ISBN is not looked up and the number of copies
\* not compared with anything.
ImportLine(w) ==
  /\ At(w, "importLine") /\ calls[w].lines # <<>>
  /\ LET line == Head(calls[w].lines) IN
       \/ /\ line.kind = "malformed"
          /\ Become(w, Skipped(calls[w]))
          /\ UNCHANGED <<books, lastId>>
       \/ /\ line.kind = "book"
          /\ Create(w, line.isbn, line.total, line.total,
                    Imported(calls[w]), Skipped(calls[w]))
  /\ UNCHANGED up

ImportReply(w) ==
  /\ At(w, "importLine") /\ calls[w].lines = <<>>
  /\ Become(w, [Answered("OK") EXCEPT !.imported = calls[w].imported,
                                      !.skipped = calls[w].skipped])
  /\ Unwritten

-----------------------------------------------------------------------------
(* The process.                                                             *)

Boot == ~up /\ up' = TRUE /\ UNCHANGED <<books, lastId, calls>>

\* Between any two sections, those of an import included.
Crash ==
  /\ up
  /\ up' = FALSE
  /\ calls' = [w \in Workers |-> Blank]
  /\ UNCHANGED <<books, lastId>>

Init ==
  /\ books = {} /\ lastId = 0
  /\ calls = [w \in Workers |-> Blank]
  /\ up = FALSE

\* What a call carries that is refused before it is read has one value for all.
Sent(read, values) == {v \in values : read \/ v = CHOOSE u \in values : TRUE}

Arrive(w) ==
  \E role \in Roles : LET admin == role = "Admin" IN
    \/ \E complete \in Sent(admin, BOOLEAN) :
         \E total \in Sent(admin /\ complete, Copies) :
         \E isbn \in Sent(admin /\ complete /\ total >= 1, Isbns \union {NoIsbn}) :
           CreateBook(w, role, complete, isbn, total)
    \/ \E complete \in Sent(admin, BOOLEAN) :
         \E total, available \in Sent(admin /\ complete, Copies) :
           LET read == admin /\ complete /\ CopiesAllowed(total, available) IN
           \E id \in Sent(read, Ids), isbn \in Sent(read, Isbns \union {NoIsbn}) :
             UpdateBook(w, role, complete, id, isbn, total, available)
    \/ \E id \in Sent(admin, Ids) : DeleteBook(w, role, id)
    \/ \E id \in Ids : GetBook(w, role, id)
    \/ \E minimum \in {"User", "Admin"} : ListBooks(w, role, minimum)
    \/ \E mode \in Sent(admin, Modes), file \in Sent(admin, Files) :
         ImportBooks(w, role, mode, file)

ImportStep(w) ==
  ImportRead(w) \/ ImportRemove(w) \/ ImportLine(w) \/ ImportReply(w)

Serve(w) ==
  \/ CreateBookLookup(w) \/ CreateBookInsert(w)
  \/ UpdateBookLookup(w) \/ UpdateBookWrite(w)
  \/ DeleteBookRemove(w) \/ GetBookRead(w) \/ ListBooksRead(w)
  \/ ImportStep(w)

Next == Boot \/ Crash \/ \E w \in Workers : Arrive(w) \/ Serve(w)

Spec == Init /\ [][Next]_vars

\* A thread that is inside a call is scheduled again, and a mutex held for one
\* statement at a time is obtained.
LiveSpec == Spec /\ \A w \in Workers : WF_vars(Serve(w))

(***************************************************************************)
(* The same system when writers do not overlap: at most one call at a time *)
(* stands between isbnAlreadyRegistered and its statement, before its      *)
(* deletion, or inside an import.                                          *)
(***************************************************************************)
Writing(w) == calls[w].pc \in {"createInsert", "updateWrite", "deleteRemove",
                               "importRead", "importRemove", "importLine"}
SoloWriter == \A v, w \in Workers : Writing(v) /\ Writing(w) => v = w
SoloSpec == Init /\ [][Next /\ SoloWriter']_vars

-----------------------------------------------------------------------------
(* Properties.                                                              *)

\* The table and the calls have the types of the code.
TypeOK ==
  /\ books \subseteq Row
  /\ lastId \in Ids \union {0}
  /\ calls \in [Workers -> Call]
  /\ up \in BOOLEAN

\* The available copies of a book are between 0 and its total, or all of it: an
\* import stores any number, also a negative one, for both.  createBook,
\* updateBook and the import keep that, each its own way (BookService.cpp:53 and
\* :80, CsvService.cpp:132); the form of the client relies on it (FormDialog).
AvailableWithinTotal ==
  \A b \in books : b.available = b.total \/ b.available \in 0 .. b.total

\* Pairs of books that share an ISBN that is not empty.
Clashes == {<<p[1].id, p[2].id>> : p \in
              {q \in books \X books : /\ q[1].isbn = q[2].isbn
                                      /\ q[1].isbn # NoIsbn
                                      /\ q[1].id < q[2].id}}

\* "ISBN uniqueness is enforced in the service layer [...] only when an ISBN is
\* provided" (README.md:98).  It is not: the import stores a book without asking
\* (CsvService.cpp:134), and two calls may both ask before either stores
\* (BookService.cpp:40).
IsbnsEnforced == Clashes = {}

\* What is true of it: where no two writers overlap, only the import, which does
\* not call isbnAlreadyRegistered, makes two books share an ISBN.  createBook and
\* updateBook never do, not even among the duplicates an import left behind,
\* where findByIsbn sees only the first of them (BookService.cpp:8-16).
OnlyImportsDuplicate ==
  [][Clashes' \subseteq Clashes \/ \E w \in Workers : ImportLine(w)]_vars

\* While a Replace import runs, no book of its snapshot that is gone comes back,
\* whatever other calls create or change, and so its loop never removes a book
\* that was added after it began (CsvService.cpp:90-94).
ClearedStayGone ==
  [][\A w \in Workers :
       calls[w].pc \in {"importRemove", "importLine"} =>
         calls[w].seen \intersect IdsOf(books)' \subseteq IdsOf(books)]_vars

\* A Replace import that no writer overlapped leaves exactly the books it
\* reports as imported, also when ids run out on the way (CsvService.cpp:88-142).
ReplaceExact ==
  [][\A w \in Workers :
       ImportReply(w) /\ calls[w].mode = "Replace" =>
         Cardinality(books) = calls[w].imported]_vars

\* Every import is answered, however many books are created while it deletes
\* and whatever statements fail.
ImportEnds ==
  \A w \in Workers :
    calls[w].pc \in {"importRead", "importRemove", "importLine"}
      ~> calls[w].pc = "idle"

(***************************************************************************)
(* The handlers implement the abstract shelf: every reply tells the truth  *)
(* about the effect of its call, and an import of any length touches       *)
(* nothing but its snapshot and its file's books, of which it reports no   *)
(* more than it stored.                                                    *)
(***************************************************************************)
CarriedBy(lines) ==
  {[isbn |-> lines[i].isbn, total |-> lines[i].total] :
     i \in {j \in DOMAIN lines : lines[j].kind = "book"}}

RequestOf(call) ==
  CASE call.pc = "idle" ->
         [kind |-> "none", reply |-> call.reply, counted |-> call.imported]
    [] call.pc \in {"createLookup", "createInsert"} ->
         [kind |-> "create", isbn |-> call.isbn, total |-> call.total]
    [] call.pc \in {"updateLookup", "updateWrite"} ->
         [kind |-> "update", id |-> call.id, isbn |-> call.isbn,
          total |-> call.total, available |-> call.available]
    [] call.pc = "deleteRemove" -> [kind |-> "delete", id |-> call.id]
    [] call.pc \in {"getRead", "listRead"} -> [kind |-> "other"]
    [] call.pc = "importRead" ->
         [kind |-> "replace", carries |-> CarriedBy(call.lines)]
    [] call.pc \in {"importRemove", "importLine"} ->
         [kind |-> "import", clears |-> call.todo,
          carries |-> CarriedBy(call.lines), counted |-> call.imported]

Shelf == INSTANCE BookShelf
           WITH shelf <- books,
                usedIds <- 1..lastId,
                requests <- [w \in Workers |-> RequestOf(calls[w])]

\* Catalog implements BookShelf.
ImplementsShelf == Shelf!Spec
=============================================================================
